----------------------------- MODULE Jobs_proofs -----------------------------
(***************************************************************************)
(* Proofs about the scheduled jobs, for any number of replicas, requests,  *)
(* recipients, products, events and mishaps.  The campaign sender stays    *)
(* within its budget, mails nobody without need and tries everybody before *)
(* it calls a campaign sent.  A trial is extended once a request, billed   *)
(* no earlier than it shows, and not expired with a card.  The             *)
(* cancellation of a subscription reaches Stripe and leaves the access     *)
(* until the date promised.  An import accounts for every row of its file  *)
(* and stops when it is told to.                                           *)
(***************************************************************************)
EXTENDS CsvImport, Campaign, Trial, Subscription, Sums, FiniteSetTheorems, TLAPS

-----------------------------------------------------------------------------
(* A batch of recipients *)

LEMMA RowsFinite ==
  /\ IsFiniteSet(Rows) /\ IsFiniteSet(Senders \X Rows)
  /\ Cardinality(Senders) \in Nat
<1>1. IsFiniteSet(Copies)
  BY CampaignAssumption, FS_Interval DEF Copies
<1>2. IsFiniteSet(Rows)
  BY <1>1, CampaignAssumption, FS_Product DEF Rows
<1> QED
  BY <1>2, CampaignAssumption, FS_Product, FS_CardinalityType

\* A set of naturals that is not empty has a least one.
LEMMA LeastNatural ==
  ASSUME NEW S \in SUBSET Nat, S # {}
  PROVE  \E x \in S : \A y \in S : x <= y
<1> DEFINE R == {ss \in Nat \X Nat : ss[1] < ss[2]}
<1>1. IsWellFoundedOn(R, Nat)
  BY NatLessThanWellFounded, Zenon DEF OpToRel
<1>2. PICK x \in S : \A y \in S : ~(<<y, x>> \in R)
  <2> HIDE DEF R
  <2> QED
    BY <1>1, WFMin
<1>3. ASSUME NEW y \in S PROVE x <= y
  <2>1. <<y, x>> \in Nat \X Nat /\ ~(y < x)
    BY <1>2
  <2> QED
    BY <2>1
<1> QED
  BY <1>3

LEMMA RowIsPair ==
  ASSUME NEW r \in Rows
  PROVE  r[1] \in Addresses /\ r[1] \in Nat /\ r[2] \in Nat /\ r[2] \in Copies /\ r = <<r[1], r[2]>>
<1>1. Addresses \subseteq Nat /\ Copies \subseteq Nat
  BY CampaignAssumption DEF Copies
<1>2. r \in Addresses \X Copies
  BY DEF Rows
<1>3. r = <<r[1], r[2]>> /\ r[1] \in Addresses /\ r[2] \in Copies
  BY <1>2
<1> QED
  BY <1>1, <1>3

\* Among some rows one comes first.
LEMMA FirstRowExists ==
  ASSUME NEW B \in SUBSET Rows, B # {}
  PROVE  \E r \in B : ~\E q \in B : Before(q, r)
<1> DEFINE N == {r[2] : r \in B}
<1>1. \A r \in B : r[1] \in Nat /\ r[2] \in Nat
  BY RowIsPair
<1>2. PICK n \in N : \A m \in N : n <= m
  <2>1. N \in SUBSET Nat /\ N # {}
    BY <1>1
  <2> HIDE DEF N
  <2> QED
    BY <2>1, LeastNatural
<1> DEFINE A == {r[1] : r \in {q \in B : q[2] = n}}
<1>3. PICK a \in A : \A b \in A : a <= b
  <2>1. A \in SUBSET Nat /\ A # {}
    BY <1>1, <1>2
  <2> HIDE DEF A
  <2> QED
    BY <2>1, LeastNatural
<1>4. PICK r \in B : r[1] = a /\ r[2] = n
  BY <1>3
<1>5. ASSUME NEW q \in B PROVE ~Before(q, r)
  <2>1. n <= q[2] /\ (q[2] = n => a <= q[1])
    BY <1>2, <1>3
  <2> QED
    BY <1>1, <1>4, <2>1 DEF Before
<1> QED
  BY <1>4, <1>5

\* The rows that have fewer than k before them: there are no more than k, and
\* there is one where there is any row at all.
FirstOf(F, k) == {r \in F : Cardinality({q \in F : Before(q, r)}) < k}

LEMMA FirstOfFits ==
  ASSUME NEW F \in SUBSET Rows, NEW k \in Nat \ {0}
  PROVE  /\ FirstOf(F, k) \subseteq F
         /\ Cardinality(FirstOf(F, k)) <= k
         /\ FirstOf(F, k) = {} => F = {}
<1> DEFINE Earlier(r) == {q \in F : Before(q, r)}
<1>1. IsFiniteSet(F)
  BY RowsFinite, FS_Subset
<1>2. \A r \in F : r[1] \in Nat /\ r[2] \in Nat /\ r = <<r[1], r[2]>>
  BY RowIsPair
<1>3. ASSUME NEW r \in F
      PROVE  IsFiniteSet(Earlier(r)) /\ Cardinality(Earlier(r)) \in Nat
  BY <1>1, FS_Subset, FS_CardinalityType
<1>4. ASSUME NEW q \in F, NEW r \in F, Before(q, r)
      PROVE  Cardinality(Earlier(q)) < Cardinality(Earlier(r))
  <2>1. Earlier(q) \subseteq Earlier(r) /\ q \in Earlier(r) /\ q \notin Earlier(q)
    BY <1>2, <1>4 DEF Before
  <2>2. Cardinality(Earlier(q)) <= Cardinality(Earlier(r))
        /\ Cardinality(Earlier(q)) # Cardinality(Earlier(r))
    BY <1>3, <2>1, FS_Subset
  <2> QED
    BY <1>3, <2>2
<1>5. Cardinality(FirstOf(F, k)) <= k
  <2> DEFINE f == [r \in FirstOf(F, k) |-> Cardinality(Earlier(r))]
  <2>1. ASSUME NEW r \in FirstOf(F, k) PROVE f[r] \in 0..(k - 1)
    <3>1. Cardinality(Earlier(r)) < k /\ r \in F
      BY DEF FirstOf
    <3> QED
      BY <1>3, <3>1
  <2>2. ASSUME NEW q \in FirstOf(F, k), NEW r \in FirstOf(F, k), f[q] = f[r]
        PROVE  q = r
    <3>1. q \in F /\ r \in F
      BY DEF FirstOf
    <3>2. Cardinality(Earlier(q)) = Cardinality(Earlier(r)) /\ Cardinality(Earlier(q)) \in Nat
      BY <1>3, <2>2, <3>1
    <3>3. ~Before(q, r) /\ ~Before(r, q)
      <4> HIDE DEF Earlier
      <4> QED
        BY <1>3, <1>4, <3>1, <3>2
    <3> QED
      BY <1>2, <3>1, <3>3 DEF Before
  <2>3. f \in Injection(FirstOf(F, k), 0..(k - 1))
    BY <2>1, <2>2 DEF Injection, IsInjective
  <2>4. IsFiniteSet(0..(k - 1)) /\ Cardinality(0..(k - 1)) = k
    BY FS_Interval
  <2> HIDE DEF f
  <2> QED
    BY <2>3, <2>4, FS_Injection
<1>6. ASSUME F # {} PROVE FirstOf(F, k) # {}
  <2>1. PICK r \in F : ~\E q \in F : Before(q, r)
    BY <1>6, FirstRowExists
  <2>2. Earlier(r) = {}
    BY <2>1
  <2>3. Cardinality(Earlier(r)) = 0
    BY <2>2, FS_EmptySet
  <2> QED
    BY <2>3 DEF FirstOf
<1> QED
  BY <1>5, <1>6 DEF FirstOf

-----------------------------------------------------------------------------
(* Campaigns *)

CampaignStatuses == {"draft", "scheduled", "sending", "sent", "paused"}
CampaignRows == [status : CampaignStatuses, fresh : BOOLEAN]
SenderSteps == {"poll", "activate", "fetch", "reserve", "send", "finish", "down", "recover"}
SenderRows == [at : SenderSteps, batch : SUBSET Rows, progressed : BOOLEAN]
RequestRows ==
  [kind : {"schedule", "send", "pause", "resume"}, row : CampaignRows, number : Nat,
   at : {"create", "count", "save"}]

CampaignTypes ==
  /\ campaign \in CampaignRows
  /\ recipient \in [Rows -> {"absent", "pending", "sent", "failed"}]
  /\ remaining \in Nat /\ attempts \in Nat /\ creations \in Nat
  /\ sender \in [Senders -> SenderRows]
  /\ request \in SUBSET RequestRows
  /\ mailed \in [Addresses -> Nat] /\ heedless \in [Senders -> Nat]
  /\ campaignAsks \in Nat /\ sendMishaps \in Nat

\* Only while it reserves and sends does a replica hold rows, and never more
\* than a batch.
BatchesFit ==
  \A s \in Senders :
    /\ sender[s].at \notin {"reserve", "send"} => sender[s].batch = {}
    /\ Cardinality(sender[s].batch) <= SendBatchSize

\* What the replicas have paid for and not yet sent.
PaidFor ==
  {p \in Senders \X Rows : sender[p[1]].at = "send" /\ p[2] \in sender[p[1]].batch}

BudgetCovers == remaining + attempts + Cardinality(PaidFor) <= Allotment

\* The mails an address may still get: each replica can send to each pending
\* row of it, and to what it holds in its batch.
Owed(a) ==
  {p \in Senders \X Rows :
     p[2][1] = a /\ (recipient[p[2]] = "pending" \/ p[2] \in sender[p[1]].batch)}

MailsOwed ==
  \A a \in Addresses :
    mailed[a] + Cardinality(Owed(a)) <= creations * Cardinality(Senders) + sendMishaps

\* Until recipients are created nobody sends and nothing happens to anybody.
NobodyYet ==
  creations = 0 =>
    /\ campaign.status = "draft"
    /\ \A q \in request : q.at # "save"
    /\ \A r \in Rows : recipient[r] = "absent"
    /\ \A a \in Addresses : mailed[a] = 0
    /\ \A s \in Senders : sender[s].at \in {"poll", "down"}

\* A replica that has found nobody pending will find so until more recipients
\* are created.
DoneIsDone ==
  creations <= 1 /\ (campaign.status = "sent" \/ \E s \in Senders : sender[s].at = "finish")
    => Pending = {}

\* What a replica has sent into a pause, and may still send.
HeedsSoon ==
  \A s \in Senders :
    /\ campaign.status # "paused" \/ sender[s].at \in {"fetch", "reserve"} => heedless[s] = 0
    /\ sender[s].at = "send" => heedless[s] + Cardinality(sender[s].batch) <= SendBatchSize
    /\ heedless[s] <= SendBatchSize

CampaignInv ==
  /\ CampaignTypes /\ BatchesFit /\ BudgetCovers /\ MailsOwed
  /\ NobodyYet /\ DoneIsDone /\ HeedsSoon

LEMMA CampaignInitInv == CampaignInit => CampaignInv
<1> SUFFICES ASSUME CampaignInit PROVE CampaignInv
  OBVIOUS
<1>1. PaidFor = {} /\ \A a \in Addresses : Owed(a) = {}
  BY DEF CampaignInit, PaidFor, Owed, Polling
<1>2. Cardinality({}) = 0 /\ Cardinality(Senders) \in Nat
  BY FS_EmptySet, RowsFinite
<1>3. CampaignTypes /\ NobodyYet /\ DoneIsDone
  BY CampaignAssumption
  DEF CampaignInit, CampaignTypes, NobodyYet, DoneIsDone, Polling, CampaignRows, SenderRows,
      SenderSteps, CampaignStatuses, Pending
<1>4. BatchesFit /\ HeedsSoon
  <2>1. \A s \in Senders : sender[s].at = "poll" /\ sender[s].batch = {} /\ heedless[s] = 0
    BY DEF CampaignInit, Polling
  <2>2. \A s \in Senders : Cardinality(sender[s].batch) = 0
    BY <1>2, <2>1
  <2>3. 0 <= SendBatchSize
    BY CampaignAssumption
  <2> QED
    BY <2>1, <2>2, <2>3 DEF BatchesFit, HeedsSoon
<1>5. BudgetCovers
  BY <1>1, <1>2, CampaignAssumption DEF CampaignInit, BudgetCovers
<1>6. MailsOwed
  <2>1. 0 * Cardinality(Senders) = 0
    BY <1>2
  <2>2. creations = 0 /\ sendMishaps = 0 /\ \A a \in Addresses : mailed[a] = 0
    BY DEF CampaignInit
  <2> QED
    BY <1>1, <1>2, <2>1, <2>2 DEF MailsOwed
<1> QED
  BY <1>3, <1>4, <1>5, <1>6 DEF CampaignInv

LEMMA SetCampaignTypes ==
  ASSUME CampaignTypes, NEW row \in CampaignRows, SetCampaign(row)
  PROVE  campaign' \in CampaignRows /\ heedless' \in [Senders -> Nat]
BY DEF SetCampaign, CampaignTypes

LEMMA RequestsKeepTypes ==
  ASSUME CampaignTypes,
         \/ \E kind \in {"schedule", "send", "pause", "resume"} : CampaignRequest(kind)
         \/ \E q \in request : CountRecipients(q) \/ CreateRecipients(q) \/ SaveCampaign(q)
  PROVE  CampaignTypes'
<1>1. ASSUME NEW kind \in {"schedule", "send", "pause", "resume"}, CampaignRequest(kind)
      PROVE  CampaignTypes'
  <2> DEFINE q == [kind |-> kind, row |-> campaign, number |-> campaignAsks,
                   at |-> CASE kind = "schedule" -> "create" [] kind = "send" -> "count"
                            [] OTHER -> "save"]
  <2>1. q \in RequestRows
    BY <1>1 DEF CampaignTypes, RequestRows
  <2>2. request' = request \union {q}
    BY <1>1 DEF CampaignRequest
  <2> HIDE DEF q
  <2> QED
    BY <1>1, <2>1, <2>2 DEF CampaignRequest, CampaignTypes
<1>2. ASSUME NEW q \in request, NEW step \in {"create", "count", "save"}
      PROVE  [q EXCEPT !.at = step] \in RequestRows
  BY DEF CampaignTypes, RequestRows
<1>3. ASSUME NEW q \in request, CountRecipients(q) PROVE CampaignTypes'
  BY <1>2, <1>3 DEF CountRecipients, Proceeds, CampaignTypes
<1>4. ASSUME NEW q \in request, CreateRecipients(q) PROVE CampaignTypes'
  <2>1. request' \in SUBSET RequestRows
    BY <1>2, <1>4 DEF CreateRecipients, Proceeds, CampaignTypes
  <2>2. recipient' \in [Rows -> {"absent", "pending", "sent", "failed"}]
    BY <1>4 DEF CreateRecipients, CampaignTypes
  <2> QED
    BY <1>4, <2>1, <2>2 DEF CreateRecipients, CampaignTypes
<1>5. ASSUME NEW q \in request, SaveCampaign(q) PROVE CampaignTypes'
  <2>1. [q.row EXCEPT !.status = Becomes(q.kind)] \in CampaignRows
    BY DEF CampaignTypes, RequestRows, CampaignRows, Becomes, CampaignStatuses
  <2> QED
    BY <1>5, <2>1, SetCampaignTypes DEF SaveCampaign, CampaignTypes
<1> QED
  BY <1>1, <1>3, <1>4, <1>5

\* What a replica may become.
LEMMA SenderBecomes ==
  ASSUME CampaignTypes, NEW s \in Senders
  PROVE  /\ sender[s] \in SenderRows /\ sender[s].batch \subseteq Rows
         /\ IsFiniteSet(sender[s].batch) /\ Cardinality(sender[s].batch) \in Nat
         /\ \A at \in SenderSteps, batch \in SUBSET Rows, progressed \in BOOLEAN :
              [sender[s] EXCEPT !.at = at, !.batch = batch, !.progressed = progressed] \in SenderRows
         /\ \A at \in SenderSteps : [sender[s] EXCEPT !.at = at] \in SenderRows
         /\ Polling \in SenderRows /\ [Polling EXCEPT !.at = "down"] \in SenderRows
<1>1. sender[s] \in SenderRows
  BY DEF CampaignTypes
<1>2. sender[s].batch \subseteq Rows
  BY <1>1 DEF SenderRows
<1>3. IsFiniteSet(sender[s].batch) /\ Cardinality(sender[s].batch) \in Nat
  BY <1>2, RowsFinite, FS_Subset, FS_CardinalityType
<1>4. \A at \in SenderSteps, batch \in SUBSET Rows, progressed \in BOOLEAN :
        [sender[s] EXCEPT !.at = at, !.batch = batch, !.progressed = progressed] \in SenderRows
  BY <1>1 DEF SenderRows
<1>5. \A at \in SenderSteps : [sender[s] EXCEPT !.at = at] \in SenderRows
  BY <1>1 DEF SenderRows
<1>6. Polling \in SenderRows /\ [Polling EXCEPT !.at = "down"] \in SenderRows
  BY DEF Polling, SenderRows, SenderSteps
<1> QED
  BY <1>1, <1>2, <1>3, <1>4, <1>5, <1>6

LEMMA SenderPut ==
  ASSUME CampaignTypes, NEW s \in Senders, NEW row \in SenderRows,
         sender' = [sender EXCEPT ![s] = row]
  PROVE  /\ sender' \in [Senders -> SenderRows] /\ sender'[s] = row
         /\ \A o \in Senders \ {s} : sender'[o] = sender[o]
BY DEF CampaignTypes

\* SendEmail, for the row it sends.
Sends(s, r) ==
  LET rest == [sender[s] EXCEPT !.batch = @ \ {r}]
      accepted == r[1] \notin Refused
  IN
  /\ sender[s].at = "send"
  /\ \/ /\ recipient' = [recipient EXCEPT ![r] = Outcome(accepted)]
        /\ sender' = [sender EXCEPT ![s] = [rest EXCEPT !.progressed = TRUE]]
        /\ UNCHANGED sendMishaps
     \/ /\ sendMishaps' = sendMishaps + 1 /\ UNCHANGED recipient
        /\ \/ sender' = [sender EXCEPT ![s] = rest]
           \/ sender' = [sender EXCEPT ![s] = [Polling EXCEPT !.at = "down"]]
  /\ mailed' = IF accepted THEN [mailed EXCEPT ![r[1]] = @ + 1] ELSE mailed
  /\ attempts' = attempts + 1
  /\ heedless' = [heedless EXCEPT ![s] = @ + IF campaign.status = "paused" THEN 1 ELSE 0]
  /\ UNCHANGED <<campaign, remaining, request, creations, campaignAsks>>

LEMMA SendEmailSends ==
  ASSUME CampaignTypes, NEW s \in Senders, SendEmail(s)
  PROVE  \E r \in sender[s].batch : r \in Rows /\ Sends(s, r)
<1> DEFINE r == CHOOSE r \in sender[s].batch : ~\E q \in sender[s].batch : Before(q, r)
<1>1. sender[s].batch \in SUBSET Rows
  BY SenderBecomes
<1>2. r \in sender[s].batch
  <2>1. sender[s].batch # {}
    BY DEF SendEmail
  <2> QED
    BY <1>1, <2>1, FirstRowExists
<1>3. Sends(s, r)
  BY DEF SendEmail, Sends
<1> QED
  BY <1>1, <1>2, <1>3

\* Each step of a replica makes it one of these.
LEMMA SendersKeepTypes ==
  ASSUME CampaignTypes, NEW s \in Senders,
         SenderStep(s) \/ Beat(s) \/ SenderCrash(s) \/ HeartbeatStops
  PROVE  CampaignTypes'
<1>1. CASE SenderBoot(s) \/ FindReady(s) \/ FindSendable(s) \/ SenderCrash(s)
  <2>1. \/ \E at \in SenderSteps : sender' = [sender EXCEPT ![s] = [sender[s] EXCEPT !.at = at]]
        \/ sender' = [sender EXCEPT ![s] = [Polling EXCEPT !.at = "down"]]
    BY <1>1 DEF SenderBoot, FindReady, FindSendable, SenderCrash, SenderSteps
  <2>2. sender' \in [Senders -> SenderRows]
    <3>1. \E row \in SenderRows : sender' = [sender EXCEPT ![s] = row]
      BY <2>1, SenderBecomes
    <3> QED
      BY <3>1, SenderPut
  <2> QED
    BY <1>1, <2>2 DEF SenderBoot, FindReady, FindSendable, SenderCrash, CampaignTypes
<1>2. CASE PauseStuck(s) \/ Activate(s) \/ Finish(s)
  <2>1. \A status \in CampaignStatuses : [campaign EXCEPT !.status = status] \in CampaignRows
    BY DEF CampaignTypes, CampaignRows
  <2>2. campaign' \in CampaignRows /\ heedless' \in [Senders -> Nat]
    BY <1>2, <2>1, SetCampaignTypes DEF PauseStuck, Activate, Finish, CampaignStatuses
  <2>3. \/ \E at \in SenderSteps : sender' = [sender EXCEPT ![s] = [sender[s] EXCEPT !.at = at]]
        \/ sender' = [sender EXCEPT ![s] = Polling]
    BY <1>2 DEF PauseStuck, Activate, Finish, SenderSteps
  <2>4. sender' \in [Senders -> SenderRows]
    <3>1. \E row \in SenderRows : sender' = [sender EXCEPT ![s] = row]
      BY <2>3, SenderBecomes
    <3> QED
      BY <3>1, SenderPut
  <2> QED
    BY <1>2, <2>2, <2>4 DEF PauseStuck, Activate, Finish, CampaignTypes
<1>3. CASE FetchBatch(s)
  <2>1. PICK batch \in SUBSET Rows, at \in SenderSteps :
          sender' = [sender EXCEPT ![s] = [sender[s] EXCEPT !.at = at, !.batch = batch,
                                                            !.progressed = FALSE]]
    <3>1. sender[s] \in SenderRows
      BY SenderBecomes
    <3>2. PICK batch \in SUBSET Rows :
            sender' = [sender EXCEPT ![s].batch = batch, ![s].progressed = FALSE,
                                     ![s].at = IF batch = {} THEN "finish" ELSE "reserve"]
      BY <1>3 DEF FetchBatch, Fetchable, Pending
    <3> DEFINE at == IF batch = {} THEN "finish" ELSE "reserve"
    <3>3. at \in SenderSteps
      BY DEF SenderSteps
    <3>4. sender' = [sender EXCEPT ![s] = [sender[s] EXCEPT !.at = at, !.batch = batch,
                                                            !.progressed = FALSE]]
      BY <3>1, <3>2 DEF SenderRows
    <3> QED
      BY <3>3, <3>4
  <2>2. sender' \in [Senders -> SenderRows]
    BY <2>1, SenderBecomes, SenderPut
  <2> QED
    BY <1>3, <2>2 DEF FetchBatch, CampaignTypes
<1>4. CASE ReserveBudget(s)
  <2>1. [campaign EXCEPT !.status = "paused"] \in CampaignRows
    BY DEF CampaignTypes, CampaignRows, CampaignStatuses
  <2>2. campaign' \in CampaignRows /\ heedless' \in [Senders -> Nat]
    BY <1>4, <2>1, SetCampaignTypes DEF ReserveBudget, CampaignTypes
  <2>3. remaining' \in Nat
    <3>1. Cardinality(sender[s].batch) \in Nat
      BY SenderBecomes
    <3> QED
      BY <1>4, <3>1 DEF ReserveBudget, Affordable, CampaignTypes
  <2>4. \/ sender' = [sender EXCEPT ![s] = [sender[s] EXCEPT !.at = "send"]]
        \/ sender' = [sender EXCEPT ![s] = Polling]
    BY <1>4 DEF ReserveBudget
  <2>5. sender' \in [Senders -> SenderRows]
    <3>1. \E row \in SenderRows : sender' = [sender EXCEPT ![s] = row]
      BY <2>4, SenderBecomes DEF SenderSteps
    <3> QED
      BY <3>1, SenderPut
  <2> QED
    BY <1>4, <2>2, <2>3, <2>5 DEF ReserveBudget, CampaignTypes
<1>5. CASE SendEmail(s)
  <2> PICK r \in sender[s].batch : r \in Rows /\ Sends(s, r)
    BY <1>5, SendEmailSends
  <2>1. recipient' \in [Rows -> {"absent", "pending", "sent", "failed"}]
    BY DEF Sends, Outcome, CampaignTypes
  <2>2. mailed' \in [Addresses -> Nat] /\ heedless' \in [Senders -> Nat]
    BY RowIsPair DEF Sends, CampaignTypes
  <2>3. sender' \in [Senders -> SenderRows]
    <3>1. \A b \in BOOLEAN :
            [[sender[s] EXCEPT !.batch = @ \ {r}] EXCEPT !.progressed = b] \in SenderRows
      BY SenderBecomes DEF SenderRows
    <3>2. [sender[s] EXCEPT !.batch = @ \ {r}] \in SenderRows
      BY SenderBecomes DEF SenderRows
    <3>3. [Polling EXCEPT !.at = "down"] \in SenderRows
      BY SenderBecomes
    <3>4. \E row \in SenderRows : sender' = [sender EXCEPT ![s] = row]
      BY <3>1, <3>2, <3>3 DEF Sends
    <3> QED
      BY <3>4, SenderPut
  <2> QED
    BY <2>1, <2>2, <2>3 DEF Sends, CampaignTypes
<1>6. CASE Refresh(s)
  <2>1. \/ sender' = [sender EXCEPT ![s] = [sender[s] EXCEPT !.at = "fetch"]]
        \/ sender' = [sender EXCEPT ![s] = Polling]
    BY <1>6 DEF Refresh
  <2>2. sender' \in [Senders -> SenderRows]
    <3>1. \E row \in SenderRows : sender' = [sender EXCEPT ![s] = row]
      BY <2>1, SenderBecomes DEF SenderSteps
    <3> QED
      BY <3>1, SenderPut
  <2> QED
    BY <1>6, <2>2 DEF Refresh, CampaignTypes
<1>7. CASE Beat(s) \/ HeartbeatStops
  BY <1>7 DEF Beat, HeartbeatStops, CampaignTypes, CampaignRows
<1> QED
  BY <1>1, <1>2, <1>3, <1>4, <1>5, <1>6, <1>7 DEF SenderStep

\* A replica that puts down what it holds leaves the budget and the mails owed
\* as they were.
LEMMA EmptyHandedRow ==
  ASSUME CampaignTypes, BatchesFit, NEW s \in Senders,
         \/ SenderBoot(s) \/ PauseStuck(s) \/ FindReady(s) \/ Activate(s) \/ FindSendable(s)
         \/ Refresh(s) \/ Finish(s) \/ SenderCrash(s)
         \/ ReserveBudget(s) /\ ~Affordable(Cardinality(sender[s].batch))
  PROVE  /\ UNCHANGED <<recipient, mailed, attempts, creations, remaining>>
         /\ sendMishaps' \in {sendMishaps, sendMishaps + 1}
         /\ \E row \in SenderRows :
              sender' = [sender EXCEPT ![s] = row] /\ row.batch = {} /\ row.at # "send"
<1>1. \/ sender' = [sender EXCEPT ![s] = Polling]
      \/ sender' = [sender EXCEPT ![s] = [Polling EXCEPT !.at = "down"]]
      \/ /\ sender[s].batch = {}
         /\ \E at \in SenderSteps \ {"send"} : sender' = [sender EXCEPT ![s] = [sender[s] EXCEPT !.at = at]]
  BY DEF SenderBoot, PauseStuck, FindReady, Activate, FindSendable, Refresh, Finish, SenderCrash,
         ReserveBudget, BatchesFit, SenderSteps
<1>2. \E row \in SenderRows :
        sender' = [sender EXCEPT ![s] = row] /\ row.batch = {} /\ row.at # "send"
  <2>1. Polling.batch = {} /\ Polling.at = "poll"
        /\ [Polling EXCEPT !.at = "down"].batch = {} /\ [Polling EXCEPT !.at = "down"].at = "down"
    BY DEF Polling
  <2>2. \A at \in SenderSteps : [sender[s] EXCEPT !.at = at].batch = sender[s].batch
                         /\ [sender[s] EXCEPT !.at = at].at = at
    BY SenderBecomes DEF SenderRows
  <2>3. CASE sender' = [sender EXCEPT ![s] = Polling]
    BY <2>1, <2>3, SenderBecomes
  <2>4. CASE sender' = [sender EXCEPT ![s] = [Polling EXCEPT !.at = "down"]]
    BY <2>1, <2>4, SenderBecomes
  <2>5. ASSUME sender[s].batch = {}, NEW at \in SenderSteps \ {"send"},
               sender' = [sender EXCEPT ![s] = [sender[s] EXCEPT !.at = at]]
        PROVE  \E row \in SenderRows :
                 sender' = [sender EXCEPT ![s] = row] /\ row.batch = {} /\ row.at # "send"
    <3>1. [sender[s] EXCEPT !.at = at] \in SenderRows
      BY SenderBecomes
    <3> QED
      BY <2>2, <2>5, <3>1
  <2> QED
    BY <1>1, <2>3, <2>4, <2>5
<1>3. /\ UNCHANGED <<recipient, mailed, attempts, creations, remaining>>
      /\ sendMishaps' \in {sendMishaps, sendMishaps + 1}
  BY DEF SenderBoot, PauseStuck, FindReady, Activate, FindSendable, Refresh, Finish, SenderCrash,
         ReserveBudget
<1> QED
  BY <1>2, <1>3

LEMMA LessPaidFor ==
  ASSUME CampaignTypes, BudgetCovers, PaidFor' \subseteq PaidFor, UNCHANGED <<remaining, attempts>>
  PROVE  BudgetCovers'
<1>1. IsFiniteSet(PaidFor)
  BY RowsFinite, FS_Subset DEF PaidFor
<1>2. /\ Cardinality(PaidFor') <= Cardinality(PaidFor)
      /\ Cardinality(PaidFor') \in Nat /\ Cardinality(PaidFor) \in Nat
  BY <1>1, FS_Subset, FS_CardinalityType
<1> QED
  BY <1>2, CampaignAssumption DEF BudgetCovers, CampaignTypes

LEMMA OwedFinite ==
  ASSUME NEW a \in Addresses
  PROVE  /\ IsFiniteSet(Owed(a)) /\ Cardinality(Owed(a)) \in Nat
         /\ IsFiniteSet(Owed(a)') /\ Cardinality(Owed(a)') \in Nat
<1>1. Owed(a) \subseteq Senders \X Rows /\ Owed(a)' \subseteq Senders \X Rows
  BY DEF Owed
<1> QED
  BY <1>1, RowsFinite, FS_Subset, FS_CardinalityType

LEMMA LessOwed ==
  ASSUME CampaignTypes, MailsOwed, \A a \in Addresses : Owed(a)' \subseteq Owed(a),
         UNCHANGED <<mailed, creations>>, sendMishaps' \in {sendMishaps, sendMishaps + 1}
  PROVE  MailsOwed'
<1> SUFFICES ASSUME NEW a \in Addresses
             PROVE  mailed[a] + Cardinality(Owed(a)') <= creations * Cardinality(Senders) + sendMishaps'
  BY DEF MailsOwed
<1>1. /\ Cardinality(Owed(a)') <= Cardinality(Owed(a))
      /\ Cardinality(Owed(a)') \in Nat /\ Cardinality(Owed(a)) \in Nat
  BY OwedFinite, FS_Subset
<1> DEFINE c == creations * Cardinality(Senders)
<1>2. mailed[a] + Cardinality(Owed(a)) <= c + sendMishaps
  BY DEF MailsOwed
<1>3. c \in Nat /\ mailed[a] \in Nat /\ sendMishaps \in Nat
  BY RowsFinite DEF CampaignTypes
<1> HIDE DEF c
<1>4. mailed[a] + Cardinality(Owed(a)') <= c + sendMishaps'
  BY <1>1, <1>2, <1>3
<1> QED
  BY <1>4 DEF c

LEMMA EmptyHandedKeeps ==
  ASSUME CampaignTypes, BatchesFit, BudgetCovers, MailsOwed, NEW s \in Senders,
         \/ SenderBoot(s) \/ PauseStuck(s) \/ FindReady(s) \/ Activate(s) \/ FindSendable(s)
         \/ Refresh(s) \/ Finish(s) \/ SenderCrash(s)
         \/ ReserveBudget(s) /\ ~Affordable(Cardinality(sender[s].batch))
  PROVE  BatchesFit' /\ BudgetCovers' /\ MailsOwed'
<1>1. PICK row \in SenderRows :
        sender' = [sender EXCEPT ![s] = row] /\ row.batch = {} /\ row.at # "send"
  BY EmptyHandedRow
<1>2. /\ UNCHANGED <<recipient, mailed, attempts, creations, remaining>>
      /\ sendMishaps' \in {sendMishaps, sendMishaps + 1}
  BY EmptyHandedRow
<1>3. sender'[s] = row /\ \A o \in Senders \ {s} : sender'[o] = sender[o]
  BY <1>1, SenderPut
<1>4. BatchesFit'
  <2>1. Cardinality(row.batch) = 0 /\ 0 <= SendBatchSize
    BY <1>1, FS_EmptySet, CampaignAssumption
  <2> QED
    BY <1>1, <1>3, <2>1 DEF BatchesFit
<1>5. BudgetCovers'
  <2>1. PaidFor' \subseteq PaidFor
    BY <1>1, <1>3 DEF PaidFor
  <2> QED
    BY <1>2, <2>1, LessPaidFor
<1>6. MailsOwed'
  <2>1. ASSUME NEW a \in Addresses PROVE Owed(a)' \subseteq Owed(a)
    BY <1>1, <1>2, <1>3 DEF Owed
  <2> QED
    BY <1>2, <2>1, LessOwed
<1> QED
  BY <1>4, <1>5, <1>6

LEMMA FetchedRow ==
  ASSUME CampaignTypes, NEW s \in Senders, FetchBatch(s)
  PROVE  \E row \in SenderRows :
           /\ sender' = [sender EXCEPT ![s] = row]
           /\ row.batch \subseteq Pending /\ Cardinality(row.batch) <= SendBatchSize
           /\ row.at = IF row.batch = {} THEN "finish" ELSE "reserve"
           /\ row.batch = {} => Pending = {}
<1> DEFINE batch == FirstOf(Pending, SendBatchSize)
           row == [sender[s] EXCEPT !.at = IF batch = {} THEN "finish" ELSE "reserve",
                                    !.batch = batch, !.progressed = FALSE]
<1>1. /\ batch \subseteq Pending /\ Cardinality(batch) <= SendBatchSize
      /\ batch = {} => Pending = {}
  <2>1. Pending \in SUBSET Rows
    BY DEF Pending
  <2> QED
    BY <2>1, FirstOfFits, CampaignAssumption
<1>2. sender' = [sender EXCEPT ![s].batch = batch, ![s].progressed = FALSE,
                               ![s].at = IF batch = {} THEN "finish" ELSE "reserve"]
  BY DEF FetchBatch, Fetchable, FirstOf
<1>3. batch \in SUBSET Rows
  BY <1>1 DEF Pending
<1> HIDE DEF batch
<1>4. sender[s] \in SenderRows
  BY SenderBecomes
<1>5. row \in SenderRows /\ row.batch = batch /\ row.at = IF batch = {} THEN "finish" ELSE "reserve"
  BY <1>3, <1>4 DEF SenderRows, SenderSteps
<1>6. sender' = [sender EXCEPT ![s] = row]
  BY <1>2, <1>4 DEF SenderRows
<1> HIDE DEF row
<1> QED
  BY <1>1, <1>5, <1>6

LEMMA FetchKeeps ==
  ASSUME CampaignTypes, BatchesFit, BudgetCovers, MailsOwed, NEW s \in Senders, FetchBatch(s)
  PROVE  BatchesFit' /\ BudgetCovers' /\ MailsOwed'
<1>1. PICK row \in SenderRows :
           /\ sender' = [sender EXCEPT ![s] = row]
           /\ row.batch \subseteq Pending /\ Cardinality(row.batch) <= SendBatchSize
           /\ row.at = IF row.batch = {} THEN "finish" ELSE "reserve"
  BY FetchedRow
<1>2. UNCHANGED <<recipient, mailed, attempts, creations, remaining, sendMishaps>>
  BY DEF FetchBatch
<1>3. sender'[s] = row /\ \A o \in Senders \ {s} : sender'[o] = sender[o]
  BY <1>1, SenderPut
<1>4. BatchesFit'
  BY <1>1, <1>3 DEF BatchesFit
<1>5. BudgetCovers'
  <2>1. PaidFor' \subseteq PaidFor
    BY <1>1, <1>3 DEF PaidFor
  <2> QED
    BY <1>2, <2>1, LessPaidFor
<1>6. MailsOwed'
  <2>1. ASSUME NEW a \in Addresses PROVE Owed(a)' \subseteq Owed(a)
    BY <1>1, <1>2, <1>3 DEF Owed, Pending
  <2> QED
    BY <1>2, <2>1, LessOwed
<1> QED
  BY <1>4, <1>5, <1>6

LEMMA ReserveKeeps ==
  ASSUME CampaignTypes, BatchesFit, BudgetCovers, MailsOwed, NEW s \in Senders,
         ReserveBudget(s), Affordable(Cardinality(sender[s].batch))
  PROVE  BatchesFit' /\ BudgetCovers' /\ MailsOwed'
<1> DEFINE row == [sender[s] EXCEPT !.at = "send"]
           n == Cardinality(sender[s].batch)
           bought == {s} \X sender[s].batch
<1>1. /\ row \in SenderRows /\ row.batch = sender[s].batch /\ row.at = "send"
      /\ sender[s].at = "reserve" /\ sender[s].batch \subseteq Rows
      /\ IsFiniteSet(sender[s].batch) /\ n \in Nat
  <2>1. row \in SenderRows
    BY SenderBecomes DEF SenderSteps
  <2>2. row.batch = sender[s].batch /\ row.at = "send"
    BY SenderBecomes DEF SenderRows
  <2> QED
    BY <2>1, <2>2, SenderBecomes DEF ReserveBudget
<1>2. /\ UNCHANGED <<recipient, mailed, attempts, creations, sendMishaps>>
      /\ remaining' = remaining - n /\ sender' = [sender EXCEPT ![s] = row]
      /\ remaining >= n
  <2>1. sender' = [sender EXCEPT ![s].at = "send"]
    BY DEF ReserveBudget
  <2> QED
    BY <2>1 DEF ReserveBudget, Affordable
<1> HIDE DEF row
<1>3. sender'[s] = row /\ \A o \in Senders \ {s} : sender'[o] = sender[o]
  BY <1>1, <1>2, SenderPut
<1>4. BatchesFit'
  BY <1>1, <1>3 DEF BatchesFit
<1>5. BudgetCovers'
  <2>1. PaidFor' = PaidFor \union bought
    <3>1. ASSUME NEW p \in Senders \X Rows
          PROVE  p \in PaidFor' <=> p \in PaidFor \union bought
      <4>1. p[1] \in Senders /\ p[2] \in Rows /\ p = <<p[1], p[2]>>
        BY <3>1
      <4>2. CASE p[1] = s
        BY <1>1, <1>3, <4>1, <4>2 DEF PaidFor
      <4>3. CASE p[1] # s
        BY <1>3, <4>1, <4>3 DEF PaidFor
      <4> QED
        BY <4>2, <4>3
    <3>2. PaidFor' \subseteq Senders \X Rows /\ PaidFor \subseteq Senders \X Rows
          /\ bought \subseteq Senders \X Rows
      BY <1>1 DEF PaidFor
    <3> QED
      BY <3>1, <3>2
  <2>2. IsFiniteSet(bought) /\ Cardinality(bought) = n
    <3>1. IsFiniteSet({s}) /\ Cardinality({s}) = 1
      BY FS_Singleton
    <3> QED
      BY <1>1, <3>1, FS_Product
  <2>3. IsFiniteSet(PaidFor)
    BY RowsFinite, FS_Subset DEF PaidFor
  <2>4. Cardinality(PaidFor') = Cardinality(PaidFor) + n - Cardinality(PaidFor \cap bought)
    BY <2>1, <2>2, <2>3, FS_Union
  <2>5. Cardinality(PaidFor) \in Nat /\ Cardinality(PaidFor \cap bought) \in Nat
    BY <2>3, FS_Intersection, FS_CardinalityType
  <2> HIDE DEF n
  <2> QED
    BY <1>1, <1>2, <2>4, <2>5, CampaignAssumption DEF BudgetCovers, CampaignTypes
<1>6. MailsOwed'
  <2>1. ASSUME NEW a \in Addresses PROVE Owed(a)' \subseteq Owed(a)
    BY <1>1, <1>2, <1>3 DEF Owed
  <2> QED
    BY <1>2, <2>1, LessOwed
<1> QED
  BY <1>4, <1>5, <1>6

\* What a replica is after an email: the row is out of its hands, and pending
\* still only if a mishap took the record of it.
LEMMA SentRow ==
  ASSUME CampaignTypes, NEW s \in Senders, NEW r \in sender[s].batch, Sends(s, r)
  PROVE  \E row \in SenderRows :
           /\ sender' = [sender EXCEPT ![s] = row]
           /\ row.batch \subseteq sender[s].batch \ {r} /\ row.at \in {"send", "down"}
           /\ row.at = "down" => row.batch = {}
<1>1. sender[s] \in SenderRows
  BY SenderBecomes
<1> DEFINE rest == [sender[s] EXCEPT !.batch = @ \ {r}]
           recorded == [rest EXCEPT !.progressed = TRUE]
<1>2. rest \in SenderRows /\ rest.batch = sender[s].batch \ {r} /\ rest.at = sender[s].at
  BY <1>1 DEF SenderRows
<1>3. recorded \in SenderRows /\ recorded.batch = rest.batch /\ recorded.at = rest.at
  <2> HIDE DEF rest
  <2> QED
    BY <1>2 DEF SenderRows
<1>4. /\ [Polling EXCEPT !.at = "down"] \in SenderRows
      /\ [Polling EXCEPT !.at = "down"].batch = {} /\ [Polling EXCEPT !.at = "down"].at = "down"
  BY SenderBecomes DEF Polling
<1>5. /\ sender[s].at = "send"
      /\ \/ sender' = [sender EXCEPT ![s] = recorded]
         \/ sender' = [sender EXCEPT ![s] = rest]
         \/ sender' = [sender EXCEPT ![s] = [Polling EXCEPT !.at = "down"]]
  BY DEF Sends
<1> HIDE DEF rest, recorded
<1>6. CASE sender' = [sender EXCEPT ![s] = recorded]
  BY <1>2, <1>3, <1>5, <1>6
<1>7. CASE sender' = [sender EXCEPT ![s] = rest]
  BY <1>2, <1>5, <1>7
<1>8. CASE sender' = [sender EXCEPT ![s] = [Polling EXCEPT !.at = "down"]]
  BY <1>4, <1>8
<1> QED
  BY <1>5, <1>6, <1>7, <1>8

LEMMA SendKeeps ==
  ASSUME CampaignTypes, BatchesFit, BudgetCovers, MailsOwed, NEW s \in Senders,
         NEW r \in sender[s].batch, r \in Rows, Sends(s, r)
  PROVE  BatchesFit' /\ BudgetCovers' /\ MailsOwed'
<1>1. PICK row \in SenderRows :
           /\ sender' = [sender EXCEPT ![s] = row]
           /\ row.batch \subseteq sender[s].batch \ {r} /\ row.at \in {"send", "down"}
           /\ row.at = "down" => row.batch = {}
  BY SentRow
<1>2. sender'[s] = row /\ \A o \in Senders \ {s} : sender'[o] = sender[o]
  BY <1>1, SenderPut
<1>3. /\ UNCHANGED <<remaining, creations>> /\ attempts' = attempts + 1
      /\ sender[s].at = "send" /\ r[1] \in Addresses
  BY RowIsPair DEF Sends
<1>4. BatchesFit'
  <2>1. Cardinality(row.batch) <= Cardinality(sender[s].batch) /\ Cardinality(row.batch) \in Nat
    <3>1. row.batch \subseteq sender[s].batch /\ IsFiniteSet(sender[s].batch)
      BY <1>1, SenderBecomes
    <3> QED
      BY <3>1, FS_Subset, FS_CardinalityType
  <2>2. Cardinality(sender[s].batch) \in Nat /\ Cardinality(sender[s].batch) <= SendBatchSize
    BY SenderBecomes DEF BatchesFit
  <2>3. Cardinality(row.batch) <= SendBatchSize
    BY <2>1, <2>2, CampaignAssumption
  <2> QED
    BY <1>1, <1>2, <2>3 DEF BatchesFit
<1>5. BudgetCovers'
  <2>1. <<s, r>> \in PaidFor /\ PaidFor' \subseteq PaidFor \ {<<s, r>>}
    BY <1>1, <1>2, <1>3 DEF PaidFor
  <2>2. IsFiniteSet(PaidFor) /\ Cardinality(PaidFor) \in Nat
    BY RowsFinite, FS_Subset, FS_CardinalityType DEF PaidFor
  <2>3. IsFiniteSet(PaidFor \ {<<s, r>>}) /\ Cardinality(PaidFor \ {<<s, r>>}) = Cardinality(PaidFor) - 1
    BY <2>1, <2>2, FS_RemoveElement
  <2>4. Cardinality(PaidFor') \in Nat /\ Cardinality(PaidFor') <= Cardinality(PaidFor) - 1
    BY <2>1, <2>3, FS_Subset, FS_CardinalityType
  <2> QED
    BY <1>3, <2>2, <2>4, CampaignAssumption DEF BudgetCovers, CampaignTypes
<1>6. MailsOwed'
  <2> SUFFICES ASSUME NEW a \in Addresses
               PROVE  mailed'[a] + Cardinality(Owed(a)') <= creations * Cardinality(Senders) + sendMishaps'
    BY <1>3 DEF MailsOwed
  <2> DEFINE c == creations * Cardinality(Senders)
             n == Cardinality(Owed(a))
             m == Cardinality(Owed(a)')
  <2>1. /\ n \in Nat /\ m \in Nat /\ c \in Nat /\ mailed[a] \in Nat /\ sendMishaps \in Nat
        /\ mailed[a] + n <= c + sendMishaps
    BY OwedFinite, RowsFinite DEF CampaignTypes, MailsOwed
  <2>2. /\ mailed'[a] \in {mailed[a], mailed[a] + 1}
        /\ r[1] # a => mailed'[a] = mailed[a]
    BY <1>3 DEF Sends, CampaignTypes
  <2>3. \A q \in Rows : recipient'[q] = "pending" => recipient[q] = "pending"
    BY DEF Sends, Outcome, CampaignTypes
  <2>4. Owed(a)' \subseteq Owed(a)
    BY <1>1, <1>2, <2>3 DEF Owed
  <2>5. m <= n
    BY <2>4, OwedFinite, FS_Subset
  <2>6. CASE sendMishaps' = sendMishaps + 1
    <3> HIDE DEF c, n, m
    <3>1. mailed'[a] + m <= c + sendMishaps'
      BY <2>1, <2>2, <2>5, <2>6
    <3> QED
      BY <3>1 DEF c, m
  <2>7. CASE sendMishaps' = sendMishaps /\ r[1] # a
    <3> HIDE DEF c, n, m
    <3>1. mailed'[a] + m <= c + sendMishaps'
      BY <2>1, <2>2, <2>5, <2>7
    <3> QED
      BY <3>1 DEF c, m
  <2>8. CASE sendMishaps' # sendMishaps + 1 /\ r[1] = a
    <3>1. sendMishaps' = sendMishaps /\ recipient' = [recipient EXCEPT ![r] = Outcome(r[1] \notin Refused)]
      BY <2>8 DEF Sends
    <3>2. recipient'[r] # "pending"
      BY <3>1 DEF Outcome, CampaignTypes
    <3>3. <<s, r>> \in Owed(a) /\ <<s, r>> \notin Owed(a)'
      BY <1>1, <1>2, <2>8, <3>2 DEF Owed
    <3>4. Owed(a)' \subseteq Owed(a) \ {<<s, r>>}
      BY <2>4, <3>3
    <3>5. IsFiniteSet(Owed(a) \ {<<s, r>>}) /\ Cardinality(Owed(a) \ {<<s, r>>}) = n - 1
      BY <3>3, OwedFinite, FS_RemoveElement
    <3>6. m <= n - 1
      BY <3>4, <3>5, FS_Subset
    <3> HIDE DEF c, n, m
    <3>7. mailed'[a] + m <= c + sendMishaps'
      BY <2>1, <2>2, <3>1, <3>6
    <3> QED
      BY <3>7 DEF c, m
  <2> QED
    BY <2>6, <2>7, <2>8 DEF Sends
<1> QED
  BY <1>4, <1>5, <1>6

\* Each row of a new recipient list can be sent once by every replica.
LEMMA CreateKeeps ==
  ASSUME CampaignTypes, BatchesFit, BudgetCovers, MailsOwed, NEW q \in request, CreateRecipients(q)
  PROVE  BatchesFit' /\ BudgetCovers' /\ MailsOwed'
<1>1. /\ UNCHANGED <<remaining, sender, mailed, attempts, sendMishaps>> /\ creations' = creations + 1
      /\ recipient' = [r \in Rows |-> IF r[2] = creations + 1 THEN "pending" ELSE recipient[r]]
  BY DEF CreateRecipients
<1>2. BatchesFit'
  BY <1>1 DEF BatchesFit
<1>3. BudgetCovers'
  <2>1. PaidFor' = PaidFor
    BY <1>1 DEF PaidFor
  <2> QED
    BY <1>1, <2>1 DEF BudgetCovers
<1>4. MailsOwed'
  <2> SUFFICES ASSUME NEW a \in Addresses
               PROVE  mailed[a] + Cardinality(Owed(a)') <= (creations + 1) * Cardinality(Senders) + sendMishaps
    BY <1>1 DEF MailsOwed
  <2> DEFINE k == Cardinality(Senders)
             n == Cardinality(Owed(a))
             m == Cardinality(Owed(a)')
             new == Senders \X {<<a, creations + 1>>}
  <2>1. Owed(a)' \subseteq Owed(a) \union new
    <3> SUFFICES ASSUME NEW p \in Senders \X Rows, p \in Owed(a)', p \notin Owed(a)
                 PROVE  p \in new
      BY DEF Owed
    <3>1. p[1] \in Senders /\ p[2] \in Rows /\ p = <<p[1], p[2]>>
      OBVIOUS
    <3>2. p[2][1] = a /\ recipient'[p[2]] = "pending" /\ recipient[p[2]] # "pending"
      BY <1>1 DEF Owed
    <3>3. p[2][2] = creations + 1
      BY <1>1, <3>1, <3>2
    <3>4. p[2] = <<a, creations + 1>>
      BY <3>1, <3>2, <3>3, RowIsPair
    <3> QED
      BY <3>1, <3>4
  <2>2. IsFiniteSet(new) /\ Cardinality(new) = k
    <3>1. IsFiniteSet({<<a, creations + 1>>}) /\ Cardinality({<<a, creations + 1>>}) = 1
      BY FS_Singleton
    <3>2. IsFiniteSet(new) /\ Cardinality(new) = k * 1 /\ k \in Nat
      BY <3>1, RowsFinite, CampaignAssumption, FS_Product
    <3> QED
      BY <3>2
  <2>3. m <= n + k
    <3>1. IsFiniteSet(Owed(a) \union new)
          /\ Cardinality(Owed(a) \union new) = n + k - Cardinality(Owed(a) \cap new)
      BY <2>2, OwedFinite, FS_Union
    <3>2. Cardinality(Owed(a) \cap new) \in Nat
      BY OwedFinite, FS_Intersection, FS_CardinalityType
    <3>3. m <= Cardinality(Owed(a) \union new)
      BY <2>1, <3>1, FS_Subset
    <3> QED
      BY <3>1, <3>2, <3>3, OwedFinite, RowsFinite
  <2>4. /\ k \in Nat /\ n \in Nat /\ m \in Nat /\ creations \in Nat
        /\ mailed[a] \in Nat /\ sendMishaps \in Nat
    BY OwedFinite, RowsFinite DEF CampaignTypes
  <2>5. mailed[a] + n <= creations * k + sendMishaps
    BY DEF MailsOwed
  <2> HIDE DEF k, n, m
  <2>6. (creations + 1) * k = creations * k + k
    BY <2>4
  <2>7. creations * k \in Nat
    BY <2>4
  <2>8. mailed[a] + m <= (creations + 1) * k + sendMishaps
    BY <2>3, <2>4, <2>5, <2>6, <2>7
  <2> QED
    BY <2>8 DEF k, m
<1> QED
  BY <1>2, <1>3, <1>4

LEMMA RequestsKeep ==
  ASSUME CampaignInv,
         \/ \E kind \in {"schedule", "send", "pause", "resume"} : CampaignRequest(kind)
         \/ \E q \in request : CountRecipients(q) \/ SaveCampaign(q)
  PROVE  CampaignInv'
<1>1. CampaignTypes'
  BY RequestsKeepTypes DEF CampaignInv
<1>2. UNCHANGED <<recipient, remaining, sender, mailed, attempts, creations, sendMishaps>>
  BY DEF CampaignRequest, CountRecipients, SaveCampaign
<1>3. /\ PaidFor' = PaidFor /\ Pending' = Pending
      /\ \A a \in Addresses : Owed(a)' = Owed(a)
  BY <1>2 DEF PaidFor, Pending, Owed
<1>4. BatchesFit' /\ BudgetCovers' /\ MailsOwed'
  BY <1>2, <1>3 DEF CampaignInv, BatchesFit, BudgetCovers, MailsOwed
<1> DEFINE Saved ==
             /\ campaign' = campaign \/ campaign'.status \in {"scheduled", "sending", "paused"}
             /\ \/ heedless' = heedless /\ campaign' = campaign
                \/ heedless' = heedless /\ campaign'.status = "paused"
                \/ heedless' = [s \in Senders |-> 0]
<1>5. NobodyYet' /\ Saved
  <2>1. ASSUME NEW kind \in {"schedule", "send", "pause", "resume"}, CampaignRequest(kind)
        PROVE  NobodyYet' /\ Saved
    <3>1. PICK f : f.at \in {"create", "count", "save"} /\ request' = request \union {f}
                  /\ (kind \in {"schedule", "send"} => f.at # "save")
      <4> DEFINE f == [kind |-> kind, row |-> campaign, number |-> campaignAsks,
                       at |-> CASE kind = "schedule" -> "create" [] kind = "send" -> "count"
                                [] OTHER -> "save"]
      <4>1. f.at \in {"create", "count", "save"} /\ (kind \in {"schedule", "send"} => f.at # "save")
        OBVIOUS
      <4>2. request' = request \union {f}
        BY <2>1 DEF CampaignRequest
      <4> HIDE DEF f
      <4> QED
        BY <4>1, <4>2
    <3>2. campaign.status = "draft" => kind \in {"schedule", "send"}
      BY <2>1 DEF CampaignRequest, Allowed
    <3>3. UNCHANGED <<campaign, heedless>>
      BY <2>1 DEF CampaignRequest
    <3>4. NobodyYet'
      <4> SUFFICES ASSUME creations = 0
                   PROVE  campaign.status = "draft" /\ \A q \in request' : q.at # "save"
        BY <1>2, <3>3 DEF CampaignInv, NobodyYet
      <4>1. campaign.status = "draft" /\ \A q \in request : q.at # "save"
        BY DEF CampaignInv, NobodyYet
      <4> QED
        BY <3>1, <3>2, <4>1
    <3> QED
      BY <3>3, <3>4
  <2>2. ASSUME NEW q \in request, CountRecipients(q)
        PROVE  NobodyYet' /\ Saved
    <3>1. creations = 0 => \A f \in request' : f.at # "save"
      BY <2>2 DEF CountRecipients, Proceeds, NoneYet, CampaignInv, NobodyYet, CampaignTypes, RequestRows
    <3> QED
      BY <2>2, <3>1 DEF CountRecipients, CampaignInv, NobodyYet
  <2>3. ASSUME NEW q \in request, SaveCampaign(q)
        PROVE  NobodyYet' /\ Saved
    <3>1. q.row \in CampaignRows
      BY DEF CampaignInv, CampaignTypes, RequestRows
    <3>2. campaign'.status = Becomes(q.kind)
      BY <2>3, <3>1 DEF SaveCampaign, SetCampaign, CampaignRows
    <3>3. Becomes(q.kind) \in {"scheduled", "sending", "paused"}
      BY DEF Becomes
    <3>4. creations # 0
      BY <2>3 DEF SaveCampaign, CampaignInv, NobodyYet
    <3> QED
      BY <1>2, <2>3, <3>2, <3>3, <3>4 DEF SaveCampaign, SetCampaign, NobodyYet
  <2> QED
    BY <2>1, <2>2, <2>3
<1>6. DoneIsDone'
  BY <1>2, <1>3, <1>5 DEF CampaignInv, DoneIsDone
<1>7. HeedsSoon'
  <2>1. ASSUME NEW s \in Senders
        PROVE  /\ Cardinality(sender[s].batch) <= SendBatchSize
               /\ Cardinality(sender[s].batch) \in Nat /\ 0 <= SendBatchSize
    <3>1. Cardinality(sender[s].batch) \in Nat
      BY SenderBecomes DEF CampaignInv
    <3> QED
      BY <3>1, CampaignAssumption DEF CampaignInv, BatchesFit
  <2> QED
    BY <1>2, <1>5, <2>1 DEF CampaignInv, HeedsSoon
<1> QED
  BY <1>1, <1>4, <1>5, <1>6, <1>7 DEF CampaignInv

LEMMA CreateKeepsInv ==
  ASSUME CampaignInv, NEW q \in request, CreateRecipients(q)
  PROVE  CampaignInv'
<1>1. CampaignTypes'
  BY RequestsKeepTypes DEF CampaignInv
<1>2. BatchesFit' /\ BudgetCovers' /\ MailsOwed'
  BY CreateKeeps DEF CampaignInv
<1>3. creations' = creations + 1 /\ creations \in Nat /\ UNCHANGED <<campaign, sender, heedless>>
  BY DEF CreateRecipients, CampaignInv, CampaignTypes
<1>4. NobodyYet' /\ DoneIsDone' /\ HeedsSoon'
  BY <1>3 DEF CampaignInv, NobodyYet, DoneIsDone, HeedsSoon
<1> QED
  BY <1>1, <1>2, <1>4 DEF CampaignInv

\* A beat of the heart, and its absence, touch nothing else.
LEMMA HeartbeatKeeps ==
  ASSUME CampaignInv, (\E s \in Senders : Beat(s)) \/ HeartbeatStops
  PROVE  CampaignInv'
<1>1. /\ UNCHANGED <<recipient, remaining, sender, request, mailed, attempts, heedless,
                    creations, campaignAsks, sendMishaps>>
      /\ campaign' \in CampaignRows /\ campaign'.status = campaign.status
  BY DEF Beat, HeartbeatStops, CampaignInv, CampaignTypes, CampaignRows
<1>2. /\ PaidFor' = PaidFor /\ Pending' = Pending
      /\ \A a \in Addresses : Owed(a)' = Owed(a)
  BY <1>1 DEF PaidFor, Pending, Owed
<1> QED
  BY <1>1, <1>2
  DEF CampaignInv, CampaignTypes, BatchesFit, BudgetCovers, MailsOwed, NobodyYet, DoneIsDone, HeedsSoon

LEMMA ReplicaKeepsNobody ==
  ASSUME CampaignInv, NEW s \in Senders, SenderStep(s) \/ SenderCrash(s)
  PROVE  NobodyYet'
<1>1. UNCHANGED <<request, creations>>
  BY DEF SenderStep, SenderBoot, PauseStuck, FindReady, Activate, FindSendable, FetchBatch,
         ReserveBudget, SendEmail, Refresh, Finish, SenderCrash
<1> SUFFICES ASSUME creations = 0
             PROVE  /\ campaign'.status = "draft"
                    /\ \A r \in Rows : recipient'[r] = "absent"
                    /\ \A a \in Addresses : mailed'[a] = 0
                    /\ \A o \in Senders : sender'[o].at \in {"poll", "down"}
  BY <1>1 DEF CampaignInv, NobodyYet
<1>2. /\ campaign.status = "draft" /\ sender[s].at \in {"poll", "down"}
      /\ \A o \in Senders : sender[o].at \in {"poll", "down"}
      /\ \A r \in Rows : recipient[r] = "absent"
      /\ \A a \in Addresses : mailed[a] = 0
  BY DEF CampaignInv, NobodyYet
<1>3. SenderBoot(s) \/ SenderCrash(s)
  BY <1>2 DEF SenderStep, PauseStuck, FindReady, Activate, FindSendable, FetchBatch,
         ReserveBudget, SendEmail, Refresh, Finish
<1>4. /\ UNCHANGED <<campaign, recipient, mailed>>
      /\ \/ sender' = [sender EXCEPT ![s] = [sender[s] EXCEPT !.at = "poll"]]
         \/ sender' = [sender EXCEPT ![s] = [Polling EXCEPT !.at = "down"]]
  BY <1>2, <1>3 DEF SenderBoot, SenderCrash
<1>5. /\ [sender[s] EXCEPT !.at = "poll"] \in SenderRows /\ [sender[s] EXCEPT !.at = "poll"].at = "poll"
      /\ [Polling EXCEPT !.at = "down"] \in SenderRows /\ [Polling EXCEPT !.at = "down"].at = "down"
  <2>1. sender[s] \in SenderRows
    BY SenderBecomes DEF CampaignInv
  <2> QED
    BY <2>1 DEF SenderRows, SenderSteps, Polling
<1>6. PICK row \in SenderRows : sender' = [sender EXCEPT ![s] = row] /\ row.at \in {"poll", "down"}
  BY <1>4, <1>5
<1>7. sender'[s] = row /\ \A o \in Senders \ {s} : sender'[o] = sender[o]
  BY <1>6, SenderPut DEF CampaignInv
<1> QED
  BY <1>2, <1>4, <1>6, <1>7

\* Only a fetch that finds nobody lets a replica finish, and only a finish ends
\* the campaign.
LEMMA ReplicaKeepsDone ==
  ASSUME CampaignInv, NEW s \in Senders, SenderStep(s) \/ SenderCrash(s)
  PROVE  DoneIsDone'
<1>1. creations' = creations
  BY DEF SenderStep, SenderBoot, PauseStuck, FindReady, Activate, FindSendable, FetchBatch,
         ReserveBudget, SendEmail, Refresh, Finish, SenderCrash
<1>2. CASE SendEmail(s)
  <2> PICK r \in sender[s].batch : r \in Rows /\ Sends(s, r)
    BY <1>2, SendEmailSends DEF CampaignInv
  <2>1. PICK row \in SenderRows : sender' = [sender EXCEPT ![s] = row] /\ row.at \in {"send", "down"}
    BY SentRow DEF CampaignInv
  <2>2. sender'[s] = row /\ \A o \in Senders \ {s} : sender'[o] = sender[o]
    BY <2>1, SenderPut DEF CampaignInv
  <2>3. Pending' \subseteq Pending /\ campaign' = campaign
    BY DEF Sends, Outcome, Pending, CampaignInv, CampaignTypes
  <2> QED
    BY <1>1, <2>1, <2>2, <2>3 DEF CampaignInv, DoneIsDone
<1>3. CASE FetchBatch(s)
  <2>1. PICK row \in SenderRows :
           /\ sender' = [sender EXCEPT ![s] = row]
           /\ row.at = IF row.batch = {} THEN "finish" ELSE "reserve"
           /\ row.batch = {} => Pending = {}
    BY <1>3, FetchedRow DEF CampaignInv
  <2>2. sender'[s] = row /\ \A o \in Senders \ {s} : sender'[o] = sender[o]
    BY <2>1, SenderPut DEF CampaignInv
  <2>3. Pending' = Pending /\ campaign' = campaign
    BY <1>3 DEF FetchBatch, Pending
  <2> QED
    BY <1>1, <2>1, <2>2, <2>3 DEF CampaignInv, DoneIsDone
<1>4. CASE ~SendEmail(s) /\ ~FetchBatch(s)
  <2>1. UNCHANGED recipient
    BY <1>4 DEF SenderStep, SenderBoot, PauseStuck, FindReady, Activate, FindSendable,
                ReserveBudget, Refresh, Finish, SenderCrash
  <2>2. \/ sender' = [sender EXCEPT ![s] = Polling]
        \/ sender' = [sender EXCEPT ![s] = [Polling EXCEPT !.at = "down"]]
        \/ \E at \in SenderSteps \ {"finish"} : sender' = [sender EXCEPT ![s] = [sender[s] EXCEPT !.at = at]]
    BY <1>4 DEF SenderStep, SenderBoot, PauseStuck, FindReady, Activate, FindSendable,
                ReserveBudget, Refresh, Finish, SenderCrash, SenderSteps
  <2>3. PICK row \in SenderRows : sender' = [sender EXCEPT ![s] = row] /\ row.at # "finish"
    <3>1. /\ Polling \in SenderRows /\ Polling.at = "poll"
          /\ [Polling EXCEPT !.at = "down"] \in SenderRows /\ [Polling EXCEPT !.at = "down"].at = "down"
      BY DEF Polling, SenderRows, SenderSteps
    <3>2. \A at \in SenderSteps : /\ [sender[s] EXCEPT !.at = at] \in SenderRows
                           /\ [sender[s] EXCEPT !.at = at].at = at
      BY SenderBecomes DEF CampaignInv, SenderRows
    <3> QED
      BY <2>2, <3>1, <3>2
  <2>4. sender'[s] = row /\ \A o \in Senders \ {s} : sender'[o] = sender[o]
    BY <2>3, SenderPut DEF CampaignInv
  <2>5. campaign'.status = "sent" => campaign.status = "sent" \/ sender[s].at = "finish"
    BY <1>4 DEF SenderStep, SenderBoot, PauseStuck, FindReady, Activate, FindSendable,
                ReserveBudget, Refresh, Finish, SenderCrash, SetCampaign, CampaignInv, CampaignTypes,
                CampaignRows
  <2>6. Pending' = Pending
    BY <2>1 DEF Pending
  <2> QED
    BY <1>1, <2>3, <2>4, <2>5, <2>6 DEF CampaignInv, DoneIsDone
<1> QED
  BY <1>2, <1>3, <1>4

LEMMA ReplicaKeepsHeeding ==
  ASSUME CampaignInv, NEW s \in Senders, SenderStep(s) \/ SenderCrash(s)
  PROVE  HeedsSoon'
<1> USE DEF CampaignInv
<1>1. 0 <= SendBatchSize /\ SendBatchSize \in Nat /\ heedless \in [Senders -> Nat]
  BY CampaignAssumption DEF CampaignTypes
<1>2. CASE SendEmail(s)
  <2> PICK r \in sender[s].batch : r \in Rows /\ Sends(s, r)
    BY <1>2, SendEmailSends
  <2>1. PICK row \in SenderRows :
          /\ sender' = [sender EXCEPT ![s] = row] /\ row.at \in {"send", "down"}
          /\ row.batch \subseteq sender[s].batch \ {r}
    BY SentRow
  <2>2. sender'[s] = row /\ \A o \in Senders \ {s} : sender'[o] = sender[o]
    BY <2>1, SenderPut
  <2>3. /\ campaign' = campaign /\ sender[s].at = "send"
        /\ heedless' = [heedless EXCEPT ![s] = @ + IF campaign.status = "paused" THEN 1 ELSE 0]
    BY DEF Sends
  <2>4. /\ Cardinality(row.batch) \in Nat /\ Cardinality(sender[s].batch) \in Nat
        /\ Cardinality(row.batch) <= Cardinality(sender[s].batch) - 1
    <3>1. IsFiniteSet(sender[s].batch) /\ Cardinality(sender[s].batch) \in Nat
      BY SenderBecomes
    <3>2. IsFiniteSet(sender[s].batch \ {r})
          /\ Cardinality(sender[s].batch \ {r}) = Cardinality(sender[s].batch) - 1
      BY <3>1, FS_RemoveElement
    <3> QED
      BY <2>1, <3>1, <3>2, FS_Subset, FS_CardinalityType
  <2>5. heedless[s] + Cardinality(sender[s].batch) <= SendBatchSize
    BY <2>3 DEF HeedsSoon
  <2>6. heedless'[s] \in Nat /\ heedless'[s] <= heedless[s] + 1
        /\ (campaign.status # "paused" => heedless'[s] = heedless[s])
    BY <1>1, <2>3
  <2>7. heedless'[s] + Cardinality(row.batch) <= SendBatchSize /\ heedless'[s] <= SendBatchSize
    BY <1>1, <2>4, <2>5, <2>6
  <2>8. \A o \in Senders \ {s} : heedless'[o] = heedless[o]
    BY <1>1, <2>3
  <2> QED
    BY <2>1, <2>2, <2>3, <2>6, <2>7, <2>8 DEF HeedsSoon
<1>3. CASE FetchBatch(s)
  <2>1. PICK row \in SenderRows :
           /\ sender' = [sender EXCEPT ![s] = row]
           /\ row.at = IF row.batch = {} THEN "finish" ELSE "reserve"
    BY <1>3, FetchedRow
  <2>2. sender'[s] = row /\ \A o \in Senders \ {s} : sender'[o] = sender[o]
    BY <2>1, SenderPut
  <2>3. UNCHANGED <<campaign, heedless>> /\ sender[s].at = "fetch"
    BY <1>3 DEF FetchBatch
  <2> QED
    BY <2>1, <2>2, <2>3 DEF HeedsSoon
<1>4. CASE ReserveBudget(s) /\ Affordable(Cardinality(sender[s].batch))
  <2> DEFINE row == [sender[s] EXCEPT !.at = "send"]
  <2>1. row \in SenderRows /\ row.batch = sender[s].batch /\ row.at = "send"
    <3>1. row \in SenderRows
      BY SenderBecomes DEF SenderSteps
    <3>2. row.batch = sender[s].batch /\ row.at = "send"
      BY SenderBecomes DEF SenderRows
    <3> QED
      BY <3>1, <3>2
  <2>2. /\ UNCHANGED <<campaign, heedless>> /\ sender[s].at = "reserve"
        /\ sender' = [sender EXCEPT ![s] = row]
    BY <1>4 DEF ReserveBudget
  <2> HIDE DEF row
  <2>3. sender'[s] = row /\ \A o \in Senders \ {s} : sender'[o] = sender[o]
    BY <2>1, <2>2, SenderPut
  <2>4. heedless[s] = 0 /\ Cardinality(sender[s].batch) <= SendBatchSize
        /\ Cardinality(sender[s].batch) \in Nat
    BY <2>2, SenderBecomes DEF HeedsSoon, BatchesFit
  <2> QED
    BY <1>1, <2>1, <2>2, <2>3, <2>4 DEF HeedsSoon
<1>5. CASE \/ SenderBoot(s) \/ PauseStuck(s) \/ FindReady(s) \/ Activate(s) \/ FindSendable(s)
           \/ Refresh(s) \/ Finish(s) \/ SenderCrash(s)
           \/ ReserveBudget(s) /\ ~Affordable(Cardinality(sender[s].batch))
  <2>1. \/ sender' = [sender EXCEPT ![s] = Polling]
        \/ sender' = [sender EXCEPT ![s] = [Polling EXCEPT !.at = "down"]]
        \/ \E at \in SenderSteps \ {"send", "reserve"} :
             /\ sender' = [sender EXCEPT ![s] = [sender[s] EXCEPT !.at = at]]
             /\ at = "fetch" => campaign.status # "paused" /\ UNCHANGED <<campaign, heedless>>
    BY <1>5 DEF SenderBoot, PauseStuck, FindReady, Activate, FindSendable, Refresh, StoppedByUser,
                ReserveBudget, Finish, SenderCrash, SenderSteps
  <2>2. PICK row \in SenderRows :
          /\ sender' = [sender EXCEPT ![s] = row] /\ row.at \notin {"send", "reserve"}
          /\ row.at = "fetch" => campaign.status # "paused" /\ UNCHANGED <<campaign, heedless>>
    <3>1. /\ Polling \in SenderRows /\ Polling.at = "poll"
          /\ [Polling EXCEPT !.at = "down"] \in SenderRows /\ [Polling EXCEPT !.at = "down"].at = "down"
      BY DEF Polling, SenderRows, SenderSteps
    <3>2. \A at \in SenderSteps : /\ [sender[s] EXCEPT !.at = at] \in SenderRows
                           /\ [sender[s] EXCEPT !.at = at].at = at
      BY SenderBecomes DEF SenderRows
    <3> QED
      BY <2>1, <3>1, <3>2
  <2>3. sender'[s] = row /\ \A o \in Senders \ {s} : sender'[o] = sender[o]
    BY <2>2, SenderPut
  <2>4. \/ UNCHANGED <<campaign, heedless>>
        \/ heedless' = heedless /\ campaign'.status = "paused"
        \/ heedless' = [o \in Senders |-> 0]
    BY <1>5 DEF SenderBoot, PauseStuck, FindReady, Activate, FindSendable, Refresh, SetCampaign,
                ReserveBudget, Finish, SenderCrash, CampaignTypes, CampaignRows
  <2>5. ASSUME NEW o \in Senders
        PROVE  Cardinality(sender[o].batch) <= SendBatchSize /\ Cardinality(sender[o].batch) \in Nat
    BY SenderBecomes DEF BatchesFit
  <2> QED
    BY <1>1, <2>2, <2>3, <2>4, <2>5 DEF HeedsSoon
<1> QED
  BY <1>2, <1>3, <1>4, <1>5 DEF SenderStep

LEMMA ReplicaKeeps ==
  ASSUME CampaignInv, NEW s \in Senders, SenderStep(s) \/ SenderCrash(s)
  PROVE  CampaignInv'
<1>1. CampaignTypes'
  BY SendersKeepTypes DEF CampaignInv
<1>2. BatchesFit' /\ BudgetCovers' /\ MailsOwed'
  <2> USE DEF CampaignInv
  <2>1. CASE SendEmail(s)
    BY <2>1, SendEmailSends, SendKeeps
  <2>2. CASE FetchBatch(s)
    BY <2>2, FetchKeeps
  <2>3. CASE ReserveBudget(s) /\ Affordable(Cardinality(sender[s].batch))
    BY <2>3, ReserveKeeps
  <2>4. CASE \/ SenderBoot(s) \/ PauseStuck(s) \/ FindReady(s) \/ Activate(s) \/ FindSendable(s)
             \/ Refresh(s) \/ Finish(s) \/ SenderCrash(s)
             \/ ReserveBudget(s) /\ ~Affordable(Cardinality(sender[s].batch))
    BY <2>4, EmptyHandedKeeps
  <2> QED
    BY <2>1, <2>2, <2>3, <2>4 DEF SenderStep
<1> QED
  BY <1>1, <1>2, ReplicaKeepsNobody, ReplicaKeepsDone, ReplicaKeepsHeeding DEF CampaignInv

LEMMA CampaignStutters ==
  ASSUME CampaignInv, UNCHANGED campaignVars
  PROVE  CampaignInv'
<1>1. /\ PaidFor' = PaidFor /\ Pending' = Pending
      /\ \A a \in Addresses : Owed(a)' = Owed(a)
  BY DEF campaignVars, PaidFor, Pending, Owed
<1> QED
  BY <1>1
  DEF campaignVars, CampaignInv, CampaignTypes, BatchesFit, BudgetCovers, MailsOwed, NobodyYet,
      DoneIsDone, HeedsSoon

\* Mails stay within the replicas and the mishaps, whatever is still owed.
LEMMA CampaignInvSafe == CampaignInv => CampaignSafe
<1> SUFFICES ASSUME CampaignInv PROVE CampaignSafe
  OBVIOUS
<1> USE DEF CampaignInv
<1>1. WithinAllotment
  <2>1. Cardinality(PaidFor) \in Nat
    BY RowsFinite, FS_Subset, FS_CardinalityType DEF PaidFor
  <2> QED
    BY <2>1, CampaignAssumption DEF BudgetCovers, WithinAllotment, CampaignTypes
<1>2. SentMeansDone
  BY DEF DoneIsDone, SentMeansDone
<1>3. MailedOnce
  <2> SUFFICES ASSUME NEW a \in Addresses
               PROVE  mailed[a] <= creations * (Cardinality(Senders) + sendMishaps)
    BY DEF MailedOnce
  <2> DEFINE k == Cardinality(Senders)
             n == Cardinality(Owed(a))
  <2>1. /\ k \in Nat /\ n \in Nat /\ creations \in Nat /\ mailed[a] \in Nat /\ sendMishaps \in Nat
    BY OwedFinite, RowsFinite DEF CampaignTypes
  <2>2. mailed[a] + n <= creations * k + sendMishaps
    BY DEF MailsOwed
  <2>3. creations = 0 => mailed[a] = 0
    BY DEF NobodyYet
  <2> HIDE DEF k, n
  <2>4. creations * (k + sendMishaps) = creations * k + creations * sendMishaps
    BY <2>1
  <2>5. CASE creations = 0
    <3>1. creations * (k + sendMishaps) = 0
      BY <2>1, <2>5
    <3> QED
      BY <2>1, <2>3, <2>5, <3>1 DEF k
  <2>6. CASE creations # 0
    <3>1. creations * sendMishaps >= sendMishaps /\ creations * sendMishaps \in Nat /\ creations * k \in Nat
      <4>1. creations - 1 \in Nat /\ creations = (creations - 1) + 1
        BY <2>1, <2>6
      <4>2. (creations - 1) * sendMishaps \in Nat
        BY <2>1, <4>1
      <4>3. creations * sendMishaps = (creations - 1) * sendMishaps + sendMishaps
        BY <2>1, <4>1
      <4>4. creations * k \in Nat
        BY <2>1
      <4> QED
        BY <2>1, <4>2, <4>3, <4>4
    <3>2. mailed[a] <= creations * (k + sendMishaps)
      BY <2>1, <2>2, <2>4, <3>1
    <3> QED
      BY <3>2 DEF k
  <2> QED
    BY <2>5, <2>6
<1>4. PauseHeeded
  BY DEF HeedsSoon, PauseHeeded
<1> QED
  BY <1>1, <1>2, <1>3, <1>4 DEF CampaignSafe

\* However many replicas dispatch a campaign, nothing is sent that the budget
\* does not cover, 'sent' means everybody was tried, nobody is mailed more
\* often than there are replicas and mishaps, and a pause is heeded within a
\* batch (internal/campaign: send_worker.go and repository.go).
THEOREM CampaignIsSafe == CampaignSpec => []CampaignSafe
<1>1. CampaignInit => CampaignInv
  BY CampaignInitInv
<1>2. CampaignInv /\ [CampaignNext]_campaignVars => CampaignInv'
  <2> SUFFICES ASSUME CampaignInv, [CampaignNext]_campaignVars PROVE CampaignInv'
    OBVIOUS
  <2>1. CASE \E kind \in {"schedule", "send", "pause", "resume"} : CampaignRequest(kind)
    BY <2>1, RequestsKeep
  <2>2. CASE \E q \in request : CountRecipients(q) \/ SaveCampaign(q)
    BY <2>2, RequestsKeep
  <2>3. CASE \E q \in request : CreateRecipients(q)
    BY <2>3, CreateKeepsInv
  <2>4. CASE \E s \in Senders : SenderStep(s) \/ SenderCrash(s)
    BY <2>4, ReplicaKeeps
  <2>5. CASE (\E s \in Senders : Beat(s)) \/ HeartbeatStops
    BY <2>5, HeartbeatKeeps
  <2>6. CASE UNCHANGED campaignVars
    BY <2>6, CampaignStutters
  <2> QED
    BY <2>1, <2>2, <2>3, <2>4, <2>5, <2>6 DEF CampaignNext
<1> QED
  BY <1>1, <1>2, CampaignInvSafe, PTL DEF CampaignSpec

-----------------------------------------------------------------------------
(* Trials *)

InLock == {"stripe", "update", "write"}
InKey == {"load", "release", "complete"} \union InLock
ExtensionSteps == {"new", "lookup", "over"} \union InKey
KeyRows == [state : {"free", "reserved", "done"}, answer : Nat, expired : BOOLEAN]

TrialTypes ==
  /\ today \in Nat /\ trialMishaps \in Nat /\ listed \in BOOLEAN /\ overlapped \in BOOLEAN
  /\ trial \in [status : {"trialing", "expired"}, end : Nat, billed : Plans \union {NoPlan}]
  /\ stripe \in [Plans -> [status : {"none", "trialing", "active"}, end : Nat]]
  /\ idemKey \in [ExtensionKeys -> KeyRows] /\ worked \in [ExtensionKeys -> Nat]
  /\ extension \in [Extensions -> [at : ExtensionSteps, answer : Nat]]
  /\ joining \in [Joins -> [at : {"new", "create", "persist", "over"}, end : Nat]]

\* A request at work has its key to itself, reserved and unexpired; a key that
\* is free has done no work, and one that has an answer has a committed one.
KeyHeld ==
  /\ \A x \in Extensions : extension[x].at \in InKey =>
       LET k == ExtensionKey[x] IN
       /\ idemKey[k].state = "reserved" /\ ~idemKey[k].expired
       /\ \A y \in Extensions : ExtensionKey[y] = k /\ extension[y].at \in InKey => y = x
       /\ IF extension[x].at = "complete" THEN <<k, Target[x]>> \in granted ELSE worked[k] = 0
  /\ \A k \in ExtensionKeys :
       /\ idemKey[k].state = "free" => worked[k] = 0
       /\ idemKey[k].state = "done" => <<k, idemKey[k].answer>> \in granted

\* Extend holds the row alone, on a trial that is still running.
RowHeld ==
  /\ \A x, y \in Extensions : extension[x].at \in InLock /\ extension[y].at \in InLock => x = y
  /\ \A x \in Extensions : extension[x].at \in InLock =>
       trial.status = "trialing" /\ trial.end > today /\ Target[x] > today

\* What Stripe has for the plan the trial is billed under is never behind what
\* an extension is about to write.
StripeAhead ==
  /\ trial.billed # NoPlan => stripe[trial.billed].status # "none"
  /\ \A x \in Extensions :
       /\ extension[x].at \in {"stripe", "update"} => trial.billed # NoPlan
       /\ extension[x].at = "update" => Target[x] > stripe[trial.billed].end
       /\ extension[x].at = "write" /\ trial.billed # NoPlan => stripe[trial.billed].end >= Target[x]

\* What a subscribe request has read is still so, unless an extension
\* overlapped it; what it has made at Stripe is there.
JoinsCurrent ==
  \A m \in Joins :
    /\ joining[m].at \in {"create", "persist"} =>
         /\ ~overlapped => joining[m].end = trial.end
         /\ joining[m].end > today => trial.end > today
    /\ joining[m].at = "persist" =>
         /\ joining[m].end > today
         /\ stripe[PlanOf[m]].status # "none" /\ stripe[PlanOf[m]].end >= joining[m].end

\* The cron takes what ended without a card, and nothing brings it back.
LapsedStays ==
  listed \/ trial.status = "expired" => trial.end < today /\ trial.billed = NoPlan

TrialInv ==
  /\ TrialTypes /\ KeyHeld /\ RowHeld /\ StripeAhead /\ JoinsCurrent /\ LapsedStays
  /\ ExtendedOnce /\ BilledNoEarlier

LEMMA KeysAndPlans ==
  /\ \A x \in Extensions : ExtensionKey[x] \in ExtensionKeys
  /\ \A m \in Joins : PlanOf[m] \in Plans
BY DEF ExtensionKeys, Plans

\* A step of one request leaves the others where they are.
LEMMA MovesOnMoves ==
  ASSUME TrialTypes, NEW x \in Extensions, NEW at \in ExtensionSteps, MovesOn(x, at)
  PROVE  /\ extension' \in [Extensions -> [at : ExtensionSteps, answer : Nat]]
         /\ extension'[x].at = at /\ extension'[x].answer = extension[x].answer
         /\ \A y \in Extensions \ {x} : extension'[y] = extension[y]
BY DEF TrialTypes, MovesOn

LEMMA AnswersMoves ==
  ASSUME TrialTypes, NEW x \in Extensions, NEW answer \in Nat, Answers(x, answer)
  PROVE  /\ extension' \in [Extensions -> [at : ExtensionSteps, answer : Nat]]
         /\ extension'[x].at = "over" /\ extension'[x].answer = answer
         /\ \A y \in Extensions \ {x} : extension'[y] = extension[y]
BY DEF TrialTypes, Answers, ExtensionSteps

LEMMA ReserveKeyKeeps ==
  ASSUME TrialInv, NEW x \in Extensions, ReserveKey(x)
  PROVE  TrialInv'
<1> USE DEF TrialInv
<1> DEFINE k == ExtensionKey[x]
<1>1. /\ extension[x].at = "new" /\ k \in ExtensionKeys
      /\ UNCHANGED <<today, trial, stripe, joining, listed, worked, granted, overlapped, trialMishaps>>
  BY KeysAndPlans DEF ReserveKey
<1>2. /\ extension' \in [Extensions -> [at : ExtensionSteps, answer : Nat]]
      /\ extension'[x].answer = extension[x].answer
      /\ \A y \in Extensions \ {x} : extension'[y] = extension[y]
      /\ \/ /\ idemKey[k].state = "free" /\ extension'[x].at = "load"
            /\ idemKey' = [idemKey EXCEPT ![k] = [Free EXCEPT !.state = "reserved"]]
         \/ extension'[x].at = "lookup" /\ UNCHANGED idemKey
  <2>1. "load" \in ExtensionSteps /\ "lookup" \in ExtensionSteps
    BY DEF ExtensionSteps, InKey
  <2>2. CASE Claimable(k)
    BY <2>1, <2>2, MovesOnMoves DEF ReserveKey, Claimable
  <2>3. CASE ~Claimable(k)
    BY <2>1, <2>3, MovesOnMoves DEF ReserveKey
  <2> QED
    BY <2>2, <2>3
<1>3. [Free EXCEPT !.state = "reserved"] \in KeyRows
      /\ [Free EXCEPT !.state = "reserved"].state = "reserved" /\ ~[Free EXCEPT !.state = "reserved"].expired
  BY DEF Free, KeyRows, NoAnswer
<1>4. TrialTypes'
  <2>1. idemKey' \in [ExtensionKeys -> KeyRows]
    BY <1>2, <1>3 DEF TrialTypes
  <2> QED
    BY <1>1, <1>2, <2>1 DEF TrialTypes
<1>5. KeyHeld'
  <2>1. CASE extension'[x].at = "lookup"
    BY <1>1, <1>2, <2>1 DEF KeyHeld, InKey, InLock
  <2>2. CASE idemKey[k].state = "free" /\ extension'[x].at = "load"
    <3>1. /\ idemKey'[k].state = "reserved" /\ ~idemKey'[k].expired
          /\ \A l \in ExtensionKeys \ {k} : idemKey'[l] = idemKey[l]
      BY <1>1, <1>2, <1>3, <2>2 DEF TrialTypes
    <3>2. \A y \in Extensions : ExtensionKey[y] = k => extension[y].at \notin InKey
      BY <2>2 DEF KeyHeld
    <3>3. worked[k] = 0
      BY <1>1, <2>2 DEF KeyHeld
    <3> QED
      BY <1>1, <1>2, <2>2, <3>1, <3>2, <3>3 DEF KeyHeld, ExtensionKeys
  <2> QED
    BY <1>2, <2>1, <2>2
<1>6. RowHeld' /\ StripeAhead'
  BY <1>1, <1>2 DEF RowHeld, StripeAhead, InLock
<1>7. JoinsCurrent' /\ LapsedStays' /\ BilledNoEarlier'
  BY <1>1 DEF JoinsCurrent, LapsedStays, BilledNoEarlier
<1>8. ExtendedOnce'
  BY <1>1, <1>2 DEF ExtendedOnce
<1> QED
  BY <1>4, <1>5, <1>6, <1>7, <1>8

LEMMA LookupKeyKeeps ==
  ASSUME TrialInv, NEW x \in Extensions, LookupKey(x)
  PROVE  TrialInv'
<1> USE DEF TrialInv
<1> DEFINE row == idemKey[ExtensionKey[x]]
           answer == IF row.state = "done" /\ ~row.expired THEN row.answer ELSE NoAnswer
<1>1. /\ UNCHANGED <<today, trial, stripe, idemKey, joining, listed, worked, granted,
                     overlapped, trialMishaps>>
      /\ Answers(x, answer)
  BY DEF LookupKey
<1>2. answer \in Nat /\ (answer # NoAnswer => <<ExtensionKey[x], answer>> \in granted)
  <2>1. row \in KeyRows /\ ExtensionKey[x] \in ExtensionKeys
    BY DEF TrialTypes, ExtensionKeys
  <2> QED
    BY <2>1 DEF KeyHeld, KeyRows, NoAnswer
<1> HIDE DEF answer
<1>3. /\ extension' \in [Extensions -> [at : ExtensionSteps, answer : Nat]]
      /\ extension'[x].at = "over" /\ extension'[x].answer = answer
      /\ \A y \in Extensions \ {x} : extension'[y] = extension[y]
  BY <1>1, <1>2, AnswersMoves
<1>4. TrialTypes'
  BY <1>1, <1>3 DEF TrialTypes
<1>5. KeyHeld' /\ RowHeld' /\ StripeAhead'
  BY <1>1, <1>3 DEF KeyHeld, RowHeld, StripeAhead, InKey, InLock
<1>6. JoinsCurrent' /\ LapsedStays' /\ BilledNoEarlier'
  BY <1>1 DEF JoinsCurrent, LapsedStays, BilledNoEarlier
<1>7. ExtendedOnce'
  BY <1>1, <1>2, <1>3 DEF ExtendedOnce
<1> QED
  BY <1>4, <1>5, <1>6, <1>7

\* A request that goes on, without a word to the key or the ledger of grants.
LEMMA KeyKept ==
  ASSUME TrialTypes, KeyHeld, ExtendedOnce, NEW x \in Extensions, NEW at \in InKey \ {"complete"},
         extension[x].at \in InKey \ {"complete"}, MovesOn(x, at), UNCHANGED <<idemKey, worked, granted>>
  PROVE  KeyHeld' /\ ExtendedOnce'
<1>1. at \in ExtensionSteps
  BY DEF ExtensionSteps
<1>2. /\ extension'[x].at = at /\ extension'[x].answer = extension[x].answer
      /\ \A y \in Extensions \ {x} : extension'[y] = extension[y]
  BY <1>1, MovesOnMoves
<1>3. ExtendedOnce'
  BY <1>2 DEF ExtendedOnce
<1>4. \A y \in Extensions : /\ extension'[y].at \in InKey => extension[y].at \in InKey
                            /\ extension'[y].at = "complete" <=> extension[y].at = "complete"
  BY <1>2
<1>5. KeyHeld'
  BY <1>4 DEF KeyHeld
<1> QED
  BY <1>3, <1>5

LEMMA LoadTrialKeeps ==
  ASSUME TrialInv, NEW x \in Extensions, LoadTrial(x)
  PROVE  TrialInv'
<1> USE DEF TrialInv
<1>1. /\ extension[x].at = "load" /\ \A y \in Extensions : extension[y].at \notin InLock
      /\ UNCHANGED <<today, trial, stripe, idemKey, joining, listed, worked, granted,
                     overlapped, trialMishaps>>
  BY DEF LoadTrial, RowLocked, InLock
<1>2. PICK at \in {"release", "write", "stripe"} :
        /\ MovesOn(x, at)
        /\ at # "release" => trial.status = "trialing" /\ trial.end > today /\ Target[x] > today
        /\ at = "write" => trial.billed = NoPlan
        /\ at = "stripe" => trial.billed # NoPlan
  BY DEF LoadTrial, Extendable
<1>3. /\ extension' \in [Extensions -> [at : ExtensionSteps, answer : Nat]]
      /\ extension'[x].at = at /\ \A y \in Extensions \ {x} : extension'[y] = extension[y]
  BY <1>2, MovesOnMoves DEF ExtensionSteps, InKey, InLock
<1>4. TrialTypes'
  BY <1>1, <1>3 DEF TrialTypes
<1>5. KeyHeld' /\ ExtendedOnce'
  BY <1>1, <1>2, KeyKept DEF InKey, InLock
<1>6. RowHeld' /\ StripeAhead'
  BY <1>1, <1>2, <1>3 DEF RowHeld, StripeAhead, InLock
<1>7. JoinsCurrent' /\ LapsedStays' /\ BilledNoEarlier'
  BY <1>1 DEF JoinsCurrent, LapsedStays, BilledNoEarlier
<1> QED
  BY <1>4, <1>5, <1>6, <1>7

LEMMA CheckStripeKeeps ==
  ASSUME TrialInv, NEW x \in Extensions, CheckStripe(x)
  PROVE  TrialInv'
<1> USE DEF TrialInv
<1>1. /\ extension[x].at = "stripe"
      /\ UNCHANGED <<today, trial, stripe, idemKey, joining, listed, worked, granted,
                     overlapped, trialMishaps>>
  BY DEF CheckStripe
<1>2. PICK at \in {"release", "update"} :
        MovesOn(x, at) /\ (at = "update" => Target[x] > stripe[trial.billed].end)
  BY DEF CheckStripe, AfterStripeEnd
<1>3. /\ extension' \in [Extensions -> [at : ExtensionSteps, answer : Nat]]
      /\ extension'[x].at = at /\ \A y \in Extensions \ {x} : extension'[y] = extension[y]
  BY <1>2, MovesOnMoves DEF ExtensionSteps, InKey, InLock
<1>4. TrialTypes'
  BY <1>1, <1>3 DEF TrialTypes
<1>5. KeyHeld' /\ ExtendedOnce'
  BY <1>1, <1>2, KeyKept DEF InKey, InLock
<1>6. RowHeld' /\ StripeAhead'
  BY <1>1, <1>2, <1>3 DEF RowHeld, StripeAhead, InLock
<1>7. JoinsCurrent' /\ LapsedStays' /\ BilledNoEarlier'
  BY <1>1 DEF JoinsCurrent, LapsedStays, BilledNoEarlier
<1> QED
  BY <1>4, <1>5, <1>6, <1>7

\* The end at Stripe moves later: whoever has compared with it stays ahead.
LEMMA UpdateTrialEndKeeps ==
  ASSUME TrialInv, NEW x \in Extensions, UpdateTrialEnd(x)
  PROVE  TrialInv'
<1> USE DEF TrialInv
<1> DEFINE p == trial.billed
<1>1. /\ extension[x].at = "update" /\ p # NoPlan /\ p \in Plans
      /\ Target[x] > stripe[p].end /\ Target[x] \in Nat
      /\ UNCHANGED <<today, trial, idemKey, joining, listed, worked, granted, overlapped>>
      /\ trialMishaps' \in {trialMishaps, trialMishaps + 1}
  BY TrialAssumption DEF UpdateTrialEnd, TrialMishap, StripeAhead, TrialTypes
<1>2. PICK at \in {"release", "write"} :
        /\ MovesOn(x, at)
        /\ \/ stripe' = [stripe EXCEPT ![p].end = Target[x]]
           \/ at = "release" /\ UNCHANGED stripe
  BY DEF UpdateTrialEnd
<1>3. /\ extension' \in [Extensions -> [at : ExtensionSteps, answer : Nat]]
      /\ extension'[x].at = at /\ \A y \in Extensions \ {x} : extension'[y] = extension[y]
  BY <1>2, MovesOnMoves DEF ExtensionSteps, InKey, InLock
<1>4. /\ stripe' \in [Plans -> [status : {"none", "trialing", "active"}, end : Nat]]
      /\ \A q \in Plans : stripe'[q].status = stripe[q].status /\ stripe'[q].end >= stripe[q].end
      /\ at = "write" => stripe'[p].end = Target[x]
  BY <1>1, <1>2 DEF TrialTypes
<1>5. TrialTypes'
  <2>1. trialMishaps' \in Nat
    BY <1>1 DEF TrialTypes
  <2> QED
    BY <1>1, <1>3, <1>4, <2>1 DEF TrialTypes
<1>6. KeyHeld' /\ ExtendedOnce'
  BY <1>1, <1>2, KeyKept DEF InKey, InLock
<1>7. RowHeld'
  BY <1>1, <1>2, <1>3 DEF RowHeld, InLock
<1>8. StripeAhead'
  <2>1. \A y \in Extensions \ {x} : extension[y].at \notin InLock
    BY <1>1 DEF RowHeld, InLock
  <2>2. stripe'[p].status # "none"
    BY <1>1, <1>4 DEF StripeAhead
  <2> QED
    BY <1>1, <1>2, <1>3, <1>4, <2>1, <2>2 DEF StripeAhead, InLock
<1>9. JoinsCurrent'
  <2>1. ASSUME NEW m \in Joins, joining[m].at = "persist"
        PROVE  stripe'[PlanOf[m]].status # "none" /\ stripe'[PlanOf[m]].end >= joining[m].end
    <3>1. PlanOf[m] \in Plans
      BY DEF Plans
    <3>2. stripe[PlanOf[m]].status # "none" /\ stripe[PlanOf[m]].end >= joining[m].end
      BY <2>1 DEF JoinsCurrent
    <3>3. joining[m].end \in Nat /\ stripe[PlanOf[m]].end \in Nat /\ stripe'[PlanOf[m]].end \in Nat
      BY <1>4, <3>1 DEF TrialTypes
    <3> QED
      BY <1>4, <3>1, <3>2, <3>3
  <2> QED
    BY <1>1, <2>1 DEF JoinsCurrent
<1>10. LapsedStays' /\ BilledNoEarlier'
  <2>1. stripe[p].end \in Nat /\ stripe'[p].end \in Nat /\ trial.end \in Nat
    BY <1>1, <1>4 DEF TrialTypes
  <2> QED
    BY <1>1, <1>4, <2>1 DEF LapsedStays, BilledNoEarlier
<1> QED
  BY <1>5, <1>6, <1>7, <1>8, <1>9, <1>10

\* The one write of the local end, under the lock of its row.
LEMMA WriteTrialEndKeeps ==
  ASSUME TrialInv, NEW x \in Extensions, WriteTrialEnd(x)
  PROVE  TrialInv'
<1> USE DEF TrialInv
<1> DEFINE k == ExtensionKey[x]
<1>1. /\ extension[x].at = "write" /\ k \in ExtensionKeys /\ Target[x] \in Nat
      /\ trial.status = "trialing" /\ trial.end > today /\ Target[x] > today /\ ~listed
      /\ UNCHANGED <<today, stripe, idemKey, joining, listed>>
  <2>1. extension[x].at = "write" /\ UNCHANGED <<today, stripe, idemKey, joining, listed>>
    BY DEF WriteTrialEnd
  <2>2. trial.status = "trialing" /\ trial.end > today /\ Target[x] > today
    BY <2>1 DEF RowHeld, InLock
  <2>3. ~listed
    BY <2>2 DEF LapsedStays, TrialTypes
  <2> QED
    BY <2>1, <2>2, <2>3, TrialAssumption, KeysAndPlans
<1>2. CASE MovesOn(x, "release") /\ TrialMishap /\ UNCHANGED <<trial, worked, granted, overlapped>>
  <2>1. /\ extension' \in [Extensions -> [at : ExtensionSteps, answer : Nat]]
        /\ extension'[x].at = "release" /\ \A y \in Extensions \ {x} : extension'[y] = extension[y]
    BY <1>2, MovesOnMoves DEF ExtensionSteps, InKey, InLock
  <2>2. TrialTypes'
    BY <1>1, <1>2, <2>1 DEF TrialTypes, TrialMishap
  <2>3. KeyHeld' /\ ExtendedOnce'
    BY <1>1, <1>2, KeyKept DEF InKey, InLock
  <2>4. RowHeld' /\ StripeAhead'
    BY <1>1, <1>2, <2>1 DEF RowHeld, StripeAhead, InLock
  <2>5. JoinsCurrent' /\ LapsedStays' /\ BilledNoEarlier'
    BY <1>1, <1>2 DEF JoinsCurrent, LapsedStays, BilledNoEarlier
  <2> QED
    BY <2>2, <2>3, <2>4, <2>5
<1>3. CASE /\ trial' = [trial EXCEPT !.end = Target[x]]
           /\ worked' = [worked EXCEPT ![k] = @ + 1]
           /\ granted' = granted \union {<<k, Target[x]>>}
           /\ overlapped' = (overlapped \/ AdvisoryHeld)
           /\ MovesOn(x, "complete") /\ UNCHANGED trialMishaps
  <2>1. /\ extension' \in [Extensions -> [at : ExtensionSteps, answer : Nat]]
        /\ extension'[x].at = "complete" /\ extension'[x].answer = extension[x].answer
        /\ \A y \in Extensions \ {x} : extension'[y] = extension[y]
    BY <1>3, MovesOnMoves DEF ExtensionSteps, InKey, InLock
  <2>2. /\ trial' \in [status : {"trialing", "expired"}, end : Nat, billed : Plans \union {NoPlan}]
        /\ trial'.end = Target[x] /\ trial'.billed = trial.billed /\ trial'.status = "trialing"
    BY <1>1, <1>3 DEF TrialTypes
  <2>3. /\ worked' \in [ExtensionKeys -> Nat] /\ worked'[k] = worked[k] + 1
        /\ \A l \in ExtensionKeys \ {k} : worked'[l] = worked[l]
    BY <1>1, <1>3 DEF TrialTypes
  <2>4. TrialTypes'
    <3>1. overlapped' \in BOOLEAN
      BY <1>3 DEF AdvisoryHeld, TrialTypes
    <3> QED
      BY <1>1, <1>3, <2>1, <2>2, <2>3, <3>1 DEF TrialTypes
  <2>5. /\ worked[k] = 0 /\ idemKey[k].state = "reserved" /\ ~idemKey[k].expired
        /\ \A y \in Extensions \ {x} : ExtensionKey[y] = k => extension[y].at \notin InKey
    BY <1>1 DEF KeyHeld, InKey, InLock
  <2>6. KeyHeld'
    <3>1. ASSUME NEW y \in Extensions \ {x}, extension'[y].at \in InKey
          PROVE  /\ extension[y].at \in InKey /\ ExtensionKey[y] # k
                 /\ worked'[ExtensionKey[y]] = worked[ExtensionKey[y]]
      BY <2>1, <2>3, <2>5, <3>1, KeysAndPlans
    <3>2. ASSUME NEW y \in Extensions, extension'[y].at \in InKey
          PROVE  LET l == ExtensionKey[y] IN
                 /\ idemKey[l].state = "reserved" /\ ~idemKey[l].expired
                 /\ \A z \in Extensions : ExtensionKey[z] = l /\ extension'[z].at \in InKey => z = y
                 /\ IF extension'[y].at = "complete" THEN <<l, Target[y]>> \in granted'
                    ELSE worked'[l] = 0
      <4>1. CASE y = x
        BY <1>3, <2>1, <2>5, <3>1, <4>1
      <4>2. CASE y # x
        <5>1. /\ extension[y].at \in InKey /\ extension'[y] = extension[y]
              /\ ExtensionKey[y] # k /\ worked'[ExtensionKey[y]] = worked[ExtensionKey[y]]
          BY <2>1, <3>1, <3>2, <4>2
        <5>2. /\ idemKey[ExtensionKey[y]].state = "reserved" /\ ~idemKey[ExtensionKey[y]].expired
              /\ IF extension[y].at = "complete" THEN <<ExtensionKey[y], Target[y]>> \in granted
                 ELSE worked[ExtensionKey[y]] = 0
              /\ \A z \in Extensions :
                   ExtensionKey[z] = ExtensionKey[y] /\ extension[z].at \in InKey => z = y
          BY <5>1 DEF KeyHeld
        <5>3. ASSUME NEW z \in Extensions, ExtensionKey[z] = ExtensionKey[y], extension'[z].at \in InKey
              PROVE  z = y
          BY <2>1, <5>1, <5>2, <5>3
        <5> QED
          BY <1>3, <5>1, <5>2, <5>3
      <4> QED
        BY <4>1, <4>2
    <3>3. ASSUME NEW l \in ExtensionKeys
          PROVE  /\ idemKey[l].state = "free" => worked'[l] = 0
                 /\ idemKey[l].state = "done" => <<l, idemKey[l].answer>> \in granted'
      BY <1>3, <2>3, <2>5 DEF KeyHeld
    <3> QED
      BY <1>1, <3>2, <3>3 DEF KeyHeld
  <2>7. ExtendedOnce'
    BY <1>3, <2>1, <2>3, <2>5 DEF ExtendedOnce
  <2>8. RowHeld'
    BY <1>1, <2>1, <2>2 DEF RowHeld, InLock
  <2>9. StripeAhead'
    <3>1. \A y \in Extensions : extension'[y].at \notin InLock
      BY <1>1, <2>1 DEF RowHeld, InLock
    <3> QED
      BY <1>1, <2>2, <3>1 DEF StripeAhead, InLock
  <2>10. JoinsCurrent'
    <3>1. ASSUME NEW m \in Joins, joining[m].at \in {"create", "persist"} PROVE overlapped'
      BY <1>3, <3>1 DEF AdvisoryHeld
    <3> QED
      BY <1>1, <2>2, <3>1 DEF JoinsCurrent
  <2>11. LapsedStays'
    BY <1>1, <2>2 DEF LapsedStays
  <2>12. BilledNoEarlier'
    BY <1>1, <2>2 DEF StripeAhead, BilledNoEarlier
  <2> QED
    BY <2>4, <2>6, <2>7, <2>8, <2>9, <2>10, <2>11, <2>12
<1> QED
  BY <1>2, <1>3 DEF WriteTrialEnd

\* A key that its request has left, or nobody was at work under.
LEMMA KeyLeft ==
  ASSUME KeyHeld, NEW k \in ExtensionKeys,
         \A y \in Extensions : extension'[y].at \in InKey =>
           extension'[y] = extension[y] /\ ExtensionKey[y] # k,
         \A l \in ExtensionKeys \ {k} : idemKey'[l] = idemKey[l] /\ worked'[l] = worked[l],
         UNCHANGED granted,
         idemKey'[k].state = "free" => worked'[k] = 0,
         idemKey'[k].state = "done" => <<k, idemKey'[k].answer>> \in granted
  PROVE  KeyHeld'
<1>1. ASSUME NEW y \in Extensions, extension'[y].at \in InKey
      PROVE  LET l == ExtensionKey[y] IN
             /\ idemKey'[l].state = "reserved" /\ ~idemKey'[l].expired
             /\ \A z \in Extensions : ExtensionKey[z] = l /\ extension'[z].at \in InKey => z = y
             /\ IF extension'[y].at = "complete" THEN <<l, Target[y]>> \in granted'
                ELSE worked'[l] = 0
  <2> DEFINE l == ExtensionKey[y]
  <2>1. l \in ExtensionKeys \ {k} /\ extension'[y] = extension[y]
    BY <1>1, KeysAndPlans
  <2>2. idemKey'[l] = idemKey[l] /\ worked'[l] = worked[l]
    BY <2>1
  <2> QED
    BY <1>1, <2>1, <2>2 DEF KeyHeld
<1>2. ASSUME NEW l \in ExtensionKeys
      PROVE  /\ idemKey'[l].state = "free" => worked'[l] = 0
             /\ idemKey'[l].state = "done" => <<l, idemKey'[l].answer>> \in granted'
  <2>1. CASE l = k
    BY <2>1
  <2>2. CASE l # k
    BY <2>2 DEF KeyHeld
  <2> QED
    BY <2>1, <2>2
<1> QED
  BY <1>1, <1>2 DEF KeyHeld

\* Nothing of the trial moves when a request is answered.
LEMMA ReleaseKeyKeeps ==
  ASSUME TrialInv, NEW x \in Extensions, ReleaseKey(x)
  PROVE  TrialInv'
<1> USE DEF TrialInv
<1> DEFINE k == ExtensionKey[x]
<1>1. /\ extension[x].at = "release" /\ k \in ExtensionKeys
      /\ UNCHANGED <<today, trial, stripe, joining, listed, worked, granted, overlapped, trialMishaps>>
  BY KeysAndPlans DEF ReleaseKey
<1>2. /\ idemKey[k].state = "reserved" /\ worked[k] = 0
      /\ \A y \in Extensions \ {x} : ExtensionKey[y] = k => extension[y].at \notin InKey
  BY <1>1 DEF KeyHeld, InKey
<1>3. /\ extension' \in [Extensions -> [at : ExtensionSteps, answer : Nat]]
      /\ extension'[x].at = "over" /\ extension'[x].answer = NoAnswer
      /\ \A y \in Extensions \ {x} : extension'[y] = extension[y]
  BY AnswersMoves DEF ReleaseKey, NoAnswer
<1>4. /\ idemKey' \in [ExtensionKeys -> KeyRows] /\ idemKey'[k].state = "free"
      /\ \A l \in ExtensionKeys \ {k} : idemKey'[l] = idemKey[l]
  <2>1. idemKey' = [idemKey EXCEPT ![k] = Free] /\ Free \in KeyRows /\ Free.state = "free"
    BY <1>2 DEF ReleaseKey, Free, KeyRows, NoAnswer
  <2> QED
    BY <1>1, <2>1 DEF TrialTypes
<1>5. TrialTypes'
  BY <1>1, <1>3, <1>4 DEF TrialTypes
<1>6. KeyHeld'
  <2>1. ASSUME NEW y \in Extensions, extension'[y].at \in InKey
        PROVE  y # x /\ ExtensionKey[y] # k /\ extension'[y] = extension[y]
    BY <1>2, <1>3, <2>1 DEF InKey, InLock
  <2> QED
    BY <1>1, <1>2, <1>4, <2>1, KeyLeft
<1>7. RowHeld' /\ StripeAhead'
  BY <1>1, <1>3 DEF RowHeld, StripeAhead, InLock
<1>8. JoinsCurrent' /\ LapsedStays' /\ BilledNoEarlier'
  BY <1>1 DEF JoinsCurrent, LapsedStays, BilledNoEarlier
<1>9. ExtendedOnce'
  BY <1>1, <1>3 DEF ExtendedOnce
<1> QED
  BY <1>5, <1>6, <1>7, <1>8, <1>9

LEMMA CompleteKeyKeeps ==
  ASSUME TrialInv, NEW x \in Extensions, CompleteKey(x)
  PROVE  TrialInv'
<1> USE DEF TrialInv
<1> DEFINE k == ExtensionKey[x]
<1>1. /\ extension[x].at = "complete" /\ k \in ExtensionKeys /\ Target[x] \in Nat
      /\ UNCHANGED <<today, trial, stripe, joining, listed, worked, granted, overlapped>>
      /\ trialMishaps' \in Nat
  BY KeysAndPlans, TrialAssumption DEF CompleteKey, TrialMishap, TrialTypes
<1>2. /\ idemKey[k].state = "reserved" /\ <<k, Target[x]>> \in granted
      /\ \A y \in Extensions \ {x} : ExtensionKey[y] = k => extension[y].at \notin InKey
  BY <1>1 DEF KeyHeld, InKey
<1>3. /\ extension' \in [Extensions -> [at : ExtensionSteps, answer : Nat]]
      /\ extension'[x].at = "over" /\ extension'[x].answer = Target[x]
      /\ \A y \in Extensions \ {x} : extension'[y] = extension[y]
  BY <1>1, AnswersMoves DEF CompleteKey
<1>4. /\ idemKey' \in [ExtensionKeys -> KeyRows]
      /\ \/ idemKey'[k].state = "done" /\ idemKey'[k].answer = Target[x]
         \/ idemKey'[k].state = "reserved"
      /\ \A l \in ExtensionKeys \ {k} : idemKey'[l] = idemKey[l]
  <2>1. CASE UNCHANGED idemKey
    BY <1>2, <2>1 DEF TrialTypes
  <2>2. CASE ~UNCHANGED idemKey
    <3> DEFINE row == [idemKey[k] EXCEPT !.state = "done", !.answer = Target[x]]
    <3>1. idemKey' = [idemKey EXCEPT ![k] = row]
      BY <1>2, <2>2 DEF CompleteKey
    <3>2. row \in KeyRows /\ row.state = "done" /\ row.answer = Target[x]
      <4>1. idemKey[k] \in KeyRows
        BY <1>1 DEF TrialTypes
      <4> QED
        BY <1>1, <4>1 DEF KeyRows
    <3> HIDE DEF row
    <3> QED
      BY <1>1, <3>1, <3>2 DEF TrialTypes
  <2> QED
    BY <2>1, <2>2
<1>5. TrialTypes'
  BY <1>1, <1>3, <1>4 DEF TrialTypes
<1>6. KeyHeld'
  <2>1. ASSUME NEW y \in Extensions, extension'[y].at \in InKey
        PROVE  y # x /\ ExtensionKey[y] # k /\ extension'[y] = extension[y]
    BY <1>2, <1>3, <2>1 DEF InKey, InLock
  <2> QED
    BY <1>1, <1>2, <1>4, <2>1, KeyLeft
<1>7. RowHeld' /\ StripeAhead'
  BY <1>1, <1>3 DEF RowHeld, StripeAhead, InLock
<1>8. JoinsCurrent' /\ LapsedStays' /\ BilledNoEarlier'
  BY <1>1 DEF JoinsCurrent, LapsedStays, BilledNoEarlier
<1>9. ExtendedOnce'
  BY <1>1, <1>2, <1>3 DEF ExtendedOnce
<1> QED
  BY <1>5, <1>6, <1>7, <1>8, <1>9

LEMMA ExtensionDiesKeeps ==
  ASSUME TrialInv, NEW x \in Extensions, ExtensionDies(x)
  PROVE  TrialInv'
<1> USE DEF TrialInv
<1>1. /\ UNCHANGED <<today, trial, stripe, idemKey, joining, listed, worked, granted, overlapped>>
      /\ trialMishaps' \in Nat
  BY DEF ExtensionDies, TrialMishap, TrialTypes
<1>2. /\ extension' \in [Extensions -> [at : ExtensionSteps, answer : Nat]]
      /\ extension'[x].at = "over" /\ extension'[x].answer = NoAnswer
      /\ \A y \in Extensions \ {x} : extension'[y] = extension[y]
  BY AnswersMoves DEF ExtensionDies, NoAnswer
<1>3. TrialTypes'
  BY <1>1, <1>2 DEF TrialTypes
<1>4. KeyHeld' /\ RowHeld' /\ StripeAhead'
  BY <1>1, <1>2 DEF KeyHeld, RowHeld, StripeAhead, InKey, InLock
<1>5. JoinsCurrent' /\ LapsedStays' /\ BilledNoEarlier'
  BY <1>1 DEF JoinsCurrent, LapsedStays, BilledNoEarlier
<1>6. ExtendedOnce'
  BY <1>1, <1>2 DEF ExtendedOnce
<1> QED
  BY <1>3, <1>4, <1>5, <1>6

\* A key is swept only once it has expired, so nobody is at work under it.
LEMMA SweepExpiredKeeps ==
  ASSUME TrialInv, NEW k \in ExtensionKeys, SweepExpired(k)
  PROVE  TrialInv'
<1> USE DEF TrialInv
<1>1. /\ UNCHANGED <<today, trial, stripe, extension, joining, listed, granted, overlapped, trialMishaps>>
      /\ idemKey[k].expired
  BY DEF SweepExpired
<1>2. /\ idemKey' \in [ExtensionKeys -> KeyRows] /\ idemKey'[k].state = "free"
      /\ worked' \in [ExtensionKeys -> Nat] /\ worked'[k] = 0
      /\ \A l \in ExtensionKeys \ {k} : idemKey'[l] = idemKey[l] /\ worked'[l] = worked[l]
  <2>1. Free \in KeyRows /\ Free.state = "free"
    BY DEF Free, KeyRows, NoAnswer
  <2> QED
    BY <2>1 DEF SweepExpired, TrialTypes
<1>3. TrialTypes'
  BY <1>1, <1>2 DEF TrialTypes
<1>4. KeyHeld'
  <2>1. \A x \in Extensions : extension[x].at \in InKey => ExtensionKey[x] # k
    BY <1>1 DEF KeyHeld
  <2> QED
    BY <1>1, <1>2, <2>1, KeyLeft
<1>5. RowHeld' /\ StripeAhead' /\ JoinsCurrent' /\ LapsedStays' /\ BilledNoEarlier'
  BY <1>1 DEF RowHeld, StripeAhead, JoinsCurrent, LapsedStays, BilledNoEarlier
<1>6. ExtendedOnce'
  BY <1>1, <1>2 DEF ExtendedOnce
<1> QED
  BY <1>3, <1>4, <1>5, <1>6

\* What concerns the operators alone is nothing to the merchant and the cron.
LEMMA KeysUntouched ==
  ASSUME KeyHeld, ExtendedOnce, UNCHANGED <<idemKey, extension, worked, granted>>
  PROVE  KeyHeld' /\ ExtendedOnce'
BY DEF KeyHeld, ExtendedOnce

LEMMA LoadJoinKeeps ==
  ASSUME TrialInv, NEW m \in Joins, LoadJoin(m)
  PROVE  TrialInv'
<1> USE DEF TrialInv
<1>1. /\ UNCHANGED <<today, trial, stripe, idemKey, extension, listed, worked, granted,
                     overlapped, trialMishaps>>
      /\ joining' = [joining EXCEPT ![m] = [at |-> "create", end |-> trial.end]]
  BY DEF LoadJoin
<1>2. TrialTypes'
  BY <1>1 DEF TrialTypes
<1>3. JoinsCurrent'
  BY <1>1 DEF JoinsCurrent, TrialTypes
<1>4. RowHeld' /\ StripeAhead' /\ LapsedStays' /\ BilledNoEarlier'
  BY <1>1 DEF RowHeld, StripeAhead, LapsedStays, BilledNoEarlier
<1> QED
  BY <1>1, <1>2, <1>3, <1>4, KeysUntouched

\* A subscription is made where there is none, or is there already.
LEMMA CreateSubscriptionKeeps ==
  ASSUME TrialInv, NEW m \in Joins, CreateSubscription(m)
  PROVE  TrialInv'
<1> USE DEF TrialInv
<1> DEFINE p == PlanOf[m]
           wanted == [status |-> "trialing", end |-> joining[m].end]
<1>1. /\ UNCHANGED <<today, trial, idemKey, extension, listed, worked, granted, overlapped, trialMishaps>>
      /\ joining[m].at = "create" /\ p \in Plans /\ joining[m].end \in Nat
  BY KeysAndPlans DEF CreateSubscription, TrialTypes
<1>2. CASE /\ wanted.end > today /\ (stripe[p].status = "none" \/ stripe[p] = wanted)
           /\ stripe' = [stripe EXCEPT ![p] = wanted]
           /\ joining' = [joining EXCEPT ![m].at = "persist"]
  <2>1. /\ stripe' \in [Plans -> [status : {"none", "trialing", "active"}, end : Nat]]
        /\ stripe'[p].status = "trialing" /\ stripe'[p].end = joining[m].end
        /\ \A q \in Plans : stripe[q].status # "none" => stripe'[q] = stripe[q]
    BY <1>1, <1>2 DEF TrialTypes
  <2>2. /\ joining' \in [Joins -> [at : {"new", "create", "persist", "over"}, end : Nat]]
        /\ joining'[m].at = "persist" /\ joining'[m].end = joining[m].end /\ joining[m].end > today
        /\ \A n \in Joins \ {m} : joining'[n] = joining[n]
    BY <1>1, <1>2 DEF TrialTypes
  <2>3. TrialTypes'
    BY <1>1, <2>1, <2>2 DEF TrialTypes
  <2>4. JoinsCurrent'
    <3>1. ASSUME NEW n \in Joins \ {m}, joining[n].at = "persist"
          PROVE  stripe'[PlanOf[n]] = stripe[PlanOf[n]]
      BY <2>1, <3>1, KeysAndPlans DEF JoinsCurrent
    <3> QED
      BY <1>1, <2>1, <2>2, <3>1 DEF JoinsCurrent
  <2>5. trial.billed # NoPlan => trial.billed \in Plans /\ stripe'[trial.billed] = stripe[trial.billed]
    BY <2>1 DEF StripeAhead, TrialTypes
  <2>6. RowHeld' /\ StripeAhead' /\ LapsedStays' /\ BilledNoEarlier'
    BY <1>1, <2>5 DEF RowHeld, StripeAhead, LapsedStays, BilledNoEarlier
  <2> QED
    BY <1>1, <2>3, <2>4, <2>6, KeysUntouched
<1>3. CASE UNCHANGED stripe /\ joining' = [joining EXCEPT ![m].at = "over"]
  <2>1. TrialTypes' /\ JoinsCurrent'
    BY <1>1, <1>3 DEF TrialTypes, JoinsCurrent
  <2>2. RowHeld' /\ StripeAhead' /\ LapsedStays' /\ BilledNoEarlier'
    BY <1>1, <1>3 DEF RowHeld, StripeAhead, LapsedStays, BilledNoEarlier
  <2> QED
    BY <1>1, <2>1, <2>2, KeysUntouched
<1> QED
  BY <1>2, <1>3 DEF CreateSubscription

\* The card is put to a trial that has not ended, whatever the cron has listed.
LEMMA PersistJoinKeeps ==
  ASSUME TrialInv, NEW m \in Joins, PersistJoin(m)
  PROVE  TrialInv'
<1> USE DEF TrialInv
<1> DEFINE p == PlanOf[m]
<1>1. /\ UNCHANGED <<today, stripe, idemKey, extension, listed, worked, granted, overlapped, trialMishaps>>
      /\ joining[m].at = "persist" /\ p \in Plans /\ \A x \in Extensions : extension[x].at \notin InLock
      /\ trial' = [trial EXCEPT !.billed = p] /\ joining' = [joining EXCEPT ![m].at = "over"]
  BY KeysAndPlans DEF PersistJoin, RowLocked, InLock
<1>2. /\ trial' \in [status : {"trialing", "expired"}, end : Nat, billed : Plans \union {NoPlan}]
      /\ trial'.status = trial.status /\ trial'.end = trial.end /\ trial'.billed = p
  BY <1>1 DEF TrialTypes
<1>3. /\ joining' \in [Joins -> [at : {"new", "create", "persist", "over"}, end : Nat]]
      /\ joining'[m].at = "over" /\ \A n \in Joins \ {m} : joining'[n] = joining[n]
  BY <1>1 DEF TrialTypes
<1>4. /\ trial.end > today /\ stripe[p].status # "none" /\ stripe[p].end >= joining[m].end
      /\ ~overlapped => joining[m].end = trial.end
  BY <1>1 DEF JoinsCurrent
<1>5. TrialTypes'
  BY <1>1, <1>2, <1>3 DEF TrialTypes
<1>6. RowHeld' /\ StripeAhead'
  BY <1>1, <1>2, <1>4 DEF RowHeld, StripeAhead, InLock
<1>7. JoinsCurrent'
  BY <1>1, <1>2, <1>3 DEF JoinsCurrent
<1>8. LapsedStays'
  <2>1. ~listed /\ trial.status # "expired"
    BY <1>4 DEF LapsedStays, TrialTypes
  <2> QED
    BY <1>1, <1>2, <2>1 DEF LapsedStays
<1>9. BilledNoEarlier'
  BY <1>1, <1>2, <1>4 DEF BilledNoEarlier
<1> QED
  BY <1>1, <1>5, <1>6, <1>7, <1>8, <1>9, KeysUntouched

LEMMA JoinDiesKeeps ==
  ASSUME TrialInv, NEW m \in Joins, JoinDies(m)
  PROVE  TrialInv'
<1> USE DEF TrialInv
<1>1. /\ UNCHANGED <<today, trial, stripe, idemKey, extension, listed, worked, granted, overlapped>>
      /\ joining' = [joining EXCEPT ![m].at = "over"] /\ trialMishaps' \in Nat
  BY DEF JoinDies, TrialMishap, TrialTypes
<1>2. TrialTypes' /\ JoinsCurrent'
  BY <1>1 DEF TrialTypes, JoinsCurrent
<1>3. RowHeld' /\ StripeAhead' /\ LapsedStays' /\ BilledNoEarlier'
  BY <1>1 DEF RowHeld, StripeAhead, LapsedStays, BilledNoEarlier
<1> QED
  BY <1>1, <1>2, <1>3, KeysUntouched

LEMMA CronKeeps ==
  ASSUME TrialInv, ListEnded \/ ExpireTrial
  PROVE  TrialInv'
<1> USE DEF TrialInv
<1>1. UNCHANGED <<today, stripe, idemKey, extension, joining, worked, granted, overlapped, trialMishaps>>
  BY DEF ListEnded, ExpireTrial
<1>2. /\ trial' \in [status : {"trialing", "expired"}, end : Nat, billed : Plans \union {NoPlan}]
      /\ trial'.end = trial.end /\ trial'.billed = trial.billed /\ listed' \in BOOLEAN
      /\ trial' = trial \/ \A x \in Extensions : extension[x].at \notin InLock
      /\ listed' \/ trial'.status = "expired" => trial.end < today /\ trial.billed = NoPlan
  BY DEF ListEnded, ExpireTrial, EndedCardless, RowLocked, InLock, LapsedStays, TrialTypes
<1>3. TrialTypes'
  BY <1>1, <1>2 DEF TrialTypes
<1>4. RowHeld'
  BY <1>1, <1>2 DEF RowHeld
<1>5. StripeAhead' /\ JoinsCurrent' /\ LapsedStays' /\ BilledNoEarlier'
  BY <1>1, <1>2 DEF StripeAhead, JoinsCurrent, LapsedStays, BilledNoEarlier
<1> QED
  BY <1>1, <1>3, <1>4, <1>5, KeysUntouched

\* Nobody is at work at midnight.
LEMMA MidnightKeeps ==
  ASSUME TrialInv, Midnight
  PROVE  TrialInv'
<1> USE DEF TrialInv
<1>1. /\ UNCHANGED <<trial, extension, joining, listed, worked, granted, overlapped, trialMishaps>>
      /\ today' = today + 1 /\ today \in Nat /\ ~listed
      /\ \A x \in Extensions : extension[x].at \in {"new", "over"}
      /\ \A m \in Joins : joining[m].at \in {"new", "over"}
  BY DEF Midnight, Quiet, TrialTypes
<1>2. /\ stripe' \in [Plans -> [status : {"none", "trialing", "active"}, end : Nat]]
      /\ \A p \in Plans : /\ stripe'[p].end = stripe[p].end
                          /\ stripe[p].status # "none" => stripe'[p].status # "none"
  BY DEF Midnight, TrialTypes
<1>3. /\ idemKey' \in [ExtensionKeys -> KeyRows]
      /\ \A k \in ExtensionKeys : /\ idemKey'[k].state = idemKey[k].state
                                  /\ idemKey'[k].answer = idemKey[k].answer
  <2>1. ASSUME NEW k \in ExtensionKeys, NEW b \in BOOLEAN
        PROVE  /\ [idemKey[k] EXCEPT !.expired = b] \in KeyRows
               /\ [idemKey[k] EXCEPT !.expired = b].state = idemKey[k].state
               /\ [idemKey[k] EXCEPT !.expired = b].answer = idemKey[k].answer
    BY DEF TrialTypes, KeyRows
  <2> QED
    BY <2>1 DEF Midnight
<1>4. TrialTypes'
  BY <1>1, <1>2, <1>3 DEF TrialTypes
<1>5. KeyHeld' /\ ExtendedOnce'
  BY <1>1, <1>3 DEF KeyHeld, ExtendedOnce, InKey, InLock
<1>6. RowHeld' /\ JoinsCurrent'
  BY <1>1 DEF RowHeld, JoinsCurrent, InLock
<1>7. StripeAhead'
  BY <1>1, <1>2 DEF StripeAhead, TrialTypes
<1>8. LapsedStays' /\ BilledNoEarlier'
  BY <1>1, <1>2 DEF LapsedStays, BilledNoEarlier, TrialTypes
<1> QED
  BY <1>4, <1>5, <1>6, <1>7, <1>8

LEMMA TrialInitInv == TrialInit => TrialInv
<1> SUFFICES ASSUME TrialInit PROVE TrialInv
  OBVIOUS
<1>1. TrialTypes
  BY TrialAssumption DEF TrialInit, TrialTypes, KeyRows, ExtensionSteps, Free, NoAnswer
<1>2. KeyHeld /\ RowHeld
  BY DEF TrialInit, KeyHeld, RowHeld, InKey, InLock, Free
<1>3. StripeAhead /\ JoinsCurrent /\ LapsedStays /\ ExtendedOnce /\ BilledNoEarlier
  BY DEF TrialInit, StripeAhead, JoinsCurrent, LapsedStays, ExtendedOnce, BilledNoEarlier, InLock
<1> QED
  BY <1>1, <1>2, <1>3 DEF TrialInv

LEMMA TrialStepKeeps == TrialInv /\ [TrialNext]_trialVars => TrialInv'
<1> SUFFICES ASSUME TrialInv, [TrialNext]_trialVars PROVE TrialInv'
  OBVIOUS
<1>1. CASE UNCHANGED trialVars
  BY <1>1 DEF trialVars, TrialInv, TrialTypes, KeyHeld, RowHeld, StripeAhead, JoinsCurrent, LapsedStays,
              ExtendedOnce, BilledNoEarlier
<1>2. ASSUME NEW x \in Extensions, ExtensionStep(x) \/ ExtensionDies(x) PROVE TrialInv'
  BY <1>2, ReserveKeyKeeps, LookupKeyKeeps, LoadTrialKeeps, CheckStripeKeeps, UpdateTrialEndKeeps,
     WriteTrialEndKeeps, ReleaseKeyKeeps, CompleteKeyKeeps, ExtensionDiesKeeps DEF ExtensionStep
<1>3. ASSUME NEW m \in Joins, JoinStep(m) \/ JoinDies(m) PROVE TrialInv'
  BY <1>3, LoadJoinKeeps, CreateSubscriptionKeeps, PersistJoinKeeps, JoinDiesKeeps DEF JoinStep
<1> QED
  BY <1>1, <1>2, <1>3, SweepExpiredKeeps, CronKeeps, MidnightKeeps DEF TrialNext

\* However requests, retries under a key, the merchant's subscribe requests and
\* the cron interleave, a trial is extended once a request, not billed before
\* the end it shows and never expired with a card (trial/extend.go,
\* trial/subscribe.go, trial/expiry_cron.go, internal/idempotency/store.go).
THEOREM TrialIsSafe == TrialSpec => []TrialSafe
<1>1. TrialInv => TrialSafe
  BY DEF TrialInv, LapsedStays, CardKeepsTrial, TrialSafe
<1> QED
  BY <1>1, TrialInitInv, TrialStepKeeps, PTL DEF TrialSpec

\* No step brings a charge forward: an extension moves Stripe's end later than
\* the one it compared with, for the row lock keeps others from moving it.
THEOREM ChargesNeverSooner == TrialSpec => NeverSooner
<1>1. ASSUME TrialInv, TrialNext, NEW p \in Plans, stripe[p].status = "trialing"
      PROVE  stripe'[p].end >= stripe[p].end
  <2> USE DEF TrialInv
  <2>1. TrialTypes /\ stripe[p].end \in Nat
    BY <1>1 DEF TrialTypes
  <2>2. ASSUME NEW x \in Extensions, UpdateTrialEnd(x) PROVE stripe'[p].end >= stripe[p].end
    <3> DEFINE q == trial.billed
    <3>1. q \in Plans /\ Target[x] > stripe[q].end /\ Target[x] \in Nat
      <4>1. extension[x].at = "update"
        BY <2>2 DEF UpdateTrialEnd
      <4> QED
        BY <1>1, <4>1, TrialAssumption DEF StripeAhead, TrialTypes
    <3>2. stripe' = [stripe EXCEPT ![q].end = Target[x]] \/ UNCHANGED stripe
      BY <2>2 DEF UpdateTrialEnd
    <3> HIDE DEF q
    <3>3. CASE stripe' = [stripe EXCEPT ![q].end = Target[x]]
      BY <2>1, <3>1, <3>3 DEF TrialTypes
    <3>4. CASE UNCHANGED stripe
      BY <2>1, <3>4
    <3> QED
      BY <3>2, <3>3, <3>4
  <2>3. ASSUME NEW m \in Joins, CreateSubscription(m) PROVE stripe'[p].end >= stripe[p].end
    <3>1. stripe'[p] = stripe[p]
      BY <1>1, <2>3 DEF CreateSubscription, TrialInv, TrialTypes
    <3> QED
      BY <2>1, <3>1
  <2>4. CASE Midnight
    <3>1. stripe'[p].end = stripe[p].end
      BY <2>1, <2>4 DEF Midnight
    <3> QED
      BY <2>1, <3>1
  <2>5. CASE UNCHANGED stripe
    BY <2>1, <2>5
  <2> QED
    BY <1>1, <2>2, <2>3, <2>4, <2>5
    DEF TrialNext, ExtensionStep, JoinStep, ReserveKey, LookupKey, LoadTrial, CheckStripe, WriteTrialEnd,
        ReleaseKey, CompleteKey, ExtensionDies, LoadJoin, PersistJoin, JoinDies, SweepExpired, ListEnded,
        ExpireTrial
<1>2. TrialInv /\ [TrialNext]_trialVars =>
        [\A p \in Plans : stripe[p].status = "trialing" => stripe'[p].end >= stripe[p].end]_trialVars
  BY <1>1
<1> QED
  BY <1>2, TrialInitInv, TrialStepKeeps, PTL DEF TrialSpec, NeverSooner

-----------------------------------------------------------------------------
(* The subscription: its inductive invariant *)

SubRows == [status : Statuses, ends : Nat, charged : {"never", "lately", "long ago"}]
ProviderRows == [status : {"trialing", "active", "past_due", "canceled"}, atEnd : BOOLEAN, period : Nat]
Messages == [kind : {"checkout", "updated", "paid", "failed", "actionRequired", "deleted"},
             period : Nat, bad : BOOLEAN]
InboxRows == [received : Nat, attributed : BOOLEAN, processed : BOOLEAN, retries : Nat, review : BOOLEAN]
HandlingRows == [at : {"rest", "dispatch", "count", "save", "flag"}, event : Nat, row : InboxRows,
                 rest : SUBSET Nat]
AskedRows == [at : {"new", "stripe", "persist", "move", "over"}, kind : {"cancel", "accept"},
              from : Statuses, to : Statuses, ends : Nat]

BillingTypes ==
  /\ sub \in SubRows /\ provider \in ProviderRows /\ asked \in [Merchants -> AskedRows]
  /\ ended \in Nat /\ promised \in Nat
  /\ found \in {"none", "cancel_scheduled", "expired", "store_closed"}
  /\ misdated \in BOOLEAN /\ crossed \in BOOLEAN

\* Who handles an event handles one that Stripe has sent.
EventsSent ==
  /\ sent \in Seq(Messages) /\ Len(sent) <= MaxBillEvents
  /\ inbox \in [1..MaxBillEvents -> InboxRows] /\ handling \in [Handlers -> HandlingRows]
  /\ \A n \in 1..MaxBillEvents : inbox[n].received > 0 => n \in DOMAIN sent
  /\ \A h \in Handlers :
       /\ handling[h].at # "rest" => handling[h].event \in DOMAIN sent
       /\ handling[h].rest \subseteq DOMAIN sent

Asks(m, kind) == InFlight(m) /\ asked[m].kind = kind

\* Requests that never crossed are under way one at a time.
OneAtATime == ~crossed => \A m, o \in Merchants : InFlight(m) /\ InFlight(o) => m = o

\* A cancellation leads into cancel_scheduled, an accepted offer out of it.
KnowsItsWay ==
  \A m \in Merchants :
    /\ asked[m].at = "persist" => asked[m].kind = "cancel"
    /\ Asks(m, "cancel") => /\ asked[m].from \in {"active", "trialing"}
                            /\ asked[m].at # "stripe" => asked[m].to = "cancel_scheduled"
    /\ Asks(m, "accept") => /\ asked[m].from = "cancel_scheduled"
                            /\ asked[m].at # "stripe" => asked[m].to \in {"active", "trialing"}

Stopped == provider.atEnd \/ provider.status = "canceled"

\* Stripe knows of a cancellation before the row does, and of an accepted offer
\* before the row does.
StripeKnows ==
  ~crossed =>
    /\ sub.status = "cancel_scheduled" /\ ~(\E m \in Merchants : Asks(m, "accept") /\ asked[m].at # "stripe")
         => Stopped
    /\ \A m \in Merchants : Asks(m, "cancel") =>
         /\ sub.status # "cancel_scheduled"
         /\ asked[m].at # "stripe" => Stopped

\* The row, the request that is to write it and the finalize cron have no date
\* before the one promised.
DateKept ==
  ~crossed /\ ~misdated =>
    /\ sub.status = "cancel_scheduled" => promised <= sub.ends
    /\ found = "cancel_scheduled" => promised <= ended
    /\ \A m \in Merchants : Asks(m, "cancel") =>
         /\ asked[m].at = "persist" => promised = asked[m].ends
         /\ asked[m].at = "move" => promised <= sub.ends

BillingInv ==
  /\ BillingTypes /\ EventsSent /\ OneAtATime /\ KnowsItsWay /\ StripeKnows /\ DateKept
  /\ KeptToPeriodEnd

LEMMA BillingInitInv == BillingInit => BillingInv
<1> SUFFICES ASSUME BillingInit PROVE BillingInv
  OBVIOUS
<1>1. BillingTypes
  <2>1. sub \in SubRows
    <3>1. \/ sub = [status |-> "signup", ends |-> 0, charged |-> "never"]
          \/ sub \in [status : {"trialing", "active"}, ends : {0}, charged : {"never"}]
      BY DEF BillingInit
    <3>2. {"trialing", "active"} \subseteq Statuses /\ "signup" \in Statuses
      BY DEF Statuses
    <3>3. CASE sub = [status |-> "signup", ends |-> 0, charged |-> "never"]
      BY <3>2, <3>3 DEF SubRows
    <3>4. CASE sub \in [status : {"trialing", "active"}, ends : {0}, charged : {"never"}]
      <4>1. PICK status \in {"trialing", "active"} :
               sub = [status |-> status, ends |-> 0, charged |-> "never"]
        BY <3>4
      <4>2. status \in Statuses
        BY <3>2
      <4> QED
        BY <4>1, <4>2 DEF SubRows
    <3> QED
      BY <3>1, <3>3, <3>4
  <2>3. provider \in ProviderRows
    <3>1. provider = [status |-> IF sub.status = "active" THEN "active" ELSE "trialing",
                      atEnd |-> FALSE, period |-> 1]
      BY DEF BillingInit
    <3> QED
      BY <3>1 DEF ProviderRows
  <2>2. NotAsked \in AskedRows
    BY DEF NotAsked, AskedRows, Statuses
  <2> QED
    BY <2>1, <2>2, <2>3 DEF BillingInit, BillingTypes
<1>2. EventsSent
  <2>1. NotArrived \in InboxRows /\ NotArrived.received = 0
    BY DEF NotArrived, InboxRows
  <2>2. AtRest \in HandlingRows /\ AtRest.at = "rest" /\ AtRest.rest = {}
    BY <2>1 DEF AtRest, HandlingRows, NoEventYet
  <2>3. sent \in Seq(Messages) /\ Len(sent) <= 1
    <3>1. sent = <<>> \/ \E bad \in BOOLEAN : sent = <<Message("checkout", 1, bad)>>
      BY DEF BillingInit
    <3>2. \A bad \in BOOLEAN : Message("checkout", 1, bad) \in Messages
      BY DEF Message, Messages
    <3>3. \A m \in Messages : <<m>> \in Seq(Messages) /\ Len(<<m>>) = 1
      OBVIOUS
    <3>4. CASE sent = <<>>
      BY <3>4
    <3>5. ASSUME NEW m \in Messages, sent = <<m>> PROVE sent \in Seq(Messages) /\ Len(sent) <= 1
      BY <3>3, <3>5
    <3> QED
      BY <3>1, <3>2, <3>4, <3>5, Zenon
  <2>4. inbox = [n \in 1..MaxBillEvents |-> NotArrived] /\ handling = [h \in Handlers |-> AtRest]
    BY DEF BillingInit
  <2> QED
    BY <2>1, <2>2, <2>3, <2>4, BillingAssumption DEF EventsSent
<1>3. \A m \in Merchants : ~InFlight(m) /\ asked[m].at = "new"
  BY DEF BillingInit, InFlight, NotAsked
<1>4. sub.status # "cancel_scheduled" /\ found = "none"
  BY DEF BillingInit
<1>5. ~cutShort
  BY DEF BillingInit
<1> QED
  BY <1>1, <1>2, <1>3, <1>4, <1>5 DEF BillingInv, OneAtATime, KnowsItsWay, StripeKnows, DateKept, Asks,
     KeptToPeriodEnd

-----------------------------------------------------------------------------
(* The inbox *)

\* What the cron and the endpoint do to the inbox leaves the rest alone.
InboxApart == UNCHANGED <<sub, provider, ended, asked, found, promised, misdated, crossed, cutShort>>

LEMMA InboxApartKeeps ==
  ASSUME BillingInv, InboxApart, EventsSent'
  PROVE  BillingInv'
BY DEF BillingInv, InboxApart, BillingTypes, OneAtATime, KnowsItsWay, StripeKnows, DateKept, Stopped,
   KeptToPeriodEnd, Asks, InFlight

LEMMA FirstIsOne ==
  ASSUME EventsSent, NEW rows \in SUBSET (DOMAIN sent), rows # {}
  PROVE  FirstReceived(rows) \in rows
<1> DEFINE ranks == {inbox[n].received : n \in rows}
<1>1. \A n \in rows : inbox[n].received \in Nat
  <2>1. \A n \in DOMAIN sent : n \in 1..MaxBillEvents
    BY BillingAssumption DEF EventsSent
  <2>2. \A n \in 1..MaxBillEvents : inbox[n] \in InboxRows
    BY DEF EventsSent
  <2> QED
    BY <2>1, <2>2 DEF InboxRows
<1>2. ranks \in SUBSET Nat /\ ranks # {}
  BY <1>1
<1>3. \E x \in ranks : \A y \in ranks : x <= y
  <2> HIDE DEF ranks
  <2> QED
    BY <1>2, LeastNatural
<1>4. \E n \in rows : \A o \in rows : inbox[n].received <= inbox[o].received
  BY <1>3
<1> QED
  BY <1>4 DEF FirstReceived

LEMMA TakesOne ==
  ASSUME EventsSent, NEW rows \in SUBSET (DOMAIN sent)
  PROVE  /\ Takes(rows) \in HandlingRows /\ Takes(rows).rest \subseteq DOMAIN sent
         /\ Takes(rows).at # "rest" => Takes(rows).event \in DOMAIN sent
<1>1. AtRest \in HandlingRows /\ AtRest.at = "rest" /\ AtRest.rest = {}
  BY DEF AtRest, HandlingRows, NoEventYet, NotArrived, InboxRows
<1>2. CASE rows = {}
  BY <1>1, <1>2 DEF Takes
<1>3. CASE rows # {}
  <2> DEFINE first == FirstReceived(rows)
  <2>1. first \in rows /\ first \in Nat /\ rows \in SUBSET Nat
    BY <1>3, FirstIsOne DEF EventsSent
  <2>2. Takes(rows) = [AtRest EXCEPT !.at = "dispatch", !.event = first, !.rest = rows \ {first}]
    BY <1>3 DEF Takes
  <2> HIDE DEF first
  <2> QED
    BY <1>1, <2>1, <2>2 DEF HandlingRows
<1> QED
  BY <1>2, <1>3

\* A handler's record is replaced by one that fits.
Fits(row) ==
  /\ row \in HandlingRows /\ row.rest \subseteq DOMAIN sent
  /\ row.at # "rest" => row.event \in DOMAIN sent

LEMMA HandlingPut ==
  ASSUME EventsSent, UNCHANGED sent, NEW h \in Handlers, NEW row, Fits(row),
         handling' = [handling EXCEPT ![h] = row],
         inbox' \in [1..MaxBillEvents -> InboxRows],
         \A n \in 1..MaxBillEvents : inbox'[n].received > 0 => n \in DOMAIN sent
  PROVE  EventsSent'
BY DEF EventsSent, Fits

LEMMA InboxPut ==
  ASSUME EventsSent, NEW n \in DOMAIN sent, NEW row \in InboxRows,
         inbox' = [inbox EXCEPT ![n] = row]
  PROVE  /\ inbox' \in [1..MaxBillEvents -> InboxRows]
         /\ \A o \in 1..MaxBillEvents : inbox'[o].received > 0 => o \in DOMAIN sent
BY DEF EventsSent

LEMMA HandlerFits ==
  ASSUME EventsSent, NEW h \in Handlers
  PROVE  Fits(handling[h]) /\ Fits(After(h)) /\ Fits(AtRest)
<1>1. handling[h].rest \in SUBSET (DOMAIN sent)
  BY DEF EventsSent
<1>2. Fits(After(h))
  BY <1>1, TakesOne DEF Fits, After
<1>3. Fits(AtRest)
  BY DEF Fits, AtRest, HandlingRows, NoEventYet, NotArrived, InboxRows
<1> QED
  BY <1>2, <1>3 DEF EventsSent, Fits

LEMMA InboxStepsKeep ==
  ASSUME BillingInv,
         \/ RunOnce \/ \E n \in 1..MaxBillEvents : Receive(n)
         \/ \E h \in Handlers : ReadRetries(h) \/ SaveRetries(h) \/ FlagManualReview(h) \/ HandlerDies(h)
  PROVE  BillingInv'
<1>0. EventsSent
  BY DEF BillingInv
<1>1. DOMAIN sent \subseteq 1..MaxBillEvents
  BY <1>0, BillingAssumption DEF EventsSent
<1>2. \A n \in DOMAIN sent : inbox[n] \in InboxRows
  BY <1>0, <1>1 DEF EventsSent
<1>3. ASSUME UNCHANGED inbox
      PROVE  /\ inbox' \in [1..MaxBillEvents -> InboxRows]
             /\ \A n \in 1..MaxBillEvents : inbox'[n].received > 0 => n \in DOMAIN sent
  BY <1>0, <1>3 DEF EventsSent
<1>4. CASE RunOnce
  <2> DEFINE pending == {n \in 1..MaxBillEvents : GetUnprocessed(n)}
  <2>1. pending \in SUBSET (DOMAIN sent)
    BY <1>0 DEF EventsSent, GetUnprocessed, Unsettled
  <2>2. Fits(Takes(pending))
    <3> HIDE DEF pending
    <3> QED
      BY <1>0, <2>1, TakesOne DEF Fits
  <2>3. EventsSent'
    BY <1>0, <1>3, <1>4, <2>2, HandlingPut DEF RunOnce, Handlers
  <2> QED
    BY <1>4, <2>3, InboxApartKeeps DEF RunOnce, InboxApart
<1>5. CASE \E n \in 1..MaxBillEvents : Receive(n)
  <2>1. PICK n \in 1..MaxBillEvents : Receive(n)
    BY <1>5
  <2>2. n \in DOMAIN sent /\ inbox[n] \in InboxRows
    BY <1>2, <2>1 DEF Receive
  <2>3. ReceivedAt(n) \in Nat
    <3>1. IsFiniteSet(Received)
      <4>1. IsFiniteSet(1..MaxBillEvents)
        BY FS_Interval, BillingAssumption
      <4>2. Received \subseteq 1..MaxBillEvents
        BY DEF Received
      <4> QED
        BY <4>1, <4>2, FS_Subset
    <3>2. Cardinality(Received) \in Nat
      BY <3>1, FS_CardinalityType
    <3> QED
      BY <2>2, <3>2 DEF ReceivedAt, InboxRows
  <2>4. /\ [inbox[n] EXCEPT !.received = ReceivedAt(n)] \in InboxRows
        /\ [inbox[n] EXCEPT !.received = ReceivedAt(n), !.attributed = TRUE] \in InboxRows
    BY <2>2, <2>3 DEF InboxRows
  <2>5. PICK row \in InboxRows : inbox' = [inbox EXCEPT ![n] = row]
    <3>1. CASE inbox' = [inbox EXCEPT ![n].received = ReceivedAt(n)]
      BY <2>4, <3>1
    <3>2. CASE inbox' = [inbox EXCEPT ![n].received = ReceivedAt(n), ![n].attributed = TRUE]
      <4>1. inbox' = [inbox EXCEPT ![n] = [inbox[n] EXCEPT !.received = ReceivedAt(n), !.attributed = TRUE]]
        BY <1>0, <2>2, <3>2 DEF EventsSent
      <4> QED
        BY <2>4, <4>1
    <3> QED
      BY <2>1, <3>1, <3>2 DEF Receive
  <2>6. /\ inbox' \in [1..MaxBillEvents -> InboxRows]
        /\ \A o \in 1..MaxBillEvents : inbox'[o].received > 0 => o \in DOMAIN sent
    BY <1>0, <2>2, <2>5, InboxPut
  <2> DEFINE begun == [AtRest EXCEPT !.at = "dispatch", !.event = n]
  <2>7. Fits(begun)
    <3>1. AtRest \in HandlingRows /\ AtRest.rest = {} /\ n \in Nat
      BY DEF AtRest, HandlingRows, NoEventYet, NotArrived, InboxRows
    <3> QED
      BY <2>2, <3>1 DEF Fits, HandlingRows
  <2>11. UNCHANGED sent /\ "endpoint" \in Handlers
    BY <2>1 DEF Receive, Handlers
  <2>8. ASSUME handling' = [handling EXCEPT !["endpoint"] = begun] PROVE EventsSent'
    <3> HIDE DEF begun
    <3> QED
      BY <1>0, <2>6, <2>7, <2>8, <2>11, HandlingPut
  <2>9. ASSUME UNCHANGED handling PROVE EventsSent'
    BY <1>0, <2>6, <2>9, <2>11 DEF EventsSent
  <2>12. handling' = [handling EXCEPT !["endpoint"] = begun] \/ UNCHANGED handling
    BY <2>1 DEF Receive
  <2>10. EventsSent'
    BY <2>8, <2>9, <2>12
  <2> QED
    BY <2>1, <2>10, InboxApartKeeps DEF Receive, InboxApart
<1>6. ASSUME NEW h \in Handlers,
             ReadRetries(h) \/ SaveRetries(h) \/ FlagManualReview(h) \/ HandlerDies(h)
      PROVE  BillingInv'
  <2>0. Fits(handling[h]) /\ Fits(After(h)) /\ Fits(AtRest)
    BY <1>0, HandlerFits
  <2>1. /\ handling[h].event \in DOMAIN sent /\ inbox[handling[h].event] \in InboxRows
        /\ handling[h] \in HandlingRows /\ handling[h].row \in InboxRows
    BY <1>0, <1>2, <1>6 DEF ReadRetries, SaveRetries, FlagManualReview, HandlerDies, EventsSent,
       HandlingRows
  <2>2. UNCHANGED sent /\ InboxApart
    BY <1>6 DEF ReadRetries, SaveRetries, FlagManualReview, HandlerDies, InboxApart
  <2>3. \E row : Fits(row) /\ handling' = [handling EXCEPT ![h] = row]
    <3>1. CASE ReadRetries(h)
      <4> DEFINE row == [handling[h] EXCEPT !.at = "save", !.row = inbox[handling[h].event]]
      <4>1. Fits(row)
        BY <2>0, <2>1 DEF Fits, HandlingRows
      <4>2. handling' = [handling EXCEPT ![h] = row]
        BY <3>1 DEF ReadRetries
      <4> QED
        BY <4>1, <4>2
    <3>2. CASE SaveRetries(h)
      <4> DEFINE row == [handling[h] EXCEPT !.at = "flag", !.row = NotArrived]
      <4>1. Fits(row)
        BY <2>0, <2>1 DEF Fits, HandlingRows, NotArrived, InboxRows
      <4>2. \/ handling' = [handling EXCEPT ![h] = row]
            \/ handling' = [handling EXCEPT ![h] = After(h)]
        BY <3>2 DEF SaveRetries
      <4> QED
        BY <2>0, <4>1, <4>2
    <3>3. CASE FlagManualReview(h) \/ HandlerDies(h)
      BY <2>0, <3>3 DEF FlagManualReview, HandlerDies
    <3> QED
      BY <1>6, <3>1, <3>2, <3>3
  <2>4. \/ UNCHANGED inbox
        \/ \E row \in InboxRows : inbox' = [inbox EXCEPT ![handling[h].event] = row]
    <3>1. CASE SaveRetries(h)
      <4>1. [handling[h].row EXCEPT !.retries = handling[h].row.retries + 1] \in InboxRows
        BY <2>1 DEF InboxRows
      <4> QED
        BY <3>1, <4>1 DEF SaveRetries
    <3>2. CASE FlagManualReview(h)
      <4>1. [inbox[handling[h].event] EXCEPT !.review = TRUE] \in InboxRows
        BY <2>1 DEF InboxRows
      <4> QED
        BY <3>2, <4>1 DEF FlagManualReview
    <3> QED
      BY <1>6, <3>1, <3>2 DEF ReadRetries, HandlerDies
  <2>5. /\ inbox' \in [1..MaxBillEvents -> InboxRows]
        /\ \A o \in 1..MaxBillEvents : inbox'[o].received > 0 => o \in DOMAIN sent
    BY <1>0, <1>3, <2>1, <2>4, InboxPut
  <2>6. EventsSent'
    BY <1>0, <2>2, <2>3, <2>5, HandlingPut
  <2> QED
    BY <2>2, <2>6, InboxApartKeeps
<1> QED
  BY <1>4, <1>5, <1>6

-----------------------------------------------------------------------------
(* What moves the row, Stripe and the requests *)

\* The inbox part of the invariant, when its variables stay.
LEMMA EventsStay ==
  ASSUME EventsSent, UNCHANGED <<sent, inbox, handling>>
  PROVE  EventsSent'
BY DEF EventsSent

LEMMA EventSentKeeps ==
  ASSUME EventsSent, UNCHANGED <<inbox, handling>>, NEW kind, NEW period \in Nat,
         kind \in {"checkout", "updated", "paid", "failed", "actionRequired", "deleted"},
         Send(kind, period)
  PROVE  EventsSent'
<1>1. CASE UNCHANGED sent
  BY <1>1, EventsStay
<1>2. CASE \E m \in Messages : sent' = Append(sent, m) /\ Len(sent) # MaxBillEvents
  <2>1. PICK m \in Messages : sent' = Append(sent, m) /\ Len(sent) # MaxBillEvents
    BY <1>2
  <2>2. sent' \in Seq(Messages) /\ Len(sent') = Len(sent) + 1 /\ Len(sent') <= MaxBillEvents
    BY <2>1, BillingAssumption DEF EventsSent
  <2>3. DOMAIN sent \subseteq DOMAIN sent'
    BY <2>1, <2>2 DEF EventsSent
  <2> QED
    BY <2>2, <2>3 DEF EventsSent
<1>3. \A bad \in BOOLEAN : Message(kind, period, bad) \in Messages
  BY DEF Message, Messages
<1> QED
  BY <1>1, <1>2, <1>3 DEF Send

\* Time passes, and Stripe acts: what Stripe was told stays told.
LEMMA StripeKeeps ==
  ASSUME BillingInv, PeriodPasses \/ StripeActs
  PROVE  BillingInv'
<1>1. CASE PeriodPasses
  <2>1. EventsSent'
    BY <1>1, EventsStay DEF PeriodPasses, BillingInv
  <2>2. ended' \in Nat /\ ended' >= ended /\ promised \in Nat
    BY <1>1 DEF PeriodPasses, BillingInv, BillingTypes
  <2>3. DateKept'
    BY <1>1, <2>2 DEF PeriodPasses, BillingInv, BillingTypes, DateKept, Asks, InFlight
  <2> QED
    BY <1>1, <2>1, <2>2, <2>3 DEF PeriodPasses, BillingInv, BillingTypes, OneAtATime, KnowsItsWay,
       StripeKnows, Stopped, KeptToPeriodEnd, Asks, InFlight
<1>2. CASE StripeActs
  <2>1. /\ UNCHANGED <<sub, ripe, ended, inbox, handling, asked, found, promised, misdated, crossed, cutShort>>
        /\ provider.status # "canceled"
    BY <1>2 DEF StripeActs
  <2>2. provider \in ProviderRows /\ EventsSent
    BY DEF BillingInv, BillingTypes
  <2>3. provider' \in ProviderRows /\ provider'.atEnd = provider.atEnd
    <3>1. \/ UNCHANGED provider
          \/ \E status \in {"canceled", "active", "past_due"} :
               provider' = [provider EXCEPT !.status = status]
          \/ \E status \in {"active", provider.status} :
               provider' = [provider EXCEPT !.period = provider.period + 1, !.status = status]
      BY <1>2 DEF StripeActs
    <3>2. CASE UNCHANGED provider
      BY <2>2, <3>2
    <3>3. ASSUME NEW status \in {"canceled", "active", "past_due"},
                 provider' = [provider EXCEPT !.status = status]
          PROVE  provider' \in ProviderRows /\ provider'.atEnd = provider.atEnd
      BY <2>2, <3>3 DEF ProviderRows
    <3>4. ASSUME NEW status \in {"active", provider.status},
                 provider' = [provider EXCEPT !.period = provider.period + 1, !.status = status]
          PROVE  provider' \in ProviderRows /\ provider'.atEnd = provider.atEnd
      <4>1. provider.period + 1 \in Nat /\ status \in {"trialing", "active", "past_due", "canceled"}
        BY <2>2 DEF ProviderRows
      <4>2. \A period \in Nat, st \in {"trialing", "active", "past_due", "canceled"} :
              /\ [provider EXCEPT !.period = period, !.status = st] \in ProviderRows
              /\ [provider EXCEPT !.period = period, !.status = st].atEnd = provider.atEnd
        BY <2>2 DEF ProviderRows
      <4> QED
        BY <3>4, <4>1, <4>2, Zenon
    <3> QED
      BY <3>1, <3>2, <3>3, <3>4
  <2>4. \E kind \in {"checkout", "updated", "paid", "failed", "actionRequired", "deleted"}, period \in Nat :
          Send(kind, period)
    BY <1>2, <2>2 DEF StripeActs, ProviderRows
  <2>5. EventsSent'
    BY <2>1, <2>2, <2>4, EventSentKeeps
  <2>6. Stopped => Stopped'
    BY <2>1, <2>3 DEF Stopped
  <2> QED
    BY <2>1, <2>3, <2>5, <2>6 DEF BillingInv, BillingTypes, OneAtATime, KnowsItsWay, StripeKnows,
       DateKept, KeptToPeriodEnd, Asks, InFlight
<1> QED
  BY <1>1, <1>2

\* A step that moves the row, not into cancel_scheduled and not its date, and
\* leaves the requests alone.
LEMMA RowMovesOn ==
  ASSUME BillingInv, EventsSent', sub' \in SubRows, sub'.ends = sub.ends,
         sub'.status = sub.status \/ sub'.status # "cancel_scheduled",
         provider' \in ProviderRows, Stopped => Stopped',
         found' \in {found, "none"}, ~cutShort',
         UNCHANGED <<ended, asked, promised, misdated, crossed>>
  PROVE  BillingInv'
<1>1. BillingTypes'
  BY DEF BillingInv, BillingTypes
<1>2. OneAtATime' /\ KnowsItsWay' /\ KeptToPeriodEnd'
  BY DEF BillingInv, OneAtATime, KnowsItsWay, KeptToPeriodEnd, Asks, InFlight
<1>3. StripeKnows'
  BY DEF BillingInv, StripeKnows, Asks, InFlight
<1>4. DateKept'
  BY DEF BillingInv, DateKept, Asks, InFlight
<1> QED
  BY <1>1, <1>2, <1>3, <1>4 DEF BillingInv

LEMMA FollowsOn ==
  \A status \in {"past_due", "cancel_scheduled", "expired", "store_closed"} :
    Follows(status) \in {"expired", "store_closed", "pending_hard_delete"}
BY DEF Follows

\* The days, the ladder and the crons that end a subscription.
LEMMA CronsKeep ==
  ASSUME BillingInv, DaysPass \/ Ladder \/ FindRow \/ MoveRow \/ HardDelete
  PROVE  BillingInv'
<1>0. /\ sub \in SubRows /\ provider \in ProviderRows /\ ended \in Nat /\ promised \in Nat
      /\ found \in {"none", "cancel_scheduled", "expired", "store_closed"} /\ EventsSent /\ ~cutShort
  BY DEF BillingInv, BillingTypes, KeptToPeriodEnd
<1>1. CASE DaysPass
  <2>1. EventsSent'
    BY <1>0, <1>1, EventsStay DEF DaysPass
  <2>2. sub' \in SubRows /\ sub'.ends = sub.ends /\ sub'.status = sub.status
    BY <1>0, <1>1 DEF DaysPass, SubRows
  <2> QED
    BY <1>0, <1>1, <2>1, <2>2, RowMovesOn DEF DaysPass, Stopped
<1>2. CASE Ladder
  <2>1. EventsSent'
    BY <1>0, <1>2, EventsStay DEF Ladder
  <2>2. sub' \in SubRows /\ sub'.ends = sub.ends /\ sub'.status # "cancel_scheduled"
    BY <1>0, <1>2, FollowsOn DEF Ladder, SubRows, Statuses
  <2> QED
    BY <1>0, <1>2, <2>1, <2>2, RowMovesOn DEF Ladder, Stopped
<1>3. CASE FindRow
  <2>1. EventsSent'
    BY <1>0, <1>3, EventsStay DEF FindRow
  <2>2. found' \in {"cancel_scheduled", "expired", "store_closed"}
    BY <1>0, <1>3 DEF FindRow, SubRows
  <2>3. found' = "cancel_scheduled" => sub.status = "cancel_scheduled" /\ sub.ends <= ended
    BY <1>3 DEF FindRow
  <2>4. DateKept'
    <3>1. sub.ends \in Nat
      BY <1>0 DEF SubRows
    <3> QED
      BY <1>0, <1>3, <2>3, <3>1 DEF FindRow, BillingInv, DateKept, Asks, InFlight
  <2> QED
    BY <1>3, <2>1, <2>2, <2>4 DEF FindRow, BillingInv, BillingTypes, OneAtATime, KnowsItsWay,
       StripeKnows, Stopped, KeptToPeriodEnd, Asks, InFlight
<1>4. CASE MoveRow
  <2>1. EventsSent'
    BY <1>0, <1>4, EventsStay DEF MoveRow
  <2>2. ~cutShort'
    BY <1>0, <1>4 DEF MoveRow, BillingInv, DateKept, KeptToPeriodEnd
  <2>3. /\ sub' \in SubRows /\ sub'.ends = sub.ends
        /\ sub'.status = sub.status \/ sub'.status # "cancel_scheduled"
    <3> DEFINE next == Follows(found)
    <3>1. found # "none" /\ sub' = Moved(sub, found, next)
      BY <1>4 DEF MoveRow
    <3>2. next \in Statuses /\ next # "cancel_scheduled"
      BY <1>0, <3>1, FollowsOn DEF Statuses
    <3> HIDE DEF next
    <3> QED
      BY <1>0, <3>1, <3>2 DEF Moved, SubRows
  <2>4. found' = "none" /\ UNCHANGED <<ended, provider, asked, promised, misdated, crossed>>
    BY <1>4 DEF MoveRow
  <2>5. Stopped => Stopped'
    BY <2>4 DEF Stopped
  <2> QED
    BY <1>0, <2>1, <2>2, <2>3, <2>4, <2>5, RowMovesOn
<1>5. CASE HardDelete
  <2>1. EventsSent'
    BY <1>0, <1>5, EventsStay DEF HardDelete
  <2>2. sub' \in SubRows /\ sub'.ends = sub.ends /\ sub'.status # "cancel_scheduled"
    BY <1>0, <1>5 DEF HardDelete, SubRows, Statuses
  <2>3. provider' \in ProviderRows /\ Stopped'
    BY <1>0, <1>5 DEF HardDelete, ProviderRows, Stopped
  <2> QED
    BY <1>0, <1>5, <2>1, <2>2, <2>3, RowMovesOn DEF HardDelete
<1> QED
  BY <1>1, <1>2, <1>3, <1>4, <1>5

LEMMA EffectOfUpdate ==
  ASSUME NEW e, e.kind = "updated", NEW row, row = Effect(e)
  PROVE  row = [sub EXCEPT !.ends = e.period]
<1>1. ValidFrom(e.kind) = {}
  BY DEF ValidFrom
<1> QED
  BY <1>1 DEF Effect

LEMMA EffectOfPayment ==
  ASSUME NEW e, e.kind = "paid", NEW row, row = Effect(e)
  PROVE  row = [sub EXCEPT !.charged = IF sub.charged = "never" THEN "lately" ELSE sub.charged]
<1>1. ValidFrom(e.kind) = {}
  BY DEF ValidFrom
<1> QED
  BY <1>1 DEF Effect

\* An event that is dispatched: an older date is noted as such.
LEMMA DispatchKeeps ==
  ASSUME BillingInv, NEW h \in Handlers, DispatchLocked(h)
  PROVE  BillingInv'
<1> DEFINE n == handling[h].event
           e == sent[n]
<1>0. /\ sub \in SubRows /\ provider \in ProviderRows /\ EventsSent
      /\ misdated \in BOOLEAN /\ promised \in Nat /\ ~cutShort
  BY DEF BillingInv, BillingTypes, KeptToPeriodEnd
<1>1. /\ n \in DOMAIN sent /\ n \in 1..MaxBillEvents /\ e \in Messages /\ inbox[n] \in InboxRows
  <2>1. n \in DOMAIN sent
    BY <1>0 DEF DispatchLocked, EventsSent
  <2>2. DOMAIN sent \subseteq 1..MaxBillEvents
    BY <1>0, BillingAssumption DEF EventsSent
  <2>3. e \in Messages
    BY <1>0, <2>1 DEF EventsSent
  <2> QED
    BY <1>0, <2>1, <2>2, <2>3 DEF EventsSent
<1>2. UNCHANGED <<ended, provider, sent, asked, found, promised, crossed, cutShort>>
  BY DEF DispatchLocked
<1>3. Fits(handling[h]) /\ Fits(After(h))
  BY <1>0, HandlerFits
<1>4. CASE /\ ~e.bad /\ sub' = Effect(e)
           /\ misdated' = (misdated \/ (e.kind = "updated" /\ e.period < sub.ends))
           /\ inbox' = [inbox EXCEPT ![n].processed = TRUE]
           /\ handling' = [handling EXCEPT ![h] = After(h)]
  <2>1. EventsSent'
    <3>1. [inbox[n] EXCEPT !.processed = TRUE] \in InboxRows
      BY <1>1 DEF InboxRows
    <3>2. inbox' = [inbox EXCEPT ![n] = [inbox[n] EXCEPT !.processed = TRUE]]
      BY <1>4
    <3> HIDE DEF n, e
    <3>3. /\ inbox' \in [1..MaxBillEvents -> InboxRows]
          /\ \A o \in 1..MaxBillEvents : inbox'[o].received > 0 => o \in DOMAIN sent
      BY <1>0, <1>1, <3>1, <3>2, InboxPut
    <3> QED
      BY <1>0, <1>2, <1>3, <1>4, <3>3, HandlingPut
  <2> HIDE DEF n, e
  <2>2. CASE e.kind = "updated"
    <3>1. sub' = [sub EXCEPT !.ends = e.period] /\ e.period \in Nat /\ sub.ends \in Nat
      BY <1>0, <1>1, <1>4, <2>2, EffectOfUpdate DEF Messages, SubRows
    <3>2. sub' \in SubRows /\ sub'.status = sub.status /\ sub'.ends = e.period
      BY <1>0, <3>1 DEF SubRows
    <3>3. ~misdated' => ~misdated /\ sub'.ends >= sub.ends
      <4>1. ~misdated' => ~misdated /\ ~(e.period < sub.ends)
        BY <1>4, <2>2, Zenon
      <4> QED
        BY <3>1, <3>2, <4>1
    <3>4. misdated' \in BOOLEAN
      BY <1>4
    <3>5. BillingTypes'
      BY <1>2, <3>2, <3>4 DEF BillingInv, BillingTypes
    <3>6. DateKept'
      BY <1>0, <1>2, <3>1, <3>2, <3>3 DEF BillingInv, DateKept, Asks, InFlight
    <3>7. StripeKnows'
      BY <1>2, <3>2 DEF BillingInv, StripeKnows, Stopped, Asks, InFlight
    <3> QED
      BY <1>2, <2>1, <3>5, <3>6, <3>7 DEF BillingInv, OneAtATime, KnowsItsWay, KeptToPeriodEnd,
         Asks, InFlight
  <2>3. CASE e.kind # "updated"
    <3>1. UNCHANGED misdated
      BY <1>0, <1>4, <2>3
    <3>2. /\ \A status \in {"past_due", "payment_action_required", "expired", "trialing"} :
               [sub EXCEPT !.status = status] \in SubRows
          /\ \A charged \in {"never", "lately", "long ago"} : [sub EXCEPT !.charged = charged] \in SubRows
      BY <1>0 DEF SubRows, Statuses
    <3>3. \/ sub' = sub
          \/ \E status \in {"past_due", "payment_action_required", "expired", "trialing"} :
               sub' = [sub EXCEPT !.status = status]
          \/ \E charged \in {"never", "lately", "long ago"} : sub' = [sub EXCEPT !.charged = charged]
      <4>1. sub.charged \in {"never", "lately", "long ago"}
        BY <1>0 DEF SubRows
      <4>2. MovesTo(e.kind) \in {"past_due", "payment_action_required", "expired", "trialing"}
        BY DEF MovesTo
      <4>3. CASE e.kind = "paid"
        <5>1. sub' = [sub EXCEPT !.charged = IF sub.charged = "never" THEN "lately" ELSE sub.charged]
          BY <1>4, <4>3, EffectOfPayment
        <5> QED
          BY <4>1, <5>1
      <4>4. CASE e.kind # "paid" /\ sub.status \in ValidFrom(e.kind)
        <5>1. sub' = [sub EXCEPT !.status = MovesTo(e.kind)]
          BY <1>4, <2>3, <4>4 DEF Effect
        <5> QED
          BY <4>2, <5>1
      <4>5. CASE e.kind # "paid" /\ ~(sub.status \in ValidFrom(e.kind))
        BY <1>4, <2>3, <4>5 DEF Effect
      <4> QED
        BY <4>3, <4>4, <4>5
    <3>4. /\ sub' \in SubRows /\ sub'.ends = sub.ends
          /\ sub'.status = sub.status \/ sub'.status # "cancel_scheduled"
      BY <1>0, <3>2, <3>3 DEF SubRows
    <3> QED
      BY <1>0, <1>2, <2>1, <3>1, <3>4, RowMovesOn DEF Stopped
  <2> QED
    BY <2>2, <2>3
<1>5. CASE /\ handling' = [handling EXCEPT ![h].at = "count"]
           /\ UNCHANGED <<sub, ripe, misdated, inbox>>
  <2>1. Fits([handling[h] EXCEPT !.at = "count"])
    BY <1>1, <1>3 DEF Fits, HandlingRows
  <2>2. handling' = [handling EXCEPT ![h] = [handling[h] EXCEPT !.at = "count"]]
    BY <1>5
  <2>3. /\ inbox' \in [1..MaxBillEvents -> InboxRows]
        /\ \A o \in 1..MaxBillEvents : inbox'[o].received > 0 => o \in DOMAIN sent
    BY <1>0, <1>5 DEF EventsSent
  <2>4. EventsSent'
    BY <1>0, <1>2, <2>1, <2>2, <2>3, HandlingPut
  <2> QED
    BY <1>2, <1>5, <2>4, InboxApartKeeps DEF InboxApart
<1> QED
  BY <1>4, <1>5 DEF DispatchLocked

-----------------------------------------------------------------------------
(* The merchant's requests *)

LEMMA AskedPut ==
  ASSUME BillingTypes, NEW m \in Merchants, NEW row \in AskedRows,
         asked' = [asked EXCEPT ![m] = row]
  PROVE  /\ asked' \in [Merchants -> AskedRows] /\ asked'[m] = row
         /\ \A o \in Merchants \ {m} : asked'[o] = asked[o]
BY DEF BillingTypes

LEMMA AskCancelKeeps ==
  ASSUME BillingInv, NEW m \in Merchants, NEW kind \in {"cancel", "accept"}, AskCancel(m, kind)
  PROVE  BillingInv'
<1> DEFINE row == [NotAsked EXCEPT !.at = "stripe", !.kind = kind, !.from = sub.status]
<1>0. BillingTypes /\ EventsSent /\ sub \in SubRows
  BY DEF BillingInv, BillingTypes
<1>1. /\ row \in AskedRows /\ row.at = "stripe" /\ row.kind = kind /\ row.from = sub.status
  BY <1>0 DEF NotAsked, AskedRows, Statuses, SubRows
<1>2. /\ asked' = [asked EXCEPT ![m] = row] /\ asked[m].at = "new"
      /\ crossed' = (crossed \/ \E o \in Merchants : InFlight(o))
      /\ UNCHANGED <<sub, ended, provider, sent, inbox, handling, found, promised, misdated, cutShort>>
      /\ IF kind = "cancel" THEN Cancellable ELSE sub.status = "cancel_scheduled"
  BY DEF AskCancel
<1> HIDE DEF row
<1>3. /\ asked' \in [Merchants -> AskedRows] /\ asked'[m] = row
      /\ \A o \in Merchants \ {m} : asked'[o] = asked[o]
  BY <1>0, <1>1, <1>2, AskedPut
<1>4. EventsSent'
  BY <1>0, <1>2, EventsStay
<1>5. BillingTypes'
  BY <1>0, <1>2, <1>3 DEF BillingTypes
<1>6. ~crossed' => ~crossed /\ \A o \in Merchants : ~InFlight(o)
  BY <1>0, <1>2 DEF BillingTypes
<1>7. \A o \in Merchants \ {m} : InFlight(o)' = InFlight(o) /\ \A k : Asks(o, k)' = Asks(o, k)
  BY <1>3 DEF InFlight, Asks
<1>8. OneAtATime'
  BY <1>6, <1>7 DEF OneAtATime
<1>9. KnowsItsWay'
  <2>1. \A o \in Merchants \ {m} : asked'[o] = asked[o]
    BY <1>3
  <2> QED
    BY <1>1, <1>2, <1>3, <1>7, <2>1 DEF BillingInv, KnowsItsWay, Asks, InFlight, Cancellable
<1>10. StripeKnows'
  BY <1>1, <1>2, <1>3, <1>6, <1>7 DEF BillingInv, StripeKnows, Asks, InFlight, Stopped, Cancellable
<1>11. DateKept'
  BY <1>1, <1>2, <1>3, <1>6, <1>7 DEF BillingInv, DateKept, Asks, InFlight
<1> QED
  BY <1>2, <1>4, <1>5, <1>8, <1>9, <1>10, <1>11 DEF BillingInv, KeptToPeriodEnd

\* What a step of one request m does to the others: nothing.
LEMMA OthersStay ==
  ASSUME BillingTypes, NEW m \in Merchants, NEW row \in AskedRows,
         asked' = [asked EXCEPT ![m] = row]
  PROVE  /\ asked' \in [Merchants -> AskedRows] /\ asked'[m] = row
         /\ \A o \in Merchants \ {m} :
              /\ asked'[o] = asked[o] /\ (InFlight(o)' <=> InFlight(o))
              /\ Asks(o, "cancel")' <=> Asks(o, "cancel")
              /\ Asks(o, "accept")' <=> Asks(o, "accept")
BY AskedPut DEF InFlight, Asks

\* A request under way is the only one.
LEMMA Alone ==
  ASSUME BillingInv, NEW m \in Merchants, InFlight(m), ~crossed
  PROVE  \A o \in Merchants \ {m} : ~InFlight(o)
BY DEF BillingInv, OneAtATime

\* A request that ends before it has moved the row: what Stripe was told stays,
\* or the request crossed.
LEMMA RequestEnds ==
  ASSUME BillingInv, NEW m \in Merchants, NEW row \in AskedRows, row.at = "over", InFlight(m),
         asked[m].at = "stripe" \/ crossed',
         asked' = [asked EXCEPT ![m] = row], EventsSent', provider' \in ProviderRows,
         crossed' \in BOOLEAN, ~crossed' => ~crossed /\ (Stopped => Stopped'),
         UNCHANGED <<sub, ended, found, promised, misdated, cutShort>>
  PROVE  BillingInv'
<1>0. BillingTypes /\ KnowsItsWay /\ StripeKnows /\ DateKept
  BY DEF BillingInv
<1>1. /\ asked' \in [Merchants -> AskedRows] /\ asked'[m] = row
      /\ \A o \in Merchants \ {m} :
           /\ asked'[o] = asked[o] /\ (InFlight(o)' <=> InFlight(o))
           /\ Asks(o, "cancel")' <=> Asks(o, "cancel")
           /\ Asks(o, "accept")' <=> Asks(o, "accept")
  BY <1>0, OthersStay
<1>2. ~InFlight(m)' /\ ~Asks(m, "cancel")' /\ ~Asks(m, "accept")'
  BY <1>1 DEF InFlight, Asks
<1>3. BillingTypes'
  BY <1>0, <1>1 DEF BillingTypes
<1>4. OneAtATime'
  BY <1>1, <1>2 DEF BillingInv, OneAtATime
<1>5. KnowsItsWay'
  BY <1>0, <1>1, <1>2 DEF KnowsItsWay
<1>6. StripeKnows'
  BY <1>0, <1>1, <1>2 DEF StripeKnows
<1>7. DateKept'
  BY <1>0, <1>1, <1>2 DEF DateKept
<1> QED
  BY <1>3, <1>4, <1>5, <1>6, <1>7 DEF BillingInv, KeptToPeriodEnd

LEMMA CallStripeKeeps ==
  ASSUME BillingInv, NEW m \in Merchants, CallStripe(m)
  PROVE  BillingInv'
<1> DEFINE cancel == asked[m].kind = "cancel"
           to == IF cancel THEN "cancel_scheduled"
                 ELSE IF provider.status = "trialing" THEN "trialing" ELSE "active"
           Gone(step) == [asked[m] EXCEPT !.at = step, !.ends = provider.period, !.to = to]
           Obeyed == /\ provider.status # "canceled"
                     /\ provider' = [provider EXCEPT !.atEnd = cancel]
<1>0. /\ BillingTypes /\ EventsSent /\ asked[m] \in AskedRows /\ provider \in ProviderRows
      /\ misdated \in BOOLEAN /\ crossed \in BOOLEAN
  BY DEF BillingInv, BillingTypes
<1>1. asked[m].at = "stripe" /\ InFlight(m)
  BY DEF CallStripe, InFlight
<1>2. UNCHANGED <<sub, ended, sent, inbox, handling, found, cutShort>>
  BY DEF CallStripe
<1>3. EventsSent'
  BY <1>0, <1>2, EventsStay
<1>4. \A step \in {"persist", "move", "over"} :
        /\ Gone(step) \in AskedRows /\ Gone(step).at = step /\ Gone(step).kind = asked[m].kind
        /\ Gone(step).from = asked[m].from /\ Gone(step).to = to /\ Gone(step).ends = provider.period
  <2>1. to \in Statuses /\ provider.period \in Nat
    BY <1>0 DEF Statuses, ProviderRows
  <2> HIDE DEF to, cancel
  <2> QED
    BY <1>0, <2>1 DEF AskedRows
<1>5. ASSUME Obeyed
      PROVE  /\ provider' \in ProviderRows /\ provider'.atEnd = cancel /\ provider'.period = provider.period
             /\ provider'.status = provider.status
  <2>1. cancel \in BOOLEAN
    OBVIOUS
  <2> HIDE DEF cancel
  <2> QED
    BY <1>0, <1>5, <2>1 DEF ProviderRows
<1>6. \/ /\ Obeyed /\ asked' = [asked EXCEPT ![m] = Gone(IF cancel THEN "persist" ELSE "move")]
         /\ promised' = (IF cancel THEN provider.period ELSE promised)
         /\ misdated' = IF cancel THEN found = "cancel_scheduled" ELSE misdated
         /\ UNCHANGED crossed
      \/ /\ Obeyed \/ UNCHANGED provider
         /\ crossed' = (crossed \/ provider'.atEnd # provider.atEnd)
         /\ asked' = [asked EXCEPT ![m] = Gone("over")]
         /\ UNCHANGED <<promised, misdated>>
  BY DEF CallStripe, AfterFailure
<1>7. KnowsItsWay /\ StripeKnows /\ DateKept
  BY DEF BillingInv
<1>8. CASE /\ Obeyed /\ cancel /\ asked' = [asked EXCEPT ![m] = Gone("persist")]
           /\ promised' = provider.period /\ misdated' = (found = "cancel_scheduled")
           /\ UNCHANGED crossed
  <2> DEFINE row == Gone("persist")
  <2>1. /\ row \in AskedRows /\ row.at = "persist" /\ row.kind = "cancel" /\ row.from = asked[m].from
        /\ row.to = "cancel_scheduled" /\ row.ends = provider.period
    <3> HIDE DEF Gone
    <3> QED
      BY <1>4, <1>8
  <2>2. asked' = [asked EXCEPT ![m] = row]
    BY <1>8
  <2> HIDE DEF row, Gone, to
  <2>3. /\ asked' \in [Merchants -> AskedRows] /\ asked'[m] = row
        /\ \A o \in Merchants \ {m} :
             /\ asked'[o] = asked[o] /\ (InFlight(o)' <=> InFlight(o))
             /\ Asks(o, "cancel")' <=> Asks(o, "cancel")
             /\ Asks(o, "accept")' <=> Asks(o, "accept")
    BY <1>0, <2>1, <2>2, OthersStay
  <2>4. provider' \in ProviderRows /\ provider.period \in Nat /\ Stopped'
    BY <1>0, <1>5, <1>8 DEF ProviderRows, Stopped
  <2> HIDE DEF Obeyed
  <2>5. BillingTypes'
    BY <1>0, <1>2, <1>8, <2>3, <2>4 DEF BillingTypes
  <2>6. OneAtATime'
    BY <1>1, <1>8, <2>3 DEF BillingInv, OneAtATime, InFlight
  <2>7. Asks(m, "cancel") /\ ~Asks(m, "accept") /\ ~Asks(m, "accept")' /\ Asks(m, "cancel")'
    BY <1>1, <1>8, <2>1, <2>3 DEF Asks, InFlight
  <2>8. KnowsItsWay'
    BY <1>7, <2>1, <2>3, <2>7 DEF KnowsItsWay
  <2>9. StripeKnows'
    BY <1>2, <1>7, <1>8, <2>3, <2>4, <2>7 DEF StripeKnows
  <2>10. DateKept'
    <3>1. ~crossed => sub.status # "cancel_scheduled" /\ \A o \in Merchants \ {m} : ~InFlight(o)
      BY <1>1, <1>7, <2>7, Alone DEF StripeKnows
    <3> QED
      BY <1>2, <1>8, <2>1, <2>3, <3>1 DEF DateKept, Asks
  <2> QED
    BY <1>2, <1>3, <2>5, <2>6, <2>8, <2>9, <2>10 DEF BillingInv, KeptToPeriodEnd
<1>9. CASE /\ Obeyed /\ ~cancel /\ asked' = [asked EXCEPT ![m] = Gone("move")]
           /\ UNCHANGED <<promised, misdated, crossed>>
  <2> DEFINE row == Gone("move")
  <2>1. /\ row \in AskedRows /\ row.at = "move" /\ row.kind = "accept" /\ row.from = asked[m].from
        /\ row.to \in {"trialing", "active"} /\ asked[m].kind = "accept"
    <3>1. asked[m].kind = "accept"
      BY <1>0, <1>9 DEF AskedRows
    <3>2. to \in {"trialing", "active"}
      BY <1>9
    <3> HIDE DEF Gone, to
    <3> QED
      BY <1>4, <3>1, <3>2
  <2>2. asked' = [asked EXCEPT ![m] = row]
    BY <1>9
  <2> HIDE DEF row, Gone, to
  <2>3. /\ asked' \in [Merchants -> AskedRows] /\ asked'[m] = row
        /\ \A o \in Merchants \ {m} :
             /\ asked'[o] = asked[o] /\ (InFlight(o)' <=> InFlight(o))
             /\ Asks(o, "cancel")' <=> Asks(o, "cancel")
             /\ Asks(o, "accept")' <=> Asks(o, "accept")
    BY <1>0, <2>1, <2>2, OthersStay
  <2>4. provider' \in ProviderRows
    BY <1>5, <1>9
  <2> HIDE DEF Obeyed
  <2>5. BillingTypes'
    BY <1>0, <1>2, <1>9, <2>3, <2>4 DEF BillingTypes
  <2>6. OneAtATime'
    BY <1>1, <1>9, <2>3 DEF BillingInv, OneAtATime, InFlight
  <2>7. Asks(m, "accept") /\ ~Asks(m, "cancel") /\ ~Asks(m, "cancel")' /\ Asks(m, "accept")'
    BY <1>1, <2>1, <2>3 DEF Asks, InFlight
  <2>8. KnowsItsWay'
    BY <1>7, <2>1, <2>3, <2>7 DEF KnowsItsWay
  <2>9. StripeKnows'
    <3>1. ~crossed => \A o \in Merchants \ {m} : ~InFlight(o)
      BY <1>1, Alone
    <3> QED
      BY <1>9, <2>1, <2>3, <2>7, <3>1 DEF StripeKnows, Asks
  <2>10. DateKept'
    BY <1>2, <1>7, <1>9, <2>3, <2>7 DEF DateKept
  <2> QED
    BY <1>2, <1>3, <2>5, <2>6, <2>8, <2>9, <2>10 DEF BillingInv, KeptToPeriodEnd
<1>10. CASE /\ Obeyed \/ UNCHANGED provider
            /\ crossed' = (crossed \/ provider'.atEnd # provider.atEnd)
            /\ asked' = [asked EXCEPT ![m] = Gone("over")]
            /\ UNCHANGED <<promised, misdated>>
  <2> DEFINE row == Gone("over")
  <2>1. row \in AskedRows /\ row.at = "over"
    <3> HIDE DEF Gone
    <3> QED
      BY <1>4
  <2>2. asked' = [asked EXCEPT ![m] = row]
    BY <1>10
  <2> HIDE DEF row, Gone, to
  <2>4. /\ provider' \in ProviderRows /\ crossed' \in BOOLEAN
        /\ ~crossed' => ~crossed /\ (Stopped => Stopped')
    BY <1>0, <1>5, <1>10 DEF Stopped
  <2> HIDE DEF Obeyed
  <2> QED
    BY <1>1, <1>2, <1>3, <1>10, <2>1, <2>2, <2>4, RequestEnds
<1> QED
  <2> HIDE DEF Gone, to, Obeyed
  <2> QED
    BY <1>6, <1>8, <1>9, <1>10

LEMMA PersistScheduleKeeps ==
  ASSUME BillingInv, NEW m \in Merchants, PersistSchedule(m)
  PROVE  BillingInv'
<1> DEFINE row == [asked[m] EXCEPT !.at = "move"]
<1>0. /\ BillingTypes /\ EventsSent /\ asked[m] \in AskedRows /\ sub \in SubRows
      /\ KnowsItsWay /\ StripeKnows /\ DateKept
  BY DEF BillingInv, BillingTypes
<1>1. /\ asked[m].at = "persist" /\ asked' = [asked EXCEPT ![m] = row]
      /\ UNCHANGED <<ended, provider, sent, inbox, handling, found, promised, crossed, cutShort>>
  BY DEF PersistSchedule
<1>2. InFlight(m) /\ Asks(m, "cancel") /\ asked[m].kind = "cancel"
  BY <1>0, <1>1 DEF InFlight, Asks, KnowsItsWay
<1>3. /\ row \in AskedRows /\ row.at = "move" /\ row.kind = "cancel" /\ row.from = asked[m].from
      /\ row.to = asked[m].to
  BY <1>0, <1>2 DEF AskedRows
<1> HIDE DEF row
<1>4. /\ asked' \in [Merchants -> AskedRows] /\ asked'[m] = row
      /\ \A o \in Merchants \ {m} :
           /\ asked'[o] = asked[o] /\ (InFlight(o)' <=> InFlight(o))
           /\ Asks(o, "cancel")' <=> Asks(o, "cancel")
           /\ Asks(o, "accept")' <=> Asks(o, "accept")
  BY <1>0, <1>1, <1>3, OthersStay
<1>5. InFlight(m)' /\ Asks(m, "cancel")' /\ ~Asks(m, "accept")'
  BY <1>3, <1>4 DEF InFlight, Asks
<1>6. /\ sub' \in SubRows /\ sub'.status = sub.status /\ misdated' \in BOOLEAN
      /\ misdated' \/ (~misdated' /\ ~misdated /\ sub'.ends = asked[m].ends)
  <2>1. CASE sub' = [sub EXCEPT !.ends = StripeDate(m)] /\ UNCHANGED misdated
    <3>1. StripeDate(m) = asked[m].ends /\ asked[m].ends \in Nat
      BY <1>0 DEF StripeDate, AskedRows
    <3>2. misdated \in BOOLEAN
      BY <1>0 DEF BillingTypes
    <3> QED
      BY <1>0, <2>1, <3>1, <3>2 DEF SubRows
  <2>2. CASE misdated' = TRUE /\ UNCHANGED sub
    BY <1>0, <2>2
  <2> QED
    BY <2>1, <2>2 DEF PersistSchedule
<1>7. BillingTypes'
  BY <1>0, <1>1, <1>4, <1>6 DEF BillingTypes
<1>8. OneAtATime'
  BY <1>1, <1>2, <1>4 DEF BillingInv, OneAtATime
<1>9. KnowsItsWay'
  BY <1>0, <1>1, <1>2, <1>3, <1>4, <1>5 DEF KnowsItsWay
<1>10. StripeKnows'
  BY <1>0, <1>1, <1>2, <1>4, <1>5, <1>6 DEF StripeKnows, Stopped
<1>11. DateKept'
  <2>1. ~crossed => sub.status # "cancel_scheduled" /\ \A o \in Merchants \ {m} : ~InFlight(o)
    BY <1>0, <1>2, Alone DEF StripeKnows
  <2>2. ~crossed /\ ~misdated => promised = asked[m].ends
    BY <1>0, <1>1, <1>2 DEF DateKept
  <2>3. promised \in Nat
    BY <1>0 DEF BillingTypes
  <2> QED
    BY <1>0, <1>1, <1>3, <1>4, <1>6, <2>1, <2>2, <2>3 DEF DateKept, Asks
<1> QED
  BY <1>0, <1>1, <1>7, <1>8, <1>9, <1>10, <1>11, EventsStay DEF BillingInv, KeptToPeriodEnd

LEMMA MoveStatusKeeps ==
  ASSUME BillingInv, NEW m \in Merchants, MoveStatus(m)
  PROVE  BillingInv'
<1> DEFINE row == [asked[m] EXCEPT !.at = "over"]
<1>0. /\ BillingTypes /\ EventsSent /\ asked[m] \in AskedRows /\ sub \in SubRows
      /\ KnowsItsWay /\ StripeKnows /\ DateKept
  BY DEF BillingInv, BillingTypes
<1>1. /\ asked[m].at = "move" /\ asked' = [asked EXCEPT ![m] = row]
      /\ sub' = Moved(sub, asked[m].from, asked[m].to)
      /\ UNCHANGED <<ended, provider, sent, inbox, handling, found, promised, misdated, crossed, cutShort>>
  BY DEF MoveStatus
<1>2. InFlight(m) /\ (Asks(m, "cancel") \/ Asks(m, "accept"))
  BY <1>0, <1>1 DEF InFlight, Asks, AskedRows
<1>3. row \in AskedRows /\ row.at = "over"
  BY <1>0 DEF AskedRows
<1> HIDE DEF row
<1>4. /\ asked' \in [Merchants -> AskedRows] /\ asked'[m] = row
      /\ \A o \in Merchants \ {m} :
           /\ asked'[o] = asked[o] /\ (InFlight(o)' <=> InFlight(o))
           /\ Asks(o, "cancel")' <=> Asks(o, "cancel")
           /\ Asks(o, "accept")' <=> Asks(o, "accept")
  BY <1>0, <1>1, <1>3, OthersStay
<1>5. ~InFlight(m)' /\ ~Asks(m, "cancel")' /\ ~Asks(m, "accept")'
  BY <1>3, <1>4 DEF InFlight, Asks
<1>6. /\ sub' \in SubRows /\ sub'.ends = sub.ends
      /\ sub'.status = IF sub.status = asked[m].from THEN asked[m].to ELSE sub.status
  BY <1>0, <1>1 DEF Moved, SubRows, AskedRows
<1>7. BillingTypes'
  BY <1>0, <1>1, <1>4, <1>6 DEF BillingTypes
<1>8. OneAtATime'
  BY <1>1, <1>4, <1>5 DEF BillingInv, OneAtATime
<1>9. KnowsItsWay'
  BY <1>0, <1>3, <1>4, <1>5 DEF KnowsItsWay
<1>10. ~crossed => \A o \in Merchants \ {m} : ~InFlight(o)
  BY <1>2, Alone
<1>11. ~crossed => \A o \in Merchants : ~Asks(o, "cancel")' /\ ~Asks(o, "accept")'
  BY <1>4, <1>5, <1>10 DEF Asks
<1>12. \/ Asks(m, "cancel") /\ asked[m].to = "cancel_scheduled"
       \/ sub'.status # "cancel_scheduled"
  <2>1. CASE Asks(m, "cancel")
    BY <1>0, <1>1, <2>1 DEF KnowsItsWay
  <2>2. CASE Asks(m, "accept")
    BY <1>0, <1>1, <1>6, <2>2 DEF KnowsItsWay
  <2> QED
    BY <1>2, <2>1, <2>2
<1>13. StripeKnows'
  <2>1. Asks(m, "cancel") /\ ~crossed => Stopped
    BY <1>0, <1>1 DEF StripeKnows
  <2>2. Stopped' <=> Stopped
    BY <1>1 DEF Stopped
  <2> QED
    BY <1>1, <1>11, <1>12, <2>1, <2>2 DEF StripeKnows
<1>14. DateKept'
  <2>1. Asks(m, "cancel") /\ ~crossed /\ ~misdated => promised <= sub.ends
    BY <1>0, <1>1 DEF DateKept
  <2> QED
    BY <1>0, <1>1, <1>6, <1>11, <1>12, <2>1 DEF DateKept
<1> QED
  BY <1>0, <1>1, <1>7, <1>8, <1>9, <1>13, <1>14, EventsStay DEF BillingInv, KeptToPeriodEnd

LEMMA RequestDiesKeeps ==
  ASSUME BillingInv, NEW m \in Merchants, RequestDies(m)
  PROVE  BillingInv'
<1> DEFINE row == [asked[m] EXCEPT !.at = "over"]
<1>0. BillingTypes /\ EventsSent /\ asked[m] \in AskedRows /\ provider \in ProviderRows /\ crossed \in BOOLEAN
  BY DEF BillingInv, BillingTypes
<1>1. row \in AskedRows /\ row.at = "over"
  BY <1>0 DEF AskedRows
<1>2. /\ InFlight(m) /\ asked' = [asked EXCEPT ![m] = row]
      /\ crossed' = (crossed \/ asked[m].at # "stripe")
      /\ UNCHANGED <<sub, ended, provider, sent, inbox, handling, found, promised, misdated, cutShort>>
  BY DEF RequestDies
<1> HIDE DEF row
<1>3. EventsSent'
  BY <1>0, <1>2, EventsStay
<1>4. crossed' \in BOOLEAN /\ (~crossed' => ~crossed) /\ (asked[m].at = "stripe" \/ crossed') /\ (Stopped => Stopped')
  BY <1>0, <1>2 DEF Stopped
<1> QED
  BY <1>0, <1>1, <1>2, <1>3, <1>4, RequestEnds

LEMMA BillingStepKeeps == BillingInv /\ [BillingNext]_billingVars => BillingInv'
<1>1. ASSUME BillingInv, UNCHANGED billingVars PROVE BillingInv'
  <2>1. InboxApart /\ UNCHANGED <<sent, inbox, handling>>
    BY <1>1 DEF billingVars, InboxApart
  <2> QED
    BY <1>1, <2>1, EventsStay, InboxApartKeeps DEF BillingInv
<1>2. ASSUME BillingInv, BillingNext PROVE BillingInv'
  BY <1>2, StripeKeeps, CronsKeep, InboxStepsKeep, DispatchKeeps, AskCancelKeeps, CallStripeKeeps,
     PersistScheduleKeeps, MoveStatusKeeps, RequestDiesKeeps DEF BillingNext, Handling, Asking
<1> QED
  BY <1>1, <1>2

\* Whatever is lost, repeated, late or dies, for any number of requests, events
\* and periods: a store that is to be cancelled is cancelled at Stripe, and a
\* merchant keeps the access that was promised (cancel/service.go,
\* lifecycle/finalize.go, billing/dispatch/handlers.go).
THEOREM CancellationIsKept == BillingSpec => []BillingSafe
<1>1. BillingInv => BillingSafe
  <2>1. ASSUME NEW m \in Merchants, Asks(m, "accept") PROVE InFlight(m) /\ asked[m].kind = "accept"
    BY <2>1 DEF Asks
  <2> QED
    BY <2>1 DEF BillingInv, BillingSafe, CancelReachesStripe, StripeKnows, Stopped
<1> QED
  BY <1>1, BillingInitInv, BillingStepKeeps, PTL DEF BillingSpec
-----------------------------------------------------------------------------
(* An import accounts for the rows of its file *)

JobStatuses == {"absent", "queued", "running", "paused", "completed", "failed", "cancelled"}
PodSteps == {"tick", "claim", "start", "open", "rows", "checkpoint", "check", "complete",
             "down", "recover"}

JobRows == [status : JobStatuses, last : Nat, success : Nat, errors : Nat]
FoundRows == [job : Imports, last : Nat, success : Nat, errors : Nat]
PodRows == [at : PodSteps, found : Seq(FoundRows), job : Imports \union {NoJob}, next : Nat,
            saved : Nat, last : Nat, success : Nat, errors : Nat, heedless : Nat]

Counts(j) == [n \in DOMAIN Products(j) |-> RowCount(j, n)]
MadeIn(M, j) == {n \in DOMAIN Products(j) : M[Products(j)[n].handle] = j}

\* What a job's row, a row a replica fetched and a replica at work say of a
\* job's progress, by the catalogue M, the error rows R and the failed reads U: it
\* stands between two products, counts each row before that once, and claims none
\* that was not made.
Progress(M, R, U, j, x) ==
  /\ x.last <= x.success + x.errors /\ x.success + x.errors <= x.last + U
  /\ \E n \in 0..Len(Products(j)) : x.last = LastRow(j, n)
  /\ \A n \in DOMAIN Products(j) :
       LastRow(j, n) <= x.last =>
         M[Products(j)[n].handle] # NoJob \/ <<j, Products(j)[n].handle>> \in R
  /\ x.success <= SumFunctionOnSet(Counts(j), MadeIn(M, j))

\* How far a replica may be past the cancel of its job.
Heeds(x) ==
  /\ x.at \in {"start", "open"} => x.heedless = 0 /\ x.saved = x.last
  /\ x.at \in {"rows", "complete"} =>
       x.heedless <= x.last - x.saved /\ x.last - x.saved < CheckpointEvery
  /\ x.at \in {"checkpoint", "check"} =>
       /\ x.saved = x.last /\ x.next > 1
       /\ x.heedless < CheckpointEvery + RowCount(x.job, x.next - 1)

\* A replica x and what it has in its hands.
Sound(M, R, U, x) ==
  /\ x.job = NoJob <=> x.at \in {"tick", "claim", "down", "recover"}
  /\ x.at \in {"claim", "recover"} => x.found # <<>>
  /\ \A n \in DOMAIN x.found : Progress(M, R, U, x.found[n].job, x.found[n])
  /\ x.job # NoJob =>
       /\ Progress(M, R, U, x.job, x) /\ Heeds(x)
       /\ x.next \in 1..Len(Products(x.job)) + 1
       /\ x.last = LastRow(x.job, x.next - 1)
       /\ x.at = "complete" => x.next = Len(Products(x.job)) + 1

Full(j) == LastRow(j, Len(Products(j)))

ImportTypes ==
  /\ job \in [Imports -> JobRows] /\ pod \in [Pods -> PodRows]
  /\ made \in [Handles -> Imports \union {NoJob}]
  /\ \A ask \in asking : ask.job \in Imports
  /\ stale \subseteq Imports /\ unread \in Nat

\* A job that was never shared has one replica at most, and none once completed;
\* a completed job has accounted for its products.
OneReplica ==
  \A p, q \in Pods : p # q /\ pod[p].job # NoJob /\ pod[p].job = pod[q].job => pod[p].job \in shared
DoneInFull ==
  /\ \A j \in Imports : job[j].status = "completed" => \A n \in DOMAIN Products(j) : Accounted(j, n)
  /\ \A j \in Imports \ shared : job[j].status = "completed" => ~WorkedOn(j)
  /\ \A j \in Imports \ (shared \union unsaved) : job[j].status = "completed" => job[j].last = Full(j)
  /\ \A p \in Pods :
       pod[p].at = "complete" /\ pod[p].job \notin shared \union unsaved =>
         job[pod[p].job].last = Full(pod[p].job)

ImportInv ==
  /\ ImportTypes /\ OneReplica /\ DoneInFull
  /\ \A j \in Imports : Progress(made, rejected, unread, j, job[j])
  /\ \A p \in Pods : Sound(made, rejected, unread, pod[p])
LEMMA SeqElements ==
  ASSUME NEW S, NEW s \in Seq(S)
  PROVE  /\ Len(s) \in Nat /\ DOMAIN s = 1..Len(s) /\ \A n \in DOMAIN s : s[n] \in S
         /\ s # <<>> => Head(s) = s[1] /\ Tail(s) \in Seq(S) /\ Len(s) > 0
                          /\ Len(Tail(s)) = Len(s) - 1
         /\ s # <<>> => \A n \in DOMAIN Tail(s) : n + 1 \in DOMAIN s /\ Tail(s)[n] = s[n + 1]
OBVIOUS

\* A file has its rows in order, so a product has rows and a place in the file.
LEMMA FileOrder ==
  ASSUME NEW j \in Imports
  PROVE  /\ Len(Products(j)) \in Nat /\ DOMAIN Products(j) = 1..Len(Products(j))
         /\ \A n \in 0..Len(Products(j)) : LastRow(j, n) \in Nat
         /\ \A m, n \in 0..Len(Products(j)) : m < n <=> LastRow(j, m) < LastRow(j, n)
         /\ \A n \in DOMAIN Products(j) :
              Products(j)[n].handle \in Handles /\ RowCount(j, n) \in Nat
         /\ Full(j) \in Nat
<1>1. /\ Products(j) \in Seq([handle : Handles, last : Nat])
      /\ \A m, n \in 0..Len(Products(j)) : m < n => LastRow(j, m) < LastRow(j, n)
  BY ImportAssumption
<1>2. /\ Len(Products(j)) \in Nat /\ DOMAIN Products(j) = 1..Len(Products(j))
      /\ \A n \in DOMAIN Products(j) : Products(j)[n] \in [handle : Handles, last : Nat]
  <2>1. PICK s \in Seq([handle : Handles, last : Nat]) : s = Products(j)
    BY <1>1
  <2> QED BY <2>1, SeqElements
<1>3. ASSUME NEW n \in 0..Len(Products(j)) PROVE LastRow(j, n) \in Nat
  BY <1>2 DEF LastRow
<1>4. ASSUME NEW m \in 0..Len(Products(j)), NEW n \in 0..Len(Products(j))
      PROVE  m < n <=> LastRow(j, m) < LastRow(j, n)
  <2>1. LastRow(j, m) \in Nat /\ LastRow(j, n) \in Nat /\ m \in Nat /\ n \in Nat
    BY <1>2, <1>3
  <2>2. /\ m < n => LastRow(j, m) < LastRow(j, n)
        /\ n < m => LastRow(j, n) < LastRow(j, m)
    BY <1>1
  <2> QED BY <2>1, <2>2
<1>5. ASSUME NEW n \in DOMAIN Products(j) PROVE RowCount(j, n) \in Nat
  <2>1. n \in 0..Len(Products(j)) /\ n - 1 \in 0..Len(Products(j)) /\ n - 1 < n
    BY <1>2
  <2>2. LastRow(j, n - 1) < LastRow(j, n) /\ LastRow(j, n - 1) \in Nat /\ LastRow(j, n) \in Nat
    BY <1>1, <1>3, <2>1
  <2> QED BY <2>2 DEF RowCount
<1>6. Full(j) \in Nat
  BY <1>2, <1>3 DEF Full
<1> QED BY <1>2, <1>3, <1>4, <1>5, <1>6

\* The catalogue only grows: what was said of a job's progress stays true.
LEMMA ProgressStays ==
  ASSUME NEW M \in [Handles -> Imports \union {NoJob}], NEW R, NEW U \in Nat,
         NEW N \in [Handles -> Imports \union {NoJob}], NEW Q, NEW V \in Nat,
         \A h \in Handles : M[h] # NoJob => N[h] = M[h], R \subseteq Q, U <= V,
         NEW j \in Imports, NEW x, x.success \in Nat, x.errors \in Nat, x.last \in Nat,
         Progress(M, R, U, j, x)
  PROVE  Progress(N, Q, V, j, x)
<1> DEFINE S == MadeIn(M, j)
           T == MadeIn(N, j)
<1>1. /\ DOMAIN Products(j) = 1..Len(Products(j)) /\ Len(Products(j)) \in Nat
      /\ \A n \in DOMAIN Products(j) : Products(j)[n].handle \in Handles /\ RowCount(j, n) \in Nat
  BY FileOrder
<1>2. j # NoJob
  BY ImportAssumption DEF NoJob
<1>3. S \subseteq T /\ T \subseteq DOMAIN Products(j)
  BY <1>1, <1>2 DEF MadeIn
<1>4. IsFiniteSet(T)
  <2>1. IsFiniteSet(1..Len(Products(j)))
    BY <1>1, FS_Interval
  <2> QED BY <1>1, <1>3, <2>1, FS_Subset
<1>5. SumFunctionOnSet(Counts(j), S) <= SumFunctionOnSet(Counts(j), T)
  <2>1. \A n \in T : Counts(j)[n] \in Nat
    BY <1>1, <1>3 DEF Counts
  <2> HIDE DEF S, T
  <2> QED BY <1>3, <1>4, <2>1, SumPart
<1>6. SumFunctionOnSet(Counts(j), S) \in Nat /\ SumFunctionOnSet(Counts(j), T) \in Nat
  <2>1. \A n \in T : Counts(j)[n] \in Nat
    BY <1>1, <1>3 DEF Counts
  <2>2. IsFiniteSet(S)
    BY <1>3, <1>4, FS_Subset
  <2> HIDE DEF S, T
  <2> QED BY <1>3, <1>4, <2>1, <2>2, SumNat
<1>7. x.success <= SumFunctionOnSet(Counts(j), T)
  <2>1. x.success <= SumFunctionOnSet(Counts(j), S)
    BY DEF Progress
  <2> HIDE DEF S, T
  <2> QED BY <1>5, <1>6, <2>1
<1>8. ASSUME NEW n \in DOMAIN Products(j), LastRow(j, n) <= x.last
      PROVE  N[Products(j)[n].handle] # NoJob \/ <<j, Products(j)[n].handle>> \in Q
  <2>1. M[Products(j)[n].handle] # NoJob \/ <<j, Products(j)[n].handle>> \in R
    BY <1>8 DEF Progress
  <2> QED BY <1>1, <2>1
<1>9. x.last <= x.success + x.errors /\ x.success + x.errors <= x.last + V
  <2>1. x.last <= x.success + x.errors /\ x.success + x.errors <= x.last + U
    BY DEF Progress
  <2>2. x.success + x.errors \in Nat
    OBVIOUS
  <2> QED BY <2>1, <2>2
<1> QED BY <1>7, <1>8, <1>9 DEF Progress

\* So does what a replica has in its hands.
LEMMA SoundStays ==
  ASSUME NEW M \in [Handles -> Imports \union {NoJob}], NEW R, NEW U \in Nat,
         NEW N \in [Handles -> Imports \union {NoJob}], NEW Q, NEW V \in Nat,
         \A h \in Handles : M[h] # NoJob => N[h] = M[h], R \subseteq Q, U <= V,
         NEW x \in PodRows, Sound(M, R, U, x)
  PROVE  Sound(N, Q, V, x)
<1>1. ASSUME NEW n \in DOMAIN x.found PROVE Progress(N, Q, V, x.found[n].job, x.found[n])
  <2>1. x.found[n] \in FoundRows
    BY DEF PodRows
  <2>2. /\ x.found[n].job \in Imports /\ x.found[n].success \in Nat
        /\ x.found[n].errors \in Nat /\ x.found[n].last \in Nat
    BY <2>1 DEF FoundRows
  <2>3. Progress(M, R, U, x.found[n].job, x.found[n])
    BY DEF Sound
  <2> QED BY <2>2, <2>3, ProgressStays
<1>2. ASSUME x.job # NoJob PROVE Progress(N, Q, V, x.job, x)
  <2>1. x.job \in Imports /\ x.success \in Nat /\ x.errors \in Nat /\ x.last \in Nat
    BY <1>2 DEF PodRows
  <2> QED BY <1>2, <2>1, ProgressStays DEF Sound
<1> QED BY <1>1, <1>2 DEF Sound
\* Steps that leave the catalogue alone and complete no job: a job's status may
\* change, and replicas go on with what they have in their hands or drop it.
LEMMA ProgressUntouched ==
  ASSUME ImportInv, UNCHANGED <<made, rejected, unread, shared, unsaved>>,
         \A ask \in asking' : ask.job \in Imports, stale' \subseteq Imports,
         \/ UNCHANGED job
         \/ \E j \in Imports, status \in JobStatuses \ {"completed"} : SetStatus(j, status),
         pod' \in [Pods -> PodRows],
         \A p \in Pods :
           pod'[p] = pod[p] \/ /\ Sound(made, rejected, unread, pod'[p])
                               /\ pod'[p].job \in {pod[p].job, NoJob} /\ pod'[p].at # "complete"
  PROVE  ImportInv'
<1> DEFINE Kept(i) == /\ job'[i].success = job[i].success /\ job'[i].errors = job[i].errors
                      /\ job'[i].last = job[i].last
                      /\ job'[i].status = "completed" => job[i].status = "completed"
<1>1. job' \in [Imports -> JobRows] /\ \A i \in Imports : Kept(i)
  <2>1. job \in [Imports -> JobRows]
    BY DEF ImportInv, ImportTypes
  <2>2. CASE UNCHANGED job
    BY <2>1, <2>2
  <2>3. ASSUME NEW j \in Imports, NEW status \in JobStatuses \ {"completed"}, SetStatus(j, status)
        PROVE  job' \in [Imports -> JobRows] /\ \A i \in Imports : Kept(i)
    <3>1. job' = [job EXCEPT ![j].status = status]
      BY <2>3 DEF SetStatus
    <3> QED BY <2>1, <3>1 DEF JobRows
  <2> QED BY <2>2, <2>3
<1>2. ImportTypes'
  BY <1>1 DEF ImportInv, ImportTypes
<1>3. OneReplica'
  <2>1. \A p \in Pods : pod'[p].job # NoJob => pod'[p].job = pod[p].job
    OBVIOUS
  <2> QED BY <2>1 DEF ImportInv, OneReplica
<1>4. DoneInFull'
  <2>1. \A p \in Pods : pod'[p].job # NoJob => pod'[p].job = pod[p].job
    OBVIOUS
  <2>2. ASSUME NEW j \in Imports \ shared, job'[j].status = "completed"
        PROVE  ~WorkedOn(j)'
    <3>1. ~WorkedOn(j) /\ j # NoJob
      BY <1>1, <2>2, ImportAssumption DEF ImportInv, DoneInFull, NoJob
    <3> QED BY <1>1, <2>1, <2>2, <3>1 DEF WorkedOn
  <2>4. ASSUME NEW j \in Imports \ (shared \union unsaved), job'[j].status = "completed"
        PROVE  job'[j].last = Full(j)
    BY <1>1, <2>4 DEF ImportInv, DoneInFull
  <2>5. ASSUME NEW j \in Imports, job'[j].status = "completed", NEW n \in DOMAIN Products(j)
        PROVE  Accounted(j, n)'
    <3>1. Accounted(j, n)
      BY <1>1, <2>5 DEF ImportInv, DoneInFull
    <3> QED BY <3>1 DEF Accounted
  <2>3. ASSUME NEW p \in Pods, pod'[p].at = "complete", pod'[p].job \notin shared \union unsaved
        PROVE  job'[pod'[p].job].last = Full(pod'[p].job)
    <3>1. pod'[p] = pod[p]
      BY <2>3
    <3>2. pod[p].job \in Imports
      BY <2>3, <3>1 DEF ImportInv, ImportTypes, Sound, PodRows
    <3> QED BY <1>1, <2>3, <3>1, <3>2 DEF ImportInv, DoneInFull
  <2> QED BY <2>2, <2>3, <2>4, <2>5 DEF DoneInFull
<1>5. ASSUME NEW j \in Imports PROVE Progress(made, rejected, unread, j, job'[j])
  <2>1. Progress(made, rejected, unread, j, job[j])
    BY DEF ImportInv
  <2> QED BY <1>1, <2>1 DEF Progress
<1>6. \A p \in Pods : Sound(made, rejected, unread, pod'[p])
  BY DEF ImportInv
<1> QED BY <1>2, <1>3, <1>4, <1>5, <1>6 DEF ImportInv
LEMMA MerchantKeeps ==
  ASSUME ImportInv,
         \/ \E j \in Imports : Submit(j) \/ GoesStale(j) \/ HeartbeatsFail(j)
         \/ \E j \in Imports, kind \in {"cancel", "resume"} : Ask(kind, j)
         \/ \E ask \in asking : Answer(ask)
         \/ UNCHANGED importVars
  PROVE  ImportInv'
<1> USE DEF ImportInv, ImportTypes
<1>1. UNCHANGED <<made, rejected, unread, shared, unsaved, pod>>
  BY DEF Submit, GoesStale, HeartbeatsFail, Ask, Answer, importVars
<1>2. /\ \A ask \in asking' : ask.job \in Imports
      /\ stale' \subseteq Imports
  BY DEF Submit, GoesStale, HeartbeatsFail, Ask, Answer, importVars
<1> DEFINE OneMoves == \E j \in Imports, status \in JobStatuses \ {"completed"} : SetStatus(j, status)
<1>3. UNCHANGED job \/ OneMoves
  <2>1. {"queued", "cancelled"} \subseteq JobStatuses \ {"completed"}
    BY DEF JobStatuses
  <2>2. ASSUME NEW ask \in asking, Answer(ask) PROVE OneMoves
    BY <2>1, <2>2 DEF Answer
  <2>3. ASSUME NEW j \in Imports, Submit(j) PROVE OneMoves
    BY <2>1, <2>3 DEF Submit
  <2> QED BY <2>2, <2>3 DEF GoesStale, HeartbeatsFail, Ask, importVars
<1> QED BY <1>1, <1>2, <1>3, ProgressUntouched

\* The rows a query returns say of their jobs what the jobs' rows say.
LEMMA FetchedRows ==
  ASSUME ImportInv, NEW J \in SUBSET Imports, NEW order \in Listings(J)
  PROVE  /\ Fetched(order) \in Seq(FoundRows)
         /\ J # {} => Fetched(order) # <<>>
         /\ \A n \in DOMAIN Fetched(order) :
              Progress(made, rejected, unread, Fetched(order)[n].job, Fetched(order)[n])
<1>1. IsFiniteSet(J)
  BY ImportAssumption, FS_Subset
<1>2. Cardinality(J) \in Nat /\ (J # {} => Cardinality(J) # 0)
  BY <1>1, FS_CardinalityType, FS_EmptySet
<1>3. order \in [1..Cardinality(J) -> J]
  BY DEF Listings, Injection
<1>4. ASSUME NEW n \in 1..Cardinality(J)
      PROVE  /\ Fetched(order)[n] = Row(order[n]) /\ Row(order[n]) \in FoundRows
             /\ Progress(made, rejected, unread, order[n], Row(order[n]))
  <2>1. order[n] \in Imports /\ job[order[n]] \in JobRows
    BY <1>3 DEF ImportInv, ImportTypes
  <2>2. Progress(made, rejected, unread, order[n], job[order[n]])
    BY <2>1 DEF ImportInv
  <2>3. /\ Row(order[n]).success = job[order[n]].success
        /\ Row(order[n]).errors = job[order[n]].errors /\ Row(order[n]).last = job[order[n]].last
    BY DEF Row
  <2>4. Progress(made, rejected, unread, order[n], Row(order[n]))
    BY <2>2, <2>3 DEF Progress
  <2> QED BY <1>3, <2>1, <2>4 DEF Fetched, Row, JobRows, FoundRows
<1>5. Fetched(order) \in [1..Cardinality(J) -> FoundRows]
  BY <1>3, <1>4 DEF Fetched
<1>6. Fetched(order) \in Seq(FoundRows) /\ DOMAIN Fetched(order) = 1..Cardinality(J)
  <2> DEFINE k == Cardinality(J)
             s == Fetched(order)
  <2>1. k \in Nat /\ s \in [1..k -> FoundRows]
    BY <1>2, <1>5
  <2> HIDE DEF k, s
  <2>2. s \in Seq(FoundRows) /\ DOMAIN s = 1..k
    BY <2>1
  <2> QED BY <2>2 DEF k, s
<1>7. J # {} => Fetched(order) # <<>>
  BY <1>2, <1>6
<1>8. ASSUME NEW n \in DOMAIN Fetched(order)
      PROVE  Progress(made, rejected, unread, Fetched(order)[n].job, Fetched(order)[n])
  <2>1. n \in 1..Cardinality(J)
    BY <1>6, <1>8
  <2>2. /\ Fetched(order)[n] = Row(order[n])
        /\ Progress(made, rejected, unread, order[n], Row(order[n]))
    BY <1>4, <2>1
  <2>3. Row(order[n]).job = order[n]
    BY DEF Row
  <2> QED BY <2>2, <2>3, Zenon
<1> QED BY <1>6, <1>7, <1>8

\* A replica without a job is sound when the rows it fetched are.
LEMMA ReplicaGoesOn ==
  ASSUME ImportInv, NEW p \in Pods, NEW x \in PodRows, pod' = [pod EXCEPT ![p] = x],
         x.job = NoJob, x.at \in {"tick", "claim", "down", "recover"},
         x.at \in {"claim", "recover"} => x.found # <<>>,
         \A n \in DOMAIN x.found : Progress(made, rejected, unread, x.found[n].job, x.found[n]),
         UNCHANGED <<made, rejected, unread, shared, unsaved, stale, asking>>,
         \/ UNCHANGED job
         \/ \E j \in Imports, status \in JobStatuses \ {"completed"} : SetStatus(j, status)
  PROVE  ImportInv'
<1>1. pod \in [Pods -> PodRows] /\ stale \subseteq Imports /\ \A ask \in asking : ask.job \in Imports
  BY DEF ImportInv, ImportTypes
<1>2. Sound(made, rejected, unread, x)
  BY DEF Sound
<1>3. pod' \in [Pods -> PodRows] /\ pod'[p] = x /\ \A q \in Pods : q # p => pod'[q] = pod[q]
  BY <1>1
<1> QED BY <1>1, <1>2, <1>3, ProgressUntouched

LEMMA FoundKept ==
  ASSUME ImportInv, NEW p \in Pods
  PROVE  /\ pod[p].found \in Seq(FoundRows)
         /\ \A n \in DOMAIN pod[p].found :
              Progress(made, rejected, unread, pod[p].found[n].job, pod[p].found[n])
         /\ pod[p].found # <<>> =>
              /\ Head(pod[p].found) \in FoundRows /\ Tail(pod[p].found) \in Seq(FoundRows)
              /\ Progress(made, rejected, unread, Head(pod[p].found).job, Head(pod[p].found))
              /\ Len(pod[p].found) = 1 <=> Tail(pod[p].found) = <<>>
              /\ \A n \in DOMAIN Tail(pod[p].found) :
                   Progress(made, rejected, unread,
                            Tail(pod[p].found)[n].job, Tail(pod[p].found)[n])
<1> DEFINE s == pod[p].found
<1>1. s \in Seq(FoundRows)
  BY DEF ImportInv, ImportTypes, PodRows
<1>2. \A n \in DOMAIN s : Progress(made, rejected, unread, s[n].job, s[n])
  BY DEF ImportInv, Sound
<1> HIDE DEF s
<1>3. ASSUME s # <<>>
      PROVE  /\ Head(s) \in FoundRows /\ Tail(s) \in Seq(FoundRows)
             /\ Progress(made, rejected, unread, Head(s).job, Head(s))
             /\ Len(s) = 1 <=> Tail(s) = <<>>
             /\ \A n \in DOMAIN Tail(s) : Progress(made, rejected, unread, Tail(s)[n].job, Tail(s)[n])
  <2>1. /\ Len(s) \in Nat /\ DOMAIN s = 1..Len(s) /\ \A n \in DOMAIN s : s[n] \in FoundRows
        /\ Head(s) = s[1] /\ Tail(s) \in Seq(FoundRows) /\ Len(s) > 0 /\ Len(Tail(s)) = Len(s) - 1
        /\ \A n \in DOMAIN Tail(s) : n + 1 \in DOMAIN s /\ Tail(s)[n] = s[n + 1]
    BY <1>1, <1>3, SeqElements
  <2>2. 1 \in DOMAIN s
    BY <2>1
  <2>3. Len(s) = 1 <=> Tail(s) = <<>>
    <3>1. Tail(s) = <<>> <=> Len(Tail(s)) = 0
      BY <2>1
    <3> QED BY <2>1, <3>1
  <2>4. \A n \in DOMAIN Tail(s) : Progress(made, rejected, unread, Tail(s)[n].job, Tail(s)[n])
    BY <1>2, <2>1
  <2> QED BY <1>2, <2>1, <2>2, <2>3, <2>4
<1> QED BY <1>1, <1>2, <1>3 DEF s
\* A replica's place tells whether it has a job.
LEMMA AtWork ==
  ASSUME ImportInv, NEW p \in Pods
  PROVE  /\ pod[p] \in PodRows /\ Sound(made, rejected, unread, pod[p])
         /\ pod[p].at \in {"start", "open", "rows", "checkpoint", "check", "complete"} =>
              /\ pod[p].job \in Imports /\ pod[p].job # NoJob
              /\ job[pod[p].job] \in JobRows
              /\ Progress(made, rejected, unread, pod[p].job, pod[p]) /\ Heeds(pod[p])
<1>1. pod[p] \in PodRows /\ Sound(made, rejected, unread, pod[p]) /\ job \in [Imports -> JobRows]
  BY DEF ImportInv, ImportTypes
<1>2. pod[p].job \in Imports \union {NoJob}
  BY <1>1 DEF PodRows
<1> QED BY <1>1, <1>2 DEF Sound

LEMMA RestRows ==
  ASSUME NEW queue \in Seq(FoundRows), NEW at \in PodSteps
  PROVE  [Resting EXCEPT !.found = queue, !.at = at] \in PodRows
BY DEF Resting, PodRows

\* A replica drops its job, or never had one, and is left with rows it fetched.
LEMMA ReplicaRests ==
  ASSUME ImportInv, NEW p \in Pods, NEW queue \in Seq(FoundRows),
         NEW at \in {"tick", "claim", "down"}, at = "claim" => queue # <<>>,
         \A n \in DOMAIN queue : Progress(made, rejected, unread, queue[n].job, queue[n]),
         pod' = [pod EXCEPT ![p] = [Resting EXCEPT !.found = queue, !.at = at]],
         UNCHANGED <<made, rejected, unread, shared, unsaved, stale, asking>>,
         \/ UNCHANGED job
         \/ \E j \in Imports, status \in JobStatuses \ {"completed"} : SetStatus(j, status)
  PROVE  ImportInv'
<1> DEFINE x == [Resting EXCEPT !.found = queue, !.at = at]
<1>1. x \in PodRows
  BY RestRows DEF PodSteps
<1>2. x.job = NoJob /\ x.at = at /\ x.found = queue
  BY DEF Resting
<1>3. pod' = [pod EXCEPT ![p] = x]
  OBVIOUS
<1> HIDE DEF x
<1> QED BY <1>1, <1>2, <1>3, ReplicaGoesOn

\* The dispatcher's ticks, its recovery scan, and jobs that are dropped.
LEMMA DispatcherKeeps ==
  ASSUME ImportInv, NEW p \in Pods,
         \/ FindQueuedJobs(p) \/ Boot(p) \/ PauseOrphan(p)
         \/ StoreUnresolved(p) \/ OpenFails(p) \/ Crash(p)
         \/ StatementFails(p) /\ pod[p].at \in {"claim", "complete", "recover", "down"}
  PROVE  ImportInv'
<1>1. UNCHANGED <<made, rejected, unread, shared, unsaved, stale, asking>>
  BY DEF FindQueuedJobs, Boot, PauseOrphan, StoreUnresolved, OpenFails, Crash, StatementFails
<1>2. pod[p] \in PodRows /\ Sound(made, rejected, unread, pod[p])
  BY AtWork
<1>3. CASE FindQueuedJobs(p)
  <2>1. Oldest \subseteq Imports /\ Oldest # {}
    <3>1. Queued \subseteq Nat /\ Queued # {} /\ Queued \subseteq Imports
      BY <1>3, ImportAssumption DEF FindQueuedJobs, Queued
    <3>2. PICK j \in Queued : \A i \in Queued : j <= i
      BY <3>1, LeastNatural
    <3>3. {i \in Queued : i < j} = {}
      <4>1. ASSUME NEW i \in Queued, i < j PROVE FALSE
        <5>1. i \in Nat /\ j \in Nat /\ j <= i
          BY <3>1, <3>2
        <5> QED BY <4>1, <5>1
      <4> QED BY <4>1
    <3>4. j \in Oldest
      <4>1. Cardinality({i \in Queued : i < j}) = 0
        BY <3>3, FS_EmptySet
      <4>2. 0 < JobBatch
        BY ImportAssumption
      <4> QED BY <3>2, <4>1, <4>2 DEF Oldest
    <3> QED BY <3>1, <3>4 DEF Oldest
  <2>2. PICK order \in Listings(Oldest) :
          pod' = [pod EXCEPT ![p].at = "claim", ![p].found = Fetched(order)]
    BY <1>3 DEF FindQueuedJobs
  <2> DEFINE x == [pod[p] EXCEPT !.at = "claim", !.found = Fetched(order)]
  <2>3. /\ Fetched(order) \in Seq(FoundRows) /\ Fetched(order) # <<>>
        /\ \A n \in DOMAIN Fetched(order) :
             Progress(made, rejected, unread, Fetched(order)[n].job, Fetched(order)[n])
    BY <2>1, <2>2, FetchedRows
  <2>4. x \in PodRows
    BY <1>2, <2>3 DEF PodRows, PodSteps
  <2>5. pod[p].job = NoJob
    BY <1>2, <1>3 DEF FindQueuedJobs, Sound
  <2>6. x.job = NoJob /\ x.at = "claim" /\ x.found = Fetched(order)
    BY <1>2, <2>5 DEF PodRows
  <2>7. pod' = [pod EXCEPT ![p] = x]
    BY <2>2
  <2>8. UNCHANGED job
    BY <1>3 DEF FindQueuedJobs
  <2> HIDE DEF x
  <2> QED BY <1>1, <2>3, <2>4, <2>6, <2>7, <2>8, ReplicaGoesOn
<1>4. CASE Boot(p)
  <2>1. Orphans \subseteq Imports
    BY DEF ImportInv, ImportTypes, Orphans
  <2> DEFINE at == IF Orphans = {} THEN "tick" ELSE "recover"
  <2>2. PICK order \in Listings(Orphans) :
          pod' = [pod EXCEPT ![p].at = at, ![p].found = Fetched(order)]
    BY <1>4 DEF Boot
  <2> DEFINE x == [pod[p] EXCEPT !.at = at, !.found = Fetched(order)]
  <2>3. /\ Fetched(order) \in Seq(FoundRows) /\ (Orphans # {} => Fetched(order) # <<>>)
        /\ \A n \in DOMAIN Fetched(order) :
             Progress(made, rejected, unread, Fetched(order)[n].job, Fetched(order)[n])
    BY <2>1, <2>2, FetchedRows
  <2>4. x \in PodRows
    BY <1>2, <2>3 DEF PodRows, PodSteps
  <2>5. pod[p].job = NoJob
    BY <1>2, <1>4 DEF Boot, Sound
  <2>6. x.job = NoJob /\ x.at = at /\ x.found = Fetched(order)
    BY <1>2, <2>5 DEF PodRows
  <2>7. pod' = [pod EXCEPT ![p] = x]
    BY <2>2
  <2>8. UNCHANGED job /\ at \in {"tick", "recover"} /\ (at = "recover" => Fetched(order) # <<>>)
    BY <1>4, <2>3 DEF Boot
  <2> HIDE DEF x, at
  <2> QED BY <1>1, <2>3, <2>4, <2>6, <2>7, <2>8, ReplicaGoesOn
<1>5. CASE PauseOrphan(p) \/ (StatementFails(p) /\ pod[p].at = "recover")
  <2> DEFINE s == pod[p].found
             at == IF Len(s) = 1 THEN "tick" ELSE "recover"
             x == [pod[p] EXCEPT !.found = Tail(s), !.at = at]
  <2>1. s # <<>> /\ pod[p].job = NoJob
    BY <1>2, <1>5 DEF PauseOrphan, StatementFails, Sound
  <2>2. /\ Head(s) \in FoundRows /\ Tail(s) \in Seq(FoundRows)
        /\ Len(s) = 1 <=> Tail(s) = <<>>
        /\ \A n \in DOMAIN Tail(s) : Progress(made, rejected, unread, Tail(s)[n].job, Tail(s)[n])
    BY <2>1, FoundKept
  <2>3. x \in PodRows
    BY <1>2, <2>2 DEF PodRows, PodSteps
  <2>4. x.job = NoJob /\ x.at = at /\ x.found = Tail(s)
    BY <1>2, <2>1 DEF PodRows
  <2>5. pod' = [pod EXCEPT ![p] = x]
    BY <1>5 DEF PauseOrphan, StatementFails, Spared
  <2>6. at \in {"tick", "recover"} /\ (at = "recover" => Tail(s) # <<>>)
    BY <2>2
  <2>7. UNCHANGED job \/ \E j \in Imports, status \in JobStatuses \ {"completed"} : SetStatus(j, status)
    <3>1. Head(s).job \in Imports /\ "paused" \in JobStatuses \ {"completed"}
      BY <2>2 DEF FoundRows, JobStatuses
    <3> QED BY <1>5, <3>1 DEF PauseOrphan, StatementFails
  <2> HIDE DEF x, at, s
  <2> QED BY <1>1, <2>2, <2>3, <2>4, <2>5, <2>6, <2>7, ReplicaGoesOn
<1>6. CASE StoreUnresolved(p) \/ OpenFails(p) \/ (StatementFails(p) /\ pod[p].at = "complete")
  <2>1. pod' = [pod EXCEPT ![p] = NextJob(p)]
    BY <1>6 DEF StoreUnresolved, OpenFails, StatementFails
  <2>2. UNCHANGED job \/ \E j \in Imports, status \in JobStatuses \ {"completed"} : SetStatus(j, status)
    <3>1. OpenFails(p) => pod[p].job \in Imports
      BY AtWork DEF OpenFails
    <3>2. "failed" \in JobStatuses \ {"completed"}
      BY DEF JobStatuses
    <3> QED BY <1>6, <3>1, <3>2 DEF StoreUnresolved, OpenFails, StatementFails
  <2> QED BY <1>1, <2>1, <2>2, FoundKept, ReplicaRests DEF NextJob
<1>7. CASE Crash(p) \/ (StatementFails(p) /\ pod[p].at = "down")
  <2> DEFINE x == IF Crash(p) THEN Down ELSE Resting
  <2>1. x.job = NoJob /\ x.at \in {"down", "tick"} /\ x.found = <<>>
    BY DEF Down, Resting, NoJob
  <2>4. x \in PodRows
    <3>1. <<>> \in Seq(FoundRows) /\ {"tick", "down"} \subseteq PodSteps
      BY DEF PodSteps
    <3>2. Resting \in PodRows
      BY <3>1 DEF Resting, PodRows
    <3> QED BY <3>1, <3>2 DEF PodRows, Down
  <2>2. pod' = [pod EXCEPT ![p] = x] /\ UNCHANGED job
    BY <1>7 DEF Crash, StatementFails
  <2>3. \A n \in DOMAIN x.found : Progress(made, rejected, unread, x.found[n].job, x.found[n])
    BY <2>1
  <2> HIDE DEF x
  <2> QED BY <1>1, <2>1, <2>2, <2>3, <2>4, ReplicaGoesOn
<1>8. CASE StatementFails(p) /\ pod[p].at = "claim"
  <2>1. pod' = [pod EXCEPT ![p] = Passed(p)] /\ UNCHANGED job /\ pod[p].found # <<>>
    BY <1>2, <1>8 DEF StatementFails, Sound
  <2> QED BY <1>1, <2>1, FoundKept, ReplicaRests DEF Passed
<1> QED BY <1>3, <1>4, <1>5, <1>6, <1>7, <1>8
\* The row a claimed job starts from says which product comes next.
LEMMA NextProduct ==
  ASSUME NEW j \in Imports, NEW k \in 0..Len(Products(j))
  PROVE  1 + Cardinality({n \in DOMAIN Products(j) : LastRow(j, n) <= LastRow(j, k)}) = k + 1
<1> DEFINE S == {n \in DOMAIN Products(j) : LastRow(j, n) <= LastRow(j, k)}
<1>1. /\ Len(Products(j)) \in Nat /\ DOMAIN Products(j) = 1..Len(Products(j)) /\ k \in Nat
      /\ \A n \in 0..Len(Products(j)) : LastRow(j, n) \in Nat
      /\ \A m, n \in 0..Len(Products(j)) : m < n <=> LastRow(j, m) < LastRow(j, n)
  BY FileOrder
<1>2. ASSUME NEW n \in DOMAIN Products(j) PROVE LastRow(j, n) <= LastRow(j, k) <=> n <= k
  <2>1. n \in 0..Len(Products(j)) /\ n \in Nat
    BY <1>1
  <2>2. LastRow(j, n) \in Nat /\ LastRow(j, k) \in Nat /\ (k < n <=> LastRow(j, k) < LastRow(j, n))
    BY <1>1, <2>1
  <2> QED BY <1>1, <2>1, <2>2
<1>3. S = 1..k
  <2>1. ASSUME NEW n \in 1..k PROVE n \in S
    <3>1. n \in DOMAIN Products(j) /\ n <= k
      BY <1>1
    <3> QED BY <1>2, <3>1
  <2>2. ASSUME NEW n \in S PROVE n \in 1..k
    <3>1. n \in DOMAIN Products(j) /\ n <= k /\ n \in 1..Len(Products(j))
      BY <1>1, <1>2
    <3> QED BY <1>1, <3>1
  <2> HIDE DEF S
  <2> QED BY <2>1, <2>2
<1>4. Cardinality(1..k) = k
  BY <1>1, FS_Interval
<1> HIDE DEF S
<1>5. Cardinality(S) = k
  BY <1>3, <1>4
<1> QED BY <1>1, <1>5 DEF S

\* A claim: the job runs, and if another replica works on it, it is shared now.
LEMMA ClaimKeeps ==
  ASSUME ImportInv, NEW p \in Pods, ClaimJob(p)
  PROVE  ImportInv'
<1> DEFINE s == pod[p].found
           row == Head(s)
           j == row.job
<1>1. /\ pod[p] \in PodRows /\ pod[p].job = NoJob /\ s # <<>>
      /\ UNCHANGED <<made, rejected, unread, unsaved, asking>>
  BY AtWork DEF ClaimJob, Sound
<1>2. /\ row \in FoundRows /\ Tail(s) \in Seq(FoundRows)
      /\ Progress(made, rejected, unread, j, row)
      /\ \A n \in DOMAIN Tail(s) : Progress(made, rejected, unread, Tail(s)[n].job, Tail(s)[n])
  BY <1>1, FoundKept
<1>3. j \in Imports /\ j # NoJob
  BY <1>2, ImportAssumption DEF FoundRows, NoJob
<1>4. CASE job[j].status # "queued"
  <2>1. pod' = [pod EXCEPT ![p] = Passed(p)] /\ UNCHANGED <<job, stale, shared>>
    BY <1>4 DEF ClaimJob
  <2> QED BY <1>1, <1>2, <2>1, ReplicaRests DEF Passed
<1>5. CASE job[j].status = "queued"
  <2> DEFINE x == Claimed(p)
  <2>1. /\ job' = [job EXCEPT ![j].status = "running"] /\ stale' = stale \ {j}
        /\ shared' = IF WorkedOn(j) THEN shared \union {j} ELSE shared
        /\ pod' = [pod EXCEPT ![p] = x]
    BY <1>5 DEF ClaimJob, SetStatus
  <2>2. PICK k \in 0..Len(Products(j)) : row.last = LastRow(j, k)
    BY <1>2 DEF Progress
  <2>3. /\ x.at = "start" /\ x.found = Tail(s) /\ x.job = j /\ x.next = k + 1
        /\ x.saved = row.last /\ x.last = row.last /\ x.success = row.success
        /\ x.errors = row.errors /\ x.heedless = 0
    <3>1. 1 + Cardinality({n \in DOMAIN Products(j) : LastRow(j, n) <= row.last}) = k + 1
      BY <1>3, <2>2, NextProduct
    <3> HIDE DEF j, row
    <3>2. x = [pod[p] EXCEPT !.at = "start", !.found = Tail(s), !.job = j, !.next = k + 1,
                             !.saved = row.last, !.last = row.last,
                             !.success = row.success, !.errors = row.errors, !.heedless = 0]
      BY <3>1, Zenon DEF Claimed, j, row
    <3> HIDE DEF x, s
    <3> QED BY <1>1, <3>2 DEF PodRows
  <2>4. x \in PodRows
    <3>1. row.last \in Nat /\ row.success \in Nat /\ row.errors \in Nat /\ k + 1 \in Nat
      <4>1. k \in Nat
        BY <1>3, FileOrder
      <4> HIDE DEF j, row, s
      <4> QED BY <1>2, <4>1 DEF FoundRows
    <3>2. x = [pod[p] EXCEPT !.at = "start", !.found = Tail(s), !.job = j, !.next = k + 1,
                             !.saved = row.last, !.last = row.last,
                             !.success = row.success, !.errors = row.errors, !.heedless = 0]
      BY <1>3, <2>2, NextProduct, Zenon DEF Claimed
    <3> HIDE DEF x, s, j, row
    <3> QED BY <1>1, <1>2, <1>3, <3>1, <3>2 DEF PodRows, PodSteps
  <2>5. Sound(made, rejected, unread, x)
    <3>1. Progress(made, rejected, unread, j, x)
      BY <1>2, <2>3 DEF Progress
    <3>2. k + 1 \in 1..Len(Products(j)) + 1 /\ (k + 1) - 1 = k
      BY <1>3, FileOrder
    <3> HIDE DEF x, s, j, row
    <3> QED BY <1>2, <1>3, <2>2, <2>3, <3>1, <3>2 DEF Sound, Heeds
  <2> HIDE DEF x, j, s, row
  <2>6. ImportTypes'
    <3>1. job' \in [Imports -> JobRows]
      BY <2>1 DEF ImportInv, ImportTypes, JobRows, JobStatuses
    <3> QED BY <1>1, <2>1, <2>4, <3>1 DEF ImportInv, ImportTypes
  <2>7. pod'[p] = x /\ \A q \in Pods : q # p => pod'[q] = pod[q]
    BY <2>1 DEF ImportInv, ImportTypes
  <2>8. OneReplica'
    <3>1. ASSUME NEW q \in Pods, q # p, pod[q].job = j PROVE j \in shared'
      BY <2>1, <3>1 DEF WorkedOn
    <3>2. shared \subseteq shared'
      BY <2>1
    <3> QED BY <2>3, <2>7, <3>1, <3>2 DEF ImportInv, OneReplica
  <2>9. /\ \A i \in Imports \ {j} : job'[i] = job[i]
        /\ job'[j].status = "running" /\ job'[j].last = job[j].last
        /\ job'[j].success = job[j].success /\ job'[j].errors = job[j].errors
    BY <1>3, <2>1 DEF ImportInv, ImportTypes, JobRows
  <2>10. DoneInFull'
    <3>1. ASSUME NEW i \in Imports, job'[i].status = "completed"
          PROVE  i # j /\ job[i].status = "completed"
      BY <2>9, <3>1
    <3>3. ASSUME NEW i \in Imports \ shared', job'[i].status = "completed"
          PROVE  ~WorkedOn(i)'
      <4>1. i # j /\ i \notin shared
        BY <2>1, <3>1, <3>3
      <4>2. ~WorkedOn(i)
        BY <3>1, <3>3, <4>1 DEF ImportInv, DoneInFull
      <4> QED BY <2>3, <2>7, <4>1, <4>2 DEF WorkedOn
    <3>4. ASSUME NEW i \in Imports \ (shared \union unsaved)', job'[i].status = "completed"
          PROVE  job'[i].last = Full(i)
      <4>1. i \notin shared \union unsaved
        BY <1>1, <2>1, <3>4
      <4> QED BY <2>9, <3>1, <3>4, <4>1 DEF ImportInv, DoneInFull
    <3>5. ASSUME NEW i \in Imports, job'[i].status = "completed", NEW n \in DOMAIN Products(i)
          PROVE  Accounted(i, n)'
      <4>1. Accounted(i, n)
        BY <3>1, <3>5 DEF ImportInv, DoneInFull
      <4> QED BY <1>1, <4>1 DEF Accounted
    <3>2. ASSUME NEW q \in Pods, pod'[q].at = "complete", pod'[q].job \notin (shared \union unsaved)'
          PROVE  job'[pod'[q].job].last = Full(pod'[q].job)
      <4>1. q # p /\ pod'[q] = pod[q] /\ pod[q].job \notin shared \union unsaved
        BY <1>1, <2>1, <2>3, <2>7, <3>2
      <4>2. pod[q].job \in Imports
        BY <3>2, <4>1, AtWork
      <4>3. job'[pod[q].job].last = job[pod[q].job].last
        BY <2>9, <4>2
      <4> QED BY <3>2, <4>1, <4>3 DEF ImportInv, DoneInFull
    <3> QED BY <3>2, <3>3, <3>4, <3>5 DEF DoneInFull
  <2>11. ASSUME NEW i \in Imports PROVE Progress(made, rejected, unread, i, job'[i])
    <3>1. Progress(made, rejected, unread, i, job[i])
      BY DEF ImportInv
    <3> QED BY <2>9, <3>1 DEF Progress
  <2>12. \A q \in Pods : Sound(made, rejected, unread, pod'[q])
    BY <2>5, <2>7 DEF ImportInv
  <2> QED BY <1>1, <2>6, <2>8, <2>10, <2>11, <2>12 DEF ImportInv
<1> QED BY <1>4, <1>5
\* A worker moves on and keeps its progress: it begins, opens its file, and goes
\* on after a checkpoint, which may fail, unless it reads that its job is cancelled.
LEMMA WorkerMoves ==
  ASSUME ImportInv, NEW p \in Pods,
         \/ RunStart(p) \/ Open(p) \/ CheckCancelled(p)
         \/ StatementFails(p) /\ pod[p].at \in {"checkpoint", "check"}
  PROVE  ImportInv'
<1> DEFINE j == pod[p].job
<1>1. /\ pod[p] \in PodRows /\ Sound(made, rejected, unread, pod[p])
      /\ j \in Imports /\ j # NoJob /\ Progress(made, rejected, unread, j, pod[p]) /\ Heeds(pod[p])
  BY AtWork DEF RunStart, Open, CheckCancelled
<1>2. UNCHANGED <<made, rejected, unread, shared, unsaved, stale, asking>>
  BY DEF RunStart, Open, CheckCancelled, StatementFails
<1>3. ASSUME NEW x \in PodRows, pod' = [pod EXCEPT ![p] = x], x.found = pod[p].found,
             x.job = j, x.last = pod[p].last, x.next = pod[p].next, x.saved = pod[p].saved,
             x.success = pod[p].success, x.errors = pod[p].errors,
             Heeds(x), x.at \in {"open", "check", "rows"},
             UNCHANGED job \/ SetStatus(j, "running")
      PROVE  ImportInv'
  <2>1. Progress(made, rejected, unread, j, x)
    BY <1>1, <1>3 DEF Progress
  <2>2. Sound(made, rejected, unread, x)
    <3> HIDE DEF j
    <3> QED BY <1>1, <1>3, <2>1 DEF Sound, j
  <2>3. pod' \in [Pods -> PodRows] /\ pod'[p] = x /\ \A q \in Pods : q # p => pod'[q] = pod[q]
    BY <1>3 DEF ImportInv, ImportTypes
  <2>4. UNCHANGED job
        \/ \E i \in Imports, status \in JobStatuses \ {"completed"} : SetStatus(i, status)
    BY <1>1, <1>3 DEF JobStatuses
  <2>5. \A q \in Pods :
          pod'[q] = pod[q] \/ /\ Sound(made, rejected, unread, pod'[q])
                              /\ pod'[q].job \in {pod[q].job, NoJob} /\ pod'[q].at # "complete"
    BY <1>3, <2>2, <2>3
  <2>6. (\A ask \in asking' : ask.job \in Imports) /\ stale' \subseteq Imports
    BY <1>2 DEF ImportInv, ImportTypes
  <2> QED BY <1>2, <2>3, <2>4, <2>5, <2>6, ProgressUntouched
<1>4. CASE RunStart(p)
  <2> DEFINE x == [pod[p] EXCEPT !.at = "open"]
  <2>1. /\ x \in PodRows /\ x.found = pod[p].found /\ x.job = j /\ x.last = pod[p].last
        /\ x.next = pod[p].next /\ x.saved = pod[p].saved /\ x.success = pod[p].success
        /\ x.errors = pod[p].errors /\ x.at = "open" /\ x.heedless = pod[p].heedless
    BY <1>1 DEF PodRows, PodSteps
  <2>2. pod[p].at = "start" /\ pod' = [pod EXCEPT ![p] = x] /\ SetStatus(j, "running")
    BY <1>4 DEF RunStart
  <2> HIDE DEF x, j
  <2>3. Heeds(x)
    BY <1>1, <2>1, <2>2 DEF Heeds
  <2> QED BY <1>3, <2>1, <2>2, <2>3
<1>5. CASE Open(p)
  <2> DEFINE x == [pod[p] EXCEPT !.at = "rows"]
  <2>1. /\ x \in PodRows /\ x.found = pod[p].found /\ x.job = j /\ x.last = pod[p].last
        /\ x.next = pod[p].next /\ x.saved = pod[p].saved /\ x.success = pod[p].success
        /\ x.errors = pod[p].errors /\ x.at = "rows" /\ x.heedless = pod[p].heedless
        /\ pod[p].last \in Nat
    BY <1>1 DEF PodRows, PodSteps
  <2>2. pod[p].at = "open" /\ pod' = [pod EXCEPT ![p] = x] /\ UNCHANGED job
    BY <1>5 DEF Open
  <2> HIDE DEF x, j
  <2>3. Heeds(x)
    <3>1. x.heedless = 0 /\ x.saved = x.last /\ x.last \in Nat
      BY <1>1, <2>1, <2>2 DEF Heeds
    <3>2. CheckpointEvery \in Nat \ {0}
      BY ImportAssumption
    <3> QED BY <2>1, <3>1, <3>2 DEF Heeds
  <2> QED BY <1>3, <2>1, <2>2, <2>3
<1>6. CASE CheckCancelled(p) /\ IsCancelled(p)
  <2>1. pod' = [pod EXCEPT ![p] = NextJob(p)] /\ UNCHANGED job
    BY <1>6 DEF CheckCancelled
  <2> QED BY <1>2, <2>1, FoundKept, ReplicaRests DEF NextJob
<1>7. CASE (CheckCancelled(p) /\ ~IsCancelled(p)) \/ (StatementFails(p) /\ pod[p].at = "check")
  <2> DEFINE x == [pod[p] EXCEPT !.at = "rows", !.heedless = 0]
  <2>1. /\ x \in PodRows /\ x.found = pod[p].found /\ x.job = j /\ x.last = pod[p].last
        /\ x.next = pod[p].next /\ x.saved = pod[p].saved /\ x.success = pod[p].success
        /\ x.errors = pod[p].errors /\ x.at = "rows" /\ x.heedless = 0
        /\ pod[p].last \in Nat
    BY <1>1 DEF PodRows, PodSteps
  <2>2. pod[p].at = "check" /\ pod' = [pod EXCEPT ![p] = x] /\ UNCHANGED job
    BY <1>7 DEF CheckCancelled, IsCancelled, StatementFails
  <2> HIDE DEF x, j
  <2>3. Heeds(x)
    <3>1. x.saved = x.last /\ x.last \in Nat
      BY <1>1, <2>1, <2>2 DEF Heeds
    <3>2. CheckpointEvery \in Nat \ {0}
      BY ImportAssumption
    <3> QED BY <2>1, <3>1, <3>2 DEF Heeds
  <2> QED BY <1>3, <2>1, <2>2, <2>3
<1>8. CASE StatementFails(p) /\ pod[p].at = "checkpoint"
  <2> DEFINE x == [pod[p] EXCEPT !.at = "check"]
  <2>1. /\ x \in PodRows /\ x.found = pod[p].found /\ x.job = j /\ x.last = pod[p].last
        /\ x.next = pod[p].next /\ x.saved = pod[p].saved /\ x.success = pod[p].success
        /\ x.errors = pod[p].errors /\ x.at = "check" /\ x.heedless = pod[p].heedless
    BY <1>1 DEF PodRows, PodSteps
  <2>2. pod[p].at = "checkpoint" /\ pod' = [pod EXCEPT ![p] = x] /\ UNCHANGED job
    BY <1>8 DEF StatementFails
  <2> HIDE DEF x
  <2>3. Heeds(x)
    BY <1>1, <2>1, <2>2 DEF Heeds
  <2> QED BY <1>3, <2>1, <2>2, <2>3
<1> QED BY <1>4, <1>5, <1>6, <1>7, <1>8
\* A product the job makes now was not counted before.
LEMMA MadeNow ==
  ASSUME NEW M \in [Handles -> Imports \union {NoJob}], NEW j \in Imports,
         NEW n \in DOMAIN Products(j), M[Products(j)[n].handle] = NoJob,
         NEW N, N = [M EXCEPT ![Products(j)[n].handle] = j]
  PROVE  SumFunctionOnSet(Counts(j), MadeIn(M, j)) + RowCount(j, n)
           <= SumFunctionOnSet(Counts(j), MadeIn(N, j))
<1> DEFINE S == MadeIn(M, j)
           T == MadeIn(N, j)
           U == S \union {n}
           f == Counts(j)
<1>1. /\ DOMAIN Products(j) = 1..Len(Products(j)) /\ Len(Products(j)) \in Nat
      /\ \A m \in DOMAIN Products(j) : Products(j)[m].handle \in Handles /\ RowCount(j, m) \in Nat
  BY FileOrder
<1>2. j # NoJob
  BY ImportAssumption DEF NoJob
<1>3. n \notin S /\ U \subseteq T /\ T \subseteq DOMAIN Products(j)
  BY <1>1, <1>2 DEF MadeIn
<1>4. IsFiniteSet(T) /\ IsFiniteSet(U)
  <2>1. IsFiniteSet(1..Len(Products(j)))
    BY <1>1, FS_Interval
  <2> HIDE DEF S, T, U
  <2> QED BY <1>1, <1>3, <2>1, FS_Subset
<1>5. f[n] = RowCount(j, n) /\ \A m \in T : f[m] \in Nat
  BY <1>1, <1>3 DEF Counts
<1>6. U \ {n} = S /\ n \in U /\ U \subseteq T
  <2> HIDE DEF S, T
  <2> QED BY <1>3
<1> HIDE DEF S, T, U, f
<1>7. \A m \in U : f[m] \in Int
  BY <1>5, <1>6
<1>8. SumFunctionOnSet(f, U) = f[n] + SumFunctionOnSet(f, S)
  BY <1>4, <1>6, <1>7, SumWithout
<1>9. SumFunctionOnSet(f, U) <= SumFunctionOnSet(f, T)
  BY <1>4, <1>5, <1>6, SumPart
<1>10. SumFunctionOnSet(f, S) \in Nat
  <2>1. IsFiniteSet(S) /\ \A m \in S : f[m] \in Nat
    BY <1>4, <1>5, <1>6, FS_Subset
  <2> QED BY <2>1, SumNat
<1>11. RowCount(j, n) \in Nat
  BY <1>1
<1>12. SumFunctionOnSet(f, T) \in Nat
  BY <1>4, <1>5, SumNat
<1>13. SumFunctionOnSet(f, S) + RowCount(j, n) <= SumFunctionOnSet(f, T)
  BY <1>5, <1>8, <1>9, <1>10, <1>11, <1>12
<1> QED BY <1>13 DEF S, T, f

\* A product imported: its rows are counted once, as made or as errors.
LEMMA ImportKeeps ==
  ASSUME ImportInv, NEW p \in Pods, ImportProduct(p)
  PROVE  ImportInv'
<1> DEFINE j == pod[p].job
           n == pod[p].next
           product == Products(j)[n]
           rows == RowCount(j, n)
           free == made[product.handle] = NoJob /\ product.handle \notin Invalid
           due == CheckpointDue(p, product.last)
           ignored == pod[p].heedless + IF job[j].status = "cancelled" THEN rows ELSE 0
           x(a, b) == [pod[p] EXCEPT !.next = n + 1, !.last = product.last,
                         !.success = @ + a, !.errors = @ + b,
                         !.saved = IF due THEN product.last ELSE @, !.heedless = ignored,
                         !.at = IF due THEN "checkpoint" ELSE "rows"]
<1>1. /\ pod[p] \in PodRows /\ Sound(made, rejected, unread, pod[p]) /\ pod[p].at = "rows"
      /\ j \in Imports /\ j # NoJob /\ Progress(made, rejected, unread, j, pod[p]) /\ Heeds(pod[p])
  BY AtWork DEF ImportProduct
<1>2. /\ n \in Nat /\ pod[p].last \in Nat /\ pod[p].saved \in Nat /\ pod[p].heedless \in Nat
      /\ pod[p].success \in Nat /\ pod[p].errors \in Nat
  BY <1>1 DEF PodRows
<1>3. /\ n \in DOMAIN Products(j) /\ n - 1 \in 0..Len(Products(j)) /\ n \in 0..Len(Products(j))
      /\ n + 1 \in 1..Len(Products(j)) + 1 /\ n # 0
  <2>1. n \in 1..Len(Products(j)) + 1 /\ ~(n > Len(Products(j)))
    BY <1>1 DEF ImportProduct, AllRead, Sound
  <2>2. Len(Products(j)) \in Nat /\ DOMAIN Products(j) = 1..Len(Products(j))
    BY <1>1, FileOrder
  <2> HIDE DEF j, n
  <2> QED BY <1>2, <2>1, <2>2
<1>4. /\ product.last = LastRow(j, n) /\ pod[p].last = LastRow(j, n - 1)
      /\ product.handle \in Handles /\ rows \in Nat /\ product.last \in Nat
      /\ product.last = pod[p].last + rows
  <2>1. /\ product.handle \in Handles /\ rows \in Nat
        /\ LastRow(j, n) \in Nat /\ LastRow(j, n - 1) \in Nat
    BY <1>1, <1>3, FileOrder
  <2>2. product.last = LastRow(j, n)
    BY <1>3 DEF LastRow
  <2>3. pod[p].last = LastRow(j, n - 1)
    BY <1>1 DEF Sound
  <2>4. rows = LastRow(j, n) - LastRow(j, n - 1)
    BY DEF RowCount
  <2> HIDE DEF j, n, product, rows
  <2> QED BY <2>1, <2>2, <2>3, <2>4
<1>5. PICK a \in {0, rows}, b \in {0, rows} :
        /\ a + b = rows /\ (a = rows /\ rows # 0 => free)
        /\ pod' = [pod EXCEPT ![p] = x(a, b)]
        /\ free \/ <<j, product.handle>> \in rejected'
        /\ rejected \subseteq rejected'
  <2>1. \/ free /\ pod' = [pod EXCEPT ![p] = x(rows, 0)] /\ UNCHANGED rejected
        \/ /\ pod' = [pod EXCEPT ![p] = x(0, rows)]
           /\ rejected' = rejected \union {<<j, product.handle>>}
    BY DEF ImportProduct
  <2>2. rows + 0 = rows /\ 0 + rows = rows
    BY <1>4
  <2> HIDE DEF free, x, j, product, rows
  <2> QED BY <2>1, <2>2
<1>6. /\ made' = IF free THEN [made EXCEPT ![product.handle] = j] ELSE made
      /\ UNCHANGED <<job, stale, asking, shared, unread, unsaved>>
  BY DEF ImportProduct
<1>7. /\ made' \in [Handles -> Imports \union {NoJob}] /\ made \in [Handles -> Imports \union {NoJob}]
      /\ \A h \in Handles : made[h] # NoJob => made'[h] = made[h]
      /\ free => made'[product.handle] # NoJob
  <2>1. made \in [Handles -> Imports \union {NoJob}]
    BY DEF ImportInv, ImportTypes
  <2>2. free => made[product.handle] = NoJob /\ made' = [made EXCEPT ![product.handle] = j]
    BY <1>6
  <2>3. ~free => made' = made
    BY <1>6
  <2> HIDE DEF free, j, product
  <2> QED BY <1>1, <1>4, <2>1, <2>2, <2>3
<1> DEFINE y == x(a, b)
<1>8. /\ y.next = n + 1 /\ y.last = product.last /\ y.success = pod[p].success + a
      /\ y.errors = pod[p].errors + b /\ y.saved = (IF due THEN product.last ELSE pod[p].saved)
      /\ y.heedless = ignored /\ y.at = (IF due THEN "checkpoint" ELSE "rows")
      /\ y.job = j /\ y.found = pod[p].found
  <2> DEFINE at == IF due THEN "checkpoint" ELSE "rows"
             saved == IF due THEN product.last ELSE pod[p].saved
             last == product.last
             next == n + 1
  <2>1. y = [pod[p] EXCEPT !.next = next, !.last = last, !.success = @ + a, !.errors = @ + b,
                           !.saved = saved, !.heedless = ignored, !.at = at]
    OBVIOUS
  <2> HIDE DEF y, n, product, rows, free, due, ignored, at, saved, last, next
  <2>2. /\ y.next = next /\ y.last = last /\ y.success = pod[p].success + a
        /\ y.errors = pod[p].errors + b /\ y.saved = saved
        /\ y.heedless = ignored /\ y.at = at /\ y.job = j /\ y.found = pod[p].found
    BY <1>1, <2>1 DEF PodRows
  <2> QED BY <2>2 DEF at, saved, last, next
<1>9. ignored \in Nat /\ ignored <= pod[p].heedless + rows
  <2> HIDE DEF j, rows
  <2> QED BY <1>2, <1>4
<1>10. y \in PodRows
  <2>1. a \in Nat /\ b \in Nat
    BY <1>4, <1>5
  <2>2. /\ n + 1 \in Nat /\ pod[p].success + a \in Nat /\ pod[p].errors + b \in Nat
        /\ (IF due THEN product.last ELSE pod[p].saved) \in Nat
        /\ (IF due THEN "checkpoint" ELSE "rows") \in PodSteps
    BY <1>2, <1>4, <2>1 DEF PodSteps
  <2> DEFINE at == IF due THEN "checkpoint" ELSE "rows"
             saved == IF due THEN product.last ELSE pod[p].saved
             last == product.last
             next == n + 1
             count == pod[p].success + a
             errors == pod[p].errors + b
  <2>3. y = [pod[p] EXCEPT !.next = next, !.last = last, !.success = count, !.errors = errors,
                           !.saved = saved, !.heedless = ignored, !.at = at]
    OBVIOUS
  <2>4. next \in Nat /\ last \in Nat /\ count \in Nat /\ errors \in Nat /\ saved \in Nat
        /\ ignored \in Nat /\ at \in PodSteps
    BY <1>4, <1>9, <2>2
  <2> HIDE DEF y, ignored, at, saved, last, next, count, errors
  <2> QED BY <1>1, <2>3, <2>4 DEF PodRows
<1>11. Progress(made', rejected', unread', j, y)
  <2>1. Progress(made', rejected', unread', j, pod[p])
    <3>1. unread \in Nat /\ unread' = unread /\ unread <= unread'
      BY <1>6 DEF ImportInv, ImportTypes
    <3> HIDE DEF j
    <3> QED BY <1>1, <1>2, <1>5, <1>7, <3>1, ProgressStays
  <2>2. y.last <= y.success + y.errors /\ y.success + y.errors <= y.last + unread'
    <3>1. /\ pod[p].last <= pod[p].success + pod[p].errors
          /\ pod[p].success + pod[p].errors <= pod[p].last + unread
      BY <1>1 DEF Progress
    <3>2. unread \in Nat /\ unread' = unread
      BY <1>6 DEF ImportInv, ImportTypes
    <3> HIDE DEF y, j, n, product, rows, free
    <3>3. /\ y.success + y.errors = pod[p].success + pod[p].errors + rows
          /\ y.last = pod[p].last + rows
      BY <1>2, <1>4, <1>5, <1>8
    <3> QED BY <1>2, <1>4, <3>1, <3>2, <3>3
  <2>3. \E m \in 0..Len(Products(j)) : y.last = LastRow(j, m)
    BY <1>3, <1>4, <1>8
  <2>4. ASSUME NEW m \in DOMAIN Products(j), LastRow(j, m) <= y.last
        PROVE  \/ made'[Products(j)[m].handle] # NoJob
               \/ <<j, Products(j)[m].handle>> \in rejected'
    <3>1. CASE m = n
      BY <1>5, <1>7, <3>1
    <3>2. CASE m # n
      <4>1. /\ m \in 0..Len(Products(j)) /\ m \in Nat
            /\ \A k \in 0..Len(Products(j)) : LastRow(j, k) \in Nat
            /\ \A k, l \in 0..Len(Products(j)) : k < l <=> LastRow(j, k) < LastRow(j, l)
        BY <1>1, FileOrder
      <4>2. LastRow(j, m) <= LastRow(j, n)
        BY <1>4, <1>8, <2>4
      <4> HIDE DEF y, j, n, product
      <4>3. ~(n < m)
        BY <1>3, <4>1, <4>2
      <4>4. ~(n - 1 < m)
        BY <1>2, <3>2, <4>1, <4>3
      <4>5. LastRow(j, m) <= LastRow(j, n - 1)
        BY <1>3, <4>1, <4>4
      <4> QED BY <1>4, <2>1, <4>5 DEF Progress
    <3> QED BY <3>1, <3>2
  <2>5. y.success <= SumFunctionOnSet(Counts(j), MadeIn(made', j))
    <3> DEFINE old == SumFunctionOnSet(Counts(j), MadeIn(made, j))
               new == SumFunctionOnSet(Counts(j), MadeIn(made', j))
    <3>1. new \in Nat /\ old \in Nat
      <4>1. IsFiniteSet(1..Len(Products(j))) /\ DOMAIN Products(j) = 1..Len(Products(j))
        BY <1>1, FileOrder, FS_Interval
      <4>2. MadeIn(made', j) \subseteq DOMAIN Products(j) /\ MadeIn(made, j) \subseteq DOMAIN Products(j)
        BY DEF MadeIn
      <4>3. IsFiniteSet(MadeIn(made', j)) /\ IsFiniteSet(MadeIn(made, j))
        BY <4>1, <4>2, FS_Subset
      <4>4. \A m \in DOMAIN Products(j) : Counts(j)[m] \in Nat
        BY <1>1, FileOrder DEF Counts
      <4> HIDE DEF j
      <4> QED BY <4>2, <4>3, <4>4, SumNat
    <3>2. pod[p].success <= old /\ pod[p].success <= new
      BY <1>1, <2>1 DEF Progress
    <3>3. free => old + rows <= new
      <4>1. ASSUME free PROVE old + rows <= new
        <5>1. made[product.handle] = NoJob /\ made' = [made EXCEPT ![product.handle] = j]
          BY <1>6, <4>1
        <5> HIDE DEF free
        <5> QED BY <1>1, <1>3, <1>7, <5>1, MadeNow
      <4> QED BY <4>1
    <3>4. y.success = pod[p].success + a
      BY <1>8
    <3>5. a = 0 \/ (a = rows /\ free)
      BY <1>5
    <3>6. a = 0 \/ old + a <= new
      BY <3>3, <3>5
    <3>7. a \in Nat
      BY <1>4, <1>5
    <3> HIDE DEF old, new, free, y, j, n, product, rows
    <3>8. y.success <= new
      BY <1>2, <3>1, <3>2, <3>4, <3>6, <3>7
    <3> QED BY <3>8 DEF new
  <2> HIDE DEF y, j
  <2> QED BY <2>2, <2>3, <2>4, <2>5 DEF Progress
<1>12. Heeds(y)
  <2>1. /\ pod[p].heedless <= pod[p].last - pod[p].saved
        /\ pod[p].last - pod[p].saved < CheckpointEvery
    BY <1>1 DEF Heeds
  <2>2. due <=> product.last - pod[p].saved >= CheckpointEvery
    BY DEF CheckpointDue
  <2>3. CheckpointEvery \in Nat
    BY ImportAssumption
  <2>4. y.job = j /\ (n + 1) - 1 = n /\ n + 1 > 1 /\ rows = RowCount(j, n)
    <3> HIDE DEF j, n, y
    <3>1. n \in Nat /\ n # 0
      BY <1>2, <1>3
    <3> QED BY <1>8, <3>1 DEF rows
  <2> HIDE DEF y, j, n, product, rows, due, ignored
  <2>5. CASE due
    <3>1. y.at = "checkpoint" /\ y.saved = y.last /\ y.next > 1 /\ y.next - 1 = n
      BY <1>8, <2>4, <2>5
    <3>2. y.heedless < CheckpointEvery + rows
      BY <1>2, <1>4, <1>8, <1>9, <2>1, <2>3
    <3> QED BY <2>4, <3>1, <3>2 DEF Heeds
  <2>6. CASE ~due
    <3>1. y.at = "rows"
      BY <1>8, <2>6
    <3>2. y.heedless <= y.last - y.saved /\ y.last - y.saved < CheckpointEvery
      BY <1>2, <1>4, <1>8, <1>9, <2>1, <2>2, <2>3, <2>6
    <3> QED BY <3>1, <3>2 DEF Heeds
  <2> QED BY <2>5, <2>6
<1>13. Sound(made', rejected', unread', y)
  <2>1. Sound(made', rejected', unread', pod[p])
    <3>1. unread \in Nat /\ unread' = unread /\ unread <= unread'
      BY <1>6 DEF ImportInv, ImportTypes
    <3> QED BY <1>1, <1>5, <1>7, <3>1, SoundStays
  <2>2. y.at \in {"rows", "checkpoint"} /\ y.next - 1 = n
    <3> HIDE DEF j, n, y, product, due
    <3> QED BY <1>2, <1>8
  <2> HIDE DEF j, n, y, product, due
  <2> QED BY <1>1, <1>3, <1>4, <1>8, <1>11, <1>12, <2>1, <2>2 DEF Sound
<1>14. pod' \in [Pods -> PodRows] /\ pod'[p] = y /\ \A q \in Pods : q # p => pod'[q] = pod[q]
  <2>1. pod \in [Pods -> PodRows] /\ pod' = [pod EXCEPT ![p] = y]
    BY <1>5 DEF ImportInv, ImportTypes
  <2> HIDE DEF y
  <2> QED BY <1>10, <2>1
<1>15. \A q \in Pods : Sound(made', rejected', unread', pod'[q])
  <2>1. ASSUME NEW q \in Pods, q # p PROVE Sound(made', rejected', unread', pod[q])
    <3>1. unread \in Nat /\ unread' = unread /\ unread <= unread'
      BY <1>6 DEF ImportInv, ImportTypes
    <3>2. pod[q] \in PodRows /\ Sound(made, rejected, unread, pod[q])
      BY AtWork
    <3> QED BY <1>5, <1>7, <3>1, <3>2, SoundStays
  <2> HIDE DEF y
  <2> QED BY <1>13, <1>14, <2>1
<1>16. \A i \in Imports : Progress(made', rejected', unread', i, job'[i])
  <2>1. ASSUME NEW i \in Imports PROVE Progress(made', rejected', unread', i, job[i])
    <3>1. /\ job[i].success \in Nat /\ job[i].errors \in Nat /\ job[i].last \in Nat
          /\ Progress(made, rejected, unread, i, job[i])
      BY DEF ImportInv, ImportTypes, JobRows
    <3>2. unread \in Nat /\ unread' = unread /\ unread <= unread'
      BY <1>6 DEF ImportInv, ImportTypes
    <3> QED BY <1>5, <1>7, <3>1, <3>2, ProgressStays
  <2> QED BY <1>6, <2>1
<1>17. \A q \in Pods : pod'[q].job = pod[q].job
                    /\ (pod'[q].at = "complete" => pod[q].at = "complete")
  <2>1. y.job = pod[p].job /\ y.at # "complete"
    BY <1>8
  <2> HIDE DEF y
  <2> QED BY <1>14, <2>1
<1>18. OneReplica' /\ DoneInFull'
  <2>1. OneReplica'
    BY <1>6, <1>17 DEF ImportInv, OneReplica
  <2>2. ASSUME NEW i \in Imports, job'[i].status = "completed", NEW m \in DOMAIN Products(i)
        PROVE  Accounted(i, m)'
    <3>1. Accounted(i, m) /\ Products(i)[m].handle \in Handles
      BY <1>6, <2>2, FileOrder DEF ImportInv, DoneInFull
    <3> QED BY <1>5, <1>7, <3>1 DEF Accounted
  <2>3. DoneInFull'
    BY <1>6, <1>17, <2>2 DEF ImportInv, DoneInFull, WorkedOn
  <2> QED BY <2>1, <2>3
<1>19. ImportTypes'
  BY <1>6, <1>7, <1>14 DEF ImportInv, ImportTypes
<1> QED BY <1>15, <1>16, <1>18, <1>19 DEF ImportInv
\* A checkpoint writes a worker's progress over its job's, the last one all of it.
LEMMA CheckpointKeeps ==
  ASSUME ImportInv, NEW p \in Pods, Checkpoint(p) \/ FinalCheckpoint(p)
  PROVE  ImportInv'
<1> DEFINE j == pod[p].job
           at == IF pod[p].at = "checkpoint" THEN "check" ELSE "complete"
           x == [pod[p] EXCEPT !.at = at]
           row == [job[j] EXCEPT !.last = pod[p].last, !.success = pod[p].success,
                                 !.errors = pod[p].errors]
<1>1. /\ pod[p] \in PodRows /\ Sound(made, rejected, unread, pod[p])
      /\ j \in Imports /\ j # NoJob /\ job[j] \in JobRows
      /\ Progress(made, rejected, unread, j, pod[p]) /\ Heeds(pod[p])
  BY AtWork DEF Checkpoint, FinalCheckpoint
<1>2. /\ job' = [job EXCEPT ![j] = row] /\ pod' = [pod EXCEPT ![p] = x]
      /\ UNCHANGED <<stale, made, rejected, unread, asking, shared, unsaved>>
      /\ pod[p].at = "checkpoint" \/ (pod[p].at = "rows" /\ AllRead(p))
  BY DEF Checkpoint, FinalCheckpoint, UpdateProgress
<1>3. /\ x \in PodRows /\ x.at = at /\ x.job = j /\ x.next = pod[p].next /\ x.found = pod[p].found
      /\ x.last = pod[p].last /\ x.saved = pod[p].saved /\ x.success = pod[p].success
      /\ x.errors = pod[p].errors /\ x.heedless = pod[p].heedless
  BY <1>1 DEF PodRows, PodSteps
<1>4. /\ row \in JobRows /\ row.last = pod[p].last /\ row.success = pod[p].success
      /\ row.errors = pod[p].errors /\ row.status = job[j].status
  <2> HIDE DEF j
  <2> QED BY <1>1 DEF JobRows, PodRows
<1>5. at = "complete" => pod[p].next = Len(Products(j)) + 1 /\ pod[p].last = Full(j)
  <2>1. SUFFICES ASSUME at = "complete"
        PROVE  pod[p].next = Len(Products(j)) + 1 /\ pod[p].last = Full(j)
    OBVIOUS
  <2>2. /\ pod[p].next \in 1..Len(Products(j)) + 1 /\ pod[p].next > Len(Products(j))
        /\ pod[p].last = LastRow(j, pod[p].next - 1) /\ Len(Products(j)) \in Nat
    BY <1>1, <1>2, <2>1, FileOrder DEF AllRead, Sound
  <2> HIDE DEF j
  <2>3. pod[p].next = Len(Products(j)) + 1 /\ pod[p].next - 1 = Len(Products(j))
    BY <2>2
  <2> QED BY <2>2, <2>3 DEF Full
<1>6. Sound(made, rejected, unread, x)
  <2>1. Progress(made, rejected, unread, j, x)
    BY <1>1, <1>3 DEF Progress
  <2>2. Heeds(x)
    <3> HIDE DEF j, x
    <3> QED BY <1>1, <1>2, <1>3 DEF Heeds, j
  <2> HIDE DEF x
  <2>3. x.at \in {"check", "complete"}
    BY <1>3
  <2> QED BY <1>1, <1>3, <1>5, <2>1, <2>2, <2>3 DEF Sound
<1>7. /\ job' \in [Imports -> JobRows] /\ job'[j] = row
      /\ \A i \in Imports : i # j => job'[i] = job[i]
  <2> HIDE DEF j, row
  <2> QED BY <1>1, <1>2, <1>4 DEF ImportInv, ImportTypes
<1>8. pod' \in [Pods -> PodRows] /\ pod'[p] = x /\ \A q \in Pods : q # p => pod'[q] = pod[q]
  <2> HIDE DEF x
  <2> QED BY <1>2, <1>3 DEF ImportInv, ImportTypes
<1> HIDE DEF x, row
<1>9. \A q \in Pods : pod'[q].job = pod[q].job
  BY <1>3, <1>8
<1>10. OneReplica'
  BY <1>2, <1>9 DEF ImportInv, OneReplica
<1>11. DoneInFull'
  <2>1. ASSUME NEW i \in Imports, job'[i].status = "completed"
        PROVE  job[i].status = "completed"
    BY <1>4, <1>7, <2>1
  <2>3. ASSUME NEW i \in Imports \ shared, job'[i].status = "completed"
        PROVE  ~WorkedOn(i)' /\ i # j
    <3>1. ~WorkedOn(i)
      BY <2>1, <2>3 DEF ImportInv, DoneInFull
    <3> QED BY <1>9, <3>1 DEF WorkedOn
  <2>4. ASSUME NEW i \in Imports \ (shared \union unsaved), job'[i].status = "completed"
        PROVE  job'[i].last = Full(i)
    BY <1>7, <2>1, <2>3, <2>4 DEF ImportInv, DoneInFull
  <2>5. ASSUME NEW i \in Imports, job'[i].status = "completed", NEW n \in DOMAIN Products(i)
        PROVE  Accounted(i, n)'
    <3>1. Accounted(i, n)
      BY <2>1, <2>5 DEF ImportInv, DoneInFull
    <3> QED BY <1>2, <3>1 DEF Accounted
  <2>2. ASSUME NEW q \in Pods, pod'[q].at = "complete", pod'[q].job \notin shared \union unsaved
        PROVE  job'[pod'[q].job].last = Full(pod'[q].job)
    <3>1. CASE q = p
      BY <1>3, <1>4, <1>5, <1>7, <1>8, <2>2, <3>1
    <3>2. CASE q # p
      <4>1. pod'[q] = pod[q] /\ pod[q].job \in Imports /\ pod[q].job # NoJob
        BY <1>8, <2>2, <3>2, AtWork
      <4>2. pod[q].job # j
        BY <2>2, <3>2, <4>1 DEF ImportInv, OneReplica
      <4> QED BY <1>7, <2>2, <4>1, <4>2 DEF ImportInv, DoneInFull
    <3> QED BY <3>1, <3>2
  <2> QED BY <1>2, <2>2, <2>3, <2>4, <2>5 DEF DoneInFull
<1>12. ASSUME NEW i \in Imports PROVE Progress(made, rejected, unread, i, job'[i])
  <2>1. Progress(made, rejected, unread, i, job[i])
    BY DEF ImportInv
  <2>2. Progress(made, rejected, unread, j, row)
    BY <1>1, <1>4 DEF Progress
  <2> QED BY <1>7, <2>1, <2>2
<1>13. \A q \in Pods : Sound(made, rejected, unread, pod'[q])
  BY <1>6, <1>8 DEF ImportInv
<1>14. ImportTypes'
  BY <1>2, <1>7, <1>8 DEF ImportInv, ImportTypes
<1> QED BY <1>2, <1>10, <1>11, <1>12, <1>13, <1>14 DEF ImportInv

\* A job that only one replica works on is completed in full.
LEMMA CompleteKeeps ==
  ASSUME ImportInv, NEW p \in Pods, Complete(p)
  PROVE  ImportInv'
<1> DEFINE j == pod[p].job
           s == pod[p].found
           at == IF s = <<>> THEN "tick" ELSE "claim"
           x == [Resting EXCEPT !.found = s, !.at = at]
<1>1. /\ pod[p].at = "complete" /\ job' = [job EXCEPT ![j].status = "completed"]
      /\ pod' = [pod EXCEPT ![p] = x]
      /\ UNCHANGED <<stale, made, rejected, unread, asking, shared, unsaved>>
  BY DEF Complete, SetStatus, NextJob
<1>2. j \in Imports /\ j # NoJob
  BY <1>1, AtWork
<1>3. s \in Seq(FoundRows) /\ \A n \in DOMAIN s : Progress(made, rejected, unread, s[n].job, s[n])
  BY FoundKept
<1>4. x \in PodRows
  BY <1>3, RestRows DEF PodSteps
<1>5. x.job = NoJob /\ x.at = at /\ x.found = s
  BY DEF Resting
<1>6. Sound(made, rejected, unread, x)
  <2>1. x.at \in {"tick", "claim"} /\ (x.at = "claim" => x.found # <<>>)
    BY <1>5
  <2> HIDE DEF x, s
  <2> QED BY <1>3, <1>5, <2>1 DEF Sound
<1>7. pod' \in [Pods -> PodRows] /\ pod'[p] = x /\ \A q \in Pods : q # p => pod'[q] = pod[q]
  <2> HIDE DEF x
  <2> QED BY <1>1, <1>4 DEF ImportInv, ImportTypes
<1>8. /\ job' \in [Imports -> JobRows]
      /\ \A i \in Imports : /\ job'[i].last = job[i].last /\ job'[i].success = job[i].success
                            /\ job'[i].errors = job[i].errors
                            /\ i # j => job'[i].status = job[i].status
  <2> HIDE DEF j
  <2> QED BY <1>1 DEF ImportInv, ImportTypes, JobRows, JobStatuses
<1>9. x.at # "complete"
  BY <1>5
<1> HIDE DEF x, s, at
<1>10. OneReplica'
  BY <1>1, <1>5, <1>7 DEF ImportInv, OneReplica
<1>11. DoneInFull'
  <2>3. ASSUME NEW i \in Imports, job'[i].status = "completed", NEW n \in DOMAIN Products(i)
        PROVE  Accounted(i, n)'
    <3>1. CASE i = j
      <4>1. pod[p].last = Full(j) /\ Progress(made, rejected, unread, j, pod[p])
        <5>1. /\ pod[p].next = Len(Products(j)) + 1 /\ pod[p].last = LastRow(j, pod[p].next - 1)
              /\ Progress(made, rejected, unread, j, pod[p])
          BY <1>1, <1>2, AtWork DEF Sound
        <5>2. pod[p].next - 1 = Len(Products(j))
          <6>1. Len(Products(j)) \in Nat
            BY <1>2, FileOrder
          <6> HIDE DEF j
          <6> QED BY <5>1, <6>1
        <5> QED BY <5>1, <5>2 DEF Full
      <4>2. LastRow(j, n) <= pod[p].last
        <5>1. /\ Len(Products(j)) \in Nat /\ n \in 1..Len(Products(j))
              /\ LastRow(j, n) \in Nat /\ LastRow(j, Len(Products(j))) \in Nat
              /\ n < Len(Products(j)) => LastRow(j, n) < LastRow(j, Len(Products(j)))
          <6>1. /\ Len(Products(j)) \in Nat /\ DOMAIN Products(j) = 1..Len(Products(j))
                /\ \A m \in 0..Len(Products(j)) : LastRow(j, m) \in Nat
                /\ \A m, k \in 0..Len(Products(j)) : m < k <=> LastRow(j, m) < LastRow(j, k)
            BY <1>2, FileOrder
          <6>2. n \in 0..Len(Products(j)) /\ Len(Products(j)) \in 0..Len(Products(j))
            BY <2>3, <3>1, <6>1
          <6> QED BY <2>3, <3>1, <6>1, <6>2
        <5>2. n < Len(Products(j)) \/ n = Len(Products(j))
          BY <5>1
        <5> QED BY <4>1, <5>1, <5>2 DEF Full
      <4>3. Accounted(i, n)
        BY <2>3, <3>1, <4>1, <4>2 DEF Progress, Accounted
      <4> QED BY <1>1, <4>3 DEF Accounted
    <3>2. CASE i # j
      <4>1. Accounted(i, n)
        BY <1>8, <2>3, <3>2 DEF ImportInv, DoneInFull
      <4> QED BY <1>1, <4>1 DEF Accounted
    <3> QED BY <3>1, <3>2
  <2>4. ASSUME NEW i \in Imports \ (shared \union unsaved), job'[i].status = "completed"
        PROVE  job'[i].last = Full(i)
    <3>1. CASE i = j
      BY <1>1, <1>8, <2>4, <3>1 DEF ImportInv, DoneInFull
    <3>2. CASE i # j
      BY <1>8, <2>4, <3>2 DEF ImportInv, DoneInFull
    <3> QED BY <3>1, <3>2
  <2>1. ASSUME NEW i \in Imports \ shared, job'[i].status = "completed"
        PROVE  ~WorkedOn(i)'
    <3>1. CASE i = j
      <4>2. ASSUME NEW q \in Pods, q # p PROVE pod[q].job # i
        BY <1>2, <2>1, <3>1, <4>2 DEF ImportInv, OneReplica
      <4> QED BY <1>2, <1>5, <1>7, <3>1, <4>2 DEF WorkedOn
    <3>2. CASE i # j
      <4>1. ~WorkedOn(i) /\ i # NoJob
        BY <1>8, <2>1, <3>2, ImportAssumption DEF ImportInv, DoneInFull, NoJob
      <4> QED BY <1>5, <1>7, <4>1 DEF WorkedOn
    <3> QED BY <3>1, <3>2
  <2>2. ASSUME NEW q \in Pods, pod'[q].at = "complete", pod'[q].job \notin shared \union unsaved
        PROVE  job'[pod'[q].job].last = Full(pod'[q].job)
    <3>1. pod'[q] = pod[q]
      BY <1>7, <1>9, <2>2
    <3>2. pod[q].job \in Imports
      BY <2>2, <3>1, AtWork
    <3> QED BY <1>8, <2>2, <3>1, <3>2 DEF ImportInv, DoneInFull
  <2> QED BY <1>1, <2>1, <2>2, <2>3, <2>4 DEF DoneInFull
<1>12. ASSUME NEW i \in Imports PROVE Progress(made, rejected, unread, i, job'[i])
  <2>1. Progress(made, rejected, unread, i, job[i])
    BY DEF ImportInv
  <2> QED BY <1>8, <2>1 DEF Progress
<1>13. \A q \in Pods : Sound(made, rejected, unread, pod'[q])
  BY <1>6, <1>7 DEF ImportInv
<1>14. ImportTypes'
  BY <1>1, <1>7, <1>8 DEF ImportInv, ImportTypes
<1> QED BY <1>1, <1>10, <1>11, <1>12, <1>13, <1>14 DEF ImportInv

\* A read that fails counts an error more, in one replica's hands.
LEMMA ReadKeeps ==
  ASSUME ImportInv, NEW p \in Pods, ReadFails(p)
  PROVE  ImportInv'
<1> DEFINE x == [pod[p] EXCEPT !.errors = @ + 1]
<1>1. /\ pod[p] \in PodRows /\ Sound(made, rejected, unread, pod[p]) /\ pod[p].at = "rows"
      /\ pod[p].job \in Imports /\ pod[p].job # NoJob /\ Heeds(pod[p])
      /\ Progress(made, rejected, unread, pod[p].job, pod[p])
  BY AtWork DEF ReadFails
<1>2. /\ pod' = [pod EXCEPT ![p] = x] /\ unread' = unread + 1
      /\ UNCHANGED <<job, made, rejected, shared, unsaved, stale, asking>>
  BY DEF ReadFails
<1>3. /\ unread \in Nat /\ unread' \in Nat /\ unread <= unread'
      /\ made \in [Handles -> Imports \union {NoJob}]
  BY <1>2 DEF ImportInv, ImportTypes
<1>4. /\ x \in PodRows /\ x.at = pod[p].at /\ x.job = pod[p].job /\ x.next = pod[p].next
      /\ x.found = pod[p].found /\ x.last = pod[p].last /\ x.saved = pod[p].saved
      /\ x.success = pod[p].success /\ x.errors = pod[p].errors + 1 /\ x.heedless = pod[p].heedless
      /\ pod[p].errors \in Nat /\ pod[p].success \in Nat /\ pod[p].last \in Nat
  BY <1>1 DEF PodRows
<1>5. pod' \in [Pods -> PodRows] /\ pod'[p] = x /\ \A q \in Pods : q # p => pod'[q] = pod[q]
  <2> HIDE DEF x
  <2> QED BY <1>2, <1>4 DEF ImportInv, ImportTypes
<1> HIDE DEF x
<1>6. ASSUME NEW q \in Pods PROVE Sound(made, rejected, unread', pod[q])
  <2>1. pod[q] \in PodRows /\ Sound(made, rejected, unread, pod[q])
    BY AtWork
  <2> QED BY <1>3, <2>1, SoundStays
<1>7. Sound(made, rejected, unread', x)
  <2>1. Progress(made, rejected, unread', pod[p].job, pod[p])
    BY <1>1, <1>6 DEF Sound
  <2>2. /\ pod[p].last <= pod[p].success + pod[p].errors
        /\ pod[p].success + pod[p].errors <= pod[p].last + unread
    BY <1>1 DEF Progress
  <2>3. x.last <= x.success + x.errors /\ x.success + x.errors <= x.last + unread'
    BY <1>2, <1>3, <1>4, <2>2
  <2>4. Progress(made, rejected, unread', pod[p].job, x)
    BY <1>4, <2>1, <2>3 DEF Progress
  <2>5. Heeds(x)
    BY <1>1, <1>4 DEF Heeds
  <2> QED BY <1>1, <1>4, <1>6, <2>4, <2>5 DEF Sound
<1>8. \A q \in Pods : Sound(made, rejected, unread', pod'[q])
  BY <1>5, <1>6, <1>7
<1>9. ASSUME NEW j \in Imports PROVE Progress(made, rejected, unread', j, job[j])
  <2>1. /\ job[j].success \in Nat /\ job[j].errors \in Nat /\ job[j].last \in Nat
        /\ Progress(made, rejected, unread, j, job[j])
    BY DEF ImportInv, ImportTypes, JobRows
  <2> QED BY <1>3, <2>1, ProgressStays
<1>10. \A q \in Pods : pod'[q].job = pod[q].job /\ pod'[q].at = pod[q].at
  BY <1>4, <1>5
<1>11. OneReplica' /\ DoneInFull'
  <2>1. OneReplica'
    BY <1>2, <1>10 DEF ImportInv, OneReplica
  <2>2. DoneInFull'
    BY <1>2, <1>10 DEF ImportInv, DoneInFull, WorkedOn, Accounted
  <2> QED BY <2>1, <2>2
<1>12. ImportTypes'
  BY <1>2, <1>3, <1>5 DEF ImportInv, ImportTypes
<1> QED BY <1>2, <1>8, <1>9, <1>11, <1>12 DEF ImportInv

\* A final checkpoint that is not written: the job is among the unsaved ones now.
LEMMA FinalLost ==
  ASSUME ImportInv, NEW p \in Pods, StatementFails(p), pod[p].at = "rows"
  PROVE  ImportInv'
<1> DEFINE j == pod[p].job
           x == [pod[p] EXCEPT !.at = "complete"]
<1>1. /\ pod[p] \in PodRows /\ Sound(made, rejected, unread, pod[p])
      /\ j \in Imports /\ j # NoJob /\ Heeds(pod[p])
      /\ Progress(made, rejected, unread, j, pod[p])
  BY AtWork
<1>2. /\ pod' = [pod EXCEPT ![p] = x] /\ AllRead(p) /\ unsaved' = unsaved \union {j}
      /\ UNCHANGED <<job, made, rejected, unread, shared, stale, asking>>
  BY DEF StatementFails
<1>3. /\ x \in PodRows /\ x.at = "complete" /\ x.job = j /\ x.next = pod[p].next
      /\ x.found = pod[p].found /\ x.last = pod[p].last /\ x.saved = pod[p].saved
      /\ x.success = pod[p].success /\ x.errors = pod[p].errors /\ x.heedless = pod[p].heedless
  BY <1>1 DEF PodRows, PodSteps
<1>4. pod[p].next = Len(Products(j)) + 1
  <2>1. /\ pod[p].next \in 1..Len(Products(j)) + 1 /\ pod[p].next > Len(Products(j))
        /\ Len(Products(j)) \in Nat
    BY <1>1, <1>2, FileOrder DEF AllRead, Sound
  <2> HIDE DEF j
  <2> QED BY <2>1
<1>5. pod' \in [Pods -> PodRows] /\ pod'[p] = x /\ \A q \in Pods : q # p => pod'[q] = pod[q]
  <2> HIDE DEF x
  <2> QED BY <1>2, <1>3 DEF ImportInv, ImportTypes
<1> HIDE DEF x
<1>6. Sound(made, rejected, unread, x)
  <2>1. Progress(made, rejected, unread, j, x)
    BY <1>1, <1>3 DEF Progress
  <2>2. Heeds(x)
    BY <1>1, <1>3 DEF Heeds
  <2> QED BY <1>1, <1>3, <1>4, <2>1, <2>2 DEF Sound
<1>7. \A q \in Pods : Sound(made, rejected, unread, pod'[q])
  BY <1>5, <1>6 DEF ImportInv
<1>8. \A q \in Pods : pod'[q].job = pod[q].job
  BY <1>3, <1>5
<1>9. OneReplica'
  BY <1>2, <1>8 DEF ImportInv, OneReplica
<1>10. DoneInFull'
  <2>1. /\ \A i \in Imports : job'[i].status = "completed" => \A n \in DOMAIN Products(i) : Accounted(i, n)'
        /\ \A i \in Imports \ shared' : job'[i].status = "completed" => ~WorkedOn(i)'
        /\ \A i \in Imports \ (shared \union unsaved)' :
             job'[i].status = "completed" => job'[i].last = Full(i)
    BY <1>2, <1>8 DEF ImportInv, DoneInFull, WorkedOn, Accounted
  <2>2. ASSUME NEW q \in Pods, pod'[q].at = "complete", pod'[q].job \notin (shared \union unsaved)'
        PROVE  job'[pod'[q].job].last = Full(pod'[q].job)
    <3>1. q # p
      BY <1>2, <1>3, <1>5, <2>2
    <3> QED BY <1>2, <1>5, <2>2, <3>1 DEF ImportInv, DoneInFull
  <2> QED BY <2>1, <2>2 DEF DoneInFull
<1>11. ImportTypes'
  BY <1>2, <1>5 DEF ImportInv, ImportTypes
<1> QED BY <1>2, <1>7, <1>9, <1>10, <1>11 DEF ImportInv

LEMMA ImportInitInv == ImportInit => ImportInv
<1> SUFFICES ASSUME ImportInit PROVE ImportInv
  OBVIOUS
<1>1. /\ job = [i \in Imports |-> Fresh] /\ pod = [p \in Pods |-> Down]
      /\ made = [h \in Handles |-> NoJob] /\ stale = {} /\ asking = {} /\ unread = 0
  BY DEF ImportInit
<1>2. Fresh \in JobRows /\ Fresh.status = "absent" /\ Fresh.last = 0 /\ Fresh.success = 0
      /\ Fresh.errors = 0
  BY DEF Fresh, JobRows, JobStatuses
<1>3. Down \in PodRows
  <2>1. <<>> \in Seq(FoundRows) /\ {"tick", "down"} \subseteq PodSteps
    BY DEF PodSteps
  <2>2. Resting \in PodRows
    BY <2>1 DEF Resting, PodRows
  <2> QED BY <2>1, <2>2 DEF Down, PodRows
<1>4. Down.job = NoJob /\ Down.at = "down" /\ Down.found = <<>>
  BY DEF Down, Resting
<1>5. ImportTypes
  BY <1>1, <1>2, <1>3 DEF ImportTypes
<1>6. OneReplica /\ DoneInFull
  BY <1>1, <1>2, <1>4 DEF OneReplica, DoneInFull
<1>7. ASSUME NEW j \in Imports PROVE Progress(made, rejected, unread, j, Fresh)
  <2>1. /\ Len(Products(j)) \in Nat /\ DOMAIN Products(j) = 1..Len(Products(j))
        /\ \A n \in DOMAIN Products(j) : Products(j)[n].handle \in Handles
        /\ \A m, n \in 0..Len(Products(j)) : m < n => LastRow(j, m) < LastRow(j, n)
        /\ \A n \in 0..Len(Products(j)) : LastRow(j, n) \in Nat
    BY FileOrder
  <2>2. LastRow(j, 0) = 0
    BY DEF LastRow
  <2>3. \A n \in DOMAIN Products(j) : ~(LastRow(j, n) <= 0)
    <3>1. ASSUME NEW n \in DOMAIN Products(j) PROVE ~(LastRow(j, n) <= 0)
      <4>1. n \in 0..Len(Products(j)) /\ 0 \in 0..Len(Products(j)) /\ 0 < n
        BY <2>1
      <4>2. LastRow(j, 0) < LastRow(j, n) /\ LastRow(j, n) \in Nat
        BY <2>1, <4>1
      <4> QED BY <2>2, <4>2
    <3> QED BY <3>1
  <2>4. j # NoJob
    BY ImportAssumption DEF NoJob
  <2>5. MadeIn(made, j) = {}
    BY <1>1, <2>1, <2>4 DEF MadeIn
  <2>6. SumFunctionOnSet(Counts(j), MadeIn(made, j)) = 0
    BY <2>5, SumEmpty
  <2>7. 0 \in 0..Len(Products(j))
    BY <2>1
  <2>9. /\ Fresh.last <= Fresh.success + Fresh.errors
        /\ Fresh.success + Fresh.errors <= Fresh.last + unread
    BY <1>1, <1>2
  <2>10. \E n \in 0..Len(Products(j)) : Fresh.last = LastRow(j, n)
    BY <1>2, <2>2, <2>7
  <2>11. \A n \in DOMAIN Products(j) : ~(LastRow(j, n) <= Fresh.last)
    BY <1>2, <2>3
  <2>12. Fresh.success <= SumFunctionOnSet(Counts(j), MadeIn(made, j))
    BY <1>2, <2>6
  <2> QED BY <2>9, <2>10, <2>11, <2>12 DEF Progress
<1>8. \A p \in Pods : Sound(made, rejected, unread, pod[p])
  BY <1>1, <1>4 DEF Sound
<1> QED BY <1>1, <1>5, <1>6, <1>7, <1>8 DEF ImportInv

LEMMA ImportStepKeeps == ImportInv /\ [ImportNext]_importVars => ImportInv'
<1> SUFFICES ASSUME ImportInv, [ImportNext]_importVars PROVE ImportInv'
  OBVIOUS
<1>1. CASE \E p \in Pods : PodStep(p) \/ Trouble(p)
  <2>1. PICK p \in Pods : PodStep(p) \/ Trouble(p)
    BY <1>1
  <2>2. CASE \/ FindQueuedJobs(p) \/ Boot(p) \/ PauseOrphan(p)
             \/ StoreUnresolved(p) \/ OpenFails(p) \/ Crash(p)
             \/ StatementFails(p) /\ pod[p].at \in {"claim", "complete", "recover", "down"}
    BY <2>2, DispatcherKeeps
  <2>3. CASE ClaimJob(p)
    BY <2>3, ClaimKeeps
  <2>4. CASE \/ RunStart(p) \/ Open(p) \/ CheckCancelled(p)
             \/ StatementFails(p) /\ pod[p].at \in {"checkpoint", "check"}
    BY <2>4, WorkerMoves
  <2>5. CASE ImportProduct(p)
    BY <2>5, ImportKeeps
  <2>6. CASE Checkpoint(p) \/ FinalCheckpoint(p)
    BY <2>6, CheckpointKeeps
  <2>7. CASE Complete(p)
    BY <2>7, CompleteKeeps
  <2>8. CASE ReadFails(p)
    BY <2>8, ReadKeeps
  <2>9. CASE StatementFails(p) /\ pod[p].at = "rows"
    BY <2>9, FinalLost
  <2>10. StatementFails(p) =>
           pod[p].at \in {"claim", "checkpoint", "check", "rows", "complete", "recover", "down"}
    BY DEF StatementFails
  <2> QED BY <2>1, <2>2, <2>3, <2>4, <2>5, <2>6, <2>7, <2>8, <2>9, <2>10 DEF PodStep, Trouble
<1>2. CASE ~ \E p \in Pods : PodStep(p) \/ Trouble(p)
  BY <1>2, MerchantKeeps DEF ImportNext
<1> QED BY <1>1, <1>2

LEMMA ImportInvSafe == ImportInv => ImportSafe
<1> SUFFICES ASSUME ImportInv PROVE ImportSafe
  OBVIOUS
<1>1. NoRowSkipped
  <2>1. ASSUME NEW j \in Imports PROVE job[j].success + job[j].errors - job[j].last \in 0..unread
    <3>1. /\ job[j].success \in Nat /\ job[j].errors \in Nat /\ job[j].last \in Nat
          /\ unread \in Nat
      BY DEF ImportInv, ImportTypes, JobRows
    <3>2. /\ job[j].last <= job[j].success + job[j].errors
          /\ job[j].success + job[j].errors <= job[j].last + unread
      BY DEF ImportInv, Progress
    <3> QED BY <3>1, <3>2
  <2>2. ASSUME NEW j \in Imports, NEW n \in DOMAIN Products(j),
               LastRow(j, n) <= job[j].last \/ job[j].status = "completed"
        PROVE  Accounted(j, n)
    BY <2>2 DEF ImportInv, Progress, DoneInFull, Accounted
  <2>3. \A j \in Imports \ (shared \union unsaved) :
          job[j].status = "completed" => job[j].last = LastRow(j, Len(Products(j)))
    BY DEF ImportInv, DoneInFull, Full
  <2> QED BY <2>1, <2>2, <2>3 DEF NoRowSkipped
<1>2. SuccessIsMade
  <2>1. ASSUME NEW j \in Imports PROVE job[j].success <= RowsMade(j)
    <3>1. MadeBy(j) = MadeIn(made, j)
      BY DEF MadeBy, MadeIn
    <3>2. job[j].success <= SumFunctionOnSet(Counts(j), MadeIn(made, j))
      BY DEF ImportInv, Progress
    <3> QED BY <3>1, <3>2, Zenon DEF RowsMade, Counts
  <2> QED BY <2>1 DEF SuccessIsMade
<1>3. CancelHeeded
  <2>1. SUFFICES ASSUME NEW p \in Pods, pod[p].job # NoJob
        PROVE  \/ pod[p].heedless < CheckpointEvery
               \/ \E n \in DOMAIN Products(pod[p].job) :
                    pod[p].heedless < CheckpointEvery + RowCount(pod[p].job, n)
    BY DEF CancelHeeded
  <2> DEFINE j == pod[p].job
  <2>2. /\ pod[p] \in PodRows /\ j \in Imports /\ Heeds(pod[p])
        /\ pod[p].at \in {"start", "open", "rows", "checkpoint", "check", "complete"}
        /\ pod[p].next \in 1..Len(Products(j)) + 1
    BY <2>1, AtWork DEF Sound, PodRows, PodSteps
  <2>3. /\ pod[p].heedless \in Nat /\ pod[p].last \in Nat /\ pod[p].saved \in Nat
        /\ pod[p].next \in Nat /\ CheckpointEvery \in Nat \ {0}
    BY <2>2, ImportAssumption DEF PodRows
  <2>4. CASE pod[p].at \in {"start", "open", "rows", "complete"}
    BY <2>2, <2>3, <2>4 DEF Heeds
  <2>5. CASE pod[p].at \in {"checkpoint", "check"}
    <3>1. pod[p].next > 1 /\ pod[p].heedless < CheckpointEvery + RowCount(j, pod[p].next - 1)
      BY <2>2, <2>5 DEF Heeds
    <3>2. Len(Products(j)) \in Nat /\ DOMAIN Products(j) = 1..Len(Products(j))
      BY <2>2, FileOrder
    <3> HIDE DEF j
    <3>3. pod[p].next - 1 \in DOMAIN Products(j)
      BY <2>2, <2>3, <3>1, <3>2
    <3> QED BY <3>1, <3>3 DEF j
  <2> QED BY <2>2, <2>4, <2>5
<1> QED BY <1>1, <1>2, <1>3 DEF ImportSafe

ImportSpec == ImportInit /\ [][ImportNext]_importVars

\* However replicas, crashes, failing statements and reads, cancels and resumes
\* interleave, an import accounts for every row of its file, reports no product as
\* made that it did not make, and stops at the first cancel check it can make
\* (Worker.Run, Dispatcher.tick, RecoverOrphanedJobs).
THEOREM ImportIsSafe == ImportSpec => []ImportSafe
BY ImportInitInv, ImportStepKeeps, ImportInvSafe, PTL DEF ImportSpec
=============================================================================
