-------------------------------- MODULE Erasure --------------------------------
(***************************************************************************)
(* One customer's request to be erased (internal/customererasure): claimed *)
(* by a worker or an operator, carried out statement by statement in one   *)
(* transaction, and its objects destroyed after the commit.  Here it       *)
(* erases the artwork of the customer's orders and the orders' email; each *)
(* statement sees what has been committed when it starts.                  *)
(***************************************************************************)
EXTENDS Checkout

CONSTANTS
  Subject,          \* the customer
  MaxAttempts       \* bound on the attempts

ASSUME ErasureAssumption == MaxAttempts \in Nat

VARIABLES
  erasure,     \* customer_erasure_requests: status, attempts, what its notes hold
  eraser,      \* where a process is, and what its transaction has done
  anonymised,  \* orders whose email is a token
  erasures     \* history: transactions that committed
erasureVars == <<erasure, eraser, anonymised, erasures>>

Resting == [at |-> "idle", keys |-> {}, rows |-> {}, items |-> {}, orders |-> {}]

ErasureInit ==
  /\ erasure = [status |-> "none", attempts |-> 0, notes |-> "none"]
  /\ eraser = [e \in Erasers |-> Resting]
  /\ anonymised = {} /\ erasures = 0

Ask ==
  /\ erasure.status = "none"
  /\ erasure' = [erasure EXCEPT !.status = "pending"]
  /\ UNCHANGED <<artworkVars, eraser, anonymised, erasures>>

\* Mutant: a request somebody is at work on is taken as well.
Unfinished == erasure.status \in {"pending", "failed", "processing"}

Claimable == erasure.status \in {"pending", "failed"}

\* The claim commits on its own, so that attempts survive a rollback.
ClaimErasure(e) ==
  /\ eraser[e].at = "idle" /\ Claimable /\ erasure.attempts < MaxAttempts
  /\ erasure' = [erasure EXCEPT !.status = "processing", !.attempts = @ + 1]
  /\ eraser' = [eraser EXCEPT ![e].at = "collect"]
  /\ UNCHANGED <<artworkVars, anonymised, erasures>>

Reject ==
  /\ Claimable
  /\ erasure' = [erasure EXCEPT !.status = "rejected", !.notes = "reason"]
  /\ UNCHANGED <<artworkVars, eraser, anonymised, erasures>>

SubjectOrders == {c \in placed \ anonymised : EmailOf[c] = Subject}

\* A statement of the transaction, from one step to the next.
Statement(e, from, to) ==
  /\ eraser[e].at = from
  /\ eraser' = [eraser EXCEPT ![e] = to]
  /\ UNCHANGED <<erasure, anonymised, erasures>>

\* The keys the orders' snapshots name.
CollectBlobURLs(e) ==
  /\ Statement(e, "collect",
       [eraser[e] EXCEPT !.at = "uploads",
                         !.keys = UNION {KeysOf(a) : a \in UNION {snapshots[c] : c \in SubjectOrders}}])
  /\ UNCHANGED artworkVars

\* The uploads of every cart one of whose uploads an order names: all of the
\* cart's, claimed or not.  The delete waits for whoever has one of them.
Linked == \E c \in SubjectOrders : \E a \in snapshots[c] : Present(a.upload)

EraseUploads(e) ==
  LET rows == IF Linked THEN {u \in Uploads : Present(u)} ELSE {} IN
  /\ \A u \in rows : UploadFree(u)
  /\ Statement(e, "uploads", [eraser[e] EXCEPT !.at = "items", !.rows = rows])
  /\ uploadHolder' = [u \in Uploads |-> IF u \in rows THEN e ELSE uploadHolder[u]]
  /\ UNCHANGED <<upload, bucket, loaded, doomed, destroyed, withdrawn, answers, snapshots>>

EraseSnapshots(e) ==
  /\ Statement(e, "items", [eraser[e] EXCEPT !.at = "orders", !.items = SubjectOrders])
  /\ UNCHANGED artworkVars

AnonymiseOrders(e) ==
  /\ Statement(e, "orders", [eraser[e] EXCEPT !.at = "commit", !.orders = SubjectOrders])
  /\ UNCHANGED artworkVars

InErasureTx(e) == eraser[e].at \in {"collect", "uploads", "items", "orders", "commit"}

\* The receipt commits with the erasure.
CommitErasure(e) ==
  /\ eraser[e].at = "commit"
  /\ upload' = Without(eraser[e].rows) /\ uploadHolder' = Released(e)
  /\ snapshots' = [c \in Checkouts |-> IF c \in eraser[e].items THEN {} ELSE snapshots[c]]
  /\ anonymised' = anonymised \union eraser[e].orders
  /\ erasure' = [erasure EXCEPT !.status = "completed", !.notes = "receipt"]
  /\ erasures' = erasures + 1
  /\ eraser' = [eraser EXCEPT ![e] = [Resting EXCEPT !.at = "reap", !.keys = eraser[e].keys]]
  /\ UNCHANGED <<bucket, loaded, doomed, destroyed, withdrawn, answers>>

\* Mutant: the objects go although the rows came back.
ReapAnyway(e) == [eraser[e] EXCEPT !.at = "reap"]

\* What a process whose transaction failed goes on with: to record it.
AfterFailure(e) == [Resting EXCEPT !.at = "failing"]

ErasureFails(e) ==
  /\ InErasureTx(e)
  /\ eraser' = [eraser EXCEPT ![e] = AfterFailure(e)]
  /\ uploadHolder' = Released(e)
  /\ UNCHANGED <<erasure, anonymised, erasures, upload, bucket, loaded, doomed, destroyed,
                 withdrawn, answers, snapshots>>

\* Written by id, whatever the status.
MarkFailed(e) ==
  /\ eraser[e].at = "failing"
  /\ erasure' = [erasure EXCEPT !.status = "failed", !.notes = "failure"]
  /\ eraser' = [eraser EXCEPT ![e] = Resting]
  /\ UNCHANGED <<artworkVars, anonymised, erasures>>

\* No reference is looked for: the keys are the customer's.
ReapBlob(e, k) ==
  /\ eraser[e].at = "reap" /\ k \in eraser[e].keys
  /\ eraser' = [eraser EXCEPT ![e].keys = @ \ {k}]
  /\ destroyed' \in {destroyed, destroyed \union {k}}
  /\ UNCHANGED <<erasure, anonymised, erasures, upload, uploadHolder, bucket, loaded, doomed,
                 withdrawn, answers, snapshots>>

AmendReceipt(e) ==
  /\ eraser[e].at = "reap" /\ eraser[e].keys = {}
  /\ eraser' = [eraser EXCEPT ![e] = Resting]
  /\ erasure' = IF erasure.status = "completed"
                  THEN [erasure EXCEPT !.notes = "receipt with objects"] ELSE erasure
  /\ UNCHANGED <<artworkVars, anonymised, erasures>>

\* The process dies: its transaction unwinds, and nobody writes 'failed'.
EraserDies(e) ==
  /\ eraser[e].at # "idle"
  /\ eraser' = [eraser EXCEPT ![e] = Resting]
  /\ uploadHolder' = Released(e)
  /\ UNCHANGED <<erasure, anonymised, erasures, upload, bucket, loaded, doomed, destroyed,
                 withdrawn, answers, snapshots>>

ErasureStep ==
  \/ Ask \/ Reject
  \/ \E e \in Erasers :
       \/ ClaimErasure(e) \/ CollectBlobURLs(e) \/ EraseUploads(e) \/ EraseSnapshots(e)
       \/ AnonymiseOrders(e) \/ CommitErasure(e) \/ ErasureFails(e) \/ MarkFailed(e)
       \/ AmendReceipt(e) \/ EraserDies(e)
       \/ \E k \in eraser[e].keys : ReapBlob(e, k)

-----------------------------------------------------------------------------
(* A store's checkouts, its merchant, its members, the buyers of the cart  *)
(* and the erasure, at once.                                               *)

ShopInit ==
  CouponInit /\ CardInit /\ LoyaltyInit /\ ArtworkInit /\ CheckoutInit /\ ErasureInit

ShopNext ==
  \/ /\ \E c \in Checkouts : CheckoutStep(c)
     /\ UNCHANGED erasureVars
  \/ /\ MerchantEdits
     /\ UNCHANGED <<cardVars, loyaltyVars, artworkVars, checkoutVars, erasureVars>>
  \/ /\ CardEvents
     /\ UNCHANGED <<couponVars, loyaltyVars, artworkVars, checkoutVars, erasureVars>>
  \/ /\ LoyaltyEvents
     /\ UNCHANGED <<couponVars, cardVars, artworkVars, checkoutVars, erasureVars>>
  \/ /\ SweeperEvents \/ \E u \in Uploads : BuyerEvents(u)
     /\ UNCHANGED <<couponVars, cardVars, loyaltyVars, checkoutVars, erasureVars>>
  \/ /\ ErasureStep
     /\ UNCHANGED <<couponVars, cardVars, loyaltyVars, checkoutVars>>

ShopSpec == ShopInit /\ [][ShopNext]_<<valueVars, erasureVars>>

-----------------------------------------------------------------------------
(* Properties *)

ErasureTypeOK ==
  /\ erasure \in [status : {"none", "pending", "processing", "failed", "completed", "rejected"},
                  attempts : 0..MaxAttempts,
                  notes : {"none", "reason", "failure", "receipt", "receipt with objects"}]
  /\ eraser \in [Erasers ->
       [at : {"idle", "collect", "uploads", "items", "orders", "commit", "reap", "failing"},
        keys : SUBSET ArtworkKeys, rows : SUBSET Uploads,
        items : SUBSET Checkouts, orders : SUBSET Checkouts]]
  /\ anonymised \subseteq placed /\ erasures \in Nat

\* A cart has a token and no customer: the erasure takes all of its pictures,
\* those too that an order under another email names.
TakenAlong(c) == EmailOf[c] # Subject /\ \E d \in anonymised : Attached[d] # {}

\* Rows first, objects after: while the database names an object, as the row of
\* an upload or as an order's snapshot, nobody destroys it but the buyer.
RowsBeforeObjects ==
  \A k \in destroyed :
    \/ k[1] \in withdrawn
    \/ /\ ~Present(k[1])
       /\ \A c \in Checkouts : \A a \in snapshots[c] : k \in KeysOf(a) => TakenAlong(c)

\* An order has the artwork it was placed with until its customer withdraws it or
\* is erased, or somebody is erased who ordered with pictures of the same cart:
\* the sweeper never takes it, nor an erasure that fails or has not committed.
OrderKeepsArtwork ==
  \A c \in placed \ anonymised : \A a \in answers[c] :
    /\ a \in snapshots[c]
    /\ \/ a.upload \in withdrawn \/ TakenAlong(c)
       \/ Present(a.upload) /\ KeysOf(a) \intersect destroyed = {}

\* Only an order keeps an upload from the sweeper.
ClaimedIsOrdered ==
  \A u \in Uploads : upload[u].state = "claimed" =>
    \E c \in placed : \E a \in answers[c] : a.upload = u

\* A customer is erased once, and then stays erased on the record; a request
\* that was refused was not carried out.
ErasedOnce == erasures = (IF erasure.status = "completed" THEN 1 ELSE 0)

\* What a store gives away is given as often, and for as much, as it says.
DiscountsSafe == CouponSafe /\ CardSafe /\ PointsSafe

\* The picture of an order is there when it is produced, through sweeps,
\* withdrawals, failed checkouts and erasures.
ArtworkSafe == RowsBeforeObjects /\ OrderKeepsArtwork /\ ClaimedIsOrdered
=============================================================================
