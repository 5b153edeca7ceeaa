-------------------------------- MODULE Artwork --------------------------------
(***************************************************************************)
(* The pictures a buyer uploads to have a product personalised             *)
(* (internal/personalisationupload), here those of one cart: a row and a   *)
(* signed URL, the object the buyer puts there, previews the browser crops *)
(* from it, and a lease after which the sweeper takes what no order        *)
(* claimed.  Checkout reads the rows before its transaction and copies     *)
(* their keys and claims them in it, which Checkout composes.              *)
(***************************************************************************)
EXTENDS Requests

CONSTANTS
  Uploads,   \* uploads of the cart
  Attached,  \* the uploads a request names
  MaxCrops,  \* bound on the crops of an upload
  Erasers    \* processes that erase customers, which lock rows too

ASSUME ArtworkAssumption ==
  /\ Attached \in [Checkouts -> SUBSET Uploads] /\ MaxCrops \in Nat
  /\ Nobody \notin Erasers /\ Erasers \intersect Checkouts = {}

VARIABLES
  upload,        \* personalisation_uploads: state, last crop, age of the lease
  uploadHolder,  \* the transaction that has the row locked
  bucket,        \* what is at the original's key
  loaded,        \* DeleteForCart between its read and its delete: what it read
  doomed,        \* keys of deleted rows whose objects are about to be destroyed
  destroyed,     \* history: keys whose objects were destroyed
  withdrawn,     \* history: uploads the buyer deleted, or replaced by a bad object
  answers,       \* the rows a request read
  snapshots      \* order_item_personalisations, by the request that wrote them
artworkVars == <<upload, uploadHolder, bucket, loaded, doomed, destroyed, withdrawn,
                 answers, snapshots>>

NoUpload == [state |-> "none", crop |-> 0, lease |-> "none"]

\* An upload that was confirmed some time ago.
Uploaded == [state |-> "verified", crop |-> 0, lease |-> "held"]

ArtworkInit ==
  /\ upload \in [Uploads -> {NoUpload, Uploaded}]
  /\ uploadHolder = [u \in Uploads |-> Nobody]
  /\ bucket = [u \in Uploads |-> IF upload[u] = NoUpload THEN "none" ELSE "good"]
  /\ loaded = {} /\ doomed = {} /\ destroyed = {} /\ withdrawn = {}
  /\ answers = [c \in Checkouts |-> {}]
  /\ snapshots = [c \in Checkouts |-> {}]

Present(u) == upload[u].state \in {"pending", "verified", "claimed"}

\* What every buyer's UPDATE but the claim of an order asks for.
Unclaimed(u) == upload[u].state \in {"pending", "verified"}

UploadFree(u) == uploadHolder[u] = Nobody

\* The original's key and that of the preview a row names, if it has one; each
\* crop has a key of its own.
KeysOf(a) == {<<a.upload, 0>>, <<a.upload, a.crop>>}

RowOf(u) == [upload |-> u, crop |-> upload[u].crop]

Without(us) ==
  [u \in Uploads |-> IF u \in us THEN [NoUpload EXCEPT !.state = "gone"] ELSE upload[u]]

CreateUploadURL(u) ==
  /\ upload[u].state = "none"
  /\ upload' = [upload EXCEPT ![u] = [state |-> "pending", crop |-> 0, lease |-> "fresh"]]
  /\ UNCHANGED <<uploadHolder, bucket, loaded, doomed, destroyed, withdrawn, answers, snapshots>>

\* The buyer's browser puts an object while the URL is good for it, as often as
\* it likes; "bad" is one over the size cap or of another type.
PutObject(u, object) ==
  /\ upload[u].lease = "fresh" /\ bucket[u] # object
  /\ bucket' = [bucket EXCEPT ![u] = object]
  /\ UNCHANGED <<upload, uploadHolder, loaded, doomed, destroyed, withdrawn, answers, snapshots>>

\* Fifteen minutes end the URL, 72 hours the lease.
Age(u) ==
  /\ upload[u].lease \in {"fresh", "held"}
  /\ upload' = [upload EXCEPT ![u].lease = IF @ = "fresh" THEN "held" ELSE "expired"]
  /\ UNCHANGED <<uploadHolder, bucket, loaded, doomed, destroyed, withdrawn, answers, snapshots>>

\* Confirm of a good object.
MarkVerified(u) ==
  /\ upload[u].state = "pending" /\ UploadFree(u) /\ bucket[u] = "good"
  /\ upload' = [upload EXCEPT ![u].state = "verified"]
  /\ UNCHANGED <<uploadHolder, bucket, loaded, doomed, destroyed, withdrawn, answers, snapshots>>

\* Confirm of a bad one destroys it, whatever the row's state; the row follows.
RefuseObject(u) ==
  /\ Present(u) /\ bucket[u] = "bad"
  /\ bucket' = [bucket EXCEPT ![u] = "none"]
  /\ destroyed' = destroyed \union {<<u, 0>>}
  /\ withdrawn' = withdrawn \union {u}
  /\ UNCHANGED <<upload, uploadHolder, loaded, doomed, answers, snapshots>>

PrepareCrop(u) ==
  /\ Unclaimed(u) /\ UploadFree(u) /\ upload[u].crop < MaxCrops
  /\ upload' = [upload EXCEPT ![u].crop = @ + 1]
  /\ UNCHANGED <<uploadHolder, bucket, loaded, doomed, destroyed, withdrawn, answers, snapshots>>

\* Looking at the preview.
ExtendLease(u) ==
  /\ Unclaimed(u) /\ UploadFree(u) /\ upload[u].lease = "expired"
  /\ upload' = [upload EXCEPT ![u].lease = "held"]
  /\ UNCHANGED <<uploadHolder, bucket, loaded, doomed, destroyed, withdrawn, answers, snapshots>>

\* DeleteForCart reads an unclaimed row; the caller of a refused object leaves
\* the objects alone, the buyer's Delete destroys them.
LoadForDelete(u, destroys) ==
  /\ Unclaimed(u) /\ (destroys \/ u \in withdrawn)
  /\ loaded' = loaded \union {[row |-> RowOf(u), destroys |-> destroys]}
  /\ withdrawn' = withdrawn \union {u}
  /\ UNCHANGED <<upload, uploadHolder, bucket, doomed, destroyed, answers, snapshots>>

\* It deletes by id alone, and does not ask whether there was a row.
DeleteLoaded(l) ==
  /\ UploadFree(l.row.upload)
  /\ loaded' = loaded \ {l}
  /\ upload' = Without({l.row.upload})
  /\ doomed' = doomed \union (IF l.destroys THEN KeysOf(l.row) ELSE {})
  /\ UNCHANGED <<uploadHolder, bucket, destroyed, withdrawn, answers, snapshots>>

\* Mutant: the sweeper asks for the lease alone.
ExpiredUpload(u) == Present(u) /\ upload[u].lease = "expired" /\ UploadFree(u)

\* SKIP LOCKED passes over a row a transaction has.
Sweepable(u) == Unclaimed(u) /\ upload[u].lease = "expired" /\ UploadFree(u)

\* ClaimExpired: rows first, in one statement.
Sweep ==
  LET us == {u \in Uploads : Sweepable(u)} IN
  /\ us # {}
  /\ upload' = Without(us)
  /\ doomed' = doomed \union UNION {KeysOf(RowOf(u)) : u \in us}
  /\ UNCHANGED <<uploadHolder, bucket, loaded, destroyed, withdrawn, answers, snapshots>>

\* Objects after, best effort; a process that dies destroys none of the rest.
Destroy(k) ==
  /\ doomed' = doomed \ {k}
  /\ destroyed' \in {destroyed, destroyed \union {k}}
  /\ UNCHANGED <<upload, uploadHolder, bucket, loaded, withdrawn, answers, snapshots>>

BuyerEvents(u) ==
  \/ CreateUploadURL(u) \/ MarkVerified(u) \/ RefuseObject(u)
  \/ PrepareCrop(u) \/ ExtendLease(u)
  \/ \E object \in {"good", "bad"} : PutObject(u, object)
  \/ \E destroys \in BOOLEAN : LoadForDelete(u, destroys)
  \/ \E l \in loaded : l.row.upload = u /\ DeleteLoaded(l)

SweeperEvents ==
  \/ \E u \in Uploads : Age(u)
  \/ Sweep
  \/ \E k \in doomed : Destroy(k)

-----------------------------------------------------------------------------
(* What a checkout does. *)

\* loadUpload takes verified uploads only.
Attachable(c) == \A u \in Attached[c] : upload[u].state = "verified"

ReadUploads(c) ==
  /\ answers' = [answers EXCEPT ![c] = {RowOf(u) : u \in Attached[c]}]
  /\ UNCHANGED <<upload, uploadHolder, bucket, loaded, doomed, destroyed, withdrawn, snapshots>>

RowsFree(c) == \A a \in answers[c] : UploadFree(a.upload)

\* Mutant: the claimed rows are not counted.
RowsUncounted(c) == answers[c] # {}

RowsPresent(c) == \A a \in answers[c] : Present(a.upload)

\* persistPersonalisation: the snapshot is inserted and the rows are claimed by
\* id, which waits for whoever has them.
ClaimUploads(c) ==
  /\ RowsFree(c) /\ RowsPresent(c)
  /\ uploadHolder' = [u \in Uploads |->
                        IF \E a \in answers[c] : a.upload = u THEN c ELSE uploadHolder[u]]
  /\ UNCHANGED <<upload, bucket, loaded, doomed, destroyed, withdrawn, answers, snapshots>>

Released(holder) == [u \in Uploads |-> IF uploadHolder[u] = holder THEN Nobody ELSE uploadHolder[u]]

Claimed(holder) ==
  [u \in Uploads |-> IF uploadHolder[u] = holder
                       THEN [upload[u] EXCEPT !.state = "claimed"] ELSE upload[u]]

\* Mutant: the claim is a transaction of its own.
ClaimKept(c) ==
  /\ upload' = Claimed(c) /\ uploadHolder' = Released(c)
  /\ UNCHANGED <<bucket, loaded, doomed, destroyed, withdrawn, answers, snapshots>>

ArtworkRollback(c) ==
  /\ uploadHolder' = Released(c)
  /\ UNCHANGED <<upload, bucket, loaded, doomed, destroyed, withdrawn, answers, snapshots>>

ArtworkCommit(c) ==
  /\ upload' = Claimed(c) /\ uploadHolder' = Released(c)
  /\ snapshots' = [snapshots EXCEPT ![c] = answers[c]]
  /\ UNCHANGED <<bucket, loaded, doomed, destroyed, withdrawn, answers>>

-----------------------------------------------------------------------------
(* Properties *)

ArtworkKeys == Uploads \X (0..MaxCrops)
ArtworkRows == [upload : Uploads, crop : 0..MaxCrops]

ArtworkTypeOK ==
  /\ upload \in [Uploads -> [state : {"none", "pending", "verified", "claimed", "gone"},
                             crop : 0..MaxCrops, lease : {"none", "fresh", "held", "expired"}]]
  /\ uploadHolder \in [Uploads -> Checkouts \union Erasers \union {Nobody}]
  /\ bucket \in [Uploads -> {"none", "good", "bad"}]
  /\ loaded \subseteq [row : ArtworkRows, destroys : BOOLEAN]
  /\ doomed \subseteq ArtworkKeys /\ destroyed \subseteq ArtworkKeys /\ withdrawn \subseteq Uploads
  /\ answers \in [Checkouts -> SUBSET ArtworkRows] /\ snapshots \in [Checkouts -> SUBSET ArtworkRows]
=============================================================================
