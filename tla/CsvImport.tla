------------------------------- MODULE CsvImport -------------------------------
(***************************************************************************)
(* Product imports (internal/csvjob): jobs over uploaded files, replicas   *)
(* that claim and run them with checkpoints, a recovery scan at boot, and  *)
(* the merchant's cancel and resume.  A file is its products in order; the *)
(* clock is abstracted to whether a running job's heartbeat has gone stale.*)
(***************************************************************************)
EXTENDS Integers, Sequences, FiniteSets, Functions

CONSTANTS
  Imports,          \* job numbers, in the order of created_at
  FileOf,           \* the file of each job; its content hash
  Files,            \* file |-> its products: [handle, last row]
  Handles,          \* every product handle in the files
  Invalid,          \* handles whose rows do not parse
  Pods,             \* replicas that run the dispatcher
  JobBatch,         \* jobs a tick fetches
  CheckpointEvery,  \* rows between checkpoints: 10 in the code
  MaxAsks,          \* bound on cancels and resumes
  MaxImportMishaps  \* bound on crashes and failed calls

Products(j) == Files[FileOf[j]]
LastRow(j, n) == IF n = 0 THEN 0 ELSE Products(j)[n].last
RowCount(j, n) == LastRow(j, n) - LastRow(j, n - 1)

\* A product has a row at least.
ASSUME ImportAssumption ==
  /\ Imports \subseteq Nat \ {0} /\ IsFiniteSet(Imports)
  /\ JobBatch \in Nat \ {0} /\ CheckpointEvery \in Nat \ {0}
  /\ Invalid \subseteq Handles /\ MaxAsks \in Nat /\ MaxImportMishaps \in Nat
  /\ \A j \in Imports :
       /\ Products(j) \in Seq([handle : Handles, last : Nat])
       /\ \A m, n \in 0..Len(Products(j)) : m < n => LastRow(j, m) < LastRow(j, n)

VARIABLES
  job,       \* csv_import_jobs: status, last_processed_row, success_count, error_count
  stale,     \* running jobs whose heartbeat is older than OrphanWindow
  made,      \* handle |-> the job that created the product, 0 for none
  rejected,  \* history: <<job, handle>> put among the error rows
  pod,       \* a replica's step, the rows it fetched, and its progress
  asking,    \* cancels and resumes between their read and their write
  shared,    \* history: jobs claimed while another replica worked on them
  unread,    \* history: how many reads of a file failed
  unsaved,   \* history: jobs whose final checkpoint could not be written
  asks, importMishaps
importVars ==
  <<job, stale, made, rejected, pod, asking, shared, unread, unsaved, asks, importMishaps>>

NoJob == 0
Fresh == [status |-> "absent", last |-> 0, success |-> 0, errors |-> 0]
Resting == [at |-> "tick", found |-> <<>>, job |-> NoJob, next |-> 1, saved |-> 0,
            last |-> 0, success |-> 0, errors |-> 0, heedless |-> 0]

\* A replica that has not booted, or has died.
Down == [Resting EXCEPT !.at = "down"]

ImportInit ==
  /\ job = [j \in Imports |-> Fresh]
  /\ stale = {} /\ rejected = {} /\ asking = {} /\ asks = 0 /\ importMishaps = 0
  /\ shared = {} /\ unread = 0 /\ unsaved = {}
  /\ made = [h \in Handles |-> NoJob]
  /\ pod = [p \in Pods |-> Down]

Active(j) == job[j].status \in {"queued", "running", "paused"}
Ended(j) == job[j].status \in {"completed", "failed", "cancelled"}
WorkedOn(j) == \E p \in Pods : pod[p].job = j

SetStatus(j, status) == job' = [job EXCEPT ![j].status = status]

-----------------------------------------------------------------------------
(* The merchant *)

\* Submit: a file with an active job gets that job back; the unique index
\* refuses what two requests at once would make of it.
Submit(j) ==
  /\ job[j].status = "absent" /\ \A i \in Imports : i < j => job[i].status # "absent"
  /\ ~\E i \in Imports : FileOf[i] = FileOf[j] /\ Active(i)
  /\ SetStatus(j, "queued")
  /\ UNCHANGED <<stale, made, rejected, pod, asking, shared, unread, unsaved, asks, importMishaps>>

\* Cancel and Resume read the status, and write the new one without it.
Ask(kind, j) ==
  /\ asks < MaxAsks
  /\ IF kind = "cancel" THEN Active(j) ELSE job[j].status = "paused"
  /\ asks' = asks + 1 /\ asking' = asking \union {[kind |-> kind, job |-> j, number |-> asks]}
  /\ UNCHANGED <<job, stale, made, rejected, pod, shared, unread, unsaved, importMishaps>>

Answer(ask) ==
  /\ asking' = asking \ {ask}
  /\ SetStatus(ask.job, IF ask.kind = "cancel" THEN "cancelled" ELSE "queued")
  /\ UNCHANGED <<stale, made, rejected, pod, shared, unread, unsaved, asks, importMishaps>>

-----------------------------------------------------------------------------
(* The dispatcher *)

Queued == {j \in Imports : job[j].status = "queued"}
Oldest == {j \in Queued : Cardinality({i \in Queued : i < j}) < JobBatch}
Row(j) == [job |-> j, last |-> job[j].last, success |-> job[j].success, errors |-> job[j].errors]

\* The rows of a query, in an order it may return them.
Listings(found) == Injection(1..Cardinality(found), found)
Ascending(order) == \A m, n \in DOMAIN order : m < n => order[m] < order[n]
Fetched(order) == [n \in DOMAIN order |-> Row(order[n])]

FindQueuedJobs(p) ==
  /\ pod[p].at = "tick" /\ Queued # {}
  /\ \E order \in Listings(Oldest) :
       Ascending(order)
       /\ pod' = [pod EXCEPT ![p].at = "claim", ![p].found = Fetched(order)]
  /\ UNCHANGED <<job, stale, made, rejected, asking, shared, unread, unsaved, asks, importMishaps>>

\* The row a replica starts from is the one it fetched, not the one it claimed.
Claimed(p) ==
  LET row == Head(pod[p].found) IN
  [pod[p] EXCEPT !.at = "start", !.found = Tail(@), !.job = row.job,
                 !.next = 1 + Cardinality({n \in DOMAIN Products(row.job) :
                                             LastRow(row.job, n) <= row.last}),
                 !.saved = row.last, !.last = row.last,
                 !.success = row.success, !.errors = row.errors, !.heedless = 0]

\* What a replica goes back to when it is through with a job.
NextJob(p) ==
  [Resting EXCEPT !.found = pod[p].found, !.at = IF pod[p].found = <<>> THEN "tick" ELSE "claim"]

\* The next orphan of a recovery scan.
Spared(p) ==
  [pod[p] EXCEPT !.found = Tail(@), !.at = IF Len(pod[p].found) = 1 THEN "tick" ELSE "recover"]

Passed(p) ==
  [Resting EXCEPT !.found = Tail(pod[p].found),
                  !.at = IF Tail(pod[p].found) = <<>> THEN "tick" ELSE "claim"]

ClaimJob(p) ==
  /\ pod[p].at = "claim"
  /\ LET j == Head(pod[p].found).job IN
       IF job[j].status = "queued"
         THEN /\ SetStatus(j, "running") /\ stale' = stale \ {j}
              /\ shared' = IF WorkedOn(j) THEN shared \union {j} ELSE shared
              /\ pod' = [pod EXCEPT ![p] = Claimed(p)]
         ELSE /\ pod' = [pod EXCEPT ![p] = Passed(p)]
              /\ UNCHANGED <<job, stale, shared>>
  /\ UNCHANGED <<made, rejected, asking, unread, unsaved, asks, importMishaps>>

\* The store cannot be looked up, and the update that should fail the job names a
\* column the table does not have; or Run cannot write 'running'.  Either way the
\* job stays 'running'.
StoreUnresolved(p) ==
  /\ pod[p].at = "start" /\ importMishaps < MaxImportMishaps
  /\ importMishaps' = importMishaps + 1
  /\ pod' = [pod EXCEPT ![p] = NextJob(p)]
  /\ UNCHANGED <<job, stale, made, rejected, asking, shared, unread, unsaved, asks>>

-----------------------------------------------------------------------------
(* The worker *)

\* Run begins by writing 'running', whatever the status has become.
RunStart(p) ==
  /\ pod[p].at = "start"
  /\ SetStatus(pod[p].job, "running")
  /\ pod' = [pod EXCEPT ![p].at = "open"]
  /\ UNCHANGED <<stale, made, rejected, asking, shared, unread, unsaved, asks, importMishaps>>

Open(p) ==
  /\ pod[p].at = "open"
  /\ pod' = [pod EXCEPT ![p].at = "rows"]
  /\ UNCHANGED <<job, stale, made, rejected, asking, shared, unread, unsaved, asks, importMishaps>>

\* failJob ignores what becomes of its write.
OpenFails(p) ==
  /\ pod[p].at = "open" /\ importMishaps < MaxImportMishaps
  /\ importMishaps' = importMishaps + 1
  /\ SetStatus(pod[p].job, "failed") \/ UNCHANGED job
  /\ pod' = [pod EXCEPT ![p] = NextJob(p)]
  /\ UNCHANGED <<stale, made, rejected, asking, shared, unread, unsaved, asks>>

\* Mutant: the final product is not flushed before the final checkpoint.
AllButOne(p) == pod[p].next >= Len(Products(pod[p].job))

AllRead(p) == pod[p].next > Len(Products(pod[p].job))

\* Mutant: a checkpoint is due only by the count of successes.
DueBySuccess(p, row) == pod[p].success - pod[p].saved >= CheckpointEvery /\ row > 0

CheckpointDue(p, row) == row - pod[p].saved >= CheckpointEvery

\* importProduct: the catalogue refuses a handle that is taken, and a call that
\* fails after its commit is reported as an error all the same.
ImportProduct(p) ==
  LET j == pod[p].job
      product == Products(j)[pod[p].next]
      rows == RowCount(j, pod[p].next)
      free == made[product.handle] = NoJob /\ product.handle \notin Invalid
      due == CheckpointDue(p, product.last)
      heedless == pod[p].heedless + IF job[j].status = "cancelled" THEN rows ELSE 0
      Flushed(success, errors) ==
        pod' = [pod EXCEPT ![p].next = @ + 1, ![p].last = product.last,
                           ![p].success = @ + success, ![p].errors = @ + errors,
                           ![p].saved = IF due THEN product.last ELSE @,
                           ![p].heedless = heedless,
                           ![p].at = IF due THEN "checkpoint" ELSE "rows"]
  IN
  /\ pod[p].at = "rows" /\ ~AllRead(p)
  /\ made' = IF free THEN [made EXCEPT ![product.handle] = j] ELSE made
  /\ \/ /\ free /\ Flushed(rows, 0)
        /\ UNCHANGED <<rejected, importMishaps>>
     \/ /\ ~free /\ Flushed(0, rows)
        /\ rejected' = rejected \union {<<j, product.handle>>}
        /\ UNCHANGED importMishaps
     \/ /\ free /\ importMishaps < MaxImportMishaps /\ Flushed(0, rows)
        /\ rejected' = rejected \union {<<j, product.handle>>}
        /\ importMishaps' = importMishaps + 1
  /\ UNCHANGED <<job, stale, asking, shared, unread, unsaved, asks>>

\* A read of the file fails: an error is counted, and no row.
ReadFails(p) ==
  /\ pod[p].at = "rows" /\ importMishaps < MaxImportMishaps
  /\ importMishaps' = importMishaps + 1 /\ unread' = unread + 1
  /\ pod' = [pod EXCEPT ![p].errors = @ + 1]
  /\ UNCHANGED <<job, stale, made, rejected, asking, shared, unsaved, asks>>

\* Mutant: the counters are added to the row's instead of replacing them.
ProgressAdded(p) ==
  job' = [job EXCEPT ![pod[p].job] =
            [@ EXCEPT !.last = pod[p].last, !.success = @ + pod[p].success, !.errors = pod[p].errors]]

UpdateProgress(p) ==
  job' = [job EXCEPT ![pod[p].job] =
            [@ EXCEPT !.last = pod[p].last, !.success = pod[p].success, !.errors = pod[p].errors]]

Checkpoint(p) ==
  /\ pod[p].at = "checkpoint" /\ UpdateProgress(p)
  /\ pod' = [pod EXCEPT ![p].at = "check"]
  /\ UNCHANGED <<stale, made, rejected, asking, shared, unread, unsaved, asks, importMishaps>>

\* Mutant: nothing stops a worker whose job is cancelled.
NeverCancelled(p) == pod[p].job = NoJob

IsCancelled(p) == job[pod[p].job].status = "cancelled"

\* What a worker imported between a cancel and a resume is no longer counted.
CheckCancelled(p) ==
  /\ pod[p].at = "check"
  /\ pod' = [pod EXCEPT ![p] =
       IF IsCancelled(p) THEN NextJob(p)
       ELSE [@ EXCEPT !.at = "rows",
                      !.heedless = IF job[pod[p].job].status = "cancelled" THEN @ ELSE 0]]
  /\ UNCHANGED <<job, stale, made, rejected, asking, shared, unread, unsaved, asks, importMishaps>>

FinalCheckpoint(p) ==
  /\ pod[p].at = "rows" /\ AllRead(p)
  /\ UpdateProgress(p)
  /\ pod' = [pod EXCEPT ![p].at = "complete"]
  /\ UNCHANGED <<stale, made, rejected, asking, shared, unread, unsaved, asks, importMishaps>>

\* 'completed', whatever the status has become.
Complete(p) ==
  /\ pod[p].at = "complete"
  /\ SetStatus(pod[p].job, "completed")
  /\ pod' = [pod EXCEPT ![p] = NextJob(p)]
  /\ UNCHANGED <<stale, made, rejected, asking, shared, unread, unsaved, asks, importMishaps>>

-----------------------------------------------------------------------------
(* Crashes, heartbeats and the recovery scan *)

\* A statement fails, which is logged and nothing else: a claim passes its job
\* over, a checkpoint leaves the row as it was, a cancel check counts as not
\* cancelled, 'completed' is not written, an orphan or the whole scan is skipped.
StatementFails(p) ==
  /\ importMishaps < MaxImportMishaps /\ importMishaps' = importMishaps + 1
  /\ \/ /\ pod[p].at = "claim" /\ pod' = [pod EXCEPT ![p] = Passed(p)]
        /\ UNCHANGED unsaved
     \/ /\ pod[p].at = "checkpoint" /\ pod' = [pod EXCEPT ![p].at = "check"]
        /\ UNCHANGED unsaved
     \/ /\ pod[p].at = "check" /\ pod' = [pod EXCEPT ![p].at = "rows", ![p].heedless = 0]
        /\ UNCHANGED unsaved
     \/ /\ pod[p].at = "rows" /\ AllRead(p) /\ pod' = [pod EXCEPT ![p].at = "complete"]
        /\ unsaved' = unsaved \union {pod[p].job}
     \/ /\ pod[p].at = "complete" /\ pod' = [pod EXCEPT ![p] = NextJob(p)]
        /\ UNCHANGED unsaved
     \/ /\ pod[p].at = "recover" /\ pod' = [pod EXCEPT ![p] = Spared(p)]
        /\ UNCHANGED unsaved
     \/ /\ pod[p].at = "down" /\ pod' = [pod EXCEPT ![p] = Resting]
        /\ UNCHANGED unsaved
  /\ UNCHANGED <<job, stale, made, rejected, asking, shared, unread, asks>>

Crash(p) ==
  /\ pod[p].at # "down" /\ importMishaps < MaxImportMishaps
  /\ importMishaps' = importMishaps + 1
  /\ pod' = [pod EXCEPT ![p] = Down]
  /\ UNCHANGED <<job, stale, made, rejected, asking, shared, unread, unsaved, asks>>

\* OrphanWindow passes; a worker's heartbeat keeps its job from it.
GoesStale(j) ==
  /\ job[j].status = "running" /\ j \notin stale /\ ~WorkedOn(j)
  /\ stale' = stale \union {j}
  /\ UNCHANGED <<job, made, rejected, pod, asking, shared, unread, unsaved, asks, importMishaps>>

\* The worker lives, its heartbeats fail.
HeartbeatsFail(j) ==
  /\ job[j].status = "running" /\ j \notin stale /\ WorkedOn(j)
  /\ importMishaps < MaxImportMishaps /\ importMishaps' = importMishaps + 1
  /\ stale' = stale \union {j}
  /\ UNCHANGED <<job, made, rejected, pod, asking, shared, unread, unsaved, asks>>

Orphans == {j \in stale : job[j].status = "running"}

\* RecoverOrphanedJobs at boot: it reads the orphans, then pauses each.
Boot(p) ==
  /\ pod[p].at = "down"
  /\ \E order \in Listings(Orphans) :
       pod' = [pod EXCEPT ![p].at = IF Orphans = {} THEN "tick" ELSE "recover",
                          ![p].found = Fetched(order)]
  /\ UNCHANGED <<job, stale, made, rejected, asking, shared, unread, unsaved, asks, importMishaps>>

PauseOrphan(p) ==
  /\ pod[p].at = "recover"
  /\ SetStatus(Head(pod[p].found).job, "paused")
  /\ pod' = [pod EXCEPT ![p] = Spared(p)]
  /\ UNCHANGED <<stale, made, rejected, asking, shared, unread, unsaved, asks, importMishaps>>

PodStep(p) ==
  \/ Boot(p) \/ PauseOrphan(p) \/ FindQueuedJobs(p) \/ ClaimJob(p) \/ RunStart(p)
  \/ Open(p) \/ ImportProduct(p) \/ Checkpoint(p) \/ CheckCancelled(p)
  \/ FinalCheckpoint(p) \/ Complete(p)

Trouble(p) ==
  StoreUnresolved(p) \/ OpenFails(p) \/ ReadFails(p) \/ StatementFails(p) \/ Crash(p)

ImportNext ==
  \/ \E j \in Imports : Submit(j) \/ GoesStale(j) \/ HeartbeatsFail(j)
  \/ \E j \in Imports, kind \in {"cancel", "resume"} : Ask(kind, j)
  \/ \E ask \in asking : Answer(ask)
  \/ \E p \in Pods : PodStep(p) \/ Trouble(p)

-----------------------------------------------------------------------------
(* Properties *)

ImportTypeOK ==
  /\ \A j \in Imports :
       /\ job[j].status \in {"absent", "queued", "running", "paused",
                             "completed", "failed", "cancelled"}
       /\ {job[j].last, job[j].success, job[j].errors} \subseteq Nat
  /\ stale \subseteq Imports /\ shared \subseteq Imports /\ unsaved \subseteq Imports
  /\ made \in [Handles -> Imports \union {NoJob}] /\ unread \in 0..MaxImportMishaps
  /\ rejected \subseteq Imports \X Handles
  /\ \A p \in Pods :
       /\ pod[p].at \in {"tick", "claim", "start", "open", "rows", "checkpoint", "check",
                         "complete", "down", "recover"}
       /\ pod[p].job \in Imports \union {NoJob} /\ Len(pod[p].found) <= Cardinality(Imports)
  /\ asks \in 0..MaxAsks /\ importMishaps \in 0..MaxImportMishaps

Accounted(j, n) ==
  \/ made[Products(j)[n].handle] # NoJob
  \/ <<j, Products(j)[n].handle>> \in rejected

\* Every row a checkpoint has passed is counted once, and nothing else but reads
\* that failed.  Its product is in the catalogue or among the errors, and so is
\* every product of a completed job, whose row says so unless its final checkpoint
\* could not be written, or two resumes at once, or a recovery scan that its
\* heartbeats did not reach, gave it two workers: the slower one's may stand.
NoRowSkipped ==
  \A j \in Imports :
    /\ job[j].success + job[j].errors - job[j].last \in 0..unread
    /\ \A n \in DOMAIN Products(j) :
         LastRow(j, n) <= job[j].last \/ job[j].status = "completed" => Accounted(j, n)
    /\ job[j].status = "completed" /\ j \notin shared \union unsaved =>
         job[j].last = LastRow(j, Len(Products(j)))

MadeBy(j) == {n \in DOMAIN Products(j) : made[Products(j)[n].handle] = j}
RowsMade(j) == SumFunctionOnSet([n \in DOMAIN Products(j) |-> RowCount(j, n)], MadeBy(j))

\* What a job reports as imported it created itself.
SuccessIsMade == \A j \in Imports : job[j].success <= RowsMade(j)

\* While a job stands cancelled a worker goes no further than its next cancel
\* check that is answered: between two checks lie fewer rows than an interval, and
\* the product that fills it, whether the checkpoints are written or not.
CancelHeeded ==
  \A p \in Pods : pod[p].job # NoJob =>
    \/ pod[p].heedless < CheckpointEvery
    \/ \E n \in DOMAIN Products(pod[p].job) :
         pod[p].heedless < CheckpointEvery + RowCount(pod[p].job, n)

\* An import accounts for every row of its file and stops when it is told to.
ImportSafe == NoRowSkipped /\ SuccessIsMade /\ CancelHeeded

\* How a queued job ends: unless its replica dies with it or cannot resolve its
\* store, which leaves it 'running' and nobody working on it.
ImportOver(j) ==
  \/ Ended(j) \/ job[j].status = "paused"
  \/ importMishaps > 0 /\ job[j].status = "running" /\ ~WorkedOn(j)
=============================================================================
