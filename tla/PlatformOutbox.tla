---------------------------- MODULE PlatformOutbox ----------------------------
(***************************************************************************)
(* platform-api's own outbox (services/platform-api/internal/outbox): a    *)
(* drainer claims a batch of events, dispatches them one after another     *)
(* outside the claiming transaction, and marks each one.                   *)
(*                                                                         *)
(* Time is relative: due[e] is how far next_attempt_at lies ahead, age[e]  *)
(* how long ago an in_flight row was claimed (updated_at).                 *)
(***************************************************************************)
EXTENDS Integers, Sequences, FiniteSets

CONSTANTS
  Effects,         \* ids of platform outbox rows
  Unhandled,       \* events whose kind has no handler
  Drainers,        \* processes running the drainer
  DrainBatch, DrainAttempts,  \* BatchSize, MaxAttempts
  HandlerTime,     \* ticks one handler runs, at most
  Visibility,      \* inFlightVisibility
  RetryDelay, FirstDelay,     \* Backoff, EnqueueAfter's delay
  MaxDrainMishaps  \* bound: deaths of drainers and failed marks

ASSUME DrainAssumption ==
  /\ Effects \subseteq Nat /\ Unhandled \subseteq Effects
  /\ DrainBatch \in Nat \ {0} /\ DrainAttempts \in Nat \ {0}
  /\ HandlerTime \in Nat /\ Visibility \in Nat \ {0}

VARIABLES
  state,        \* the row's status, or "absent"
  tries,        \* attempts
  due, age,
  claimed,      \* per drainer: events of its batch still to dispatch, as it read them
  handling,     \* per drainer: where it is with the first of them
  timeLeft,     \* per drainer: what is left of the handler's time
  runs,         \* history: handler runs per event
  late,         \* history: events still in hand when their window ended
  drainMishaps

effectState == <<state, tries, due, age, runs, late>>
drainerState == <<claimed, handling, timeLeft>>
drainVars == <<effectState, drainerState, drainMishaps>>

DrainInit ==
  /\ state = [e \in Effects |-> "absent"]
  /\ tries = [e \in Effects |-> 0] /\ due = [e \in Effects |-> 0]
  /\ age = [e \in Effects |-> 0] /\ runs = [e \in Effects |-> 0]
  /\ claimed = [d \in Drainers |-> <<>>]
  /\ handling = [d \in Drainers |-> "idle"]
  /\ timeLeft = [d \in Drainers |-> 0]
  /\ late = {} /\ drainMishaps = 0

EffectsHeld(d) == {claimed[d][i].effect : i \in DOMAIN claimed[d]}

\* Enqueue and EnqueueAfter, in the transaction of the originating entity.
Enqueue(e) ==
  /\ state[e] = "absent"
  /\ state' = [state EXCEPT ![e] = "pending"]
  /\ \E delay \in {0, FirstDelay} : due' = [due EXCEPT ![e] = delay]
  /\ UNCHANGED <<tries, age, runs, late, drainerState, drainMishaps>>

\* A handler ends within HandlerTime.  The window of a batch runs from its claim,
\* and nothing renews it while the events are dispatched one after another.
DrainClock ==
  /\ \A d \in Drainers : claimed[d] # <<>> => timeLeft[d] > 0
  /\ \E e \in Effects : due[e] > 0 \/ state[e] = "in_flight"
  /\ due' = [e \in Effects |-> IF due[e] > 0 THEN due[e] - 1 ELSE 0]
  /\ age' = [e \in Effects |->
               IF state[e] = "in_flight" /\ age[e] < Visibility THEN age[e] + 1 ELSE age[e]]
  /\ late' = late \union {e \in Effects : age'[e] >= Visibility /\ \E d \in Drainers : e \in EffectsHeld(d)}
  /\ timeLeft' = [d \in Drainers |-> IF timeLeft[d] > 0 THEN timeLeft[d] - 1 ELSE 0]
  /\ UNCHANGED <<state, tries, runs, claimed, handling, drainMishaps>>

Waiting == {e \in Effects : state[e] = "pending" /\ due[e] = 0}

\* Mutant: any row in flight can be reclaimed.
Grabbable == Waiting \union {e \in Effects : state[e] = "in_flight"}

\* Mutant: a row in flight is never reclaimed.
PendingOnly == Waiting

Claimable == Waiting \union {e \in Effects : state[e] = "in_flight" /\ age[e] >= Visibility}

\* Mutant: the batch is not limited.
AllIds(ids) ==
  [i \in 1..Cardinality(ids) |-> CHOOSE e \in ids : Cardinality({f \in ids : f <= e}) = i]

\* The lowest ids of a set, at most DrainBatch, in order.
LowestIds(ids) ==
  LET rank(e) == Cardinality({f \in ids : f <= e})
      n == IF Cardinality(ids) < DrainBatch THEN Cardinality(ids) ELSE DrainBatch
  IN [i \in 1..n |-> CHOOSE e \in ids : rank(e) = i]

\* Tick's claim: status in_flight with a fresh updated_at, the whole batch at once.
Claim(d) ==
  LET rows == LowestIds(Claimable) IN
  /\ claimed[d] = <<>> /\ Claimable # {}
  /\ claimed' = [claimed EXCEPT ![d] =
                   [i \in DOMAIN rows |-> [effect |-> rows[i], tries |-> tries[rows[i]]]]]
  /\ state' = [e \in Effects |-> IF \E i \in DOMAIN rows : rows[i] = e THEN "in_flight" ELSE state[e]]
  /\ age' = [e \in Effects |-> IF \E i \in DOMAIN rows : rows[i] = e THEN 0 ELSE age[e]]
  /\ handling' = [handling EXCEPT ![d] = "claimed"]
  /\ timeLeft' = [timeLeft EXCEPT ![d] = HandlerTime]
  /\ UNCHANGED <<tries, due, runs, late, drainMishaps>>

Running(d) == Head(claimed[d]).effect

HandlerRuns(d) ==
  /\ handling[d] = "claimed" /\ Running(d) \notin Unhandled
  /\ runs' = [runs EXCEPT ![Running(d)] = @ + 1]
  /\ \E result \in {"succeeded", "failed"} : handling' = [handling EXCEPT ![d] = result]
  /\ UNCHANGED <<state, tries, due, age, late, claimed, timeLeft, drainMishaps>>

NextEvent(d) ==
  /\ claimed' = [claimed EXCEPT ![d] = Tail(@)]
  /\ handling' = [handling EXCEPT ![d] = IF Len(claimed[d]) = 1 THEN "idle" ELSE "claimed"]
  /\ timeLeft' = [timeLeft EXCEPT ![d] = IF Len(claimed[d]) = 1 THEN 0 ELSE HandlerTime]

MarkCompleted(d) ==
  /\ handling[d] = "succeeded"
  /\ state' = [state EXCEPT ![Running(d)] = "completed"]
  /\ NextEvent(d)
  /\ UNCHANGED <<tries, due, age, runs, late, drainMishaps>>

\* Mutant: the attempt in hand is counted twice.
AlmostSpent(n) == n + 1 >= DrainAttempts

Spent(n) == n >= DrainAttempts

TriesNow(d) == Head(claimed[d]).tries + 1

MarkRetry(d) ==
  /\ handling[d] = "failed" /\ ~Spent(TriesNow(d))
  /\ state' = [state EXCEPT ![Running(d)] = "pending"]
  /\ tries' = [tries EXCEPT ![Running(d)] = TriesNow(d)]
  /\ due' = [due EXCEPT ![Running(d)] = RetryDelay]
  /\ NextEvent(d)
  /\ UNCHANGED <<age, runs, late, drainMishaps>>

MarkDead(d) ==
  /\ \/ handling[d] = "failed" /\ Spent(TriesNow(d))
     \/ handling[d] = "claimed" /\ Running(d) \in Unhandled
  /\ state' = [state EXCEPT ![Running(d)] = "dead"]
  /\ tries' = [tries EXCEPT ![Running(d)] = TriesNow(d)]
  /\ NextEvent(d)
  /\ UNCHANGED <<due, age, runs, late, drainMishaps>>

\* A mark that fails is only logged: the row stays in flight until its window
\* ends, and the drainer goes on to the next event.
MarkFails(d) ==
  /\ \/ handling[d] \in {"succeeded", "failed"}
     \/ handling[d] = "claimed" /\ Running(d) \in Unhandled
  /\ drainMishaps < MaxDrainMishaps
  /\ drainMishaps' = drainMishaps + 1
  /\ NextEvent(d)
  /\ UNCHANGED effectState

\* The process dies with a batch in hand.
DrainerCrash(d) ==
  /\ claimed[d] # <<>> /\ drainMishaps < MaxDrainMishaps
  /\ drainMishaps' = drainMishaps + 1
  /\ claimed' = [claimed EXCEPT ![d] = <<>>]
  /\ handling' = [handling EXCEPT ![d] = "idle"]
  /\ timeLeft' = [timeLeft EXCEPT ![d] = 0]
  /\ UNCHANGED effectState

DrainStep(d) == HandlerRuns(d) \/ MarkCompleted(d) \/ MarkRetry(d) \/ MarkDead(d)

DrainNext ==
  \/ \E e \in Effects : Enqueue(e)
  \/ DrainClock
  \/ \E d \in Drainers : Claim(d) \/ DrainStep(d) \/ MarkFails(d) \/ DrainerCrash(d)

DrainSpec == DrainInit /\ [][DrainNext]_drainVars

-----------------------------------------------------------------------------
(* Properties *)

DrainTypeOK ==
  /\ state \in [Effects -> {"absent", "pending", "in_flight", "completed", "dead"}]
  /\ tries \in [Effects -> 0..DrainAttempts] /\ runs \in [Effects -> Nat]
  /\ due \in [Effects -> Nat] /\ age \in [Effects -> 0..Visibility]
  /\ \A d \in Drainers :
       /\ claimed[d] \in Seq([effect : Effects, tries : Nat]) /\ Len(claimed[d]) <= DrainBatch
       /\ handling[d] \in {"idle", "claimed", "succeeded", "failed"}
       /\ (handling[d] = "idle") <=> (claimed[d] = <<>>)
       /\ timeLeft[d] \in 0..HandlerTime

\* Two live drainers hold the same event only if it was still waiting its turn in
\* a batch when its visibility window ended.
DrainersNeverRace ==
  \A c, d \in Drainers : c # d => EffectsHeld(c) \cap EffectsHeld(d) \subseteq late

\* A completed event is never dispatched or marked again, and a dead one stays
\* dead, unless its window ended while a drainer had it in hand: no late mark of
\* another drainer undoes the rest.
SettledIsFinal ==
  [][\A e \in Effects \ late : state[e] \in {"completed", "dead"} =>
       state'[e] = state[e] /\ runs'[e] = runs[e]]_drainVars

\* An event is given up only after all its attempts, or if nothing handles its
\* kind; and it runs more often than that only for a drainer that died, a mark
\* that failed, or a window that ended while it was in hand.
DeadMeansSpent ==
  \A e \in Effects \ late :
    /\ state[e] = "dead" => e \in Unhandled \/ runs[e] >= DrainAttempts
    /\ runs[e] <= DrainAttempts + drainMishaps

\* An event is in one pair of hands, and is tried as often as it is owed.
DrainSafe == DrainersNeverRace /\ DeadMeansSpent

\* inFlightVisibility is "sized comfortably above the longest expected handler
\* runtime so healthy drainers never race their own rows" (outbox.go:44-46).
HealthyNeverRace ==
  drainMishaps = 0 =>
    \A c, d \in Drainers : c # d => EffectsHeld(c) \cap EffectsHeld(d) = {}

\* Every event that was enqueued is completed or dead in the end, also when
\* the drainer that had it died.
EffectSettles ==
  \A e \in Effects : (state[e] = "pending") ~> (state[e] \in {"completed", "dead"})
=============================================================================
