------------------------- MODULE WebhookWorker_proofs -------------------------
(***************************************************************************)
(* Proofs about the two claim-and-work loops that hold their rows without  *)
(* a lock: first the webhook delivery workers, for any number of workers,  *)
(* deliveries and subscriptions, and every lease longer than the requests  *)
(* of one batch.                                                           *)
(*                                                                         *)
(* The lease is what the argument turns on: the i-th delivery a worker     *)
(* still holds stays leased for what is left of its open request, and for  *)
(* a whole request of each delivery before it (LeaseOutlasts).  Nobody     *)
(* else can therefore claim it, and requests and attempts of a delivery    *)
(* can differ only by the request now open, the workers that died and the  *)
(* outcomes that could not be written.                                     *)
(*                                                                         *)
(* The drainers of platform-api's outbox follow.  Nothing makes a batch    *)
(* fit its window there, so the argument is about the events whose window  *)
(* has not ended while they were in hand: they are in one pair of hands.   *)
(***************************************************************************)
EXTENDS WebhookWorker, PlatformOutbox, FiniteSetTheorems, TLAPS

USE DEF deliveryState, hookState, workerState, workerBounds, RecordOutcome, Current

Claims == [delivery : Deliveries, attempts : Nat]

WorkerTypes ==
  /\ status \in [Deliveries -> {"absent", "pending", "delivered", "failed"}]
  /\ attempts \in [Deliveries -> Nat] /\ sends \in [Deliveries -> Nat]
  /\ wait \in [Deliveries -> Nat] /\ retired \subseteq Deliveries
  /\ held \in [SendWorkers -> Seq(Claims)]
  /\ sending \in [SendWorkers -> {"idle", "claimed", "accepted", "refused",
                                  "countSuccess", "countFailure"}]
  /\ budget \in [SendWorkers -> Nat]
  /\ workerMishaps \in Nat

\* Requests that come before the i-th of a batch, in ticks.
Turn(i) == (i - 1) * RequestTimeout

\* The places of a batch whose outcome is not recorded.
OpenPlaces(w) ==
  {i \in 1..Len(held[w]) : i = 1 => sending[w] \notin {"countSuccess", "countFailure"}}

IdleIsEmpty == \A w \in SendWorkers : held[w] = <<>> <=> sending[w] = "idle"

\* A delivery is in one place only.
BatchesDistinct ==
  \A w \in SendWorkers : \A i, j \in 1..Len(held[w]) :
    i # j => held[w][i].delivery # held[w][j].delivery

BatchesApart ==
  \A v, w \in SendWorkers : v # w =>
    \A i \in OpenPlaces(v), j \in OpenPlaces(w) : held[v][i].delivery # held[w][j].delivery

\* An open delivery is as the worker read it, and its lease outlasts its turn.
LeaseOutlasts ==
  \A w \in SendWorkers : \A i \in OpenPlaces(w) :
    LET d == held[w][i].delivery IN
    /\ status[d] = "pending" /\ attempts[d] = held[w][i].attempts
    /\ wait[d] > budget[w] + Turn(i)

\* Does a worker have a request for this delivery open?
InFlight(d) ==
  \E w \in SendWorkers : sending[w] \in {"accepted", "refused"} /\ held[w][1].delivery = d

Flights(d) == IF InFlight(d) THEN 1 ELSE 0

\* Requests and attempts, delivery by delivery.
SendsCounted ==
  \A d \in Deliveries :
    /\ attempts[d] <= MaxSends
    /\ status[d] \in {"absent", "pending"} => attempts[d] < MaxSends /\ sends[d] >= attempts[d] + Flights(d)
    /\ sends[d] <= attempts[d] + Flights(d) + workerMishaps
    /\ status[d] = "failed" /\ d \notin retired => sends[d] >= MaxSends

WorkerInv ==
  /\ WorkerTypes /\ IdleIsEmpty /\ BatchesDistinct /\ BatchesApart /\ LeaseOutlasts /\ SendsCounted

-----------------------------------------------------------------------------
(* Turns *)

LEMMA TurnIsNat == ASSUME NEW i \in Nat \ {0} PROVE Turn(i) \in Nat
  BY WorkerAssumption, SMT DEF Turn

LEMMA TurnNext == ASSUME NEW i \in Nat \ {0} PROVE Turn(i + 1) = RequestTimeout + Turn(i)
  BY WorkerAssumption, SMT DEF Turn

LEMMA ProductGrows ==
  ASSUME NEW i \in Nat, NEW n \in Nat, i <= n, NEW k \in Nat
  PROVE  i * k <= n * k
<1>1. (n - i) * k \in Nat
  BY SMT
<1>2. n * k = i * k + (n - i) * k
  BY SMT
<1> QED
  BY <1>1, <1>2

\* Every turn of a batch is over before the lease.
LEMMA LeaseIsEnough ==
  ASSUME NEW n \in 1..SendBatch, NEW i \in 1..n
  PROVE  LeaseWindow > RequestTimeout + Turn(i)
<1>1. i \in Nat \ {0} /\ SendBatch \in Nat /\ i <= SendBatch /\ RequestTimeout \in Nat /\ LeaseWindow \in Nat
  BY WorkerAssumption
<1>2. RequestTimeout + Turn(i) = i * RequestTimeout
  BY <1>1, SMT DEF Turn
<1>3. i * RequestTimeout <= SendBatch * RequestTimeout
  BY <1>1, ProductGrows
<1>4. i * RequestTimeout \in Nat /\ SendBatch * RequestTimeout \in Nat
  BY <1>1
<1> QED
  BY <1>1, <1>2, <1>3, <1>4, WorkerAssumption

-----------------------------------------------------------------------------
LEMMA WorkerInitInv == WorkerInit => WorkerInv
<1> SUFFICES ASSUME WorkerInit PROVE WorkerInv
  OBVIOUS
<1>1. WorkerTypes
  BY DEF WorkerInit, WorkerTypes
<1>2. \A w \in SendWorkers : OpenPlaces(w) = {} /\ Len(held[w]) = 0
  BY DEF WorkerInit, OpenPlaces
<1>3. \A d \in Deliveries : ~InFlight(d)
  BY DEF WorkerInit, InFlight
<1>4. SendsCounted
  BY <1>3, WorkerAssumption DEF WorkerInit, SendsCounted, Flights
<1> QED
  BY <1>1, <1>2, <1>4 DEF WorkerInit, WorkerInv, IdleIsEmpty, BatchesDistinct, BatchesApart, LeaseOutlasts

\* A worker that is not idle has a delivery in hand.
LEMMA HeldFirst ==
  ASSUME WorkerInv, NEW w \in SendWorkers, sending[w] # "idle"
  PROVE  /\ held[w] # <<>> /\ Len(held[w]) \in Nat \ {0}
         /\ held[w][1] = Head(held[w]) /\ held[w][1] \in Claims
         /\ held[w] \in Seq(Claims)
<1>1. held[w] \in Seq(Claims) /\ held[w] # <<>>
  BY DEF WorkerInv, WorkerTypes, IdleIsEmpty
<1> QED
  BY <1>1

LEMMA OpenFirst ==
  ASSUME WorkerInv, NEW w \in SendWorkers, sending[w] \in {"claimed", "accepted", "refused"}
  PROVE  1 \in OpenPlaces(w)
  BY HeldFirst DEF OpenPlaces

LEMMA OpenIsClaim ==
  ASSUME WorkerInv, NEW w \in SendWorkers, NEW i \in OpenPlaces(w)
  PROVE  /\ i \in 1..Len(held[w]) /\ i \in Nat \ {0} /\ held[w] # <<>>
         /\ held[w][i] \in Claims /\ held[w][i].delivery \in Deliveries
<1>1. held[w] \in Seq(Claims) /\ i \in 1..Len(held[w])
  BY DEF WorkerInv, WorkerTypes, OpenPlaces
<1>2. held[w][i] \in Claims /\ i \in Nat \ {0} /\ held[w] # <<>>
  BY <1>1
<1> QED
  BY <1>1, <1>2 DEF Claims

\* What an open place holds nobody else has a request open for.
LEMMA FlightsApart ==
  ASSUME WorkerInv, NEW w \in SendWorkers, NEW i \in OpenPlaces(w),
         NEW v \in SendWorkers, sending[v] \in {"accepted", "refused"},
         held[v][1].delivery = held[w][i].delivery
  PROVE  v = w /\ i = 1
<1>1. 1 \in OpenPlaces(v)
  BY OpenFirst
<1>2. v = w
  BY <1>1 DEF WorkerInv, BatchesApart
<1> QED
  BY <1>1, <1>2 DEF WorkerInv, BatchesDistinct, OpenPlaces

LEMMA TickKeeps ==
  ASSUME WorkerInv, WorkerTick
  PROVE  WorkerInv'
<1>1. WorkerTypes'
  <2>1. wait' \in [Deliveries -> Nat] /\ budget' \in [SendWorkers -> Nat]
    BY DEF WorkerTick, WorkerInv, WorkerTypes
  <2> QED
    BY <2>1 DEF WorkerTick, WorkerInv, WorkerTypes
<1>2. IdleIsEmpty' /\ BatchesDistinct' /\ BatchesApart' /\ SendsCounted'
  BY DEF WorkerTick, WorkerInv, IdleIsEmpty, BatchesDistinct, BatchesApart, SendsCounted,
         OpenPlaces, InFlight, Flights
<1>3. LeaseOutlasts'
  <2> SUFFICES ASSUME NEW w \in SendWorkers, NEW i \in OpenPlaces(w)
               PROVE  LET d == held[w][i].delivery IN
                      /\ status[d] = "pending" /\ attempts[d] = held[w][i].attempts
                      /\ wait'[d] > budget'[w] + Turn(i)
    BY DEF LeaseOutlasts, WorkerTick, OpenPlaces
  <2> DEFINE d == held[w][i].delivery
  <2>1. i \in Nat \ {0} /\ held[w] # <<>> /\ d \in Deliveries
    BY OpenIsClaim
  <2>2. status[d] = "pending" /\ attempts[d] = held[w][i].attempts /\ wait[d] > budget[w] + Turn(i)
    BY DEF WorkerInv, LeaseOutlasts
  <2>3. wait'[d] = (IF wait[d] > 0 THEN wait[d] - 1 ELSE 0) /\ budget'[w] = budget[w] - 1
        /\ wait[d] \in Nat /\ budget[w] \in Nat
    BY <2>1 DEF WorkerTick, WorkerInv, WorkerTypes
  <2>4. wait'[d] > budget'[w] + Turn(i)
    <3>1. ASSUME NEW a \in Nat, NEW b \in Nat, NEW t \in Nat, a > b + t
          PROVE  (IF a > 0 THEN a - 1 ELSE 0) > b - 1 + t
      BY <3>1
    <3>2. Turn(i) \in Nat
      BY <2>1, TurnIsNat
    <3> HIDE DEF d
    <3> QED
      BY <2>2, <2>3, <3>1, <3>2
  <2> QED
    BY <2>2, <2>4
<1> QED
  BY <1>1, <1>2, <1>3 DEF WorkerInv

-----------------------------------------------------------------------------
(* A worker's steps *)

\* A worker that has no request open after its step leaves those of the others.
LEMMA FlightsAfter ==
  ASSUME WorkerInv, NEW w \in SendWorkers,
         \A v \in SendWorkers \ {w} : held'[v] = held[v] /\ sending'[v] = sending[v],
         sending'[w] \notin {"accepted", "refused"},
         NEW d \in Deliveries
  PROVE  Flights(d)' = IF sending[w] \in {"accepted", "refused"} /\ held[w][1].delivery = d
                       THEN 0 ELSE Flights(d)
<1>1. CASE sending[w] \in {"accepted", "refused"} /\ held[w][1].delivery = d
  <2>1. \A v \in SendWorkers \ {w} : ~(sending[v] \in {"accepted", "refused"} /\ held[v][1].delivery = d)
    BY <1>1, OpenFirst, FlightsApart
  <2>2. ~InFlight(d)'
    BY <2>1 DEF InFlight
  <2> QED
    BY <1>1, <2>2 DEF Flights
<1>2. CASE ~(sending[w] \in {"accepted", "refused"} /\ held[w][1].delivery = d)
  <2>1. InFlight(d)' <=> InFlight(d)
    BY <1>2 DEF InFlight
  <2> QED
    BY <1>2, <2>1 DEF Flights
<1> QED
  BY <1>1, <1>2

LEMMA OpenInFlight ==
  ASSUME WorkerInv, NEW w \in SendWorkers
  PROVE  /\ sending[w] \in {"accepted", "refused"} => Flights(held[w][1].delivery) = 1
         /\ sending[w] = "claimed" => Flights(held[w][1].delivery) = 0
<1>1. ASSUME sending[w] = "claimed" PROVE ~InFlight(held[w][1].delivery)
  BY <1>1, OpenFirst, FlightsApart DEF InFlight
<1>2. ASSUME sending[w] \in {"accepted", "refused"} PROVE InFlight(held[w][1].delivery)
  BY <1>2 DEF InFlight
<1> QED
  BY <1>1, <1>2 DEF Flights

LEMMA NextPlace ==
  ASSUME NEW n \in Nat, NEW i \in 1..(n - 1)
  PROVE  i \in Nat \ {0} /\ i + 1 \in 1..n /\ i + 1 # 1 /\ n # 1
  OBVIOUS

LEMMA EmptyByLength ==
  ASSUME NEW S, NEW s \in Seq(S)
  PROVE  s = <<>> <=> Len(s) = 0
  OBVIOUS

\* The batch moves up by one place.
LEMMA GoingOn ==
  ASSUME WorkerInv, NEW w \in SendWorkers, sending[w] # "idle", GoOn(w)
  PROVE  /\ held' \in [SendWorkers -> Seq(Claims)]
         /\ sending' \in [SendWorkers -> {"idle", "claimed", "accepted", "refused",
                                          "countSuccess", "countFailure"}]
         /\ budget' \in [SendWorkers -> Nat]
         /\ sending'[w] \in {"idle", "claimed"}
         /\ \A v \in SendWorkers \ {w} :
              held'[v] = held[v] /\ sending'[v] = sending[v] /\ budget'[v] = budget[v]
         /\ \A i \in 1..Len(held'[w]) :
              /\ held'[w][i] = held[w][i + 1] /\ i + 1 \in OpenPlaces(w)
              /\ i \in Nat \ {0} /\ budget'[w] = RequestTimeout
         /\ IdleIsEmpty'
<1>1. held[w] \in Seq(Claims) /\ Len(held[w]) \in Nat \ {0} /\ held[w] # <<>>
  BY HeldFirst
<1>2. /\ held'[w] = Tail(held[w])
      /\ sending'[w] = IF Len(held[w]) = 1 THEN "idle" ELSE "claimed"
      /\ budget'[w] = IF Len(held[w]) = 1 THEN 0 ELSE RequestTimeout
      /\ \A v \in SendWorkers \ {w} :
           held'[v] = held[v] /\ sending'[v] = sending[v] /\ budget'[v] = budget[v]
  BY DEF GoOn, WorkerInv, WorkerTypes
<1>3. Tail(held[w]) \in Seq(Claims) /\ Len(Tail(held[w])) = Len(held[w]) - 1
      /\ \A i \in 1..Len(Tail(held[w])) : Tail(held[w])[i] = held[w][i + 1]
  BY <1>1
<1>4. held' \in [SendWorkers -> Seq(Claims)]
  BY <1>3 DEF GoOn, WorkerInv, WorkerTypes
<1>5. /\ sending' \in [SendWorkers -> {"idle", "claimed", "accepted", "refused",
                                       "countSuccess", "countFailure"}]
      /\ budget' \in [SendWorkers -> Nat]
  BY WorkerAssumption DEF GoOn, WorkerInv, WorkerTypes
<1>6. ASSUME NEW i \in 1..Len(held'[w])
      PROVE  /\ held'[w][i] = held[w][i + 1] /\ i + 1 \in OpenPlaces(w)
             /\ i \in Nat \ {0} /\ budget'[w] = RequestTimeout
  <2>1. i \in 1..(Len(held[w]) - 1)
    BY <1>2, <1>3
  <2>2. i \in Nat \ {0} /\ i + 1 \in 1..Len(held[w]) /\ i + 1 # 1 /\ Len(held[w]) # 1
    BY <1>1, <2>1, NextPlace
  <2> QED
    BY <1>2, <1>3, <2>2 DEF OpenPlaces
<1>7. held'[w] = <<>> <=> Len(held[w]) = 1
  <2>1. Tail(held[w]) = <<>> <=> Len(Tail(held[w])) = 0
    BY <1>3, EmptyByLength
  <2> QED
    BY <1>1, <1>2, <1>3, <2>1
<1>8. IdleIsEmpty'
  BY <1>2, <1>7 DEF WorkerInv, IdleIsEmpty
<1> QED
  BY <1>2, <1>4, <1>5, <1>6, <1>8

LEMMA GoingOnKeepsBatches ==
  ASSUME WorkerInv, NEW w \in SendWorkers, sending[w] # "idle", GoOn(w)
  PROVE  BatchesDistinct' /\ BatchesApart'
<1>1. ASSUME NEW v \in SendWorkers, NEW i \in OpenPlaces(v)'
      PROVE  v # w => i \in OpenPlaces(v) /\ held'[v][i] = held[v][i]
  BY <1>1, GoingOn DEF OpenPlaces
<1>2. ASSUME NEW i \in OpenPlaces(w)'
      PROVE  i + 1 \in OpenPlaces(w) /\ held'[w][i] = held[w][i + 1]
  BY <1>2, GoingOn DEF OpenPlaces
<1>3. BatchesApart'
  <2> SUFFICES ASSUME NEW v \in SendWorkers, NEW u \in SendWorkers, v # u,
                      NEW i \in OpenPlaces(v)', NEW j \in OpenPlaces(u)'
               PROVE  held'[v][i].delivery # held'[u][j].delivery
    BY DEF BatchesApart
  <2>1. CASE v = w
    <3>1. i + 1 \in OpenPlaces(w) /\ held'[w][i] = held[w][i + 1]
      BY <1>2, <2>1
    <3>2. j \in OpenPlaces(u) /\ held'[u][j] = held[u][j]
      BY <1>1, <2>1
    <3> QED
      BY <2>1, <3>1, <3>2 DEF WorkerInv, BatchesApart
  <2>2. CASE u = w
    <3>1. j + 1 \in OpenPlaces(w) /\ held'[w][j] = held[w][j + 1]
      BY <1>2, <2>2
    <3>2. i \in OpenPlaces(v) /\ held'[v][i] = held[v][i]
      BY <1>1, <2>2
    <3> QED
      BY <2>2, <3>1, <3>2 DEF WorkerInv, BatchesApart
  <2>3. CASE v # w /\ u # w
    BY <1>1, <2>3 DEF WorkerInv, BatchesApart
  <2> QED
    BY <2>1, <2>2, <2>3
<1>4. BatchesDistinct'
  <2>1. ASSUME NEW i \in 1..Len(held'[w]), NEW j \in 1..Len(held'[w]), i # j
        PROVE  held'[w][i].delivery # held'[w][j].delivery
    <3>1. i + 1 \in 1..Len(held[w]) /\ j + 1 \in 1..Len(held[w]) /\ i + 1 # j + 1
      <4>1. i + 1 \in OpenPlaces(w) /\ j + 1 \in OpenPlaces(w) /\ i \in Nat /\ j \in Nat
        BY GoingOn
      <4> QED
        BY <2>1, <4>1 DEF OpenPlaces
    <3>2. held'[w][i] = held[w][i + 1] /\ held'[w][j] = held[w][j + 1]
      BY GoingOn
    <3>3. held[w][i + 1].delivery # held[w][j + 1].delivery
      BY <3>1 DEF WorkerInv, BatchesDistinct
    <3> QED
      BY <3>2, <3>3
  <2>2. ASSUME NEW v \in SendWorkers \ {w}, NEW i \in 1..Len(held'[v]), NEW j \in 1..Len(held'[v]), i # j
        PROVE  held'[v][i].delivery # held'[v][j].delivery
    <3>1. held'[v] = held[v]
      BY GoingOn
    <3> QED
      BY <2>2, <3>1 DEF WorkerInv, BatchesDistinct
  <2> QED
    BY <2>1, <2>2 DEF BatchesDistinct
<1> QED
  BY <1>3, <1>4

\* What comes after the first place keeps its row and its lease.
LEMMA GoingOnKeepsLeases ==
  ASSUME WorkerInv, NEW w \in SendWorkers, sending[w] # "idle", GoOn(w),
         \A e \in Deliveries : e # held[w][1].delivery \/ 1 \notin OpenPlaces(w) =>
            status'[e] = status[e] /\ attempts'[e] = attempts[e] /\ wait'[e] = wait[e]
  PROVE  LeaseOutlasts'
<1> SUFFICES ASSUME NEW v \in SendWorkers, NEW i \in OpenPlaces(v)'
             PROVE  LET d == held'[v][i].delivery IN
                    /\ status'[d] = "pending" /\ attempts'[d] = held'[v][i].attempts
                    /\ wait'[d] > budget'[v] + Turn(i)
  BY DEF LeaseOutlasts, Turn
<1>1. CASE v # w
  <2> DEFINE d == held[v][i].delivery
  <2>1. i \in OpenPlaces(v) /\ held'[v] = held[v] /\ budget'[v] = budget[v]
    BY <1>1, GoingOn DEF OpenPlaces
  <2>2. d \in Deliveries /\ (1 \in OpenPlaces(w) => d # held[w][1].delivery)
    BY <1>1, <2>1, OpenIsClaim DEF WorkerInv, BatchesApart
  <2>3. status'[d] = status[d] /\ attempts'[d] = attempts[d] /\ wait'[d] = wait[d]
    BY <2>2
  <2>4. status[d] = "pending" /\ attempts[d] = held[v][i].attempts /\ wait[d] > budget[v] + Turn(i)
    BY <2>1 DEF WorkerInv, LeaseOutlasts
  <2> QED
    BY <2>1, <2>3, <2>4
<1>2. CASE v = w
  <2> DEFINE d == held[w][i + 1].delivery
  <2>1. /\ held'[w][i] = held[w][i + 1] /\ i + 1 \in OpenPlaces(w)
        /\ i \in Nat \ {0} /\ budget'[w] = RequestTimeout
    BY <1>2, GoingOn DEF OpenPlaces
  <2>2. d \in Deliveries
    BY <2>1, OpenIsClaim
  <2>3. 1 \in OpenPlaces(w) => d # held[w][1].delivery
    BY <2>1 DEF WorkerInv, BatchesDistinct, OpenPlaces
  <2>4. status[d] = "pending" /\ attempts[d] = held[w][i + 1].attempts
        /\ wait[d] > budget[w] + Turn(i + 1)
    BY <2>1 DEF WorkerInv, LeaseOutlasts
  <2>5. Turn(i + 1) = RequestTimeout + Turn(i) /\ Turn(i) \in Nat
    BY <2>1, TurnIsNat, TurnNext
  <2>6. wait[d] \in Nat /\ budget[w] \in Nat /\ RequestTimeout \in Nat
    BY <2>2, WorkerAssumption DEF WorkerInv, WorkerTypes
  <2>7. wait[d] > RequestTimeout + Turn(i)
    BY <2>4, <2>5, <2>6
  <2> QED
    BY <1>2, <2>1, <2>2, <2>3, <2>4, <2>7
<1> QED
  BY <1>1, <1>2

LEMMA RetireKeeps ==
  ASSUME WorkerInv, NEW w \in SendWorkers, Retire(w)
  PROVE  WorkerInv'
<1> DEFINE d == held[w][1].delivery
<1>1. sending[w] = "claimed" /\ sending[w] # "idle" /\ GoOn(w)
  BY DEF Retire
<1>2. 1 \in OpenPlaces(w) /\ d = Head(held[w]).delivery /\ d \in Deliveries
      /\ status[d] = "pending"
  BY <1>1, OpenFirst, HeldFirst, OpenIsClaim DEF WorkerInv, LeaseOutlasts
<1>3. /\ status' = [status EXCEPT ![d] = "failed"] /\ attempts' = [attempts EXCEPT ![d] = @ + 1]
      /\ wait' = [wait EXCEPT ![d] = 0] /\ retired' = retired \union {d}
      /\ UNCHANGED <<sends, workerMishaps>>
  BY <1>2 DEF Retire
<1> HIDE DEF d
<1>4. WorkerTypes'
  <2>1. /\ status' \in [Deliveries -> {"absent", "pending", "delivered", "failed"}]
        /\ attempts' \in [Deliveries -> Nat] /\ wait' \in [Deliveries -> Nat]
        /\ retired' \subseteq Deliveries
    BY <1>2, <1>3 DEF WorkerInv, WorkerTypes
  <2> QED
    BY <1>1, <1>3, <2>1, GoingOn DEF WorkerInv, WorkerTypes
<1>5. LeaseOutlasts'
  BY <1>1, <1>2, <1>3, GoingOnKeepsLeases DEF WorkerInv, WorkerTypes, d
<1>6. \A e \in Deliveries : Flights(e)' = Flights(e)
  BY <1>1, GoingOn, FlightsAfter
<1>7. SendsCounted'
  <2>1. \A e \in Deliveries : attempts[e] \in Nat /\ sends[e] \in Nat /\ Flights(e) \in {0, 1}
    BY DEF WorkerInv, WorkerTypes, Flights
  <2>2. /\ status'[d] = "failed" /\ attempts'[d] = attempts[d] + 1 /\ d \in retired'
        /\ \A e \in Deliveries \ {d} : /\ status'[e] = status[e] /\ attempts'[e] = attempts[e]
                                       /\ e \in retired' <=> e \in retired
    BY <1>2, <1>3 DEF WorkerInv, WorkerTypes
  <2>3. attempts[d] < MaxSends /\ sends[d] <= attempts[d] + Flights(d) + workerMishaps
        /\ workerMishaps \in Nat /\ MaxSends \in Nat
    BY <1>2, WorkerAssumption DEF WorkerInv, WorkerTypes, SendsCounted
  <2>4. attempts'[d] <= MaxSends /\ sends[d] <= attempts'[d] + Flights(d) + workerMishaps
    BY <1>2, <2>1, <2>2, <2>3
  <2> QED
    BY <1>3, <1>6, <2>2, <2>4 DEF WorkerInv, SendsCounted
<1> QED
  BY <1>1, <1>4, <1>5, <1>7, GoingOn, GoingOnKeepsBatches DEF WorkerInv

LEMMA CountKeeps ==
  ASSUME WorkerInv, NEW w \in SendWorkers, RecordSuccess(w) \/ RecordFailure(w)
  PROVE  WorkerInv'
<1>1. /\ sending[w] \in {"countSuccess", "countFailure"} /\ sending[w] # "idle" /\ GoOn(w)
      /\ UNCHANGED <<status, attempts, wait, sends, retired, workerMishaps>>
  BY DEF RecordSuccess, RecordFailure
<1>2. WorkerTypes'
  BY <1>1, GoingOn DEF WorkerInv, WorkerTypes
<1>3. LeaseOutlasts'
  BY <1>1, GoingOnKeepsLeases
<1>4. \A e \in Deliveries : Flights(e)' = Flights(e)
  BY <1>1, GoingOn, FlightsAfter
<1>5. SendsCounted'
  BY <1>1, <1>4 DEF WorkerInv, SendsCounted
<1> QED
  BY <1>1, <1>2, <1>3, <1>5, GoingOn, GoingOnKeepsBatches DEF WorkerInv

\* The row of the first place has changed; no row of another place has.
LEMMA FirstRowOnly ==
  ASSUME WorkerInv, NEW w \in SendWorkers, 1 \in OpenPlaces(w),
         NEW d, d = held[w][1].delivery,
         \A v \in SendWorkers : held'[v] = held[v] /\ budget'[v] = budget[v],
         \A v \in SendWorkers \ {w} : sending'[v] = sending[v],
         sending'[w] \in {"countSuccess", "countFailure"},
         \A e \in Deliveries \ {d} :
            status'[e] = status[e] /\ attempts'[e] = attempts[e] /\ wait'[e] = wait[e]
  PROVE  IdleIsEmpty' /\ BatchesDistinct' /\ BatchesApart' /\ LeaseOutlasts'
<1>1. ASSUME NEW v \in SendWorkers, NEW i \in OpenPlaces(v)'
      PROVE  i \in OpenPlaces(v) /\ held[v][i].delivery \in Deliveries \ {d}
  <2>1. i \in OpenPlaces(v)
    BY <1>1 DEF OpenPlaces
  <2>2. CASE v = w
    <3>1. i # 1
      BY <1>1, <2>2 DEF OpenPlaces
    <3> QED
      BY <2>1, <2>2, <3>1, OpenIsClaim DEF WorkerInv, BatchesDistinct, OpenPlaces
  <2>3. CASE v # w
    BY <2>1, <2>3, OpenIsClaim DEF WorkerInv, BatchesApart
  <2> QED
    BY <2>1, <2>2, <2>3
<1>2. BatchesApart'
  BY <1>1 DEF WorkerInv, BatchesApart
<1>3. BatchesDistinct'
  BY DEF WorkerInv, BatchesDistinct
<1>4. LeaseOutlasts'
  <2> SUFFICES ASSUME NEW v \in SendWorkers, NEW i \in OpenPlaces(v)'
               PROVE  LET e == held[v][i].delivery IN
                      /\ status'[e] = "pending" /\ attempts'[e] = held[v][i].attempts
                      /\ wait'[e] > budget[v] + Turn(i)
    BY DEF LeaseOutlasts, Turn
  <2> QED
    BY <1>1 DEF WorkerInv, LeaseOutlasts
<1>5. IdleIsEmpty'
  <2>1. held[w] # <<>>
    BY OpenIsClaim
  <2> QED
    BY <2>1 DEF WorkerInv, IdleIsEmpty
<1> QED
  BY <1>2, <1>3, <1>4, <1>5

\* The outcome of a request is written to the row of the delivery it was made for.
LEMMA OutcomeCounted ==
  ASSUME WorkerInv, NEW w \in SendWorkers, sending[w] \in {"accepted", "refused"},
         NEW d, d = held[w][1].delivery,
         NEW outcome \in {"pending", "delivered", "failed"}, NEW retryIn \in Nat,
         RecordOutcome(d, outcome, retryIn), UNCHANGED <<sends, retired, workerMishaps>>,
         outcome = "pending" => attempts[d] + 1 < MaxSends,
         outcome = "failed" => attempts[d] + 1 >= MaxSends,
         \A e \in Deliveries : Flights(e)' = IF e = d THEN 0 ELSE Flights(e)
  PROVE  /\ d \in Deliveries
         /\ \A e \in Deliveries \ {d} :
              status'[e] = status[e] /\ attempts'[e] = attempts[e] /\ wait'[e] = wait[e]
         /\ status' \in [Deliveries -> {"absent", "pending", "delivered", "failed"}]
         /\ attempts' \in [Deliveries -> Nat] /\ wait' \in [Deliveries -> Nat]
         /\ SendsCounted'
<1>1. d \in Deliveries /\ status[d] = "pending" /\ Flights(d) = 1
  BY OpenFirst, OpenIsClaim, OpenInFlight DEF WorkerInv, LeaseOutlasts
<1>2. /\ status'[d] = outcome /\ attempts'[d] = attempts[d] + 1
      /\ \A e \in Deliveries \ {d} :
           status'[e] = status[e] /\ attempts'[e] = attempts[e] /\ wait'[e] = wait[e]
      /\ status' \in [Deliveries -> {"absent", "pending", "delivered", "failed"}]
      /\ attempts' \in [Deliveries -> Nat] /\ wait' \in [Deliveries -> Nat]
  BY <1>1 DEF WorkerInv, WorkerTypes
<1>3. /\ attempts[d] < MaxSends /\ sends[d] >= attempts[d] + 1
      /\ sends[d] <= attempts[d] + 1 + workerMishaps
      /\ attempts[d] \in Nat /\ sends[d] \in Nat /\ workerMishaps \in Nat /\ MaxSends \in Nat
  BY <1>1, WorkerAssumption DEF WorkerInv, WorkerTypes, SendsCounted
<1>4. /\ attempts'[d] <= MaxSends
      /\ outcome = "pending" => attempts'[d] < MaxSends
      /\ sends[d] >= attempts'[d] + 0 /\ sends[d] <= attempts'[d] + 0 + workerMishaps
      /\ outcome = "failed" => sends[d] >= MaxSends
  BY <1>2, <1>3
<1>5. \A e \in Deliveries \ {d} : Flights(e)' = Flights(e) /\ Flights(d)' = 0
  BY <1>1
<1>6. SendsCounted'
  BY <1>1, <1>2, <1>4, <1>5 DEF WorkerInv, SendsCounted
<1> QED
  BY <1>1, <1>2, <1>6

LEMMA DeliveredKeeps ==
  ASSUME WorkerInv, NEW w \in SendWorkers, RecordDelivered(w)
  PROVE  WorkerInv'
<1> DEFINE d == held[w][1].delivery
<1>1. /\ sending[w] = "accepted" /\ 1 \in OpenPlaces(w) /\ d = Head(held[w]).delivery
      /\ RecordOutcome(d, "delivered", 0) /\ UNCHANGED <<sends, retired, workerMishaps, held, budget>>
      /\ sending' = [sending EXCEPT ![w] = "countSuccess"]
  BY OpenFirst, HeldFirst DEF RecordDelivered
<1>2. sending'[w] = "countSuccess" /\ \A v \in SendWorkers \ {w} : sending'[v] = sending[v]
  BY <1>1 DEF WorkerInv, WorkerTypes
<1>3. \A e \in Deliveries : Flights(e)' = IF e = d THEN 0 ELSE Flights(e)
  BY <1>1, <1>2, FlightsAfter
<1> HIDE DEF d
<1>4. /\ d \in Deliveries
      /\ \A e \in Deliveries \ {d} :
           status'[e] = status[e] /\ attempts'[e] = attempts[e] /\ wait'[e] = wait[e]
      /\ status' \in [Deliveries -> {"absent", "pending", "delivered", "failed"}]
      /\ attempts' \in [Deliveries -> Nat] /\ wait' \in [Deliveries -> Nat]
      /\ SendsCounted'
  BY <1>1, <1>3, OutcomeCounted DEF d
<1>5. WorkerTypes'
  BY <1>1, <1>4 DEF WorkerInv, WorkerTypes
<1>6. IdleIsEmpty' /\ BatchesDistinct' /\ BatchesApart' /\ LeaseOutlasts'
  BY <1>1, <1>2, <1>4, FirstRowOnly DEF d
<1> QED
  BY <1>4, <1>5, <1>6 DEF WorkerInv

LEMMA RefusedKeeps ==
  ASSUME WorkerInv, NEW w \in SendWorkers, RecordRefused(w)
  PROVE  WorkerInv'
<1> DEFINE d == held[w][1].delivery
           n == Head(held[w]).attempts + 1
<1>1. /\ sending[w] = "refused" /\ sending[w] # "idle" /\ 1 \in OpenPlaces(w)
      /\ d = Head(held[w]).delivery /\ n = attempts[d] + 1
      /\ UNCHANGED <<sends, retired, workerMishaps>>
  BY OpenFirst, HeldFirst DEF RecordRefused, WorkerInv, LeaseOutlasts
<1>2. attempts[d] \in Nat /\ MaxSends \in Nat /\ Backoff \in Nat
  BY <1>1, OpenIsClaim, WorkerAssumption DEF WorkerInv, WorkerTypes
<1>3. CASE Exhausted(n)
  <2>1. /\ RecordOutcome(d, "failed", 0) /\ sending' = [sending EXCEPT ![w] = "countFailure"]
        /\ UNCHANGED <<held, budget>>
    BY <1>1, <1>3 DEF RecordRefused
  <2>2. sending'[w] = "countFailure" /\ \A v \in SendWorkers \ {w} : sending'[v] = sending[v]
    BY <2>1 DEF WorkerInv, WorkerTypes
  <2>3. \A e \in Deliveries : Flights(e)' = IF e = d THEN 0 ELSE Flights(e)
    BY <1>1, <2>1, <2>2, FlightsAfter
  <2>4. attempts[d] + 1 >= MaxSends
    BY <1>1, <1>3 DEF Exhausted
  <2> HIDE DEF d, n
  <2>5. /\ d \in Deliveries
        /\ \A e \in Deliveries \ {d} :
             status'[e] = status[e] /\ attempts'[e] = attempts[e] /\ wait'[e] = wait[e]
        /\ status' \in [Deliveries -> {"absent", "pending", "delivered", "failed"}]
        /\ attempts' \in [Deliveries -> Nat] /\ wait' \in [Deliveries -> Nat]
        /\ SendsCounted'
    BY <1>1, <2>1, <2>3, <2>4, OutcomeCounted DEF d
  <2>6. WorkerTypes'
    BY <1>1, <2>1, <2>5 DEF WorkerInv, WorkerTypes
  <2>7. IdleIsEmpty' /\ BatchesDistinct' /\ BatchesApart' /\ LeaseOutlasts'
    BY <1>1, <2>1, <2>2, <2>5, FirstRowOnly DEF d
  <2> QED
    BY <2>5, <2>6, <2>7 DEF WorkerInv
<1>4. CASE ~Exhausted(n)
  <2>1. RecordOutcome(d, "pending", Backoff) /\ GoOn(w)
    BY <1>1, <1>4 DEF RecordRefused
  <2>2. sending'[w] \in {"idle", "claimed"}
        /\ \A v \in SendWorkers \ {w} : held'[v] = held[v] /\ sending'[v] = sending[v]
    BY <1>1, <2>1, GoingOn
  <2>3. \A e \in Deliveries : Flights(e)' = IF e = d THEN 0 ELSE Flights(e)
    BY <1>1, <2>2, FlightsAfter
  <2>4. attempts[d] + 1 < MaxSends
    BY <1>1, <1>2, <1>4 DEF Exhausted
  <2> HIDE DEF d, n
  <2>5. /\ d \in Deliveries
        /\ \A e \in Deliveries \ {d} :
             status'[e] = status[e] /\ attempts'[e] = attempts[e] /\ wait'[e] = wait[e]
        /\ status' \in [Deliveries -> {"absent", "pending", "delivered", "failed"}]
        /\ attempts' \in [Deliveries -> Nat] /\ wait' \in [Deliveries -> Nat]
        /\ SendsCounted'
    BY <1>1, <1>2, <2>1, <2>3, <2>4, OutcomeCounted DEF d
  <2>6. WorkerTypes'
    BY <1>1, <2>1, <2>5, GoingOn DEF WorkerInv, WorkerTypes
  <2>7. LeaseOutlasts'
    BY <1>1, <2>1, <2>5, GoingOnKeepsLeases DEF d
  <2> QED
    BY <1>1, <2>1, <2>5, <2>6, <2>7, GoingOn, GoingOnKeepsBatches DEF WorkerInv
<1> QED
  BY <1>3, <1>4

LEMMA StartSendKeeps ==
  ASSUME WorkerInv, NEW w \in SendWorkers, StartSend(w)
  PROVE  WorkerInv'
<1> DEFINE d == held[w][1].delivery
<1>1. /\ sending[w] = "claimed" /\ 1 \in OpenPlaces(w) /\ d = Head(held[w]).delivery
      /\ sends' = [sends EXCEPT ![d] = @ + 1]
      /\ UNCHANGED <<status, attempts, wait, retired, held, budget, workerMishaps>>
  BY OpenFirst, HeldFirst DEF StartSend
<1>2. PICK answer \in {"accepted", "refused"} : sending' = [sending EXCEPT ![w] = answer]
  BY DEF StartSend
<1>3. sending'[w] = answer /\ \A v \in SendWorkers \ {w} : sending'[v] = sending[v]
  BY <1>2 DEF WorkerInv, WorkerTypes
<1>4. d \in Deliveries /\ status[d] = "pending" /\ Flights(d) = 0
  BY <1>1, OpenIsClaim, OpenInFlight DEF WorkerInv, LeaseOutlasts
<1>5. WorkerTypes'
  BY <1>1, <1>2, <1>4 DEF WorkerInv, WorkerTypes
<1>6. \A v \in SendWorkers : OpenPlaces(v)' = OpenPlaces(v)
  BY <1>1, <1>3 DEF OpenPlaces
<1>7. BatchesDistinct' /\ BatchesApart' /\ LeaseOutlasts'
  BY <1>1, <1>6 DEF WorkerInv, BatchesDistinct, BatchesApart, LeaseOutlasts, Turn
<1>8. IdleIsEmpty'
  BY <1>1, <1>3 DEF WorkerInv, IdleIsEmpty
<1>9. ASSUME NEW e \in Deliveries
      PROVE  Flights(e)' = IF e = d THEN 1 ELSE Flights(e)
  <2>1. CASE e = d
    <3>1. InFlight(e)'
      BY <1>1, <1>3, <2>1 DEF InFlight
    <3> QED
      BY <2>1, <3>1 DEF Flights
  <2>2. CASE e # d
    <3>1. InFlight(e)' <=> InFlight(e)
      BY <1>1, <1>3, <2>2 DEF InFlight
    <3> QED
      BY <2>2, <3>1 DEF Flights
  <2> QED
    BY <2>1, <2>2
<1> HIDE DEF d
<1>10. /\ sends'[d] = sends[d] + 1 /\ \A e \in Deliveries \ {d} : sends'[e] = sends[e]
       /\ sends[d] \in Nat /\ attempts[d] \in Nat /\ workerMishaps \in Nat
  BY <1>1, <1>4 DEF WorkerInv, WorkerTypes
<1>11. /\ attempts[d] < MaxSends /\ sends[d] >= attempts[d]
       /\ sends[d] <= attempts[d] + workerMishaps
  BY <1>4, <1>10 DEF WorkerInv, SendsCounted
<1>12. sends'[d] >= attempts[d] + 1 /\ sends'[d] <= attempts[d] + 1 + workerMishaps
  BY <1>10, <1>11
<1>13. SendsCounted'
  BY <1>1, <1>4, <1>9, <1>10, <1>12 DEF WorkerInv, SendsCounted
<1> QED
  BY <1>5, <1>7, <1>8, <1>13 DEF WorkerInv

LEMMA ClaimKeeps ==
  ASSUME WorkerInv, NEW w \in SendWorkers, ClaimDue(w)
  PROVE  WorkerInv'
<1>1. PICK n \in 1..SendBatch : \E rows \in [1..n -> DueNow] :
       /\ \A i, j \in 1..n : i # j => rows[i] # rows[j]
       /\ held' = [held EXCEPT ![w] = [i \in 1..n |->
                     [delivery |-> rows[i], attempts |-> attempts[rows[i]]]]]
       /\ wait' = [d \in Deliveries |->
                     IF \E i \in 1..n : rows[i] = d THEN LeaseWindow ELSE wait[d]]
  BY DEF ClaimDue
<1>2. PICK rows \in [1..n -> DueNow] :
       /\ \A i, j \in 1..n : i # j => rows[i] # rows[j]
       /\ held' = [held EXCEPT ![w] = [i \in 1..n |->
                     [delivery |-> rows[i], attempts |-> attempts[rows[i]]]]]
       /\ wait' = [d \in Deliveries |->
                     IF \E i \in 1..n : rows[i] = d THEN LeaseWindow ELSE wait[d]]
  BY <1>1
<1>3. /\ held[w] = <<>> /\ sending' = [sending EXCEPT ![w] = "claimed"]
      /\ budget' = [budget EXCEPT ![w] = RequestTimeout]
      /\ UNCHANGED <<status, attempts, sends, retired, workerMishaps>>
  BY DEF ClaimDue
<1>4. n \in Nat \ {0} /\ \A i \in 1..n :
        /\ rows[i] \in Deliveries /\ status[rows[i]] = "pending" /\ wait[rows[i]] = 0
  <2>1. n \in Nat \ {0}
    BY WorkerAssumption
  <2>2. \A i \in 1..n : rows[i] \in DueNow
    BY <1>2
  <2> QED
    BY <2>1, <2>2 DEF DueNow
<1> DEFINE claims == [i \in 1..n |-> [delivery |-> rows[i], attempts |-> attempts[rows[i]]]]
<1>5. claims \in Seq(Claims) /\ Len(claims) = n
  <2>1. \A i \in 1..n : [delivery |-> rows[i], attempts |-> attempts[rows[i]]] \in Claims
    BY <1>4 DEF Claims, WorkerInv, WorkerTypes
  <2> QED
    BY <1>4, <2>1
<1>6. /\ held'[w] = claims /\ sending'[w] = "claimed" /\ budget'[w] = RequestTimeout
      /\ \A v \in SendWorkers \ {w} :
           held'[v] = held[v] /\ sending'[v] = sending[v] /\ budget'[v] = budget[v]
  BY <1>2, <1>3 DEF WorkerInv, WorkerTypes
<1>7. \A i \in 1..n : claims[i].delivery = rows[i] /\ claims[i].attempts = attempts[rows[i]]
  OBVIOUS
<1> HIDE DEF claims
<1>8. WorkerTypes'
  <2>1. wait' \in [Deliveries -> Nat] /\ budget' \in [SendWorkers -> Nat]
    BY <1>2, <1>3, WorkerAssumption DEF WorkerInv, WorkerTypes
  <2>2. held' = [held EXCEPT ![w] = claims]
    BY <1>2 DEF claims
  <2> QED
    BY <1>3, <1>5, <2>1, <2>2 DEF WorkerInv, WorkerTypes
<1>9. claims # <<>>
  BY <1>4, <1>5
<1>10. IdleIsEmpty'
  BY <1>6, <1>9 DEF WorkerInv, IdleIsEmpty
<1>11. OpenPlaces(w)' = 1..n /\ \A v \in SendWorkers \ {w} : OpenPlaces(v)' = OpenPlaces(v)
  BY <1>5, <1>6 DEF OpenPlaces
<1>12. BatchesDistinct'
  <2>1. ASSUME NEW v \in SendWorkers, NEW i \in 1..Len(held'[v]), NEW j \in 1..Len(held'[v]), i # j
        PROVE  held'[v][i].delivery # held'[v][j].delivery
    <3>1. CASE v = w
      BY <1>2, <1>5, <1>6, <1>7, <2>1, <3>1
    <3>2. CASE v # w
      BY <1>6, <2>1, <3>2 DEF WorkerInv, BatchesDistinct
    <3> QED
      BY <3>1, <3>2
  <2> QED
    BY <2>1 DEF BatchesDistinct
<1>13. ASSUME NEW v \in SendWorkers \ {w}, NEW i \in OpenPlaces(v)
       PROVE  /\ held[v][i].delivery \in Deliveries
              /\ \A j \in 1..n : rows[j] # held[v][i].delivery
  <2>1. held[v][i].delivery \in Deliveries /\ i \in Nat \ {0}
    BY OpenIsClaim
  <2>2. wait[held[v][i].delivery] > budget[v] + Turn(i)
    BY DEF WorkerInv, LeaseOutlasts
  <2>3. budget[v] \in Nat /\ Turn(i) \in Nat /\ wait[held[v][i].delivery] \in Nat
    BY <2>1, TurnIsNat DEF WorkerInv, WorkerTypes
  <2>4. wait[held[v][i].delivery] # 0
    BY <2>2, <2>3
  <2> QED
    BY <1>4, <2>1, <2>4
<1>14. BatchesApart'
  <2> SUFFICES ASSUME NEW v \in SendWorkers, NEW u \in SendWorkers, v # u,
                      NEW i \in OpenPlaces(v)', NEW j \in OpenPlaces(u)'
               PROVE  held'[v][i].delivery # held'[u][j].delivery
    BY DEF BatchesApart
  <2>1. CASE v = w
    BY <1>6, <1>7, <1>11, <1>13, <2>1
  <2>2. CASE u = w
    BY <1>6, <1>7, <1>11, <1>13, <2>2
  <2>3. CASE v # w /\ u # w
    BY <1>6, <1>11, <2>3 DEF WorkerInv, BatchesApart
  <2> QED
    BY <2>1, <2>2, <2>3
<1>15. LeaseOutlasts'
  <2> SUFFICES ASSUME NEW v \in SendWorkers, NEW i \in OpenPlaces(v)'
               PROVE  LET d == held'[v][i].delivery IN
                      /\ status[d] = "pending" /\ attempts[d] = held'[v][i].attempts
                      /\ wait'[d] > budget'[v] + Turn(i)
    BY <1>3 DEF LeaseOutlasts, Turn
  <2>1. CASE v = w
    <3>1. i \in 1..n /\ wait'[rows[i]] = LeaseWindow
      BY <1>2, <1>4, <1>11, <2>1
    <3>2. LeaseWindow > RequestTimeout + Turn(i)
      BY <3>1, LeaseIsEnough
    <3> QED
      BY <1>4, <1>6, <1>7, <2>1, <3>1, <3>2
  <2>2. CASE v # w
    <3>1. i \in OpenPlaces(v) /\ held'[v] = held[v] /\ budget'[v] = budget[v]
      BY <1>6, <1>11, <2>2
    <3>2. wait'[held[v][i].delivery] = wait[held[v][i].delivery]
      BY <1>2, <1>13, <2>2, <3>1
    <3> QED
      BY <3>1, <3>2 DEF WorkerInv, LeaseOutlasts
  <2> QED
    BY <2>1, <2>2
<1>16. sending[w] = "idle"
  BY <1>3 DEF WorkerInv, IdleIsEmpty
<1>17. \A e \in Deliveries : Flights(e)' = Flights(e)
  BY <1>6, <1>16, FlightsAfter
<1>18. SendsCounted'
  BY <1>3, <1>17 DEF WorkerInv, SendsCounted
<1> QED
  BY <1>8, <1>10, <1>12, <1>14, <1>15, <1>18 DEF WorkerInv

LEMMA CrashKeeps ==
  ASSUME WorkerInv, NEW w \in SendWorkers, WorkerCrash(w)
  PROVE  WorkerInv'
<1>1. /\ held' = [held EXCEPT ![w] = <<>>] /\ sending' = [sending EXCEPT ![w] = "idle"]
      /\ budget' = [budget EXCEPT ![w] = 0] /\ workerMishaps' = workerMishaps + 1
      /\ UNCHANGED <<status, attempts, wait, sends, retired>>
  BY DEF WorkerCrash
<1>2. /\ held'[w] = <<>> /\ sending'[w] = "idle"
      /\ \A v \in SendWorkers \ {w} :
           held'[v] = held[v] /\ sending'[v] = sending[v] /\ budget'[v] = budget[v]
  BY <1>1 DEF WorkerInv, WorkerTypes
<1>3. <<>> \in Seq(Claims) /\ Len(<<>>) = 0
  OBVIOUS
<1>4. WorkerTypes'
  BY <1>1, <1>3 DEF WorkerInv, WorkerTypes
<1>5. OpenPlaces(w)' = {} /\ \A v \in SendWorkers \ {w} : OpenPlaces(v)' = OpenPlaces(v)
  BY <1>2, <1>3 DEF OpenPlaces
<1>6. BatchesDistinct'
  BY <1>2, <1>3 DEF WorkerInv, BatchesDistinct
<1>7. BatchesApart' /\ LeaseOutlasts' /\ IdleIsEmpty'
  BY <1>1, <1>2, <1>5 DEF WorkerInv, BatchesApart, LeaseOutlasts, IdleIsEmpty, Turn
<1>8. SendsCounted'
  <2> SUFFICES ASSUME NEW e \in Deliveries
               PROVE  /\ attempts[e] <= MaxSends
                      /\ status[e] \in {"absent", "pending"} =>
                           attempts[e] < MaxSends /\ sends[e] >= attempts[e] + Flights(e)'
                      /\ sends[e] <= attempts[e] + Flights(e)' + (workerMishaps + 1)
                      /\ status[e] = "failed" /\ e \notin retired => sends[e] >= MaxSends
    BY <1>1 DEF SendsCounted
  <2>1. Flights(e)' \in {0, 1} /\ Flights(e) \in {0, 1} /\ Flights(e)' <= Flights(e)
    BY <1>2, FlightsAfter DEF Flights
  <2>2. attempts[e] \in Nat /\ sends[e] \in Nat /\ workerMishaps \in Nat
    BY DEF WorkerInv, WorkerTypes
  <2>3. /\ attempts[e] <= MaxSends
        /\ status[e] \in {"absent", "pending"} =>
             attempts[e] < MaxSends /\ sends[e] >= attempts[e] + Flights(e)
        /\ sends[e] <= attempts[e] + Flights(e) + workerMishaps
        /\ status[e] = "failed" /\ e \notin retired => sends[e] >= MaxSends
    BY DEF WorkerInv, SendsCounted
  <2> QED
    BY <2>1, <2>2, <2>3
<1> QED
  BY <1>4, <1>6, <1>7, <1>8 DEF WorkerInv

\* A row that was not written stays as it is; the request made for it is one
\* more than the attempts the row counts.
LEMMA FailureKeeps ==
  ASSUME WorkerInv, NEW w \in SendWorkers, StatementFails(w)
  PROVE  WorkerInv'
<1>1. /\ workerMishaps' = workerMishaps + 1 /\ sending[w] # "idle"
      /\ UNCHANGED <<status, attempts, wait, sends, retired>>
  BY DEF StatementFails, WorkerInv, IdleIsEmpty
<1>2. ASSUME \A v \in SendWorkers \ {w} : held'[v] = held[v] /\ sending'[v] = sending[v],
             sending'[w] \notin {"accepted", "refused"}
      PROVE  SendsCounted'
  <2> SUFFICES ASSUME NEW e \in Deliveries
               PROVE  /\ attempts[e] <= MaxSends
                      /\ status[e] \in {"absent", "pending"} =>
                           attempts[e] < MaxSends /\ sends[e] >= attempts[e] + Flights(e)'
                      /\ sends[e] <= attempts[e] + Flights(e)' + (workerMishaps + 1)
                      /\ status[e] = "failed" /\ e \notin retired => sends[e] >= MaxSends
    BY <1>1 DEF SendsCounted
  <2>1. Flights(e)' \in {0, 1} /\ Flights(e) \in {0, 1} /\ Flights(e)' <= Flights(e)
    BY <1>2, FlightsAfter DEF Flights
  <2>2. attempts[e] \in Nat /\ sends[e] \in Nat /\ workerMishaps \in Nat
    BY DEF WorkerInv, WorkerTypes
  <2>3. /\ attempts[e] <= MaxSends
        /\ status[e] \in {"absent", "pending"} =>
             attempts[e] < MaxSends /\ sends[e] >= attempts[e] + Flights(e)
        /\ sends[e] <= attempts[e] + Flights(e) + workerMishaps
        /\ status[e] = "failed" /\ e \notin retired => sends[e] >= MaxSends
    BY DEF WorkerInv, SendsCounted
  <2> QED
    BY <2>1, <2>2, <2>3
<1>3. CASE GoOn(w)
  <2>1. WorkerTypes'
    BY <1>1, <1>3, GoingOn DEF WorkerInv, WorkerTypes
  <2>2. LeaseOutlasts'
    BY <1>1, <1>3, GoingOnKeepsLeases
  <2>3. SendsCounted'
    BY <1>1, <1>2, <1>3, GoingOn
  <2> QED
    BY <1>1, <1>3, <2>1, <2>2, <2>3, GoingOn, GoingOnKeepsBatches DEF WorkerInv
<1>4. CASE /\ sending[w] \in {"accepted", "refused"} /\ UNCHANGED <<held, budget>>
           /\ \/ sending' = [sending EXCEPT ![w] = "countFailure"]
              \/ sending' = [sending EXCEPT ![w] = "countSuccess"]
  <2>1. /\ sending'[w] \in {"countSuccess", "countFailure"}
        /\ \A v \in SendWorkers \ {w} : sending'[v] = sending[v]
    BY <1>4 DEF WorkerInv, WorkerTypes
  <2>2. WorkerTypes'
    <3>1. sending' \in [SendWorkers -> {"idle", "claimed", "accepted", "refused",
                                        "countSuccess", "countFailure"}]
      BY <1>4 DEF WorkerInv, WorkerTypes
    <3>2. workerMishaps' \in Nat
      BY <1>1 DEF WorkerInv, WorkerTypes
    <3> QED
      BY <1>1, <1>4, <3>1, <3>2 DEF WorkerInv, WorkerTypes
  <2>3. 1 \in OpenPlaces(w)
    BY <1>4, OpenFirst
  <2>4. IdleIsEmpty' /\ BatchesDistinct' /\ BatchesApart' /\ LeaseOutlasts'
    BY <1>1, <1>4, <2>1, <2>3, FirstRowOnly
  <2>5. SendsCounted'
    BY <1>2, <1>4, <2>1
  <2> QED
    BY <2>2, <2>4, <2>5 DEF WorkerInv
<1> QED
  BY <1>3, <1>4 DEF StatementFails

-----------------------------------------------------------------------------
(* The rows that arrive, and what the merchant does *)

LEMMA RowsKeep ==
  ASSUME WorkerInv, NEW d \in Deliveries, Arrives(d) \/ Replay(d)
  PROVE  WorkerInv'
<1>1. /\ status[d] # "pending" /\ status' = [status EXCEPT ![d] = "pending"]
      /\ UNCHANGED <<held, sending, budget, workerMishaps>>
      /\ \A e \in Deliveries \ {d} :
           /\ attempts'[e] = attempts[e] /\ wait'[e] = wait[e] /\ sends'[e] = sends[e]
           /\ e \in retired' <=> e \in retired
      /\ \/ attempts'[d] = attempts[d] /\ sends'[d] = sends[d] /\ status[d] = "absent"
         \/ attempts'[d] = 0 /\ sends'[d] = 0
  BY DEF Arrives, Replay, Replayable, ReplayAttempts, WorkerInv, WorkerTypes
<1>2. WorkerTypes'
  <2>1. CASE Arrives(d)
    BY <2>1 DEF Arrives, WorkerInv, WorkerTypes
  <2>2. CASE Replay(d)
    BY <2>2 DEF Replay, ReplayAttempts, WorkerInv, WorkerTypes
  <2> QED
    BY <2>1, <2>2
<1>3. \A e \in Deliveries \ {d} : status'[e] = status[e]
  BY <1>1 DEF WorkerInv, WorkerTypes
<1>4. \A v \in SendWorkers : OpenPlaces(v)' = OpenPlaces(v) /\ \A i \in OpenPlaces(v) :
        held[v][i].delivery \in Deliveries \ {d}
  BY <1>1, OpenIsClaim DEF OpenPlaces, WorkerInv, LeaseOutlasts
<1>5. LeaseOutlasts'
  BY <1>1, <1>3, <1>4 DEF WorkerInv, LeaseOutlasts, Turn
<1>6. IdleIsEmpty' /\ BatchesDistinct' /\ BatchesApart'
  BY <1>1, <1>4 DEF WorkerInv, IdleIsEmpty, BatchesDistinct, BatchesApart
<1>7. Flights(d) = 0 /\ \A e \in Deliveries : Flights(e)' = Flights(e)
  BY <1>1, <1>4, OpenFirst DEF Flights, InFlight
<1>8. attempts[d] \in Nat /\ sends[d] \in Nat /\ workerMishaps \in Nat /\ MaxSends \in Nat \ {0}
      /\ status'[d] = "pending"
  BY <1>1, WorkerAssumption DEF WorkerInv, WorkerTypes
<1>9. /\ attempts'[d] < MaxSends /\ attempts'[d] \in Nat /\ sends'[d] >= attempts'[d]
      /\ sends'[d] <= attempts'[d] + workerMishaps
  BY <1>1, <1>7, <1>8 DEF WorkerInv, SendsCounted
<1>10. SendsCounted'
  <2>1. ASSUME NEW e \in Deliveries \ {d}
        PROVE  /\ attempts'[e] <= MaxSends
               /\ status'[e] \in {"absent", "pending"} =>
                    attempts'[e] < MaxSends /\ sends'[e] >= attempts'[e] + Flights(e)'
               /\ sends'[e] <= attempts'[e] + Flights(e)' + workerMishaps'
               /\ status'[e] = "failed" /\ e \notin retired' => sends'[e] >= MaxSends
    BY <1>1, <1>3, <1>7 DEF WorkerInv, SendsCounted
  <2>2. /\ attempts'[d] <= MaxSends
        /\ sends'[d] >= attempts'[d] + 0 /\ sends'[d] <= attempts'[d] + 0 + workerMishaps
    BY <1>8, <1>9, <1>2 DEF WorkerTypes
  <2> QED
    BY <1>1, <1>7, <1>8, <1>9, <2>1, <2>2 DEF SendsCounted
<1> QED
  BY <1>2, <1>5, <1>6, <1>10 DEF WorkerInv

LEMMA WorkerStepKeeps == WorkerInv /\ [WorkerNext]_workerVars => WorkerInv'
<1> SUFFICES ASSUME WorkerInv, [WorkerNext]_workerVars PROVE WorkerInv'
  OBVIOUS
<1>1. ASSUME UNCHANGED <<status, attempts, wait, sends, retired, held, sending, budget, workerMishaps>>
      PROVE  WorkerInv'
  BY <1>1 DEF WorkerInv, WorkerTypes, IdleIsEmpty, BatchesDistinct, BatchesApart, LeaseOutlasts,
     SendsCounted, OpenPlaces, InFlight, Flights, Turn
<1>2. CASE UNCHANGED workerVars
  BY <1>1, <1>2 DEF workerVars
<1>3. CASE PatchWrites \/ \E h \in Hooks : PatchReads(h)
  BY <1>1, <1>3 DEF PatchWrites, PatchReads
<1> QED
  BY <1>2, <1>3, TickKeeps, ClaimKeeps, RetireKeeps, StartSendKeeps, DeliveredKeeps, CountKeeps,
     RefusedKeeps, FailureKeeps, CrashKeeps, RowsKeep DEF WorkerNext, WorkerStep

LEMMA WorkerInvImplies == WorkerInv => WorkerSafe
<1> SUFFICES ASSUME WorkerInv PROVE WorkerSafe
  OBVIOUS
<1>1. ASSUME NEW w \in SendWorkers, NEW c \in Open(w)
      PROVE  \E i \in OpenPlaces(w) : c = held[w][i]
  <2>1. held[w] \in Seq(Claims) /\ DOMAIN held[w] = 1..Len(held[w])
    BY DEF WorkerInv, WorkerTypes
  <2> QED
    BY <2>1 DEF Open, OpenPlaces
<1>2. ClaimIsExclusive
  <2> SUFFICES ASSUME NEW w \in SendWorkers, NEW c \in Open(w)
               PROVE  /\ status[c.delivery] = "pending" /\ attempts[c.delivery] = c.attempts
                      /\ wait[c.delivery] > 0
                      /\ \A v \in SendWorkers \ {w} : c \notin Open(v)
    BY DEF ClaimIsExclusive
  <2>1. PICK i \in OpenPlaces(w) : c = held[w][i]
    BY <1>1
  <2>2. i \in Nat \ {0} /\ c.delivery \in Deliveries
    BY <2>1, OpenIsClaim
  <2>3. budget[w] \in Nat /\ Turn(i) \in Nat /\ wait[c.delivery] \in Nat
    BY <2>2, TurnIsNat DEF WorkerInv, WorkerTypes
  <2>4. status[c.delivery] = "pending" /\ attempts[c.delivery] = c.attempts
        /\ wait[c.delivery] > budget[w] + Turn(i)
    BY <2>1 DEF WorkerInv, LeaseOutlasts
  <2>5. \A v \in SendWorkers \ {w} : c \notin Open(v)
    BY <1>1, <2>1 DEF WorkerInv, BatchesApart
  <2> QED
    BY <2>3, <2>4, <2>5
<1>3. FailedMeansExhausted
  <2> SUFFICES ASSUME NEW d \in Deliveries
               PROVE  /\ status[d] = "failed" /\ d \notin retired => sends[d] >= MaxSends
                      /\ sends[d] <= MaxSends + workerMishaps
    BY DEF FailedMeansExhausted
  <2>1. /\ attempts[d] <= MaxSends
        /\ sends[d] <= attempts[d] + Flights(d) + workerMishaps
        /\ status[d] = "pending" => attempts[d] < MaxSends
        /\ status[d] = "failed" /\ d \notin retired => sends[d] >= MaxSends
    BY DEF WorkerInv, SendsCounted
  <2>2. attempts[d] \in Nat /\ sends[d] \in Nat /\ workerMishaps \in Nat /\ MaxSends \in Nat
    BY WorkerAssumption DEF WorkerInv, WorkerTypes
  <2>3. InFlight(d) => status[d] = "pending"
    BY OpenFirst DEF InFlight, WorkerInv, LeaseOutlasts
  <2>4. Flights(d) = 0 \/ (Flights(d) = 1 /\ attempts[d] < MaxSends)
    BY <2>1, <2>3 DEF Flights
  <2> QED
    BY <2>1, <2>2, <2>4
<1> QED
  BY <1>2, <1>3 DEF WorkerSafe

\* However many workers claim, send, fail and die, and whatever the merchant
\* replays or edits: a claimed delivery is in one pair of hands until its outcome
\* is recorded, and it is tried as often as it is owed, once more per death or failed statement.
THEOREM ClaimsAreSafe == WorkerSpec => []WorkerSafe
  BY WorkerInitInv, WorkerStepKeeps, WorkerInvImplies, PTL DEF WorkerSpec

-----------------------------------------------------------------------------
(* The drainer of platform-api's outbox *)

BatchEntries == [effect : Effects, tries : Nat]

Enqueued == {e \in Effects : state[e] # "absent"}

DrainTypes ==
  /\ state \in [Effects -> {"absent", "pending", "in_flight", "completed", "dead"}]
  /\ tries \in [Effects -> Nat] /\ runs \in [Effects -> Nat] /\ age \in [Effects -> Nat]
  /\ claimed \in [Drainers -> Seq(BatchEntries)]
  /\ handling \in [Drainers -> {"idle", "claimed", "succeeded", "failed"}]
  /\ timeLeft \in [Drainers -> 0..HandlerTime]
  /\ late \subseteq Effects /\ drainMishaps \in Nat /\ IsFiniteSet(Enqueued)

\* What a drainer has in hand and its window has not ended for is in flight, as it
\* was when it was read, and too young to be reclaimed.
InHandOf(d) ==
  /\ handling[d] = "idle" <=> claimed[d] = <<>>
  /\ \A i, j \in DOMAIN claimed[d] : i # j => claimed[d][i].effect # claimed[d][j].effect
  /\ \A i \in DOMAIN claimed[d] : LET e == claimed[d][i].effect IN
       e \notin late => state[e] = "in_flight" /\ tries[e] = claimed[d][i].tries /\ age[e] < Visibility

\* A handler has run for the event and its outcome is not yet marked.
MarkOwedBy(d, e) == claimed[d] # <<>> /\ Running(d) = e /\ handling[d] \in {"succeeded", "failed"}
MarkOwed(e) == \E d \in Drainers : MarkOwedBy(d, e)

\* Attempts and runs of an event differ by the mark now owed, the success that is
\* not counted as an attempt, and the drainers that died between the two.
RunsCounted(e) ==
  /\ state[e] # "dead" => tries[e] < DrainAttempts
  /\ tries[e] <= DrainAttempts
  /\ state[e] = "dead" => e \in Unhandled \/ tries[e] = DrainAttempts
  /\ runs[e] <= tries[e] + drainMishaps + (IF MarkOwed(e) \/ state[e] = "completed" THEN 1 ELSE 0)
  /\ e \notin Unhandled => tries[e] + (IF MarkOwed(e) THEN 1 ELSE 0) <= runs[e]
  /\ MarkOwed(e) => e \notin Unhandled

DrainInv ==
  /\ DrainTypes /\ DrainersNeverRace
  /\ \A d \in Drainers : InHandOf(d)
  /\ \A e \in Effects \ late : RunsCounted(e)

\* A batch is some of the events, each once.
LEMMA LowestIdsAreIds ==
  ASSUME NEW S \in SUBSET Effects, IsFiniteSet(S), S # {}
  PROVE  /\ LowestIds(S) \in Seq(S) /\ Len(LowestIds(S)) \in 1..DrainBatch
         /\ \A i, j \in DOMAIN LowestIds(S) : i # j => LowestIds(S)[i] # LowestIds(S)[j]
<1> DEFINE upTo(e) == {f \in S : f <= e}
           rank(e) == Cardinality(upTo(e))
           n == IF Cardinality(S) < DrainBatch THEN Cardinality(S) ELSE DrainBatch
<1>1. Cardinality(S) \in Nat \ {0} /\ DrainBatch \in Nat \ {0} /\ S \subseteq Nat
  BY FS_CardinalityType, FS_EmptySet, DrainAssumption
<1>2. ASSUME NEW e \in S
      PROVE  rank(e) \in 1..Cardinality(S)
  <2>1. IsFiniteSet(upTo(e)) /\ Cardinality(upTo(e)) <= Cardinality(S)
    BY FS_Subset
  <2>2. e \in upTo(e)
    BY <1>1
  <2>3. Cardinality(upTo(e)) \in Nat /\ Cardinality(upTo(e)) # 0
    BY <2>1, <2>2, FS_CardinalityType, FS_EmptySet
  <2> QED BY <1>1, <2>1, <2>3
<1>3. ASSUME NEW e \in S, NEW f \in S, e < f
      PROVE  rank(e) # rank(f)
  <2>1. upTo(e) \subseteq upTo(f) /\ f \in upTo(f) /\ f \notin upTo(e)
    <3>1. e \in Nat /\ f \in Nat /\ \A x \in S : x \in Nat
      BY <1>1
    <3>2. \A x \in S : x <= e => x <= f
      BY <1>3, <3>1
    <3>3. f <= f /\ ~(f <= e)
      BY <1>3, <3>1
    <3> QED BY <3>2, <3>3
  <2>2. IsFiniteSet(upTo(f))
    BY FS_Subset
  <2> QED BY <2>1, <2>2, FS_Subset
<1> DEFINE place == [e \in S |-> rank(e)]
           T == 1..Cardinality(S)
<1>4. place \in Injection(S, T)
  <2>1. \A e, f \in S : rank(e) = rank(f) => e = f
    <3> SUFFICES ASSUME NEW e \in S, NEW f \in S, e # f PROVE rank(e) # rank(f)
      OBVIOUS
    <3>1. e < f \/ f < e
      BY <1>1
    <3> HIDE DEF rank
    <3> QED BY <1>3, <3>1
  <2> HIDE DEF rank
  <2> QED BY <1>2, <2>1 DEF Injection, IsInjective
<1>5. IsFiniteSet(T) /\ Cardinality(T) = Cardinality(S)
  BY <1>1, FS_Interval
<1>6. place \in Surjection(S, T)
  <2> HIDE DEF place, T
  <2> QED BY <1>4, <1>5, FS_Injection
<1>7. ASSUME NEW i \in T PROVE \E e \in S : rank(e) = i
  BY <1>6, <1>7 DEF Surjection
<1>8. LowestIds(S) = [i \in 1..n |-> CHOOSE e \in S : rank(e) = i]
  BY DEF LowestIds
<1>9. n \in Nat /\ n \in 1..DrainBatch /\ 1..n \subseteq T
  BY <1>1
<1> HIDE DEF rank, n, T
<1>10. \A i \in 1..n : LowestIds(S)[i] \in S /\ rank(LowestIds(S)[i]) = i
  BY <1>7, <1>8, <1>9
<1>11. LowestIds(S) \in Seq(S) /\ Len(LowestIds(S)) = n /\ DOMAIN LowestIds(S) = 1..n
  BY <1>8, <1>9, <1>10
<1> QED BY <1>9, <1>10, <1>11

LEMMA DrainInitInv == DrainInit => DrainInv
<1> SUFFICES ASSUME DrainInit PROVE DrainInv
  OBVIOUS
<1>1. DrainTypes
  <2>1. Enqueued = {}
    BY DEF DrainInit, Enqueued
  <2>2. IsFiniteSet(Enqueued)
    BY <2>1, FS_EmptySet
  <2> QED BY <2>2, DrainAssumption DEF DrainInit, DrainTypes
<1>2. DrainersNeverRace
  BY DEF DrainInit, DrainersNeverRace, EffectsHeld
<1>3. ASSUME NEW d \in Drainers PROVE InHandOf(d)
  BY DrainAssumption DEF DrainInit, InHandOf
<1>4. ASSUME NEW e \in Effects PROVE RunsCounted(e)
  BY DrainAssumption DEF DrainInit, RunsCounted, MarkOwed, MarkOwedBy
<1> QED BY <1>1, <1>2, <1>3, <1>4 DEF DrainInv

\* Nobody can claim what is in hand, as long as its window lasts.
LEMMA HeldIsYoung ==
  ASSUME DrainInv, NEW d \in Drainers, NEW i \in DOMAIN claimed[d]
  PROVE  /\ claimed[d][i] \in BatchEntries /\ claimed[d][i].effect \in Effects
         /\ Len(claimed[d]) \in Nat \ {0} /\ DOMAIN claimed[d] = 1..Len(claimed[d])
         /\ claimed[d][i].effect \notin late =>
              /\ state[claimed[d][i].effect] = "in_flight"
              /\ age[claimed[d][i].effect] < Visibility
              /\ claimed[d][i].effect \notin Claimable
<1>1. claimed[d] \in Seq(BatchEntries)
  BY DEF DrainInv, DrainTypes
<1>2. claimed[d][i] \in BatchEntries /\ Len(claimed[d]) \in Nat \ {0} /\ DOMAIN claimed[d] = 1..Len(claimed[d])
  BY <1>1
<1>3. claimed[d][i].effect \in Effects
  BY <1>2 DEF BatchEntries
<1>4. ASSUME claimed[d][i].effect \notin late
      PROVE  /\ state[claimed[d][i].effect] = "in_flight"
             /\ age[claimed[d][i].effect] < Visibility
             /\ claimed[d][i].effect \notin Claimable
  <2>1. /\ state[claimed[d][i].effect] = "in_flight"
        /\ age[claimed[d][i].effect] < Visibility
    BY <1>4 DEF DrainInv, InHandOf
  <2>2. age[claimed[d][i].effect] \in Nat
    BY <1>3 DEF DrainInv, DrainTypes
  <2>3. claimed[d][i].effect \notin Claimable
    BY <2>1, <2>2, DrainAssumption DEF Claimable, Waiting
  <2> QED BY <2>1, <2>3
<1> QED BY <1>2, <1>3, <1>4

LEMMA StillInHand ==
  ASSUME NEW d \in Drainers, InHandOf(d), late' = late,
         claimed'[d] = claimed[d], handling'[d] = "idle" <=> handling[d] = "idle",
         \A i \in DOMAIN claimed[d] : LET e == claimed[d][i].effect IN
           e \notin late => state'[e] = state[e] /\ tries'[e] = tries[e] /\ age'[e] = age[e]
  PROVE  InHandOf(d)'
BY DEF InHandOf

\* Two drainers hold different events, and one drainer's are different.
LEMMA HeldApart ==
  ASSUME DrainInv, NEW c \in Drainers, NEW d \in Drainers,
         NEW i \in DOMAIN claimed[c], NEW j \in DOMAIN claimed[d],
         claimed[c][i].effect = claimed[d][j].effect,
         claimed[c][i].effect \notin late \/ c = d
  PROVE  c = d /\ i = j
<1>1. c = d
  BY DEF DrainInv, DrainersNeverRace, EffectsHeld
<1> QED BY <1>1 DEF DrainInv, InHandOf

LEMMA FirstInHand ==
  ASSUME DrainInv, NEW d \in Drainers, claimed[d] # <<>>
  PROVE  /\ 1 \in DOMAIN claimed[d] /\ Running(d) = claimed[d][1].effect
         /\ Head(claimed[d]) = claimed[d][1] /\ Head(claimed[d]) \in BatchEntries
         /\ Running(d) \in Effects
         /\ Running(d) \notin late =>
              state[Running(d)] = "in_flight" /\ tries[Running(d)] = Head(claimed[d]).tries
<1>1. claimed[d] \in Seq(BatchEntries)
  BY DEF DrainInv, DrainTypes
<1>2. 1 \in DOMAIN claimed[d] /\ Head(claimed[d]) = claimed[d][1]
  BY <1>1
<1>3. /\ Running(d) = claimed[d][1].effect /\ Running(d) \in Effects
      /\ Head(claimed[d]) \in BatchEntries
  BY <1>2, HeldIsYoung DEF Running
<1> QED BY <1>2, <1>3 DEF DrainInv, InHandOf

\* A mark is owed only by the drainer that has the event first in hand.
LEMMA OwedIsFirst ==
  ASSUME DrainInv, NEW d \in Drainers, claimed[d] # <<>>, Running(d) \notin late
  PROVE  MarkOwed(Running(d)) <=> handling[d] \in {"succeeded", "failed"}
<1>1. ASSUME NEW c \in Drainers, MarkOwedBy(c, Running(d)) PROVE c = d
  <2>1. claimed[c] # <<>> /\ Running(c) = Running(d)
    BY <1>1 DEF MarkOwedBy
  <2>2. /\ 1 \in DOMAIN claimed[c] /\ 1 \in DOMAIN claimed[d]
        /\ claimed[c][1].effect = claimed[d][1].effect /\ claimed[c][1].effect = Running(d)
    BY <2>1, FirstInHand
  <2>3. claimed[c][1].effect \notin late
    BY <2>2
  <2> QED BY <2>2, <2>3, HeldApart
<1> QED BY <1>1 DEF MarkOwed, MarkOwedBy

\* Events of which nothing changes but the drainers that died stay accounted for.
LEMMA StillCounted ==
  ASSUME DrainInv, DrainTypes', NEW e \in Effects \ late,
         state'[e] = "dead" <=> state[e] = "dead",
         state'[e] = "completed" <=> state[e] = "completed",
         tries'[e] = tries[e], runs'[e] = runs[e], drainMishaps' >= drainMishaps,
         \/ MarkOwed(e)' <=> MarkOwed(e)
         \/ ~MarkOwed(e)' /\ drainMishaps' >= drainMishaps + 1
  PROVE  RunsCounted(e)'
<1> DEFINE owed == MarkOwed(e)
           owes == MarkOwed(e)'
           fit(o, crashes, s) == runs[e] <= tries[e] + crashes + (IF o \/ s = "completed" THEN 1 ELSE 0)
<1>1. RunsCounted(e)
  BY DEF DrainInv
<1>2. /\ tries[e] \in Nat /\ runs[e] \in Nat /\ drainMishaps \in Nat /\ drainMishaps' \in Nat
  BY DEF DrainInv, DrainTypes
<1>3. /\ state'[e] # "dead" => tries'[e] < DrainAttempts
      /\ tries'[e] <= DrainAttempts
      /\ state'[e] = "dead" => e \in Unhandled \/ tries'[e] = DrainAttempts
  BY <1>1 DEF RunsCounted
<1>4. runs[e] <= tries[e] + drainMishaps + (IF owed \/ state[e] = "completed" THEN 1 ELSE 0)
  BY <1>1 DEF RunsCounted
<1>5. e \notin Unhandled => tries[e] + (IF owed THEN 1 ELSE 0) <= runs[e]
  BY <1>1 DEF RunsCounted
<1>6. owed => e \notin Unhandled
  BY <1>1 DEF RunsCounted
<1> HIDE DEF owed, owes
<1>7. (owes <=> owed) \/ (~owes /\ drainMishaps' >= drainMishaps + 1)
  BY DEF owed, owes
<1>8. runs'[e] <= tries'[e] + drainMishaps' + (IF owes \/ state'[e] = "completed" THEN 1 ELSE 0)
  <2>1. CASE owes <=> owed
    BY <1>2, <1>4, <2>1
  <2>2. CASE ~owes /\ drainMishaps' >= drainMishaps + 1
    BY <1>2, <1>4, <2>2
  <2> QED BY <1>7, <2>1, <2>2
<1>9. e \notin Unhandled => tries'[e] + (IF owes THEN 1 ELSE 0) <= runs'[e]
  BY <1>2, <1>5, <1>7
<1>10. owes => e \notin Unhandled
  BY <1>6, <1>7
<1> QED BY <1>3, <1>8, <1>9, <1>10 DEF RunsCounted, owes

\* A drainer marks the event in hand and goes on to the next one.
LEMMA MarkedKeeps ==
  ASSUME DrainInv, NEW d \in Drainers, claimed[d] # <<>>, NextEvent(d),
         NEW e \in Effects, e = Running(d),
         NEW mark \in {"completed", "pending", "dead", state[e]}, NEW count \in Nat,
         state' = [state EXCEPT ![e] = mark], tries' = [tries EXCEPT ![e] = count],
         UNCHANGED <<age, runs, late>>, drainMishaps' \in Nat, drainMishaps' >= drainMishaps
  PROVE  /\ DrainTypes' /\ DrainersNeverRace' /\ \A c \in Drainers : InHandOf(c)'
         /\ e \notin late => ~MarkOwed(e)'
         /\ \A f \in Effects \ late : f # e => RunsCounted(f)'
<1> DEFINE rest == Tail(claimed[d])
<1>1. e \in Effects /\ e = claimed[d][1].effect /\ 1 \in DOMAIN claimed[d]
  BY FirstInHand
<1>2. /\ claimed[d] \in Seq(BatchEntries) /\ Len(claimed[d]) \in Nat \ {0}
      /\ DOMAIN claimed[d] = 1..Len(claimed[d])
  BY <1>1, HeldIsYoung DEF DrainInv, DrainTypes
<1>3. /\ rest \in Seq(BatchEntries) /\ Len(rest) = Len(claimed[d]) - 1 /\ Len(rest) \in Nat
      /\ DOMAIN rest = 1..Len(rest)
      /\ \A i \in DOMAIN rest : i + 1 \in DOMAIN claimed[d] /\ i + 1 # 1 /\ rest[i] = claimed[d][i + 1]
  BY <1>2
<1> HIDE DEF rest
<1>4. (rest = <<>>) <=> (Len(claimed[d]) = 1)
  <2>1. (rest = <<>>) <=> (Len(rest) = 0)
    BY <1>3, EmptyByLength
  <2> QED BY <1>2, <1>3, <2>1
<1>5. /\ claimed'[d] = rest /\ handling'[d] = (IF rest = <<>> THEN "idle" ELSE "claimed")
      /\ timeLeft'[d] = (IF rest = <<>> THEN 0 ELSE HandlerTime)
      /\ \A c \in Drainers \ {d} : /\ claimed'[c] = claimed[c] /\ handling'[c] = handling[c]
                                   /\ timeLeft'[c] = timeLeft[c]
  BY <1>4 DEF NextEvent, DrainInv, DrainTypes, rest
<1>6. /\ state'[e] = mark /\ tries'[e] = count
      /\ \A f \in Effects : f # e => state'[f] = state[f] /\ tries'[f] = tries[f]
  BY <1>1 DEF DrainInv, DrainTypes
<1>7. DrainTypes'
  <2>1. IsFiniteSet(Enqueued')
    <3>1. Enqueued' \subseteq Enqueued \union {e}
      BY <1>6 DEF Enqueued
    <3>2. IsFiniteSet(Enqueued \union {e})
      BY FS_AddElement DEF DrainInv, DrainTypes
    <3> QED BY <3>1, <3>2, FS_Subset
  <2>2. /\ state' \in [Effects -> {"absent", "pending", "in_flight", "completed", "dead"}]
        /\ tries' \in [Effects -> Nat]
    BY <1>1 DEF DrainInv, DrainTypes
  <2>3. claimed' \in [Drainers -> Seq(BatchEntries)]
    BY <1>3 DEF NextEvent, DrainInv, DrainTypes, rest
  <2>4. /\ handling' \in [Drainers -> {"idle", "claimed", "succeeded", "failed"}]
        /\ timeLeft' \in [Drainers -> 0..HandlerTime]
    BY DrainAssumption DEF NextEvent, DrainInv, DrainTypes
  <2> QED BY <2>1, <2>2, <2>3, <2>4 DEF DrainInv, DrainTypes
<1>8. ASSUME NEW c \in Drainers \ {d}, NEW i \in DOMAIN claimed[c]
      PROVE  /\ claimed[c][i].effect \in Effects
             /\ claimed[c][i].effect \notin late => claimed[c][i].effect # e
  BY <1>1, HeldIsYoung, HeldApart
<1>9. ASSUME NEW i \in DOMAIN rest
      PROVE  rest[i].effect \in Effects /\ rest[i].effect # e
  <2>1. i + 1 \in DOMAIN claimed[d] /\ i + 1 # 1 /\ rest[i] = claimed[d][i + 1]
    BY <1>3
  <2> QED BY <1>1, <2>1, HeldIsYoung, HeldApart
<1>10. DrainersNeverRace'
  <2> SUFFICES ASSUME NEW b \in Drainers, NEW c \in Drainers, b # c,
                      NEW i \in DOMAIN claimed'[b], NEW j \in DOMAIN claimed'[c],
                      claimed'[b][i].effect = claimed'[c][j].effect,
                      claimed'[b][i].effect \notin late
               PROVE  FALSE
    BY DEF DrainersNeverRace, EffectsHeld
  <2>1. ASSUME NEW a \in Drainers, NEW k \in DOMAIN claimed'[a]
        PROVE  \E m \in DOMAIN claimed[a] : claimed[a][m] = claimed'[a][k]
    <3>1. CASE a = d
      BY <1>3, <1>5, <2>1, <3>1
    <3>2. CASE a # d
      BY <1>5, <2>1, <3>2
    <3> QED BY <3>1, <3>2
  <2>2. PICK m \in DOMAIN claimed[b] : claimed[b][m] = claimed'[b][i]
    BY <2>1
  <2>3. PICK n \in DOMAIN claimed[c] : claimed[c][n] = claimed'[c][j]
    BY <2>1
  <2> QED BY <2>2, <2>3, HeldApart
<1>11. InHandOf(d)'
  <2>2. \A i, j \in DOMAIN rest : i # j => rest[i].effect # rest[j].effect
    <3> SUFFICES ASSUME NEW i \in DOMAIN rest, NEW j \in DOMAIN rest, i # j,
                        rest[i].effect = rest[j].effect
                 PROVE  FALSE
      OBVIOUS
    <3>1. /\ i + 1 \in DOMAIN claimed[d] /\ rest[i] = claimed[d][i + 1]
          /\ j + 1 \in DOMAIN claimed[d] /\ rest[j] = claimed[d][j + 1]
      BY <1>3
    <3>2. i + 1 = j + 1
      BY <3>1, HeldApart
    <3>3. i \in Nat /\ j \in Nat
      BY <1>3
    <3> QED BY <3>2, <3>3
  <2>3. ASSUME NEW i \in DOMAIN rest, rest[i].effect \notin late
        PROVE  LET f == rest[i].effect IN
               state'[f] = "in_flight" /\ tries'[f] = rest[i].tries /\ age'[f] < Visibility
    <3>1. i + 1 \in DOMAIN claimed[d] /\ rest[i] = claimed[d][i + 1]
      BY <1>3
    <3>2. LET f == rest[i].effect IN
          state[f] = "in_flight" /\ tries[f] = rest[i].tries /\ age[f] < Visibility
      BY <2>3, <3>1 DEF DrainInv, InHandOf
    <3> QED BY <1>6, <1>9, <3>2
  <2> QED BY <1>5, <2>2, <2>3 DEF InHandOf
<1>12. ASSUME NEW c \in Drainers \ {d} PROVE InHandOf(c)'
  BY <1>5, <1>6, <1>8, StillInHand DEF DrainInv
<1>13. \A c \in Drainers, f \in Effects : MarkOwedBy(c, f)' => c # d /\ MarkOwedBy(c, f)
  BY <1>5 DEF MarkOwedBy, Running
<1>14. ASSUME NEW f \in Effects, f # e PROVE MarkOwed(f)' <=> MarkOwed(f)
  <2>1. ASSUME NEW c \in Drainers, MarkOwedBy(c, f) PROVE MarkOwedBy(c, f)'
    <3>1. c # d
      BY <1>14, <2>1 DEF MarkOwedBy
    <3> QED BY <1>5, <2>1, <3>1 DEF MarkOwedBy, Running
  <2> QED BY <1>13, <2>1 DEF MarkOwed
<1>15. ASSUME e \notin late PROVE ~MarkOwed(e)'
  <2>1. ASSUME NEW c \in Drainers \ {d} PROVE ~MarkOwedBy(c, e)
    BY <1>8, <1>15, FirstInHand DEF MarkOwedBy
  <2> QED BY <1>1, <1>13, <2>1 DEF MarkOwed
<1>16. ASSUME NEW f \in Effects \ late, f # e PROVE RunsCounted(f)'
  <2>2. MarkOwed(f)' <=> MarkOwed(f)
    BY <1>14, <1>16
  <2> QED BY <1>6, <1>7, <1>16, <2>2, StillCounted
<1> QED BY <1>7, <1>10, <1>11, <1>12, <1>15, <1>16

LEMMA MarkCompletedKeeps ==
  ASSUME DrainInv, NEW d \in Drainers, MarkCompleted(d)
  PROVE  DrainInv'
<1>1. claimed[d] # <<>> /\ handling[d] = "succeeded"
  BY DEF MarkCompleted, DrainInv, InHandOf
<1>2. PICK e \in Effects : e = Running(d) /\ (e \notin late => state[e] = "in_flight")
  BY <1>1, FirstInHand
<1>3. /\ state' = [state EXCEPT ![e] = "completed"] /\ UNCHANGED <<age, runs, late, drainMishaps>>
      /\ tries' = tries /\ NextEvent(d) /\ tries[e] \in Nat
      /\ drainMishaps' \in Nat /\ drainMishaps' >= drainMishaps
  BY <1>2 DEF MarkCompleted, DrainInv, DrainTypes
<1>4. tries' = [tries EXCEPT ![e] = tries[e]]
  BY <1>3 DEF DrainInv, DrainTypes
<1>5. /\ DrainTypes' /\ DrainersNeverRace' /\ \A c \in Drainers : InHandOf(c)'
      /\ e \notin late => ~MarkOwed(e)'
      /\ \A f \in Effects \ late : f # e => RunsCounted(f)'
  BY <1>1, <1>2, <1>3, <1>4, MarkedKeeps
<1>6. ASSUME e \notin late PROVE RunsCounted(e)'
  <2>1. RunsCounted(e) /\ MarkOwed(e) /\ state'[e] = "completed"
    BY <1>1, <1>2, <1>3, <1>6, OwedIsFirst DEF DrainInv, DrainTypes
  <2>2. tries[e] < DrainAttempts /\ tries[e] <= DrainAttempts
    BY <1>2, <1>6, <2>1 DEF RunsCounted
  <2>3. runs[e] <= tries[e] + drainMishaps + 1 /\ tries[e] + 1 <= runs[e]
    BY <2>1 DEF RunsCounted
  <2>4. tries[e] <= runs[e]
    BY <1>3, <2>3 DEF DrainInv, DrainTypes
  <2> QED BY <1>3, <1>5, <1>6, <2>1, <2>2, <2>3, <2>4 DEF RunsCounted
<1> QED BY <1>3, <1>5, <1>6 DEF DrainInv

\* A failed run, or one there is no handler for, counts as an attempt.
LEMMA FailedKeeps ==
  ASSUME DrainInv, NEW d \in Drainers, MarkRetry(d) \/ MarkDead(d)
  PROVE  DrainInv'
<1>1. claimed[d] # <<>>
  BY DEF MarkRetry, MarkDead, DrainInv, InHandOf
<1>2. PICK e \in Effects : e = Running(d) /\ TriesNow(d) \in Nat /\
        (e \notin late => state[e] = "in_flight" /\ TriesNow(d) = tries[e] + 1)
  BY <1>1, FirstInHand DEF TriesNow, BatchEntries
<1>3. PICK mark \in {"pending", "dead"} :
        /\ state' = [state EXCEPT ![e] = mark]
        /\ mark = "pending" => handling[d] = "failed" /\ ~Spent(TriesNow(d))
        /\ mark = "dead" => \/ handling[d] = "failed" /\ Spent(TriesNow(d))
                            \/ handling[d] = "claimed" /\ e \in Unhandled
  BY <1>2 DEF MarkRetry, MarkDead
<1>4. /\ tries' = [tries EXCEPT ![e] = TriesNow(d)] /\ NextEvent(d)
      /\ UNCHANGED <<age, runs, late, drainMishaps>>
  BY <1>2 DEF MarkRetry, MarkDead
<1>5. /\ DrainTypes' /\ DrainersNeverRace' /\ \A c \in Drainers : InHandOf(c)'
      /\ e \notin late => ~MarkOwed(e)'
      /\ \A f \in Effects \ late : f # e => RunsCounted(f)'
  <2>1. PICK count \in Nat : count = TriesNow(d)
    BY <1>2
  <2>2. tries' = [tries EXCEPT ![e] = count] /\ mark \in {"completed", "pending", "dead", state[e]}
    BY <1>4, <2>1
  <2>3. drainMishaps' \in Nat /\ drainMishaps' >= drainMishaps
    BY <1>4 DEF DrainInv, DrainTypes
  <2> QED BY <1>1, <1>2, <1>3, <1>4, <2>2, <2>3, MarkedKeeps
<1>6. ASSUME e \notin late PROVE RunsCounted(e)'
  <2>1. tries[e] \in Nat /\ runs[e] \in Nat /\ drainMishaps \in Nat /\ DrainAttempts \in Nat
    BY DrainAssumption DEF DrainInv, DrainTypes
  <2>2. MarkOwed(e) <=> handling[d] \in {"succeeded", "failed"}
    BY <1>1, <1>2, <1>6, OwedIsFirst
  <2>3. /\ RunsCounted(e) /\ state'[e] = mark /\ tries'[e] = tries[e] + 1 /\ runs'[e] = runs[e]
        /\ drainMishaps' = drainMishaps /\ ~MarkOwed(e)'
    BY <1>2, <1>3, <1>4, <1>5, <1>6 DEF DrainInv, DrainTypes
  <2>4. tries[e] < DrainAttempts /\ tries[e] + 1 <= DrainAttempts
    BY <1>2, <1>6, <2>1, <2>3 DEF RunsCounted
  <2>5. /\ mark = "pending" => tries[e] + 1 < DrainAttempts
        /\ mark = "dead" => e \in Unhandled \/ tries[e] + 1 = DrainAttempts
    BY <1>2, <1>3, <1>6, <2>1, <2>4 DEF Spent
  <2>6. runs[e] <= tries[e] + 1 + drainMishaps
    BY <1>2, <1>6, <2>1, <2>3 DEF RunsCounted
  <2>7. e \notin Unhandled => tries[e] + 1 <= runs[e]
    BY <1>3, <2>2, <2>3 DEF RunsCounted
  <2> QED BY <2>1, <2>3, <2>4, <2>5, <2>6, <2>7 DEF RunsCounted
<1> QED BY <1>4, <1>5, <1>6 DEF DrainInv

\* A mark that failed leaves the row as it is, and its run uncounted.
LEMMA MarkFailsKeeps ==
  ASSUME DrainInv, NEW d \in Drainers, MarkFails(d)
  PROVE  DrainInv'
<1>1. claimed[d] # <<>>
  BY DEF MarkFails, DrainInv, InHandOf
<1>2. PICK e \in Effects : e = Running(d)
  BY <1>1, FirstInHand
<1>3. /\ UNCHANGED <<state, tries, age, runs, late>> /\ drainMishaps' = drainMishaps + 1 /\ NextEvent(d)
      /\ drainMishaps' \in Nat /\ drainMishaps' >= drainMishaps /\ drainMishaps' >= drainMishaps + 1
  BY DEF MarkFails, effectState, DrainInv, DrainTypes
<1>4. /\ DrainTypes' /\ DrainersNeverRace' /\ \A c \in Drainers : InHandOf(c)'
      /\ e \notin late => ~MarkOwed(e)'
      /\ \A f \in Effects \ late : f # e => RunsCounted(f)'
  <2>1. PICK count \in Nat : count = tries[e]
    BY DEF DrainInv, DrainTypes
  <2>2. PICK mark \in {"completed", "pending", "dead", state[e]} : mark = state[e]
    OBVIOUS
  <2>3. state' = [state EXCEPT ![e] = mark] /\ tries' = [tries EXCEPT ![e] = count]
    BY <1>3, <2>1, <2>2 DEF DrainInv, DrainTypes
  <2> QED BY <1>1, <1>2, <1>3, <2>3, MarkedKeeps
<1>5. ASSUME e \notin late PROVE RunsCounted(e)'
  BY <1>3, <1>4, <1>5, StillCounted
<1> QED BY <1>3, <1>4, <1>5 DEF DrainInv

LEMMA HandlerRunsKeeps ==
  ASSUME DrainInv, NEW d \in Drainers, HandlerRuns(d)
  PROVE  DrainInv'
<1>1. claimed[d] # <<>> /\ handling[d] = "claimed"
  BY DEF HandlerRuns, DrainInv, InHandOf
<1>2. PICK e \in Effects : e = Running(d) /\ (e \notin late => state[e] = "in_flight")
  BY <1>1, FirstInHand
<1>3. /\ e \notin Unhandled /\ runs' = [runs EXCEPT ![e] = @ + 1]
      /\ UNCHANGED <<state, tries, due, age, late, claimed, timeLeft, drainMishaps>>
      /\ \E result \in {"succeeded", "failed"} : handling' = [handling EXCEPT ![d] = result]
  BY <1>2 DEF HandlerRuns
<1>4. /\ handling'[d] \in {"succeeded", "failed"}
      /\ \A c \in Drainers \ {d} : handling'[c] = handling[c]
  BY <1>3 DEF DrainInv, DrainTypes
<1>5. DrainTypes'
  BY <1>3 DEF DrainInv, DrainTypes, Enqueued
<1>6. DrainersNeverRace'
  BY <1>3 DEF DrainInv, DrainersNeverRace, EffectsHeld
<1>7. ASSUME NEW c \in Drainers PROVE InHandOf(c)'
  <2>1. handling'[c] = "idle" <=> handling[c] = "idle"
    BY <1>1, <1>4
  <2> QED BY <1>3, <2>1, StillInHand DEF DrainInv
<1>8. \A c \in Drainers : Running(c)' = Running(c)
  BY <1>3 DEF Running
<1>9. ASSUME NEW f \in Effects \ late, f # e PROVE RunsCounted(f)'
  <2>1. MarkOwed(f)' <=> MarkOwed(f)
    <3>1. ASSUME NEW c \in Drainers PROVE MarkOwedBy(c, f)' <=> MarkOwedBy(c, f)
      BY <1>2, <1>3, <1>4, <1>8, <1>9 DEF MarkOwedBy
    <3> QED BY <3>1 DEF MarkOwed
  <2>2. runs'[f] = runs[f] /\ drainMishaps' >= drainMishaps
    BY <1>3, <1>9 DEF DrainInv, DrainTypes
  <2> QED BY <1>3, <1>5, <2>1, <2>2, StillCounted
<1>10. MarkOwed(e)'
  BY <1>1, <1>2, <1>3, <1>4, <1>8 DEF MarkOwed, MarkOwedBy
<1>11. ASSUME e \notin late PROVE RunsCounted(e)'
  <2>1. ~MarkOwed(e)
    BY <1>1, <1>2, <1>11, OwedIsFirst
  <2>2. /\ RunsCounted(e) /\ runs'[e] = runs[e] + 1 /\ tries[e] \in Nat /\ runs[e] \in Nat
        /\ drainMishaps \in Nat
    BY <1>3, <1>11 DEF DrainInv, DrainTypes
  <2>3. tries[e] <= runs[e] /\ runs[e] <= tries[e] + drainMishaps
    BY <1>2, <1>3, <1>11, <2>1, <2>2 DEF RunsCounted
  <2>4. tries[e] < DrainAttempts /\ tries[e] <= DrainAttempts
    BY <1>2, <1>11, <2>2 DEF RunsCounted
  <2>5. runs'[e] <= tries'[e] + drainMishaps' + 1 /\ tries'[e] + 1 <= runs'[e]
    BY <1>3, <2>2, <2>3
  <2> QED BY <1>2, <1>3, <1>10, <1>11, <2>4, <2>5 DEF RunsCounted
<1> QED BY <1>3, <1>5, <1>6, <1>7, <1>9, <1>11 DEF DrainInv

LEMMA DrainerCrashKeeps ==
  ASSUME DrainInv, NEW d \in Drainers, DrainerCrash(d)
  PROVE  DrainInv'
<1>1. /\ claimed'[d] = <<>> /\ handling'[d] = "idle" /\ timeLeft'[d] = 0
      /\ \A c \in Drainers \ {d} : /\ claimed'[c] = claimed[c] /\ handling'[c] = handling[c]
                                   /\ timeLeft'[c] = timeLeft[c]
      /\ UNCHANGED <<state, tries, due, age, runs, late>> /\ drainMishaps' = drainMishaps + 1
  BY DEF DrainerCrash, effectState, DrainInv, DrainTypes
<1>2. DrainTypes'
  <2>1. claimed' \in [Drainers -> Seq(BatchEntries)] /\ timeLeft' \in [Drainers -> 0..HandlerTime]
    BY DrainAssumption DEF DrainerCrash, DrainInv, DrainTypes
  <2> QED BY <1>1, <2>1 DEF DrainerCrash, DrainInv, DrainTypes, Enqueued
<1>3. DrainersNeverRace'
  <2>1. \A c \in Drainers : EffectsHeld(c)' \subseteq EffectsHeld(c)
    BY <1>1 DEF EffectsHeld
  <2> QED BY <1>1, <2>1 DEF DrainInv, DrainersNeverRace
<1>4. InHandOf(d)'
  BY <1>1 DEF InHandOf
<1>5. ASSUME NEW c \in Drainers \ {d} PROVE InHandOf(c)'
  BY <1>1, StillInHand DEF DrainInv
<1>6. ASSUME NEW e \in Effects \ late PROVE RunsCounted(e)'
  <2>1. \A c \in Drainers : MarkOwedBy(c, e)' => MarkOwedBy(c, e)
    BY <1>1 DEF MarkOwedBy, Running
  <2>2. MarkOwed(e)' => MarkOwed(e)
    BY <2>1 DEF MarkOwed
  <2>3. drainMishaps' >= drainMishaps /\ drainMishaps' >= drainMishaps + 1
    BY <1>1 DEF DrainInv, DrainTypes
  <2>4. (MarkOwed(e)' <=> MarkOwed(e)) \/ (~MarkOwed(e)' /\ drainMishaps' >= drainMishaps + 1)
    BY <2>2, <2>3
  <2> QED BY <1>1, <1>2, <2>3, <2>4, StillCounted
<1> QED BY <1>1, <1>2, <1>3, <1>4, <1>5, <1>6 DEF DrainInv

LEMMA DrainEnqueueKeeps ==
  ASSUME DrainInv, NEW e \in Effects, Enqueue(e)
  PROVE  DrainInv'
<1>1. /\ state[e] = "absent" /\ state' = [state EXCEPT ![e] = "pending"]
      /\ UNCHANGED <<tries, age, runs, late, claimed, handling, timeLeft, drainMishaps>>
  BY DEF Enqueue, drainerState
<1>2. /\ state'[e] = "pending" /\ \A f \in Effects \ {e} : state'[f] = state[f]
  BY <1>1 DEF DrainInv, DrainTypes
<1>3. DrainTypes'
  <2>1. Enqueued' = Enqueued \union {e}
    BY <1>2 DEF Enqueued
  <2>2. IsFiniteSet(Enqueued)'
    BY <2>1, FS_AddElement DEF DrainInv, DrainTypes
  <2> QED BY <1>1, <2>2 DEF DrainInv, DrainTypes
<1>4. DrainersNeverRace'
  BY <1>1 DEF DrainInv, DrainersNeverRace, EffectsHeld
<1>5. ASSUME NEW d \in Drainers PROVE InHandOf(d)'
  <2>1. \A i \in DOMAIN claimed[d] : claimed[d][i].effect \notin late =>
          state'[claimed[d][i].effect] = state[claimed[d][i].effect]
    BY <1>1, <1>2, HeldIsYoung
  <2> QED BY <1>1, <2>1, StillInHand DEF DrainInv
<1>6. ASSUME NEW f \in Effects \ late PROVE RunsCounted(f)'
  <2>1. (state'[f] = "dead" <=> state[f] = "dead") /\ (state'[f] = "completed" <=> state[f] = "completed")
    BY <1>1, <1>2
  <2>2. MarkOwed(f)' <=> MarkOwed(f)
    BY <1>1 DEF MarkOwed, MarkOwedBy, Running
  <2>3. drainMishaps' >= drainMishaps
    BY <1>1 DEF DrainInv, DrainTypes
  <2> QED BY <1>1, <1>3, <2>1, <2>2, <2>3, StillCounted
<1> QED BY <1>1, <1>3, <1>4, <1>5, <1>6 DEF DrainInv

\* A batch is claimed of rows nobody has in hand.
LEMMA DrainClaimKeeps ==
  ASSUME DrainInv, NEW d \in Drainers, Claim(d)
  PROVE  DrainInv'
<1> DEFINE rows == LowestIds(Claimable)
           batch == [i \in DOMAIN rows |-> [effect |-> rows[i], tries |-> tries[rows[i]]]]
<1>1. /\ claimed[d] = <<>> /\ claimed' = [claimed EXCEPT ![d] = batch]
      /\ state' = [e \in Effects |-> IF \E i \in DOMAIN rows : rows[i] = e THEN "in_flight" ELSE state[e]]
      /\ age' = [e \in Effects |-> IF \E i \in DOMAIN rows : rows[i] = e THEN 0 ELSE age[e]]
      /\ handling' = [handling EXCEPT ![d] = "claimed"]
      /\ timeLeft' = [timeLeft EXCEPT ![d] = HandlerTime]
      /\ UNCHANGED <<tries, due, runs, late, drainMishaps>> /\ Claimable # {}
  BY DEF Claim
<1>2. /\ rows \in Seq(Claimable) /\ Len(rows) \in 1..DrainBatch
      /\ \A i, j \in DOMAIN rows : i # j => rows[i] # rows[j]
  <2>1. Claimable \subseteq Enqueued /\ Claimable \subseteq Effects
    BY DEF Claimable, Waiting, Enqueued
  <2>2. IsFiniteSet(Claimable)
    BY <2>1, FS_Subset DEF DrainInv, DrainTypes
  <2> QED BY <1>1, <2>1, <2>2, LowestIdsAreIds
<1> HIDE DEF rows
<1>3. /\ DOMAIN rows = 1..Len(rows) /\ Len(rows) \in Nat \ {0} /\ Len(rows) <= DrainBatch
      /\ \A i \in DOMAIN rows : rows[i] \in Claimable /\ rows[i] \in Effects
  <2>1. Len(rows) \in Nat \ {0} /\ Len(rows) <= DrainBatch
    BY <1>2, DrainAssumption
  <2>2. DOMAIN rows = 1..Len(rows) /\ \A i \in DOMAIN rows : rows[i] \in Claimable
    BY <1>2
  <2>3. Claimable \subseteq Effects
    BY DEF Claimable, Waiting
  <2> QED BY <2>1, <2>2, <2>3
<1>4. \A i \in DOMAIN rows : state[rows[i]] \in {"pending", "in_flight"}
  BY <1>3 DEF Claimable, Waiting
<1>5. /\ batch \in Seq(BatchEntries) /\ Len(batch) = Len(rows) /\ DOMAIN batch = DOMAIN rows
      /\ \A i \in DOMAIN rows : batch[i].effect = rows[i] /\ batch[i].tries = tries[rows[i]]
  <2>1. \A i \in DOMAIN rows : [effect |-> rows[i], tries |-> tries[rows[i]]] \in BatchEntries
    BY <1>3 DEF BatchEntries, DrainInv, DrainTypes
  <2> QED BY <1>3, <2>1
<1> HIDE DEF batch
<1>6. /\ claimed'[d] = batch /\ handling'[d] = "claimed" /\ timeLeft'[d] = HandlerTime
      /\ \A c \in Drainers \ {d} : /\ claimed'[c] = claimed[c] /\ handling'[c] = handling[c]
                                   /\ timeLeft'[c] = timeLeft[c]
  BY <1>1 DEF DrainInv, DrainTypes
<1>7. ASSUME NEW c \in Drainers, NEW i \in DOMAIN claimed[c]
      PROVE  /\ claimed[c][i].effect \in Effects
             /\ claimed[c][i].effect \notin late =>
                  \A j \in DOMAIN rows : rows[j] # claimed[c][i].effect
  BY <1>3, HeldIsYoung
<1>8. handling[d] = "idle"
  BY <1>1 DEF DrainInv, InHandOf
<1>9. \A e \in Effects : /\ state'[e] = "dead" <=> state[e] = "dead"
                         /\ state'[e] = "completed" <=> state[e] = "completed"
                         /\ state'[e] = "absent" <=> state[e] = "absent"
  BY <1>1, <1>4
<1>10. DrainTypes'
  <2>1. Enqueued' = Enqueued
    BY <1>9 DEF Enqueued
  <2>2. /\ state' \in [Effects -> {"absent", "pending", "in_flight", "completed", "dead"}]
        /\ age' \in [Effects -> Nat]
    BY <1>1 DEF DrainInv, DrainTypes
  <2>3. /\ claimed' \in [Drainers -> Seq(BatchEntries)] /\ timeLeft' \in [Drainers -> 0..HandlerTime]
        /\ handling' \in [Drainers -> {"idle", "claimed", "succeeded", "failed"}]
    BY <1>1, <1>5, DrainAssumption DEF DrainInv, DrainTypes
  <2> QED BY <1>1, <2>1, <2>2, <2>3 DEF DrainInv, DrainTypes
<1>11. DrainersNeverRace'
  <2> SUFFICES ASSUME NEW b \in Drainers, NEW c \in Drainers, b # c,
                      NEW i \in DOMAIN claimed'[b], NEW j \in DOMAIN claimed'[c],
                      claimed'[b][i].effect = claimed'[c][j].effect,
                      claimed'[b][i].effect \notin late
               PROVE  FALSE
    BY <1>1 DEF DrainersNeverRace, EffectsHeld
  <2>1. CASE b = d
    BY <1>5, <1>6, <1>7, <2>1
  <2>2. CASE c = d
    BY <1>5, <1>6, <1>7, <2>2
  <2>3. CASE b # d /\ c # d
    BY <1>6, <2>3, HeldApart
  <2> QED BY <2>1, <2>2, <2>3
<1>12. InHandOf(d)'
  <2>1. batch # <<>>
    BY <1>3, <1>5
  <2>4. \A i \in DOMAIN rows : state'[rows[i]] = "in_flight" /\ age'[rows[i]] = 0
    BY <1>1, <1>3
  <2>5. \A i \in DOMAIN rows : tries'[rows[i]] = batch[i].tries
    BY <1>1, <1>5
  <2>6. \A i, j \in DOMAIN batch : i # j => batch[i].effect # batch[j].effect
    BY <1>2, <1>5
  <2>7. 0 < Visibility
    BY DrainAssumption
  <2>8. \A i \in DOMAIN batch : LET e == batch[i].effect IN
          state'[e] = "in_flight" /\ tries'[e] = batch[i].tries /\ age'[e] < Visibility
    BY <1>5, <2>4, <2>5, <2>7
  <2> QED BY <1>6, <2>1, <2>6, <2>8 DEF InHandOf
<1>13. ASSUME NEW c \in Drainers \ {d} PROVE InHandOf(c)'
  <2>1. \A i \in DOMAIN claimed[c] : LET e == claimed[c][i].effect IN
           e \notin late => state'[e] = state[e] /\ tries'[e] = tries[e] /\ age'[e] = age[e]
    BY <1>1, <1>7
  <2>2. late' = late /\ claimed'[c] = claimed[c] /\ (handling'[c] = "idle" <=> handling[c] = "idle")
    BY <1>1, <1>6
  <2>3. InHandOf(c)
    BY DEF DrainInv
  <2> QED BY <2>1, <2>2, <2>3, StillInHand
<1>14. ASSUME NEW e \in Effects \ late PROVE RunsCounted(e)'
  <2>1. \A c \in Drainers : MarkOwedBy(c, e)' <=> MarkOwedBy(c, e)
    <3>1. ~MarkOwedBy(d, e) /\ ~MarkOwedBy(d, e)'
      BY <1>6, <1>8 DEF MarkOwedBy
    <3>2. ASSUME NEW c \in Drainers \ {d} PROVE MarkOwedBy(c, e)' <=> MarkOwedBy(c, e)
      BY <1>6 DEF MarkOwedBy, Running
    <3> QED BY <3>1, <3>2
  <2>2. MarkOwed(e)' <=> MarkOwed(e)
    BY <2>1 DEF MarkOwed
  <2>3. drainMishaps' >= drainMishaps
    BY <1>1 DEF DrainInv, DrainTypes
  <2> QED BY <1>1, <1>9, <1>10, <2>2, <2>3, StillCounted
<1> QED BY <1>1, <1>10, <1>11, <1>12, <1>13, <1>14 DEF DrainInv

\* What is in hand and reaches its window is late from then on.
LEMMA DrainClockKeeps ==
  ASSUME DrainInv, DrainClock
  PROVE  DrainInv'
<1>1. /\ age' = [e \in Effects |->
                  IF state[e] = "in_flight" /\ age[e] < Visibility THEN age[e] + 1 ELSE age[e]]
      /\ timeLeft' = [d \in Drainers |-> IF timeLeft[d] > 0 THEN timeLeft[d] - 1 ELSE 0]
      /\ UNCHANGED <<state, tries, runs, claimed, handling, drainMishaps>>
      /\ late' = late \union {e \in Effects : age'[e] >= Visibility /\ \E d \in Drainers : e \in EffectsHeld(d)}
  BY DEF DrainClock
<1>2. DrainTypes'
  <2>1. age' \in [Effects -> Nat] /\ late' \subseteq Effects
    BY <1>1 DEF DrainInv, DrainTypes
  <2>2. timeLeft' \in [Drainers -> 0..HandlerTime]
    <3>1. \A d \in Drainers : timeLeft[d] \in 0..HandlerTime
      BY DEF DrainInv, DrainTypes
    <3>2. \A d \in Drainers : timeLeft[d] > 0 => timeLeft[d] - 1 \in 0..HandlerTime
      BY <3>1, DrainAssumption
    <3>3. HandlerTime \in Nat
      BY DrainAssumption
    <3> QED BY <1>1, <3>1, <3>2, <3>3
  <2> QED BY <1>1, <2>1, <2>2 DEF DrainInv, DrainTypes, Enqueued
<1>3. DrainersNeverRace'
  BY <1>1 DEF DrainInv, DrainersNeverRace, EffectsHeld
<1>4. ASSUME NEW d \in Drainers PROVE InHandOf(d)'
  <2>1. InHandOf(d)
    BY DEF DrainInv
  <2>2. ASSUME NEW i \in DOMAIN claimed[d], claimed[d][i].effect \notin late'
        PROVE  /\ claimed[d][i].effect \notin late
               /\ age'[claimed[d][i].effect] < Visibility
    <3>1. claimed[d][i].effect \in Effects /\ claimed[d][i].effect \in EffectsHeld(d)
      BY HeldIsYoung DEF EffectsHeld
    <3>2. ~(age'[claimed[d][i].effect] >= Visibility)
      BY <1>1, <2>2, <3>1
    <3>3. age'[claimed[d][i].effect] \in Nat /\ Visibility \in Nat
      BY <1>2, <3>1, DrainAssumption DEF DrainTypes
    <3> QED BY <1>1, <2>2, <3>2, <3>3
  <2> QED BY <1>1, <2>1, <2>2 DEF InHandOf
<1>5. ASSUME NEW e \in Effects \ late' PROVE RunsCounted(e)'
  <2>1. MarkOwed(e)' <=> MarkOwed(e)
    BY <1>1 DEF MarkOwed, MarkOwedBy, Running
  <2>2. drainMishaps' >= drainMishaps
    BY <1>1 DEF DrainInv, DrainTypes
  <2>3. e \in Effects \ late
    BY <1>1
  <2> QED BY <1>1, <1>2, <2>1, <2>2, <2>3, StillCounted
<1> QED BY <1>2, <1>3, <1>4, <1>5 DEF DrainInv

LEMMA DrainStepKeeps ==
  ASSUME DrainInv, [DrainNext]_drainVars
  PROVE  DrainInv'
<1>1. ASSUME NEW e \in Effects, Enqueue(e) PROVE DrainInv'
  BY <1>1, DrainEnqueueKeeps
<1>2. CASE DrainClock
  BY <1>2, DrainClockKeeps
<1>3. ASSUME NEW d \in Drainers, Claim(d) PROVE DrainInv'
  BY <1>3, DrainClaimKeeps
<1>4. ASSUME NEW d \in Drainers, DrainStep(d) PROVE DrainInv'
  BY <1>4, HandlerRunsKeeps, MarkCompletedKeeps, FailedKeeps DEF DrainStep
<1>5. ASSUME NEW d \in Drainers, DrainerCrash(d) PROVE DrainInv'
  BY <1>5, DrainerCrashKeeps
<1>6. ASSUME NEW d \in Drainers, MarkFails(d) PROVE DrainInv'
  BY <1>6, MarkFailsKeeps
<1>7. CASE UNCHANGED drainVars
  <2>1. UNCHANGED <<state, tries, due, age, runs, late, claimed, handling, timeLeft, drainMishaps>>
    BY <1>7 DEF drainVars, effectState, drainerState
  <2>2. DrainTypes' /\ DrainersNeverRace'
    <3>1. Enqueued' = Enqueued
      BY <2>1 DEF Enqueued
    <3>2. DrainTypes'
      BY <2>1, <3>1 DEF DrainInv, DrainTypes
    <3>3. DrainersNeverRace'
      BY <2>1 DEF DrainInv, DrainersNeverRace, EffectsHeld
    <3> QED BY <3>2, <3>3
  <2>3. \A d \in Drainers : InHandOf(d)'
    BY <2>1 DEF DrainInv, InHandOf
  <2>4. \A e \in Effects \ late : RunsCounted(e)'
    BY <2>1 DEF DrainInv, RunsCounted, MarkOwed, MarkOwedBy, Running
  <2> QED BY <2>1, <2>2, <2>3, <2>4 DEF DrainInv
<1> QED BY <1>1, <1>2, <1>3, <1>4, <1>5, <1>6, <1>7 DEF DrainNext

LEMMA DrainInvSafe == DrainInv => DrainSafe
<1> SUFFICES ASSUME DrainInv, NEW e \in Effects \ late
             PROVE  /\ state[e] = "dead" => e \in Unhandled \/ runs[e] >= DrainAttempts
                    /\ runs[e] <= DrainAttempts + drainMishaps
  BY DEF DrainSafe, DrainInv, DeadMeansSpent
<1>1. /\ RunsCounted(e) /\ tries[e] \in Nat /\ runs[e] \in Nat /\ drainMishaps \in Nat
      /\ DrainAttempts \in Nat
  BY DrainAssumption DEF DrainInv, DrainTypes
<1>2. MarkOwed(e) => state[e] = "in_flight"
  BY FirstInHand DEF MarkOwed, MarkOwedBy
<1>3. state[e] = "dead" => e \in Unhandled \/ runs[e] >= DrainAttempts
  BY <1>1, <1>2 DEF RunsCounted
<1>4. runs[e] <= DrainAttempts + drainMishaps
  <2>1. CASE MarkOwed(e) \/ state[e] = "completed"
    BY <1>1, <1>2, <2>1 DEF RunsCounted
  <2>2. CASE ~(MarkOwed(e) \/ state[e] = "completed")
    BY <1>1, <2>2 DEF RunsCounted
  <2> QED BY <2>1, <2>2
<1> QED BY <1>3, <1>4

\* A mark, a run or a claim is of an event that is not settled.
LEMMA DrainStepSettles ==
  ASSUME DrainInv, [DrainNext]_drainVars,
         NEW e \in Effects \ late, state[e] \in {"completed", "dead"}
  PROVE  state'[e] = state[e] /\ runs'[e] = runs[e]
<1>1. ASSUME NEW f \in Effects, Enqueue(f) PROVE state'[e] = state[e] /\ runs'[e] = runs[e]
  BY <1>1 DEF Enqueue, DrainInv, DrainTypes
<1>2. ASSUME NEW d \in Drainers, Claim(d) PROVE state'[e] = state[e] /\ runs'[e] = runs[e]
  <2>1. Claimable \subseteq Enqueued /\ Claimable \subseteq Effects /\ e \notin Claimable /\ Claimable # {}
    BY <1>2 DEF Claimable, Waiting, Enqueued, Claim
  <2>2. IsFiniteSet(Claimable)
    BY <2>1, FS_Subset DEF DrainInv, DrainTypes
  <2>3. LowestIds(Claimable) \in Seq(Claimable)
    BY <2>1, <2>2, LowestIdsAreIds
  <2>4. ~\E i \in DOMAIN LowestIds(Claimable) : LowestIds(Claimable)[i] = e
    BY <2>1, <2>3
  <2> QED BY <1>2, <2>4 DEF Claim
<1>3. ASSUME NEW d \in Drainers, DrainStep(d) PROVE state'[e] = state[e] /\ runs'[e] = runs[e]
  <2>1. claimed[d] # <<>>
    BY <1>3 DEF DrainStep, HandlerRuns, MarkCompleted, MarkRetry, MarkDead, DrainInv, InHandOf
  <2>2. Running(d) # e /\ Running(d) \in Effects
    BY <2>1, FirstInHand
  <2> QED BY <1>3, <2>2 DEF DrainStep, HandlerRuns, MarkCompleted, MarkRetry, MarkDead,
                            DrainInv, DrainTypes
<1>4. ASSUME NEW d \in Drainers, DrainerCrash(d) \/ MarkFails(d)
      PROVE  state'[e] = state[e] /\ runs'[e] = runs[e]
  BY <1>4 DEF DrainerCrash, MarkFails, effectState
<1>5. CASE DrainClock \/ UNCHANGED drainVars
  BY <1>5 DEF DrainClock, drainVars, effectState
<1> QED BY <1>1, <1>2, <1>3, <1>4, <1>5 DEF DrainNext

\* However many drainers claim, run, fail and die, and whether or not a batch fits
\* the visibility window: an event whose window has not ended in somebody's hand is
\* in one pair of hands, and is tried as often as it is owed and once more per death
\* or failed mark (inFlightVisibility, Tick's claim, the three marks).
THEOREM DrainersAreSafe == DrainSpec => []DrainSafe
<1>1. DrainInv /\ [DrainNext]_drainVars => DrainInv'
  BY DrainStepKeeps
<1>2. DrainInv => DrainSafe
  BY DrainInvSafe
<1> QED BY <1>1, <1>2, DrainInitInv, PTL DEF DrainSpec

\* Such an event, once completed or dead, stays so and never runs again, although
\* the marks do not look at the row's status.
THEOREM SettledStays == DrainSpec => SettledIsFinal
<1>1. DrainInv /\ [DrainNext]_drainVars => DrainInv'
  BY DrainStepKeeps
<1>2. DrainInv /\ [DrainNext]_drainVars =>
        [\A e \in Effects \ late : state[e] \in {"completed", "dead"} =>
           state'[e] = state[e] /\ runs'[e] = runs[e]]_drainVars
  BY DrainStepSettles
<1> QED BY <1>1, <1>2, DrainInitInv, PTL DEF DrainSpec, SettledIsFinal
=============================================================================
