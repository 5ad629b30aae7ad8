------------------------ MODULE WatchDispatchProofs ------------------------
(***************************************************************************)
(* Proofs about WatchDispatch for every number of replicas, workers,       *)
(* windows and copies of a job, and every loss, lapse and crash.           *)
(***************************************************************************)
EXTENDS WatchDispatch, TLAPS

-----------------------------------------------------------------------------
(* The inductive invariant                                                 *)

\* The holder of the live claim is a delivery of the current window.
OwnerCurrent ==
    \A p \in Pollers : poll[p].pc = "owner" /\ claim = p => poll[p].window = window

\* Whoever publishes a window holds its dispatch lease.
PublisherHoldsLease ==
    \A r \in Replicas, w \in Windows : Publishing(r, w) => lease[w] = r

IndInv ==
    /\ TypeOK
    /\ OwnerCurrent
    /\ NoJobAhead
    /\ LeaseOutlivesPublish => PublisherHoldsLease

-----------------------------------------------------------------------------
(* The helpers of the actions                                              *)

\* A pass that takes its next step keeps the window it holds.
LEMMA StepEffect ==
    ASSUME TypeOK, NEW r \in Replicas, NEW pc \in SweepPcs, Step(r, pc)
    PROVE  /\ sweep' \in [Replicas -> [pc : SweepPcs, window : Windows]]
           /\ sweep'[r].pc = pc /\ sweep'[r].window = sweep[r].window
           /\ \A q \in Replicas : q # r => sweep'[q] = sweep[q]
           /\ \A q \in Replicas : sweep'[q].window = sweep[q].window
    BY DEF TypeOK, Step

LEMMA EndPassEffect ==
    ASSUME TypeOK, NEW r \in Replicas, EndPass(r)
    PROVE  /\ sweep' \in [Replicas -> [pc : SweepPcs, window : Windows]]
           /\ sweep'[r].pc = "idle" /\ sweep'[r].window = 0
           /\ \A q \in Replicas : q # r => sweep'[q] = sweep[q]
    BY DispatchAssumption DEF TypeOK, EndPass, SweepPcs, Windows

LEMMA EndDeliveryEffect ==
    ASSUME TypeOK, NEW p \in Pollers, EndDelivery(p)
    PROVE  /\ poll' \in [Pollers -> [pc : PollPcs, window : Windows]]
           /\ poll'[p].pc = "idle" /\ poll'[p].window = 0
           /\ \A q \in Pollers : q # p => poll'[q] = poll[q]
    BY DispatchAssumption DEF TypeOK, EndDelivery, PollPcs, Windows

\* A publication adds at most one copy, of its own window.
LEMMA EnqueueEffect ==
    ASSUME TypeOK, NEW w \in Windows, Enqueue(w)
    PROVE  /\ queue' \in [Windows -> 0..MaxJobs]
           /\ \A v \in Windows : v # w => queue'[v] = queue[v]
    BY DispatchAssumption DEF TypeOK, Enqueue

-----------------------------------------------------------------------------
(* Initial states and steps                                                *)

LEMMA InvInit == Init => IndInv
<1> SUFFICES ASSUME Init PROVE IndInv
    OBVIOUS
<1>1. 0 \in Windows /\ MaxJobs >= 1 /\ MaxJobs \in Nat /\ MaxWindow \in Nat
    BY DispatchAssumption DEF Windows
<1>2. PICK n \in {0, 1} : queue = [w \in Windows |-> IF w = 0 THEN n ELSE 0]
    BY DEF Init
<1>3. queue \in [Windows -> 0..MaxJobs] /\ \A w \in Windows : queue[w] > 0 => w = 0
    BY <1>1, <1>2
<1>4. sweep \in [Replicas -> [pc : SweepPcs, window : Windows]]
    BY <1>1 DEF Init, SweepPcs
<1>5. poll \in [Pollers -> [pc : PollPcs, window : Windows]]
    BY <1>1 DEF Init, PollPcs
<1>6. TypeOK
    BY <1>1, <1>3, <1>4, <1>5 DEF Init, TypeOK
<1>7. OwnerCurrent /\ PublisherHoldsLease
    BY DEF Init, OwnerCurrent, PublisherHoldsLease, Publishing
<1>8. NoJobAhead
    BY <1>3 DEF Init, NoJobAhead
<1> QED  BY <1>6, <1>7, <1>8 DEF IndInv

\* A step of a recovery pass other than taking or giving back a dispatch lease.
LEMMA PassStep ==
    ASSUME IndInv, NEW r \in Replicas,
           UNCHANGED <<active, window, reach, claim, lease, poll>>,
           leader' \in Replicas \cup {NoOne},
           \/ UNCHANGED queue
           \/ Enqueue(sweep[r].window),
           \/ EndPass(r)
           \/ UNCHANGED sweep
           \/ \E pc \in {"lead", "row"} : Step(r, pc)
           \/ sweep[r].pc = "publish" /\ \E pc \in {"mark", "release"} : Step(r, pc)
           \/ sweep' = [sweep EXCEPT ![r] = [pc |-> "claim", window |-> window]]
    PROVE  IndInv'
<1>1. TypeOK /\ sweep[r].window \in Windows /\ sweep[r].window <= window
    BY DEF IndInv, TypeOK, NoJobAhead
<1>2. /\ sweep' \in [Replicas -> [pc : SweepPcs, window : Windows]]
      /\ \A q \in Replicas : sweep'[q].window \in {sweep[q].window, window, 0}
      /\ \A q \in Replicas, w \in Windows : Publishing(q, w)' => Publishing(q, w)
    <2>1. CASE EndPass(r)
        BY <1>1, <2>1, EndPassEffect DEF Publishing
    <2>2. CASE UNCHANGED sweep
        BY <1>1, <2>2 DEF TypeOK, Publishing
    <2>3. CASE \E pc \in {"lead", "row"} : Step(r, pc)
        BY <1>1, <2>3, StepEffect DEF Publishing, SweepPcs
    <2>4. CASE sweep[r].pc = "publish" /\ \E pc \in {"mark", "release"} : Step(r, pc)
        BY <1>1, <2>4, StepEffect DEF Publishing, SweepPcs
    <2>5. CASE sweep' = [sweep EXCEPT ![r] = [pc |-> "claim", window |-> window]]
        BY <1>1, <2>5 DEF TypeOK, Publishing, SweepPcs
    <2> QED  BY <2>1, <2>2, <2>3, <2>4, <2>5
<1>3. /\ queue' \in [Windows -> 0..MaxJobs]
      /\ \A w \in Windows : queue'[w] > 0 => w <= window
    BY <1>1, EnqueueEffect DEF IndInv, TypeOK, NoJobAhead
<1>4. TypeOK'
    BY <1>1, <1>2, <1>3 DEF TypeOK
<1>5. OwnerCurrent' /\ (PublisherHoldsLease => PublisherHoldsLease')
    BY <1>2 DEF IndInv, OwnerCurrent, PublisherHoldsLease
<1>6. NoJobAhead'
    <2>1. 0 <= window /\ window <= window
        BY <1>1, DispatchAssumption DEF TypeOK, Windows
    <2>2. \A q \in Replicas : sweep'[q].window <= window
        BY <1>2, <2>1 DEF IndInv, NoJobAhead
    <2> QED  BY <1>3, <2>2 DEF IndInv, NoJobAhead
<1> QED  BY <1>4, <1>5, <1>6 DEF IndInv

LEMMA ClaimDispatchStep ==
    ASSUME IndInv, NEW r \in Replicas, ClaimDispatch(r)
    PROVE  IndInv'
<1>1. CASE ~Dispatchable(sweep[r].window)
    BY <1>1, PassStep DEF ClaimDispatch, IndInv, TypeOK
<1>2. CASE Dispatchable(sweep[r].window)
    <2> DEFINE w0 == sweep[r].window
    <2>1. TypeOK /\ w0 \in Windows /\ lease[w0] = NoOne /\ r # NoOne
        BY <1>2, DispatchAssumption DEF IndInv, TypeOK, Dispatchable
    <2>2. /\ lease' = [lease EXCEPT ![w0] = r] /\ Step(r, "publish")
          /\ UNCHANGED <<active, window, reach, claim, leader, queue, poll>>
        BY <1>2 DEF ClaimDispatch
    <2>3. "publish" \in SweepPcs
        BY DEF SweepPcs
    <2>4. TypeOK'
        BY <2>1, <2>2, <2>3, StepEffect DEF TypeOK
    <2>5. OwnerCurrent' /\ NoJobAhead'
        BY <2>1, <2>2, <2>3, StepEffect DEF IndInv, OwnerCurrent, NoJobAhead
    <2>6. ASSUME PublisherHoldsLease, NEW q \in Replicas, NEW w \in Windows, Publishing(q, w)'
          PROVE  lease'[w] = q
        <3>1. CASE q = r
            BY <2>1, <2>2, <2>3, <2>6, <3>1, StepEffect DEF Publishing, TypeOK
        <3>2. CASE q # r
            <4>1. lease[w] = q
                BY <2>1, <2>2, <2>3, <2>6, <3>2, StepEffect
                DEF Publishing, PublisherHoldsLease
            <4>2. q # NoOne
                BY DispatchAssumption
            <4> QED  BY <2>1, <2>2, <4>1, <4>2 DEF TypeOK
        <3> QED  BY <3>1, <3>2
    <2>7. PublisherHoldsLease => PublisherHoldsLease'
        BY <2>6 DEF PublisherHoldsLease
    <2> QED  BY <2>4, <2>5, <2>7 DEF IndInv
<1> QED  BY <1>1, <1>2

LEMMA ReleaseDispatchStep ==
    ASSUME IndInv, NEW r \in Replicas, ReleaseDispatch(r)
    PROVE  IndInv'
<1>1. /\ TypeOK /\ EndPass(r) /\ sweep[r].window \in Windows
      /\ lease' = [lease EXCEPT ![sweep[r].window] = IF @ = r THEN NoOne ELSE @]
      /\ UNCHANGED <<active, window, reach, claim, leader, queue, poll>>
    BY DEF IndInv, TypeOK, ReleaseDispatch
<1>2. TypeOK'
    BY <1>1, EndPassEffect DEF TypeOK
<1>3. OwnerCurrent' /\ NoJobAhead'
    <2>1. 0 <= window
        BY <1>1, DispatchAssumption DEF TypeOK, Windows
    <2>2. \A q \in Replicas : sweep'[q].window <= window
        BY <1>1, <2>1, EndPassEffect DEF IndInv, NoJobAhead
    <2> QED  BY <1>1, <2>2 DEF IndInv, OwnerCurrent, NoJobAhead
<1>4. ASSUME PublisherHoldsLease, NEW q \in Replicas, NEW w \in Windows, Publishing(q, w)'
      PROVE  lease'[w] = q
    <2>1. q # r /\ lease[w] = q
        BY <1>1, <1>4, EndPassEffect DEF Publishing, PublisherHoldsLease
    <2> QED  BY <1>1, <2>1 DEF TypeOK
<1>5. PublisherHoldsLease => PublisherHoldsLease'
    BY <1>4 DEF PublisherHoldsLease
<1> QED  BY <1>2, <1>3, <1>5 DEF IndInv

LEMMA ClaimJobStep ==
    ASSUME IndInv, NEW p \in Pollers, NEW w \in Windows, ClaimJob(p, w)
    PROVE  IndInv'
<1>1. /\ TypeOK /\ window = w /\ claim' = p /\ queue[w] > 0
      /\ queue' = [queue EXCEPT ![w] = @ - 1]
      /\ poll' = [poll EXCEPT ![p] = [pc |-> "owner", window |-> w]]
      /\ UNCHANGED <<active, window, reach, lease, leader, sweep>>
    BY DEF IndInv, ClaimJob, Claimable
<1>2. TypeOK'
    BY <1>1, DispatchAssumption DEF TypeOK, PollPcs
<1>3. OwnerCurrent'
    BY <1>1 DEF OwnerCurrent, TypeOK
<1>4. NoJobAhead'
    BY <1>1, DispatchAssumption DEF IndInv, NoJobAhead, TypeOK, Windows
<1>5. PublisherHoldsLease => PublisherHoldsLease'
    BY <1>1 DEF PublisherHoldsLease, Publishing
<1> QED  BY <1>2, <1>3, <1>4, <1>5 DEF IndInv

LEMMA AdvanceStep ==
    ASSUME IndInv, NEW p \in Pollers, Advance(p)
    PROVE  IndInv'
<1>1. /\ TypeOK /\ claim = p /\ poll[p].pc = "owner" /\ window < MaxWindow
      /\ window' = poll[p].window + 1 /\ reach' = "far" /\ claim' = NoOne
      /\ poll' = [poll EXCEPT ![p].pc = "successor", ![p].window = @ + 1]
      /\ UNCHANGED <<active, lease, leader, queue, sweep>>
    BY DEF IndInv, Advance, OwnsPoll
<1>2. poll[p].window = window
    BY <1>1 DEF IndInv, OwnerCurrent
<1>3. window' = window + 1 /\ window \in Windows /\ window' \in Windows
    BY <1>1, <1>2, DispatchAssumption DEF TypeOK, Windows
<1>4. /\ poll' \in [Pollers -> [pc : PollPcs, window : Windows]]
      /\ poll'[p].window = window'
      /\ \A q \in Pollers : q # p => poll'[q] = poll[q]
    BY <1>1, <1>2, <1>3 DEF TypeOK, PollPcs
<1>5. TypeOK'
    BY <1>1, <1>3, <1>4 DEF TypeOK
<1>6. OwnerCurrent'
    BY <1>1, DispatchAssumption DEF OwnerCurrent
<1>7. NoJobAhead'
    BY <1>1, <1>3, <1>4 DEF IndInv, NoJobAhead, TypeOK, Windows
<1>8. PublisherHoldsLease => PublisherHoldsLease'
    BY <1>1 DEF PublisherHoldsLease, Publishing
<1> QED  BY <1>5, <1>6, <1>7, <1>8 DEF IndInv

\* A delivery that ends, with or without a job behind it.
LEMMA EndDeliveryStep ==
    ASSUME IndInv, NEW p \in Pollers, EndDelivery(p),
           active' \in BOOLEAN, claim' \in {claim, NoOne},
           Enqueue(poll[p].window) \/ UNCHANGED queue,
           UNCHANGED <<window, reach, lease, leader, sweep>>
    PROVE  IndInv'
<1>1. TypeOK /\ poll[p].window \in Windows /\ poll[p].window <= window
    BY DEF IndInv, TypeOK, NoJobAhead
<1>2. /\ queue' \in [Windows -> 0..MaxJobs]
      /\ \A w \in Windows : queue'[w] > 0 => w <= window
    BY <1>1, EnqueueEffect DEF IndInv, TypeOK, NoJobAhead
<1>3. TypeOK'
    BY <1>1, <1>2, EndDeliveryEffect DEF TypeOK
<1>4. OwnerCurrent'
    BY <1>1, EndDeliveryEffect, DispatchAssumption DEF IndInv, OwnerCurrent
<1>5. NoJobAhead'
    <2>1. 0 <= window
        BY <1>1, DispatchAssumption DEF TypeOK, Windows
    <2>2. \A q \in Pollers : poll'[q].window <= window
        BY <1>1, <2>1, EndDeliveryEffect DEF IndInv, NoJobAhead
    <2> QED  BY <1>2, <2>2 DEF IndInv, NoJobAhead
<1>6. PublisherHoldsLease => PublisherHoldsLease'
    BY DEF PublisherHoldsLease, Publishing
<1> QED  BY <1>3, <1>4, <1>5, <1>6 DEF IndInv

\* Time, the broker and the other actors.
LEMMA OutsideStep ==
    ASSUME IndInv, active' \in BOOLEAN, reach' \in {"far", "horizon", "due"},
           claim' \in {claim, NoOne}, leader' \in {leader, NoOne},
           UNCHANGED <<window, lease, queue, sweep, poll>>
    PROVE  IndInv'
<1>1. TypeOK'
    BY DEF IndInv, TypeOK
<1>2. OwnerCurrent' /\ NoJobAhead'
    BY DispatchAssumption DEF IndInv, OwnerCurrent, NoJobAhead
<1>3. PublisherHoldsLease => PublisherHoldsLease'
    BY DEF PublisherHoldsLease, Publishing
<1> QED  BY <1>1, <1>2, <1>3 DEF IndInv

LEMMA DropJobStep ==
    ASSUME IndInv, NEW w \in Windows, DropJob(w)
    PROVE  IndInv'
<1>1. /\ TypeOK /\ queue[w] > 0 /\ queue' = [queue EXCEPT ![w] = @ - 1]
      /\ UNCHANGED <<active, window, reach, claim, lease, leader, sweep, poll>>
    BY DEF IndInv, DropJob
<1>2. TypeOK'
    BY <1>1, DispatchAssumption DEF TypeOK
<1>3. OwnerCurrent' /\ NoJobAhead'
    BY <1>1, DispatchAssumption DEF IndInv, OwnerCurrent, NoJobAhead, TypeOK, Windows
<1>4. PublisherHoldsLease => PublisherHoldsLease'
    BY <1>1 DEF PublisherHoldsLease, Publishing
<1> QED  BY <1>2, <1>3, <1>4 DEF IndInv

LEMMA LeaseLapsesStep ==
    ASSUME IndInv, NEW w \in Windows, LeaseLapses(w)
    PROVE  IndInv'
<1>1. /\ TypeOK /\ lease[w] # NoOne /\ lease' = [lease EXCEPT ![w] = NoOne]
      /\ LeaseOutlivesPublish => ~Publishing(lease[w], w)
      /\ UNCHANGED <<active, window, reach, claim, leader, queue, sweep, poll>>
    BY DEF IndInv, LeaseLapses
<1>2. TypeOK'
    BY <1>1 DEF TypeOK
<1>3. OwnerCurrent' /\ NoJobAhead'
    BY <1>1 DEF IndInv, OwnerCurrent, NoJobAhead
<1>4. LeaseOutlivesPublish => PublisherHoldsLease'
    BY <1>1 DEF IndInv, PublisherHoldsLease, Publishing, TypeOK
<1> QED  BY <1>2, <1>3, <1>4 DEF IndInv

LEMMA InvStep == IndInv /\ [Next]_vars => IndInv'
<1> SUFFICES ASSUME IndInv, [Next]_vars PROVE IndInv'
    OBVIOUS
<1> USE DEF IndInv
<1>1. ASSUME NEW r \in Replicas, Pass(r) \/ PassDies(r) \/ ReleaseLeadership(r)
      PROVE  IndInv'
    <2> leader \in Replicas \cup {NoOne}
        BY DEF TypeOK
    <2>1. CASE HoldLeadership(r)
        BY <2>1, PassStep DEF HoldLeadership
    <2>2. CASE ReadIndex(r)
        BY <2>2, PassStep DEF ReadIndex
    <2>3. CASE ReadRuntime(r)
        BY <2>3, PassStep DEF ReadRuntime
    <2>4. CASE ClaimDispatch(r)
        BY <2>4, ClaimDispatchStep
    <2>5. CASE Publish(r)
        BY <2>5, PassStep DEF Publish
    <2>6. CASE PublishFails(r)
        BY <2>6, PassStep DEF PublishFails
    <2>7. CASE ReleaseDispatch(r)
        BY <2>7, ReleaseDispatchStep
    <2>8. CASE MarkDispatched(r)
        BY <2>8, PassStep DEF MarkDispatched
    <2>9. CASE PassDies(r)
        BY <2>9, PassStep DEF PassDies
    <2>10. CASE ReleaseLeadership(r)
        BY <2>10, PassStep DEF ReleaseLeadership
    <2> QED
        BY <1>1, <2>1, <2>2, <2>3, <2>4, <2>5, <2>6, <2>7, <2>8, <2>9, <2>10 DEF Pass
<1>2. ASSUME NEW p \in Pollers, Deliver(p) \/ DeliveryDies(p)
      PROVE  IndInv'
    <2> active \in BOOLEAN
        BY DEF TypeOK
    <2>1. CASE \E w \in Windows : ClaimJob(p, w)
        BY <2>1, ClaimJobStep
    <2>2. CASE Advance(p)
        BY <2>2, AdvanceStep
    <2>3. CASE Finish(p)
        BY <2>3, EndDeliveryStep DEF Finish
    <2>4. CASE Refused(p)
        BY <2>4, EndDeliveryStep DEF Refused
    <2>5. CASE EnqueueSuccessor(p)
        BY <2>5, EndDeliveryStep DEF EnqueueSuccessor
    <2>6. CASE DeliveryDies(p)
        BY <2>6, EndDeliveryStep DEF DeliveryDies
    <2> QED  BY <1>2, <2>1, <2>2, <2>3, <2>4, <2>5, <2>6 DEF Deliver
<1>3. CASE \E w \in Windows : DropJob(w) \/ LeaseLapses(w)
    BY <1>3, DropJobStep, LeaseLapsesStep
<1>4. CASE EndedElsewhere \/ MarkerNears \/ ClaimLapses \/ LeaderLapses \/ UNCHANGED vars
    <2> active \in BOOLEAN /\ reach \in {"far", "horizon", "due"}
        BY DEF TypeOK
    <2> QED
        BY <1>4, OutsideStep
        DEF EndedElsewhere, MarkerNears, ClaimLapses, LeaderLapses, vars
<1> QED  BY <1>1, <1>2, <1>3, <1>4 DEF Next

-----------------------------------------------------------------------------
(* Theorems                                                                *)

\* The inductive invariant holds in every reachable state of the dispatch.
THEOREM Invariance == Spec => []IndInv
    BY InvInit, InvStep, PTL DEF Spec

\* Every variable keeps its type; that the successor of a commit is a window
\* needs the owner to hold the current one.
THEOREM TypeCorrect == Spec => []TypeOK
<1>1. IndInv => TypeOK
    BY DEF IndInv
<1> QED  BY <1>1, Invariance, PTL

\* No job, pass or delivery is ever ahead of the cadence, whatever is lost,
\* repeated or late.
THEOREM NotAhead == Spec => []NoJobAhead
<1>1. IndInv => NoJobAhead
    BY DEF IndInv
<1> QED  BY <1>1, Invariance, PTL

\* Two replicas never publish one window at a time, even when the leader lease
\* lapsed under a pass, as long as a dispatch lease outlives its publication.
THEOREM SingleFlightDispatch ==
    ASSUME LeaseOutlivesPublish
    PROVE  Spec => []SinglePublisher
<1>1. IndInv => SinglePublisher
    BY DEF IndInv, PublisherHoldsLease, SinglePublisher
<1> QED  BY <1>1, Invariance, PTL

\* Only the holder of the live claim moves the cadence, from the window it claimed.
THEOREM OwnerMovesCadence == Spec => CadenceMovedByOwner
<1> DEFINE Moved ==
        window' # window => \E p \in Pollers : claim = p /\ poll[p].window = window
<1>1. IndInv /\ [Next]_vars => [Moved]_vars
    <2> SUFFICES ASSUME IndInv, Next, window' # window
                 PROVE  \E p \in Pollers : claim = p /\ poll[p].window = window
        OBVIOUS
    <2>1. PICK p \in Pollers : Advance(p)
        BY DEF Next, Pass, Deliver, HoldLeadership, ReadIndex, ReadRuntime,
           ClaimDispatch, Publish, PublishFails, ReleaseDispatch, MarkDispatched,
           PassDies, ReleaseLeadership, ClaimJob, Finish, Refused, EnqueueSuccessor,
           DeliveryDies, DropJob, LeaseLapses, EndedElsewhere, MarkerNears,
           ClaimLapses, LeaderLapses
    <2> QED  BY <2>1 DEF Advance, OwnsPoll, IndInv, OwnerCurrent
<1> QED  BY <1>1, Invariance, PTL DEF Spec, CadenceMovedByOwner
=============================================================================
