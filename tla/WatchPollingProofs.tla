------------------------- MODULE WatchPollingProofs -------------------------
(***************************************************************************)
(* Proofs about WatchPolling for every number of deliveries, cancel calls  *)
(* and sweeps, every bound, either store, with or without lapsing leases   *)
(* and provider faults; a theorem that needs one of these says so.         *)
(***************************************************************************)
EXTENDS WatchPolling, TLAPS

-----------------------------------------------------------------------------
(* Types                                                                   *)

\* What a plan commits has the types of a document and, while the window bound
\* is respected, of a sidecar.
LEMMA PlanTypes ==
    ASSUME NEW w \in WorkerStates
    PROVE  /\ AttemptsAfter(w) \in 0..MaxAttempts
           /\ StatusAfter(w) \in Statuses
           /\ DocAfter(w) \in Docs
           /\ (StatusAfter(w) = "ACTIVE" => w.rt.seq < MaxSeq)
                => RuntimeAfter(w) \in Runtimes
<1>1. AttemptsAfter(w) \in 0..MaxAttempts
    BY BoundsAssumption DEF WorkerStates, AttemptsAfter, Docs
<1>2. StatusAfter(w) \in Statuses
    BY DEF StatusAfter, Statuses, Terminal
<1>3. DocAfter(w) \in Docs
    BY <1>1, <1>2 DEF DocAfter, WorkerStates, Docs
<1>4. ASSUME StatusAfter(w) = "ACTIVE" => w.rt.seq < MaxSeq
      PROVE  RuntimeAfter(w) \in Runtimes
    <2>1. w.rt \in Runtimes
        BY DEF WorkerStates
    <2>2. CASE StatusAfter(w) = "ACTIVE"
        <3>1. w.rt.seq + 1 \in 0..MaxSeq
            BY <1>4, <2>1, <2>2, BoundsAssumption DEF Runtimes
        <3> QED  BY <2>1, <2>2, <3>1 DEF RuntimeAfter, Runtimes
    <2>3. CASE StatusAfter(w) # "ACTIVE"
        BY <2>1, <2>3 DEF RuntimeAfter, Runtimes
    <2> QED  BY <2>2, <2>3
<1> QED  BY <1>1, <1>2, <1>3, <1>4

\* The empty records are typed.
LEMMA EmptyTypes ==
    /\ NoDoc \in Docs /\ GoneDoc \in Docs
    /\ NoRuntime \in Runtimes /\ InitialRuntime \in Runtimes
    /\ IdleWorker \in WorkerStates /\ IdleCall \in CallStates
<1>1. NoDoc \in Docs /\ GoneDoc \in Docs
    BY BoundsAssumption DEF NoDoc, GoneDoc, Docs, Absent
<1>2. NoRuntime \in Runtimes
    BY BoundsAssumption DEF NoRuntime, Runtimes
<1>3. InitialRuntime \in Runtimes
    BY <1>2, BoundsAssumption DEF InitialRuntime, Runtimes
<1>4. IdleWorker \in WorkerStates
    BY <1>1, <1>2, BoundsAssumption
    DEF IdleWorker, WorkerStates, WorkerPcs, NoClaim, Plans
<1>5. IdleCall \in CallStates
    BY <1>1, <1>2, PollingAssumption DEF IdleCall, CallStates, CallPcs
<1> QED  BY <1>1, <1>2, <1>3, <1>4, <1>5

\* A commit preserves the store's types.
LEMMA CommitTypes ==
    ASSUME StoreTypeOK, NEW t, NEW d \in Docs, NEW r \in Runtimes,
           NEW n \in Runtimes, CommitWindow(t, r, d, n)
    PROVE  StoreTypeOK'
<1>1. r.rev + 1 \in Nat
    BY DEF Runtimes
<1>2. doc' \in Docs /\ rt' \in Runtimes
    BY <1>1 DEF CommitWindow, Runtimes
<1>3. events' \subseteq Events
    BY <1>1 DEF CommitWindow, IssueEvent, Events, StoreTypeOK
<1>4. CASE d.status \in Terminal
    <2>1. active' \in BOOLEAN
        BY <1>4 DEF CommitWindow, Unschedule
    <2>2. claim' \in 0..MaxToken
        BY <1>4, BoundsAssumption DEF CommitWindow, Unschedule, NoClaim
    <2> QED  BY <1>2, <1>3, <1>4, <2>1, <2>2
            DEF CommitWindow, Unschedule, StoreTypeOK
<1>5. CASE d.status \notin Terminal
    BY <1>2, <1>3, <1>5, BoundsAssumption DEF CommitWindow, StoreTypeOK, NoClaim
<1> QED  BY <1>4, <1>5

\* So do a cancellation and an expiry.
LEMMA CallTypes ==
    ASSUME StoreTypeOK, NEW c, NEW d \in Docs, NEW r \in Runtimes,
           ApplyCall(c, d, r)
    PROVE  StoreTypeOK'
<1>1. r.rev + 1 \in Nat
    BY DEF Runtimes
<1>2. ASSUME NEW s \in {"EXPIRED", "CANCELLED"}, FinishIfActive(s, d, r)
      PROVE  StoreTypeOK'
    <2>1. doc' \in Docs
        BY <1>2 DEF FinishIfActive, Docs, Statuses, Terminal
    <2>2. rt' \in Runtimes
        BY <1>1, <1>2 DEF FinishIfActive, FinishedRuntime, Runtimes
    <2>3. events' \subseteq Events
        BY <1>1, <1>2 DEF FinishIfActive, IssueEvent, Events, StoreTypeOK
    <2>4. active' \in BOOLEAN
        BY <1>2 DEF FinishIfActive, Unschedule
    <2>5. claim' \in 0..MaxToken
        BY <1>2, BoundsAssumption DEF FinishIfActive, Unschedule, NoClaim
    <2> QED  BY <1>2, <2>1, <2>2, <2>3, <2>4, <2>5
            DEF FinishIfActive, Unschedule, StoreTypeOK
<1>3. ASSUME RecordCancel(r)
      PROVE  StoreTypeOK'
    BY <1>3 DEF RecordCancel, Runtimes, StoreTypeOK
<1> QED  BY <1>2, <1>3 DEF ApplyCall

\* Initially every variable has its type.
LEMMA InitTypes == Init => TypeOK
<1> SUFFICES ASSUME Init PROVE TypeOK
    OBVIOUS
<1>1. active \in BOOLEAN /\ indexed \in BOOLEAN /\ reservation \in BOOLEAN
    BY DEF Init, StoreInit
<1>2. fence \in 0..MaxToken /\ claim \in 0..MaxToken
    BY BoundsAssumption DEF Init, StoreInit, NoClaim
<1>3. StoreTypeOK
    BY <1>1, <1>2, EmptyTypes DEF Init, StoreInit, StoreTypeOK
<1>4. /\ wk \in [Workers -> WorkerStates] /\ call \in [Callers -> CallStates]
      /\ notices \in Seq(Statuses)
    BY EmptyTypes DEF Init
<1> QED  BY <1>1, <1>3, <1>4 DEF TypeOK

\* Every step of a delivery keeps the types.
LEMMA DeliveryTypes ==
    ASSUME TypeOK, NEW k \in Workers, Delivery(k)
    PROVE  TypeOK'
<1>0. wk[k] \in WorkerStates
    BY DEF TypeOK
<1>1. ASSUME NEW pc \in WorkerPcs, GoTo(k, pc)
      PROVE  wk' \in [Workers -> WorkerStates]
    BY <1>1 DEF GoTo, TypeOK, WorkerStates
<1>2. ASSUME NEW p \in Plans, Decide(k, p)
      PROVE  wk' \in [Workers -> WorkerStates]
    BY <1>2 DEF Decide, TypeOK, WorkerStates, WorkerPcs
<1>3. ASSUME Rest(k)
      PROVE  wk' \in [Workers -> WorkerStates]
    BY <1>3, EmptyTypes DEF Rest, TypeOK
<1>4. ASSUME UNCHANGED storeVars
      PROVE  StoreTypeOK'
    BY <1>4 DEF TypeOK, StoreTypeOK, storeVars
<1>5. ASSUME NEW w \in 0..MaxSeq, NEW i \in BOOLEAN, PollWindow(k, w, i)
      PROVE  TypeOK'
    <2>1. fence + 1 \in 0..MaxToken
        BY <1>5, BoundsAssumption DEF PollWindow, ClaimWindow, TypeOK, StoreTypeOK
    <2>2. StoreTypeOK'
        BY <1>5, <2>1 DEF PollWindow, ClaimWindow, TypeOK, StoreTypeOK
    <2>3. [IdleWorker EXCEPT !.pc = "claimed", !.tok = fence + 1, !.doc = doc,
                             !.rt = rt] \in WorkerStates
        BY <2>1, EmptyTypes DEF WorkerStates, WorkerPcs, TypeOK, StoreTypeOK
    <2> QED  BY <1>5, <2>2, <2>3 DEF PollWindow, TypeOK
<1>6. ASSUME RunClaimed(k)
      PROVE  TypeOK'
    <2>1. life \in {"open", "closing", "over"}
        BY DEF TypeOK, StoreTypeOK
    <2>2. /\ [wk[k] EXCEPT !.life = life, !.pc = "commit", !.plan = "EXPIRE"]
                \in WorkerStates
          /\ \A pc \in WorkerPcs :
                [wk[k] EXCEPT !.life = life, !.pc = pc] \in WorkerStates
        BY <1>0, <2>1 DEF WorkerStates, WorkerPcs, Plans
    <2>3. wk' \in [Workers -> WorkerStates]
        BY <1>6, <2>2 DEF RunClaimed, TypeOK, WorkerPcs, ProviderPcs
    <2> QED  BY <1>4, <1>6, <2>3 DEF RunClaimed, TypeOK
<1>7. ASSUME \/ Replay(k) \/ Search(k) \/ SlotsGone(k) \/ Confirm(k)
             \/ Reconcile(k) \/ CheckCancel(k) \/ ProviderError(k)
             \/ ProviderTimeout(k)
      PROVE  TypeOK'
    <2>1. wk' \in [Workers -> WorkerStates]
        BY <1>1, <1>2, <1>7
        DEF Replay, Search, SlotsGone, Confirm, Reconcile, CheckCancel,
            ProviderError, ProviderTimeout, WorkerPcs, ProviderPcs, Plans
    <2>2. UNCHANGED <<storeVars, call, reservation, notices>>
        BY <1>7
        DEF Replay, Search, SlotsGone, Confirm, Reconcile, CheckCancel,
            ProviderError, ProviderTimeout
    <2> QED  BY <1>4, <2>1, <2>2 DEF TypeOK
<1>8. ASSUME Permit(k)
      PROVE  TypeOK'
    <2>1. wk' \in [Workers -> WorkerStates]
        BY <1>1, <1>2, <1>8 DEF Permit, WorkerPcs, ProviderPcs, Plans
    <2>2. ASSUME GrantBooking(wk[k].tok, wk[k].rt)
          PROVE  StoreTypeOK'
        <3>1. wk[k].rt \in Runtimes
            BY <1>0 DEF WorkerStates
        <3>2. rt' \in Runtimes
            BY <2>2, <3>1 DEF GrantBooking, Runtimes
        <3> QED  BY <2>2, <3>2 DEF GrantBooking, TypeOK, StoreTypeOK
    <2>3. StoreTypeOK'
        BY <1>4, <1>8, <2>2 DEF Permit
    <2> QED  BY <1>8, <2>1, <2>3 DEF Permit, TypeOK
<1>9. ASSUME BookingLands(k)
      PROVE  TypeOK'
    <2>1. wk' \in [Workers -> WorkerStates]
        BY <1>1, <1>9 DEF BookingLands, WorkerPcs, ProviderPcs
    <2>2. reservation' \in BOOLEAN
        BY <1>9 DEF BookingLands
    <2> QED  BY <1>4, <1>9, <2>1, <2>2 DEF BookingLands, TypeOK
<1>10. ASSUME Commit(k)
       PROVE  TypeOK'
    <2>1. wk' \in [Workers -> WorkerStates]
        BY <1>1, <1>3, <1>10 DEF Commit, WorkerPcs
    <2>2. wk[k].rt \in Runtimes
        BY <1>0 DEF WorkerStates
    <2>3. ASSUME StatusAfter(wk[k]) = "ACTIVE" => wk[k].rt.seq < MaxSeq,
                 CommitWindow(wk[k].tok, wk[k].rt, DocAfter(wk[k]),
                              RuntimeAfter(wk[k]))
          PROVE  StoreTypeOK'
        <3>1. DocAfter(wk[k]) \in Docs /\ RuntimeAfter(wk[k]) \in Runtimes
            BY <1>0, <2>3, PlanTypes
        <3> QED  BY <2>2, <2>3, <3>1, CommitTypes DEF TypeOK
    <2>4. StoreTypeOK'
        BY <1>4, <1>10, <2>3 DEF Commit
    <2> QED  BY <1>10, <2>1, <2>4 DEF Commit, TypeOK
<1>11. ASSUME Announce(k)
       PROVE  TypeOK'
    <2>1. notices' \in Seq(Statuses)
        BY <1>0, <1>11, PlanTypes DEF Announce, TypeOK
    <2>2. wk' \in [Workers -> WorkerStates]
        BY <1>3, <1>11 DEF Announce
    <2> QED  BY <1>4, <1>11, <2>1, <2>2 DEF Announce, TypeOK
<1>12. ASSUME Release(k)
       PROVE  TypeOK'
    <2>1. wk' \in [Workers -> WorkerStates]
        BY <1>3, <1>12 DEF Release
    <2>2. claim' \in 0..MaxToken
        BY <1>12, BoundsAssumption
        DEF Release, ReleaseClaim, TypeOK, StoreTypeOK, NoClaim
    <2>3. StoreTypeOK'
        BY <1>12, <2>2 DEF Release, ReleaseClaim, TypeOK, StoreTypeOK
    <2> QED  BY <1>12, <2>1, <2>3 DEF Release, TypeOK
<1> QED
    BY <1>5, <1>6, <1>7, <1>8, <1>9, <1>10, <1>11, <1>12 DEF Delivery

\* Every step of a cancel or expire call keeps the types.
LEMMA CallingTypes ==
    ASSUME TypeOK, NEW c \in Callers, Calling(c) \/ CallAborts(c)
    PROVE  TypeOK'
<1>0. call[c] \in CallStates
    BY DEF TypeOK
<1>1. ASSUME Return(c)
      PROVE  call' \in [Callers -> CallStates]
    BY <1>1, EmptyTypes DEF Return, TypeOK
<1>2. ASSUME AfterCall(c)
      PROVE  call' \in [Callers -> CallStates]
    <2>1. CASE c \in Sweepers
        BY <1>2, <2>1 DEF AfterCall, TypeOK, CallStates, CallPcs
    <2>2. CASE c \notin Sweepers
        BY <1>1, <1>2, <2>2 DEF AfterCall
    <2> QED  BY <2>1, <2>2
<1>3. ASSUME UNCHANGED storeVars
      PROVE  StoreTypeOK'
    BY <1>3 DEF TypeOK, StoreTypeOK, storeVars
<1>4. ASSUME CallAtomically(c)
      PROVE  TypeOK'
    <2>1. StoreTypeOK'
        BY <1>4, CallTypes DEF CallAtomically, TypeOK, StoreTypeOK
    <2> QED  BY <1>2, <1>4, <2>1 DEF CallAtomically, TypeOK
<1>5. ASSUME CallReadsDoc(c) \/ CallRetries(c)
      PROVE  TypeOK'
    <2>1. doc \in Docs
        BY DEF TypeOK, StoreTypeOK
    <2>2. [call[c] EXCEPT !.pc = "runtime", !.doc = doc] \in CallStates
        BY <1>0, <2>1 DEF CallStates, CallPcs
    <2>3. call' \in [Callers -> CallStates]
        BY <1>1, <1>5, <2>2 DEF CallReadsDoc, CallRetries, TypeOK
    <2> QED  BY <1>3, <1>5, <2>3 DEF CallReadsDoc, CallRetries, TypeOK
<1>6. ASSUME CallReadsRuntime(c)
      PROVE  TypeOK'
    <2>1. rt \in Runtimes
        BY DEF TypeOK, StoreTypeOK
    <2>2. [call[c] EXCEPT !.pc = "script", !.rt = rt] \in CallStates
        BY <1>0, <2>1 DEF CallStates, CallPcs
    <2>3. call' \in [Callers -> CallStates]
        BY <1>1, <1>6, <2>2 DEF CallReadsRuntime, TypeOK
    <2> QED  BY <1>3, <1>6, <2>3 DEF CallReadsRuntime, TypeOK
<1>7. ASSUME CallRunsScript(c)
      PROVE  TypeOK'
    <2>1. CASE ApplyCall(c, call[c].doc, call[c].rt) /\ AfterCall(c)
        <3>1. call[c].doc \in Docs /\ call[c].rt \in Runtimes
            BY <1>0 DEF CallStates
        <3>2. StoreTypeOK'
            BY <2>1, <3>1, CallTypes DEF TypeOK
        <3> QED  BY <1>2, <1>7, <2>1, <3>2 DEF CallRunsScript, TypeOK
    <2>2. CASE UNCHANGED storeVars /\ Return(c)
        BY <1>1, <1>3, <1>7, <2>2 DEF CallRunsScript, TypeOK
    <2>3. CASE /\ UNCHANGED storeVars
               /\ call[c].tries + 1 < CancelTries
               /\ call' = [call EXCEPT ![c] = [IdleCall EXCEPT !.pc = "again",
                                                  !.tries = call[c].tries + 1]]
        <3>1. call[c].tries + 1 \in 0..CancelTries
            BY <1>0, <2>3, PollingAssumption DEF CallStates
        <3>2. [IdleCall EXCEPT !.pc = "again", !.tries = call[c].tries + 1]
                \in CallStates
            BY <3>1, EmptyTypes DEF CallStates, CallPcs
        <3>3. call' \in [Callers -> CallStates]
            BY <2>3, <3>2 DEF TypeOK
        <3> QED  BY <1>3, <1>7, <2>3, <3>3 DEF CallRunsScript, TypeOK
    <2> QED  BY <1>7, <2>1, <2>2, <2>3 DEF CallRunsScript
<1>8. ASSUME AnnounceExpiry(c)
      PROVE  TypeOK'
    <2>1. notices' \in Seq(Statuses)
        BY <1>8 DEF AnnounceExpiry, TypeOK, Statuses, Terminal
    <2> QED  BY <1>1, <1>3, <1>8, <2>1 DEF AnnounceExpiry, TypeOK
<1>9. ASSUME CallAborts(c)
      PROVE  TypeOK'
    BY <1>1, <1>3, <1>9 DEF CallAborts, TypeOK
<1> QED  BY <1>4, <1>5, <1>6, <1>7, <1>8, <1>9 DEF Calling

\* Creation, crashes, time and cleanup keep the types.
LEMMA OtherTypes ==
    ASSUME TypeOK,
           \/ \E auto \in BOOLEAN : Create(auto)
           \/ \E k \in Workers : Crash(k)
           \/ LeaseExpires \/ Housekeeping \/ Ageing
    PROVE  TypeOK'
<1>1. ASSUME NEW auto \in BOOLEAN, Create(auto)
      PROVE  TypeOK'
    <2>1. doc' \in Docs
        BY <1>1, BoundsAssumption DEF Create, CreateWithSchedule, Docs, Statuses
    <2>2. fence' \in 0..MaxToken
        BY <1>1, BoundsAssumption DEF Create, CreateWithSchedule
    <2>3. active' \in BOOLEAN /\ indexed' \in BOOLEAN
        BY <1>1 DEF Create, CreateWithSchedule
    <2>4. StoreTypeOK'
        BY <1>1, <2>1, <2>2, <2>3, EmptyTypes
        DEF Create, CreateWithSchedule, TypeOK, StoreTypeOK
    <2> QED  BY <1>1, <2>4 DEF Create, TypeOK
<1>2. ASSUME NEW k \in Workers, Crash(k)
      PROVE  TypeOK'
    <2>1. wk' \in [Workers -> WorkerStates]
        BY <1>2, EmptyTypes DEF Crash, Rest, TypeOK
    <2>2. StoreTypeOK'
        BY <1>2 DEF Crash, TypeOK, StoreTypeOK, storeVars
    <2> QED  BY <1>2, <2>1, <2>2 DEF Crash, TypeOK
<1>3. ASSUME CleanupDue
      PROVE  StoreTypeOK'
    <2>1. CASE IsTerminal
        <3>1. active' \in BOOLEAN /\ indexed' \in BOOLEAN
            BY <1>3, <2>1 DEF CleanupDue
        <3>2. fence' \in 0..MaxToken /\ claim' \in 0..MaxToken
            BY <1>3, <2>1, BoundsAssumption DEF CleanupDue, NoClaim
        <3> QED  BY <1>3, <2>1, <3>1, <3>2, EmptyTypes
                DEF CleanupDue, TypeOK, StoreTypeOK
    <2>2. CASE ~IsTerminal
        BY <1>3, <2>2 DEF CleanupDue, TypeOK, StoreTypeOK
    <2> QED  BY <2>1, <2>2
<1>4. ASSUME PruneIndex
      PROVE  StoreTypeOK'
    <2>1. indexed' \in BOOLEAN
        BY <1>4 DEF PruneIndex
    <2> QED  BY <1>4, <2>1 DEF PruneIndex, TypeOK, StoreTypeOK
<1>5. ASSUME \/ MarkerBecomesDue \/ RetentionElapses \/ BackstopTTL
             \/ LifetimeElapses \/ LeaseLapses
      PROVE  StoreTypeOK'
    <2>1. claim' \in 0..MaxToken
        BY <1>5, BoundsAssumption
        DEF MarkerBecomesDue, RetentionElapses, BackstopTTL, LifetimeElapses,
            LeaseLapses, TypeOK, StoreTypeOK, NoClaim
    <2> QED  BY <1>5, <2>1, EmptyTypes
        DEF MarkerBecomesDue, RetentionElapses, BackstopTTL, LifetimeElapses,
            LeaseLapses, TypeOK, StoreTypeOK
<1>6. ASSUME LeaseExpires \/ Housekeeping \/ Ageing
      PROVE  TypeOK'
    BY <1>3, <1>4, <1>5, <1>6 DEF LeaseExpires, Housekeeping, Ageing, TypeOK
<1> QED  BY <1>1, <1>2, <1>6

\* Every step keeps the types.
LEMMA NextTypes == TypeOK /\ [Next]_vars => TypeOK'
<1>1. ASSUME TypeOK, UNCHANGED vars
      PROVE  TypeOK'
    BY <1>1 DEF TypeOK, StoreTypeOK, vars, storeVars
<1>2. ASSUME TypeOK, Next
      PROVE  TypeOK'
    BY <1>2, DeliveryTypes, CallingTypes, OtherTypes DEF Next
<1> QED  BY <1>1, <1>2

\* The variables of WatchPolling keep their types in every behaviour.
THEOREM TypeCorrect == Spec => []TypeOK
<1> QED  BY InitTypes, NextTypes, PTL DEF Spec

-----------------------------------------------------------------------------
(* What the steps do, in the terms of the invariant                        *)

\* A store that keeps its document, events, indexes and the revision, window
\* and sequence of its sidecar.  A claim may be dropped, the booking phase or a
\* cancel request recorded, a marker or a retention may become due.
Undisturbed ==
    /\ UNCHANGED <<doc, active, indexed, events>>
    /\ rt'.rev = rt.rev /\ rt'.seq = rt.seq /\ rt'.window = rt.window
    /\ claim' \in {claim, NoClaim}
    /\ marker' = "none" <=> marker = "none"
    /\ retention' = "none" <=> retention = "none"

\* A step of delivery k, or its death, that does not disturb the store and
\* either keeps its claim and snapshot or drops them.
QuietDelivery(k) ==
    /\ Undisturbed
    /\ UNCHANGED <<call, notices>>
    /\ \A j \in Workers : j # k => wk'[j] = wk[j]
    /\ wk'[k].pc # "announce"
    /\ wk'[k].pc # "idle" =>
         /\ InFlight(k)
         /\ wk'[k].tok = wk[k].tok /\ wk'[k].doc = wk[k].doc
         /\ wk'[k].rt = wk[k].rt

\* A step of call c that does not disturb the store and holds what it just read.
QuietCall(c) ==
    /\ Undisturbed
    /\ UNCHANGED <<wk, notices>>
    /\ \A d \in Callers : d # c => call'[d] = call[d]
    /\ call'[c].pc # "announce"
    /\ call'[c].pc \in {"runtime", "again", "script"} => doc.status # "NEW"
    /\ call'[c].pc = "runtime" => call'[c].doc = doc
    /\ call'[c].pc = "script" => /\ call[c].pc = "runtime"
                                 /\ call'[c].doc = call[c].doc
                                 /\ call'[c].rt = rt

\* A step that leaves the store alone does not disturb it.
LEMMA SameStore == UNCHANGED storeVars => Undisturbed
<1> QED  BY DEF storeVars, Undisturbed

\* Moving, deciding and dying are quiet.
LEMMA QuietSteps ==
    ASSUME TypeOK, NEW k \in Workers,
           Undisturbed, UNCHANGED <<call, notices>>,
           \/ InFlight(k) /\ \E pc \in WorkerPcs \ {"announce"} : GoTo(k, pc)
           \/ InFlight(k) /\ \E p \in Plans : Decide(k, p)
           \/ Rest(k)
    PROVE  QuietDelivery(k)
<1>0. wk \in [Workers -> WorkerStates]
    BY DEF TypeOK
<1>1. CASE InFlight(k) /\ \E pc \in WorkerPcs \ {"announce"} : GoTo(k, pc)
    BY <1>0, <1>1 DEF GoTo, QuietDelivery, WorkerStates
<1>2. CASE InFlight(k) /\ \E p \in Plans : Decide(k, p)
    BY <1>0, <1>2 DEF Decide, QuietDelivery, WorkerStates
<1>3. CASE Rest(k)
    BY <1>0, <1>3 DEF Rest, IdleWorker, QuietDelivery
<1> QED  BY <1>1, <1>2, <1>3

\* The steps of a delivery that are quiet.
LEMMA QuietDeliveries ==
    ASSUME TypeOK, NEW k \in Workers,
           \/ RunClaimed(k) \/ Replay(k) \/ Search(k) \/ BookingLands(k)
           \/ SlotsGone(k) \/ Confirm(k) \/ Reconcile(k) \/ CheckCancel(k)
           \/ ProviderError(k) \/ ProviderTimeout(k) \/ Crash(k)
    PROVE  QuietDelivery(k)
<1>1. CASE RunClaimed(k)
    <2>1. Undisturbed /\ UNCHANGED <<call, notices>>
        BY <1>1, SameStore DEF RunClaimed
    <2>2. wk \in [Workers -> WorkerStates]
        BY DEF TypeOK
    <2>3. /\ \A j \in Workers : j # k => wk'[j] = wk[j]
          /\ \/ wk'[k] = [wk[k] EXCEPT !.life = life, !.pc = "commit",
                                        !.plan = "EXPIRE"]
             \/ wk'[k] = [wk[k] EXCEPT !.life = life, !.pc = "replay"]
             \/ wk'[k] = [wk[k] EXCEPT !.life = life, !.pc = "search"]
        BY <1>1, <2>2 DEF RunClaimed
    <2>4. InFlight(k)
        BY <1>1 DEF RunClaimed, InFlight
    <2> QED  BY <2>1, <2>2, <2>3, <2>4 DEF QuietDelivery, WorkerStates
<1>2. CASE \/ Replay(k) \/ Search(k) \/ BookingLands(k)
           \/ SlotsGone(k) \/ Confirm(k) \/ Reconcile(k) \/ CheckCancel(k)
           \/ ProviderError(k) \/ ProviderTimeout(k)
    <2>1. Undisturbed /\ UNCHANGED <<call, notices>>
        BY <1>2, SameStore DEF Replay, Search, BookingLands, SlotsGone, Confirm, Reconcile,
            CheckCancel, ProviderError, ProviderTimeout
    <2>2. InFlight(k)
        BY <1>2 DEF Replay, Search, BookingLands, SlotsGone, Confirm, Reconcile,
            CheckCancel, ProviderError, ProviderTimeout, InFlight, ProviderPcs
    <2>3. \/ \E pc \in WorkerPcs \ {"announce"} : GoTo(k, pc)
          \/ \E p \in Plans : Decide(k, p)
        BY <1>2 DEF Replay, Search, BookingLands, SlotsGone, Confirm, Reconcile,
            CheckCancel, ProviderError, ProviderTimeout, WorkerPcs, ProviderPcs,
            Plans
    <2> QED  BY <2>1, <2>2, <2>3, QuietSteps
<1>3. CASE Crash(k)
    BY <1>3, SameStore, QuietSteps DEF Crash
<1> QED  BY <1>1, <1>2, <1>3

\* The steps of a call that are quiet.
LEMMA QuietCalls ==
    ASSUME TypeOK, NEW c \in Callers, Unborn,
           \/ CallReadsDoc(c) \/ CallReadsRuntime(c) \/ CallRetries(c)
           \/ CallAborts(c)
           \/ CallRunsScript(c) /\ UNCHANGED storeVars
                                /\ ~SameRevision(call[c].rt)
    PROVE  QuietCall(c)
<1>0. call \in [Callers -> CallStates]
    BY DEF TypeOK
<1>1. ASSUME Return(c), UNCHANGED <<storeVars, wk, notices>>
      PROVE  QuietCall(c)
    BY <1>0, <1>1, SameStore DEF Return, IdleCall, QuietCall
<1>2. CASE CallReadsDoc(c) \/ CallRetries(c)
    BY <1>0, <1>1, <1>2, SameStore
    DEF CallReadsDoc, CallRetries, QuietCall, CallStates, IsActive
<1>3. CASE CallReadsRuntime(c)
    BY <1>0, <1>1, <1>3, SameStore DEF CallReadsRuntime, QuietCall, CallStates, Unborn
<1>4. CASE CallAborts(c)
    BY <1>1, <1>4 DEF CallAborts
<1>5. CASE CallRunsScript(c) /\ UNCHANGED storeVars /\ ~SameRevision(call[c].rt)
    <2>1. ~ApplyCall(c, call[c].doc, call[c].rt)
        BY <1>5 DEF ApplyCall, FinishIfActive, RecordCancel
    <2>2. CASE Return(c)
        BY <1>1, <1>5, <2>2 DEF CallRunsScript
    <2>3. CASE call' = [call EXCEPT ![c] = [IdleCall EXCEPT !.pc = "again",
                                              !.tries = call[c].tries + 1]]
        BY <1>0, <1>5, <2>3, SameStore DEF CallRunsScript, QuietCall, IdleCall, Unborn
    <2> QED  BY <1>5, <2>1, <2>2, <2>3 DEF CallRunsScript
<1> QED  BY <1>2, <1>3, <1>4, <1>5

\* What a commit that is not refused does: the delivery's snapshot is current,
\* and the document it writes is one step away from the stored one.
LEMMA CommitEffect ==
    ASSUME TypeOK, SnapshotsFenced, NEW k \in Workers, wk[k].pc = "commit",
           StatusAfter(wk[k]) = "ACTIVE" => wk[k].rt.seq < MaxSeq,
           CommitWindow(wk[k].tok, wk[k].rt, DocAfter(wk[k]), RuntimeAfter(wk[k]))
    PROVE  /\ IsActive
           /\ doc'.status = StatusAfter(wk[k])
           /\ doc'.attempts \in {doc.attempts, doc.attempts + 1}
           /\ rt'.rev = rt.rev + 1
           /\ rt'.seq = IF doc'.status = "ACTIVE" THEN rt.seq + 1 ELSE rt.seq
           /\ rt'.window = IF doc'.status = "ACTIVE" THEN rt'.seq ELSE NoWindow
<1> DEFINE w == wk[k]
<1>1. w \in WorkerStates /\ w.doc \in Docs /\ w.rt \in Runtimes
    BY DEF TypeOK, WorkerStates
<1>2. IsActive /\ rt.rev = w.rt.rev
    BY DEF CommitWindow, Owns
<1>3. InFlight(k)
    BY DEF InFlight
<1>4. doc = w.doc /\ rt.seq = w.rt.seq
    BY <1>2, <1>3 DEF SnapshotsFenced
<1>5. /\ doc' = DocAfter(w)
      /\ rt' = [RuntimeAfter(w) EXCEPT !.rev = w.rt.rev + 1, !.phase = "none"]
    BY DEF CommitWindow
<1>6. /\ doc'.status = StatusAfter(w)
      /\ doc'.attempts = AttemptsAfter(w)
    BY <1>1, <1>5 DEF DocAfter, Docs
<1>7. AttemptsAfter(w) \in {doc.attempts, doc.attempts + 1}
    BY <1>4 DEF AttemptsAfter
<1>8. RuntimeAfter(w) \in Runtimes
    BY <1>1, PlanTypes
<1>9. /\ rt'.rev = w.rt.rev + 1
      /\ rt'.seq = RuntimeAfter(w).seq /\ rt'.window = RuntimeAfter(w).window
    BY <1>5, <1>8 DEF Runtimes
<1>10. CASE StatusAfter(w) = "ACTIVE"
    <2>1. RuntimeAfter(w).seq = w.rt.seq + 1 /\ RuntimeAfter(w).window = w.rt.seq + 1
        BY <1>1, <1>10 DEF RuntimeAfter, Runtimes
    <2> QED  BY <1>2, <1>4, <1>6, <1>7, <1>9, <1>10, <2>1
<1>11. CASE StatusAfter(w) # "ACTIVE"
    <2>1. RuntimeAfter(w).seq = w.rt.seq /\ RuntimeAfter(w).window = NoWindow
        BY <1>1, <1>11 DEF RuntimeAfter, Runtimes
    <2> QED  BY <1>2, <1>4, <1>6, <1>7, <1>9, <1>11, <2>1
<1> QED  BY <1>10, <1>11

\* How a cancel or expiry that is applied changes the watch.
CallFinishes(c, d) ==
    /\ IsActive
    /\ doc'.status = IF c \in Sweepers THEN "EXPIRED" ELSE "CANCELLED"
    /\ doc'.attempts = d.attempts
    /\ rt'.seq = rt.seq
    /\ rt'.window = NoWindow
    /\ Unschedule
    /\ IssueEvent(doc'.status, rt.rev + 1)
    /\ UNCHANGED <<fence, indexed, life>>

CallRecords(c) ==
    /\ IsActive
    /\ c \notin Sweepers
    /\ Undisturbed

\* An applied call finishes the watch or only records the request.
LEMMA CallEffect ==
    ASSUME TypeOK, NEW c \in Callers, NEW d \in Docs, NEW r \in Runtimes,
           IsActive /\ r.rev = rt.rev => r.seq = rt.seq /\ r.window = rt.window,
           ApplyCall(c, d, r)
    PROVE  CallFinishes(c, d) \/ CallRecords(c)
<1>1. ASSUME NEW s \in {"EXPIRED", "CANCELLED"}, FinishIfActive(s, d, r),
             s = IF c \in Sweepers THEN "EXPIRED" ELSE "CANCELLED"
      PROVE  CallFinishes(c, d)
    <2>1. IsActive /\ rt.rev = r.rev
        BY <1>1 DEF FinishIfActive, SameRevision
    <2>2. doc'.status = s /\ doc'.attempts = d.attempts
        BY <1>1 DEF FinishIfActive, Docs
    <2>3. rt'.seq = r.seq /\ rt'.window = NoWindow
        BY <1>1 DEF FinishIfActive, FinishedRuntime, Runtimes
    <2> QED  BY <1>1, <2>1, <2>2, <2>3 DEF FinishIfActive, CallFinishes
<1>2. ASSUME RecordCancel(r), c \notin Sweepers
      PROVE  CallRecords(c)
    <2>1. rt'.rev = r.rev /\ rt'.seq = r.seq /\ rt'.window = r.window
        BY <1>2 DEF RecordCancel, Runtimes
    <2> QED  BY <1>2, <2>1 DEF RecordCancel, SameRevision, CallRecords,
                               Undisturbed
<1> QED  BY <1>1, <1>2 DEF ApplyCall

-----------------------------------------------------------------------------
(* The invariant is inductive                                              *)

\* Initially the invariant holds.
LEMMA InitInv == Init => IndInv
<1> SUFFICES ASSUME Init PROVE IndInv
    OBVIOUS
<1>1. TypeOK
    BY InitTypes
<1>2. /\ doc.status = "NEW" /\ marker = "none" /\ ~active /\ ~indexed
      /\ claim = NoClaim /\ retention = "none" /\ events = {} /\ notices = <<>>
    BY DEF Init, StoreInit, NoDoc
<1>3. /\ \A k \in Workers : wk[k].pc = "idle"
      /\ \A c \in Callers : call[c].pc = "idle"
    BY DEF Init, IdleWorker, IdleCall
<1> QED
    BY <1>1, <1>2, <1>3
    DEF IndInv, Unborn, NeverStranded, SnapshotsFenced, CallsFenced,
        WindowChargedOnce, OneAnnouncer, InFlight, IsActive, IsTerminal, Terminal

\* What the invariant says of the store alone is not disturbed.
LEMMA UndisturbedStore ==
    ASSUME NeverStranded, WindowChargedOnce, Undisturbed
    PROVE  (NeverStranded /\ WindowChargedOnce)'
<1> QED  BY DEF NeverStranded, WindowChargedOnce, Undisturbed, IsActive, IsTerminal

\* A step that moves nobody and does not disturb the store keeps the invariant.
LEMMA StoreOnlyInv ==
    ASSUME IndInv, TypeOK', Undisturbed, UNCHANGED <<wk, call, notices>>
    PROVE  IndInv'
<1>1. (NeverStranded /\ WindowChargedOnce)'
    BY UndisturbedStore DEF IndInv
<1>2. (Unborn /\ SnapshotsFenced /\ CallsFenced)'
    BY DEF IndInv, Undisturbed, Unborn, SnapshotsFenced, CallsFenced, InFlight,
           IsActive
<1>3. OneAnnouncer'
    BY DEF IndInv, Undisturbed, OneAnnouncer, Outcome, IsActive, IsTerminal,
           StatusAfter, AttemptsAfter
<1> QED  BY <1>1, <1>2, <1>3 DEF IndInv

\* A quiet step of a delivery, or its death, keeps the invariant.
LEMMA QuietDeliveryInv ==
    ASSUME IndInv, TypeOK', NEW k \in Workers, QuietDelivery(k)
    PROVE  IndInv'
<1>1. (NeverStranded /\ WindowChargedOnce)'
    BY UndisturbedStore DEF IndInv, QuietDelivery
<1>2. Unborn'
    BY DEF IndInv, QuietDelivery, Undisturbed, Unborn, InFlight
<1>3. SnapshotsFenced'
    BY DEF IndInv, QuietDelivery, Undisturbed, SnapshotsFenced, InFlight, IsActive
<1>4. CallsFenced'
    BY DEF IndInv, QuietDelivery, Undisturbed, CallsFenced, IsActive
<1>5. OneAnnouncer'
    BY DEF IndInv, QuietDelivery, Undisturbed, OneAnnouncer, Outcome, IsActive,
           IsTerminal, StatusAfter, AttemptsAfter
<1> QED  BY <1>1, <1>2, <1>3, <1>4, <1>5 DEF IndInv

\* A quiet step of a call keeps the invariant.
LEMMA QuietCallInv ==
    ASSUME IndInv, TypeOK', NEW c \in Callers, QuietCall(c)
    PROVE  IndInv'
<1>1. (NeverStranded /\ WindowChargedOnce)'
    BY UndisturbedStore DEF IndInv, QuietCall
<1>2. SnapshotsFenced'
    BY DEF IndInv, QuietCall, Undisturbed, SnapshotsFenced, InFlight, IsActive
<1>3. call'[c].pc \in CallPcs
    BY DEF TypeOK, CallStates
<1>4. Unborn'
    BY <1>3 DEF IndInv, QuietCall, Undisturbed, Unborn, CallPcs
<1>5. CallsFenced'
    <2>1. rt.rev \in Nat /\ doc.attempts \in Nat
        BY DEF IndInv, TypeOK, StoreTypeOK, Runtimes, Docs
    <2> QED  BY <2>1 DEF IndInv, QuietCall, Undisturbed, CallsFenced, IsActive
<1>6. OneAnnouncer'
    BY DEF IndInv, QuietCall, Undisturbed, OneAnnouncer, Outcome, IsActive,
           IsTerminal, StatusAfter, AttemptsAfter
<1> QED  BY <1>1, <1>2, <1>4, <1>5, <1>6 DEF IndInv

\* A claim keeps the invariant: the new snapshot is the stored state.
LEMMA ClaimInv ==
    ASSUME IndInv, TypeOK', NEW k \in Workers, NEW w, NEW i, PollWindow(k, w, i)
    PROVE  IndInv'
<1>1. /\ UNCHANGED <<doc, rt, marker, active, indexed, retention, events, life,
                     call, notices>>
      /\ IsActive /\ fence' = fence + 1 /\ claim' = fence + 1
    BY DEF PollWindow, ClaimWindow, CanClaim
<1>2. fence \in Nat /\ rt.rev \in Nat
    BY DEF IndInv, TypeOK, StoreTypeOK, Runtimes
<1>3. /\ \A j \in Workers : j # k => wk'[j] = wk[j]
      /\ wk'[k].pc = "claimed" /\ wk'[k].tok = fence + 1
      /\ wk'[k].doc = doc /\ wk'[k].rt = rt
    BY DEF PollWindow, IdleWorker, IndInv, TypeOK
<1>4. (Unborn /\ NeverStranded /\ WindowChargedOnce)'
    BY <1>1
    DEF IndInv, Unborn, NeverStranded, WindowChargedOnce, IsActive, IsTerminal,
        Terminal
<1>5. SnapshotsFenced'
    BY <1>1, <1>2, <1>3
    DEF IndInv, SnapshotsFenced, InFlight, IsActive, NoClaim
<1>6. CallsFenced'
    BY <1>1 DEF IndInv, CallsFenced, IsActive
<1>7. OneAnnouncer'
    BY <1>1, <1>3 DEF IndInv, OneAnnouncer, IsActive
<1> QED  BY <1>4, <1>5, <1>6, <1>7 DEF IndInv

\* A booking permit keeps the invariant: the phase it records is not part of it.
LEMMA PermitInv ==
    ASSUME IndInv, TypeOK', NEW k \in Workers, Permit(k)
    PROVE  IndInv'
<1>0. TypeOK /\ SnapshotsFenced
    BY DEF IndInv
<1>1. InFlight(k)
    BY DEF Permit, InFlight
<1>2. Undisturbed
    <2>1. CASE UNCHANGED storeVars
        BY <2>1, SameStore
    <2>2. CASE GrantBooking(wk[k].tok, wk[k].rt)
        <3>1. wk[k].rt \in Runtimes
            BY <1>0 DEF TypeOK, WorkerStates
        <3>2. /\ rt'.rev = wk[k].rt.rev /\ rt'.seq = wk[k].rt.seq
              /\ rt'.window = wk[k].rt.window
            BY <2>2, <3>1 DEF GrantBooking, Runtimes
        <3>3. IsActive /\ rt.rev = wk[k].rt.rev
            BY <2>2 DEF GrantBooking, Owns
        <3>4. rt.seq = wk[k].rt.seq /\ rt.window = wk[k].rt.window
            BY <1>0, <1>1, <3>3 DEF SnapshotsFenced
        <3> QED  BY <2>2, <3>2, <3>3, <3>4 DEF GrantBooking, Undisturbed
    <2> QED  BY <2>1, <2>2 DEF Permit
<1>3. \/ \E pc \in WorkerPcs \ {"announce"} : GoTo(k, pc)
      \/ \E p \in Plans : Decide(k, p)
    BY DEF Permit, WorkerPcs, ProviderPcs, Plans
<1>4. UNCHANGED <<call, notices>>
    BY DEF Permit
<1> QED  BY <1>0, <1>1, <1>2, <1>3, <1>4, QuietSteps, QuietDeliveryInv

\* Releasing a claim keeps the invariant.
LEMMA ReleaseInv ==
    ASSUME IndInv, TypeOK', NEW k \in Workers, Release(k)
    PROVE  IndInv'
<1>1. Undisturbed
    BY DEF Release, ReleaseClaim, Undisturbed
<1>2. QuietDelivery(k)
    BY <1>1, QuietSteps DEF Release, IndInv
<1> QED  BY <1>2, QuietDeliveryInv

\* A commit that is not refused keeps the invariant: its snapshot was current,
\* so it moves the cadence by one window or finishes the watch, and then its
\* delivery is the only announcer.
LEMMA CommittedInv ==
    ASSUME IndInv, TypeOK', NEW k \in Workers, wk[k].pc = "commit",
           UNCHANGED <<call, notices>>,
           StatusAfter(wk[k]) = "ACTIVE" => wk[k].rt.seq < MaxSeq,
           CommitWindow(wk[k].tok, wk[k].rt, DocAfter(wk[k]), RuntimeAfter(wk[k])),
           IF StatusAfter(wk[k]) \in EventStatuses THEN GoTo(k, "announce")
           ELSE Rest(k)
    PROVE  IndInv'
<1> DEFINE s == StatusAfter(wk[k])
<1>0. TypeOK /\ SnapshotsFenced /\ IsActive
    BY DEF IndInv, CommitWindow, Owns
<1>1. /\ doc'.status = s
      /\ doc'.attempts \in {doc.attempts, doc.attempts + 1}
      /\ rt'.rev = rt.rev + 1
      /\ rt'.seq = IF s = "ACTIVE" THEN rt.seq + 1 ELSE rt.seq
      /\ rt'.window = IF s = "ACTIVE" THEN rt'.seq ELSE NoWindow
    BY <1>0, CommitEffect
<1>2. /\ rt.rev \in Nat /\ rt.seq \in Nat /\ doc.attempts \in Nat
      /\ \A j \in Workers : wk[j].rt.rev \in Nat
      /\ \A c \in Callers : call[c].rt.rev \in Nat /\ call[c].doc.attempts \in Nat
    <2>1. rt.rev \in Nat /\ rt.seq \in Nat /\ doc.attempts \in Nat
        BY <1>0 DEF TypeOK, StoreTypeOK, Runtimes, Docs
    <2>2. \A j \in Workers : wk[j].rt.rev \in Nat
        BY <1>0 DEF TypeOK, WorkerStates, Runtimes
    <2>3. \A c \in Callers : call[c].rt \in Runtimes /\ call[c].doc \in Docs
        BY <1>0 DEF TypeOK, CallStates
    <2> QED  BY <2>1, <2>2, <2>3 DEF Runtimes, Docs
<1>3. /\ s \in Statuses
      /\ (DocAfter(wk[k])).status = s
    <2>1. wk[k] \in WorkerStates /\ wk[k].doc \in Docs
        BY <1>0 DEF TypeOK, WorkerStates
    <2>2. s \in Statuses
        BY <2>1, PlanTypes
    <2> QED  BY <2>1, <2>2 DEF DocAfter, Docs
<1>4. /\ \A j \in Workers : j # k => wk'[j] = wk[j]
      /\ wk'[k].pc = IF s \in EventStatuses THEN "announce" ELSE "idle"
      /\ s \in EventStatuses => StatusAfter(wk'[k]) = s
    <2>1. wk \in [Workers -> WorkerStates]
        BY <1>0 DEF TypeOK
    <2>2. CASE s \in EventStatuses
        <3>1. wk' = [wk EXCEPT ![k] = [wk[k] EXCEPT !.pc = "announce"]]
            BY <2>2 DEF GoTo
        <3>2. /\ wk'[k].pc = "announce" /\ wk'[k].doc = wk[k].doc
              /\ wk'[k].plan = wk[k].plan /\ wk'[k].life = wk[k].life
            BY <2>1, <3>1 DEF WorkerStates
        <3>3. StatusAfter(wk'[k]) = s
            BY <3>2 DEF StatusAfter, AttemptsAfter
        <3> QED  BY <2>1, <2>2, <3>1, <3>2, <3>3
    <2>3. CASE s \notin EventStatuses
        BY <2>1, <2>3 DEF Rest, IdleWorker
    <2> QED  BY <2>2, <2>3
<1>5. indexed' = indexed /\ claim' = NoClaim
    BY DEF CommitWindow, Unschedule
<1>6. ASSUME s = "ACTIVE"
      PROVE  /\ marker' = "future" /\ active' = active
             /\ retention' = retention /\ events' = events
    BY <1>3, <1>6 DEF CommitWindow, Terminal
<1>7. ASSUME s # "ACTIVE"
      PROVE  /\ s \in Terminal /\ marker' = "none" /\ ~active'
             /\ retention' = "kept"
             /\ s \in EventStatuses => \E e \in events' : e.status = s
    <2>1. s \in Terminal
        BY <1>3, <1>7 DEF Statuses
    <2>2. Unschedule /\ IssueEvent(s, wk[k].rt.rev + 1)
        BY <1>3, <2>1 DEF CommitWindow
    <2>3. marker' = "none" /\ ~active' /\ retention' = "kept"
        BY <2>2 DEF Unschedule
    <2>4. s \in EventStatuses =>
            [status |-> s, rev |-> wk[k].rt.rev + 1] \in events'
        BY <2>2 DEF IssueEvent
    <2> QED  BY <2>1, <2>3, <2>4
<1>8. (Unborn /\ NeverStranded)'
    <2>1. marker # "none" /\ active /\ indexed /\ retention = "none"
        BY <1>0 DEF IndInv, NeverStranded
    <2>2. CASE s = "ACTIVE"
        BY <1>1, <1>5, <1>6, <2>1, <2>2
        DEF Unborn, NeverStranded, IsActive, IsTerminal, Terminal
    <2>3. CASE s # "ACTIVE"
        BY <1>1, <1>5, <1>7, <2>1, <2>3
        DEF Unborn, NeverStranded, IsActive, IsTerminal, Terminal
    <2> QED  BY <2>2, <2>3
<1>9. WindowChargedOnce'
    BY <1>0, <1>1, <1>2, <1>3
    DEF IndInv, WindowChargedOnce, IsActive, IsTerminal, Terminal
<1>10. SnapshotsFenced'
    BY <1>0, <1>1, <1>2, <1>4 DEF SnapshotsFenced, InFlight, IsActive
<1>11. CallsFenced'
    BY <1>0, <1>1, <1>2 DEF IndInv, CallsFenced, IsActive
<1>12. OneAnnouncer'
    <2>1. /\ events = {} /\ notices = <<>>
          /\ \A j \in Workers : wk[j].pc # "announce"
          /\ \A c \in Callers : call[c].pc # "announce"
        BY <1>0 DEF IndInv, OneAnnouncer
    <2>2. CASE s = "ACTIVE"
        BY <1>1, <1>4, <1>6, <2>1, <2>2
        DEF OneAnnouncer, IsActive, EventStatuses
    <2>3. CASE s # "ACTIVE"
        BY <1>1, <1>4, <1>7, <2>1, <2>3
        DEF OneAnnouncer, Outcome, IsActive, IsTerminal, Terminal
    <2> QED  BY <2>2, <2>3
<1> QED  BY <1>8, <1>9, <1>10, <1>11, <1>12 DEF IndInv

\* A commit, refused or not, keeps the invariant.
LEMMA CommitInv ==
    ASSUME IndInv, TypeOK', NEW k \in Workers, Commit(k)
    PROVE  IndInv'
<1>1. CASE Rest(k) /\ UNCHANGED storeVars
    BY <1>1, SameStore, QuietSteps, QuietDeliveryInv DEF Commit, IndInv
<1>2. CASE /\ StatusAfter(wk[k]) = "ACTIVE" => wk[k].rt.seq < MaxSeq
           /\ CommitWindow(wk[k].tok, wk[k].rt, DocAfter(wk[k]),
                           RuntimeAfter(wk[k]))
           /\ IF StatusAfter(wk[k]) \in EventStatuses THEN GoTo(k, "announce")
              ELSE Rest(k)
    BY <1>2, CommittedInv DEF Commit
<1> QED  BY <1>1, <1>2 DEF Commit

\* A cancel or expiry that finishes the watch keeps the invariant; an expiry's
\* sweep is then the only announcer.
LEMMA CallFinishesInv ==
    ASSUME IndInv, TypeOK', NEW c \in Callers, NEW d \in Docs,
           d.attempts <= doc.attempts,
           CallFinishes(c, d), AfterCall(c), UNCHANGED <<wk, notices>>
    PROVE  IndInv'
<1> DEFINE s == IF c \in Sweepers THEN "EXPIRED" ELSE "CANCELLED"
<1>1. /\ IsActive /\ doc'.status = s /\ doc'.attempts = d.attempts
      /\ rt'.seq = rt.seq /\ rt'.window = NoWindow
      /\ claim' = NoClaim /\ marker' = "none" /\ retention' = "kept"
      /\ indexed' = indexed
    BY DEF CallFinishes, Unschedule
<1>2. ~active'
    BY DEF CallFinishes, Unschedule
<1>3. s = "EXPIRED" => \E e \in events' : e.status = "EXPIRED"
    <2>1. ASSUME s = "EXPIRED"
          PROVE  [status |-> "EXPIRED", rev |-> rt.rev + 1] \in events'
        BY <1>1, <2>1 DEF CallFinishes, IssueEvent, EventStatuses
    <2> QED  BY <2>1
<1>4. /\ \A b \in Callers : b # c => call'[b] = call[b]
      /\ call'[c].pc = IF s = "EXPIRED" THEN "announce" ELSE "idle"
    <2>1. call \in [Callers -> CallStates]
        BY DEF IndInv, TypeOK
    <2> QED  BY <2>1 DEF AfterCall, Return, IdleCall, CallStates
<1>5. doc.attempts \in Nat /\ rt.seq \in Nat /\ d.attempts \in Nat
    BY DEF IndInv, TypeOK, StoreTypeOK, Docs, Runtimes
<1>6. (Unborn /\ NeverStranded)'
    BY <1>1, <1>2
    DEF IndInv, Unborn, NeverStranded, IsActive, IsTerminal, Terminal
<1>7. WindowChargedOnce'
    BY <1>1, <1>5 DEF IndInv, WindowChargedOnce, IsActive, IsTerminal, Terminal
<1>8. (SnapshotsFenced /\ CallsFenced)'
    BY <1>1 DEF IndInv, SnapshotsFenced, CallsFenced, IsActive, InFlight
<1>9. OneAnnouncer'
    <2>1. /\ events = {} /\ notices = <<>>
          /\ \A k \in Workers : wk[k].pc # "announce"
          /\ \A b \in Callers : call[b].pc # "announce"
        BY <1>1 DEF IndInv, OneAnnouncer
    <2> QED  BY <1>1, <1>3, <1>4, <2>1
            DEF OneAnnouncer, Outcome, IsActive, IsTerminal
<1> QED  BY <1>6, <1>7, <1>8, <1>9 DEF IndInv

\* An applied call keeps the invariant.
LEMMA AppliedCallInv ==
    ASSUME IndInv, TypeOK', NEW c \in Callers, NEW d \in Docs, NEW r \in Runtimes,
           IsActive => d.attempts <= doc.attempts,
           IsActive /\ r.rev = rt.rev => r.seq = rt.seq /\ r.window = rt.window,
           ApplyCall(c, d, r), AfterCall(c), UNCHANGED <<wk, notices>>
    PROVE  IndInv'
<1>1. CallFinishes(c, d) \/ CallRecords(c)
    BY CallEffect DEF IndInv
<1>2. CASE CallFinishes(c, d)
    BY <1>2, CallFinishesInv DEF CallFinishes
<1>3. CASE CallRecords(c)
    <2>1. call \in [Callers -> CallStates]
        BY DEF IndInv, TypeOK
    <2>2. QuietCall(c)
        BY <1>3, <2>1 DEF CallRecords, AfterCall, Return, IdleCall, QuietCall
    <2> QED  BY <2>2, QuietCallInv
<1> QED  BY <1>1, <1>2, <1>3

\* Every step of a call keeps the invariant, but announcements.
LEMMA CallingInv ==
    ASSUME IndInv, TypeOK', NEW c \in Callers, Calling(c) \/ CallAborts(c),
           ~AnnounceExpiry(c)
    PROVE  IndInv'
<1>0. TypeOK /\ Unborn /\ CallsFenced
    BY DEF IndInv
<1>1. CASE \/ CallReadsDoc(c) \/ CallReadsRuntime(c) \/ CallRetries(c)
           \/ CallAborts(c)
    BY <1>0, <1>1, QuietCalls, QuietCallInv
<1>2. CASE CallAtomically(c)
    <2>1. doc \in Docs /\ rt \in Runtimes /\ doc.attempts <= doc.attempts
        BY <1>0 DEF TypeOK, StoreTypeOK, Docs
    <2> QED  BY <1>2, <2>1, AppliedCallInv DEF CallAtomically
<1>3. CASE CallRunsScript(c)
    <2>1. CASE UNCHANGED storeVars /\ ~SameRevision(call[c].rt)
        BY <1>0, <1>3, <2>1, QuietCalls, QuietCallInv
    <2>2. CASE ApplyCall(c, call[c].doc, call[c].rt) /\ AfterCall(c)
        <3>1. call[c].doc \in Docs /\ call[c].rt \in Runtimes
            BY <1>0 DEF TypeOK, CallStates
        <3>2. call[c].pc = "script" /\ UNCHANGED <<wk, notices>>
            BY <1>3 DEF CallRunsScript
        <3> QED  BY <1>0, <2>2, <3>1, <3>2, AppliedCallInv DEF CallsFenced
    <2> QED  BY <1>3, <2>1, <2>2 DEF CallRunsScript
<1> QED  BY <1>1, <1>2, <1>3 DEF Calling

\* Announcing keeps the invariant: there was one announcer and nothing was said.
LEMMA AnnounceInv ==
    ASSUME IndInv, TypeOK',
           \/ \E k \in Workers : Announce(k)
           \/ \E c \in Callers : AnnounceExpiry(c)
    PROVE  IndInv'
<1>0. wk \in [Workers -> WorkerStates] /\ call \in [Callers -> CallStates]
    BY DEF IndInv, TypeOK
<1>1. UNCHANGED <<doc, rt, fence, claim, marker, active, indexed, retention,
                  events, life>>
    BY DEF Announce, AnnounceExpiry, storeVars
<1>2. (NeverStranded /\ WindowChargedOnce)'
    BY <1>1 DEF IndInv, NeverStranded, WindowChargedOnce, IsActive, IsTerminal
<1>3. ASSUME NEW k \in Workers, Announce(k)
      PROVE  IndInv'
    <2>1. /\ \A j \in Workers : j # k => wk'[j] = wk[j]
          /\ wk'[k].pc = "idle" /\ call' = call
        BY <1>0, <1>3 DEF Announce, Rest, IdleWorker
    <2>2. /\ wk[k].pc = "announce"
          /\ notices = <<>> /\ StatusAfter(wk[k]) \in EventStatuses
          /\ Outcome(StatusAfter(wk[k]))
          /\ \A j \in Workers : wk[j].pc = "announce" => j = k
          /\ \A c \in Callers : call[c].pc # "announce"
          /\ ~IsActive /\ doc.status # "NEW"
        BY <1>3 DEF IndInv, OneAnnouncer, Announce
    <2>3. notices' = <<StatusAfter(wk[k])>>
        BY <1>3, <2>2 DEF Announce
    <2>4. (Unborn /\ SnapshotsFenced /\ CallsFenced)'
        BY <1>1, <2>1, <2>2
        DEF IndInv, Unborn, SnapshotsFenced, CallsFenced, IsActive, InFlight
    <2>5. OneAnnouncer'
        BY <1>1, <2>1, <2>2, <2>3 DEF OneAnnouncer, Outcome, IsActive, IsTerminal
    <2> QED  BY <1>2, <2>4, <2>5 DEF IndInv
<1>4. ASSUME NEW c \in Callers, AnnounceExpiry(c)
      PROVE  IndInv'
    <2>1. /\ \A b \in Callers : b # c => call'[b] = call[b]
          /\ call'[c].pc = "idle" /\ wk' = wk
        BY <1>0, <1>4 DEF AnnounceExpiry, Return, IdleCall
    <2>2. /\ call[c].pc = "announce"
          /\ notices = <<>> /\ Outcome("EXPIRED")
          /\ \A k \in Workers : wk[k].pc # "announce"
          /\ \A b \in Callers : call[b].pc = "announce" => b = c
          /\ ~IsActive /\ doc.status # "NEW"
        BY <1>4 DEF IndInv, OneAnnouncer, AnnounceExpiry
    <2>3. notices' = <<"EXPIRED">>
        BY <1>4, <2>2 DEF AnnounceExpiry
    <2>4. (Unborn /\ SnapshotsFenced /\ CallsFenced)'
        BY <1>1, <2>1, <2>2
        DEF IndInv, Unborn, SnapshotsFenced, CallsFenced, IsActive, InFlight
    <2>5. OneAnnouncer'
        BY <1>1, <2>1, <2>2, <2>3
        DEF OneAnnouncer, Outcome, IsActive, IsTerminal, EventStatuses
    <2> QED  BY <1>2, <2>4, <2>5 DEF IndInv
<1> QED  BY <1>3, <1>4

\* Creation keeps the invariant: nothing knew the watch.
LEMMA CreateInv ==
    ASSUME IndInv, TypeOK', NEW auto \in BOOLEAN, Create(auto)
    PROVE  IndInv'
<1>1. /\ doc.status = "NEW" /\ doc'.status = "ACTIVE" /\ doc'.attempts = 0
      /\ rt'.seq = 0 /\ rt'.window = 0 /\ marker' = "due" /\ retention' = retention
      /\ UNCHANGED <<events, wk, call, notices>>
    BY DEF Create, CreateWithSchedule, InitialRuntime, NoRuntime
<1>2. active' /\ indexed'
    BY DEF Create, CreateWithSchedule
<1>3. (Unborn /\ NeverStranded /\ WindowChargedOnce)'
    BY <1>1, <1>2
    DEF IndInv, Unborn, NeverStranded, WindowChargedOnce, IsActive, IsTerminal,
        Terminal
<1>4. (SnapshotsFenced /\ CallsFenced)'
    BY <1>1 DEF IndInv, Unborn, SnapshotsFenced, CallsFenced, InFlight
<1>5. OneAnnouncer'
    BY <1>1 DEF IndInv, OneAnnouncer, IsActive
<1> QED  BY <1>3, <1>4, <1>5 DEF IndInv

\* Time, lapsing leases and cleanup keep the invariant.
LEMMA TimeInv ==
    ASSUME IndInv, TypeOK', LeaseExpires \/ Housekeeping \/ Ageing
    PROVE  IndInv'
<1>0. UNCHANGED <<wk, call, notices>>
    BY DEF LeaseExpires, Housekeeping, Ageing
<1>1. CASE \/ LeaseLapses \/ MarkerBecomesDue \/ RetentionElapses
           \/ LifetimeElapses
    <2>1. Undisturbed
        BY <1>1
        DEF LeaseLapses, MarkerBecomesDue, RetentionElapses, LifetimeElapses,
            Undisturbed
    <2> QED  BY <1>0, <2>1, StoreOnlyInv
<1>2. CASE CleanupDue /\ ~IsTerminal
    <2>1. ~IsActive /\ doc.status # "NEW"
        BY <1>2 DEF IndInv, NeverStranded, Unborn, CleanupDue
    <2>2. UNCHANGED <<doc, rt, claim, indexed, active, marker, events>>
        BY <1>2 DEF CleanupDue
    <2>3. (Unborn /\ NeverStranded /\ WindowChargedOnce)'
        BY <1>2, <2>1, <2>2
        DEF IndInv, Unborn, NeverStranded, WindowChargedOnce, IsActive, IsTerminal
    <2>4. (SnapshotsFenced /\ CallsFenced /\ OneAnnouncer)'
        BY <1>0, <2>2
        DEF IndInv, SnapshotsFenced, CallsFenced, OneAnnouncer, Outcome, InFlight,
            IsActive, IsTerminal, StatusAfter, AttemptsAfter
    <2> QED  BY <2>3, <2>4 DEF IndInv
<1>3. CASE (CleanupDue /\ IsTerminal) \/ BackstopTTL \/ PruneIndex
    <2>1. /\ ~IsActive /\ doc.status # "NEW" /\ doc'.status = "GONE"
          /\ events' = events
        BY <1>3
        DEF CleanupDue, BackstopTTL, PruneIndex, GoneDoc, IsActive, IsTerminal,
            Terminal
    <2>2. marker = "none" /\ ~active /\ claim = NoClaim
        BY <2>1 DEF IndInv, NeverStranded
    <2>3. marker' = "none" /\ ~active' /\ claim' = NoClaim
        BY <1>3, <2>2 DEF CleanupDue, BackstopTTL, PruneIndex
    <2>4. (Unborn /\ NeverStranded /\ WindowChargedOnce)'
        BY <2>1, <2>3
        DEF Unborn, NeverStranded, WindowChargedOnce, IsActive, IsTerminal, Terminal
    <2>5. (SnapshotsFenced /\ CallsFenced /\ OneAnnouncer)'
        BY <1>0, <2>1
        DEF IndInv, SnapshotsFenced, CallsFenced, OneAnnouncer, Outcome, InFlight,
            IsActive, IsTerminal, Terminal, StatusAfter, AttemptsAfter
    <2> QED  BY <2>4, <2>5 DEF IndInv
<1> QED  BY <1>1, <1>2, <1>3 DEF LeaseExpires, Housekeeping, Ageing

\* Every step keeps the invariant.
LEMMA NextInv == IndInv /\ [Next]_vars => IndInv'
<1> SUFFICES ASSUME IndInv, [Next]_vars PROVE IndInv'
    OBVIOUS
<1>1. TypeOK'
    BY NextTypes DEF IndInv
<1>2. CASE UNCHANGED vars
    BY <1>1, <1>2, SameStore, StoreOnlyInv DEF vars
<1>3. ASSUME NEW k \in Workers, Delivery(k) \/ Crash(k)
      PROVE  IndInv'
    <2>1. CASE \/ RunClaimed(k) \/ Replay(k) \/ Search(k) \/ BookingLands(k)
               \/ SlotsGone(k) \/ Confirm(k) \/ Reconcile(k) \/ CheckCancel(k)
               \/ ProviderError(k) \/ ProviderTimeout(k) \/ Crash(k)
        BY <1>1, <2>1, QuietDeliveries, QuietDeliveryInv DEF IndInv
    <2>2. CASE \E w \in 0..MaxSeq, i \in BOOLEAN : PollWindow(k, w, i)
        BY <1>1, <2>2, ClaimInv
    <2> QED  BY <1>1, <1>3, <2>1, <2>2, PermitInv, CommitInv, AnnounceInv,
                ReleaseInv DEF Delivery
<1>4. ASSUME NEW c \in Callers, Calling(c) \/ CallAborts(c)
      PROVE  IndInv'
    BY <1>1, <1>4, CallingInv, AnnounceInv
<1> QED  BY <1>1, <1>2, <1>3, <1>4, CreateInv, TimeInv DEF Next

-----------------------------------------------------------------------------
(* Safety                                                                  *)

\* The inductive invariant holds in every behaviour.
THEOREM Invariance == Spec => []IndInv
<1> QED  BY InitInv, NextInv, PTL DEF Spec

\* While active the watch has a marker and both index entries, and once finished
\* it has neither marker nor claim: no interleaving strands it.
THEOREM Stranding == Spec => []NeverStranded
<1>1. IndInv => NeverStranded
    BY DEF IndInv
<1> QED  BY <1>1, Invariance, PTL

\* However often a window is delivered, retried or raced, it charges the attempt
\* budget once.
THEOREM Charging == Spec => []WindowChargedOnce
<1>1. IndInv => WindowChargedOnce
    BY DEF IndInv
<1> QED  BY <1>1, Invariance, PTL

\* The owner hears of a watch at most once, and hears what happened.
THEOREM Announcing == Spec => []AnnouncedOnce
<1>1. IndInv => AnnouncedOnce
    <2> SUFFICES ASSUME IndInv PROVE AnnouncedOnce
        OBVIOUS
    <2>1. CASE notices = <<>>
        BY <2>1 DEF AnnouncedOnce
    <2>2. CASE notices # <<>>
        <3>1. PICK s \in EventStatuses : notices = <<s>> /\ Outcome(s)
            BY <2>2 DEF IndInv, OneAnnouncer
        <3> QED  BY <3>1 DEF AnnouncedOnce, Outcome
    <2> QED  BY <2>1, <2>2
<1> QED  BY <1>1, Invariance, PTL

-----------------------------------------------------------------------------
(* What a step does to the watch as its owner sees it                      *)

Opens ==
    /\ doc.status = "NEW" /\ doc'.status = "ACTIVE"
    /\ UNCHANGED <<events, notices>>

\* The cadence moves on by one window, which is charged or not.
Advances ==
    /\ IsActive /\ doc'.status = "ACTIVE"
    /\ rt'.seq = rt.seq + 1
    /\ doc'.attempts \in {doc.attempts, doc.attempts + 1}
    /\ UNCHANGED <<events, notices>>

Finishes ==
    /\ IsActive /\ doc'.status \in Terminal
    /\ IssueEvent(doc'.status, rt.rev + 1)
    /\ UNCHANGED notices

Tells ==
    /\ UNCHANGED <<doc, rt, events>>
    /\ ~IsActive /\ doc.status # "NEW"
    /\ notices = <<>>
    /\ \E s \in EventStatuses : notices' = <<s>> /\ Outcome(s)

Forgets ==
    /\ IsTerminal /\ doc'.status = "GONE"
    /\ UNCHANGED <<events, notices>>

Stays ==
    /\ UNCHANGED <<doc, events, notices>>
    /\ rt'.seq = rt.seq

\* Every step is one of these.
LEMMA StepEffect ==
    ASSUME IndInv, [Next]_vars
    PROVE  Opens \/ Advances \/ Finishes \/ Tells \/ Forgets \/ Stays
<1>0. TypeOK /\ SnapshotsFenced /\ CallsFenced /\ Unborn /\ OneAnnouncer
    BY DEF IndInv
<1>1. ASSUME Undisturbed, UNCHANGED notices
      PROVE  Stays
    BY <1>1 DEF Undisturbed, Stays
<1>2. CASE UNCHANGED vars
    BY <1>2 DEF vars, storeVars, Stays
<1>3. ASSUME NEW auto \in BOOLEAN, Create(auto)
      PROVE  Opens
    BY <1>3 DEF Create, CreateWithSchedule, Opens
<1>4. ASSUME NEW k \in Workers, Delivery(k) \/ Crash(k)
      PROVE  Advances \/ Finishes \/ Tells \/ Stays
    <2>1. CASE \/ RunClaimed(k) \/ Replay(k) \/ Search(k) \/ BookingLands(k)
               \/ SlotsGone(k) \/ Confirm(k) \/ Reconcile(k) \/ CheckCancel(k)
               \/ ProviderError(k) \/ ProviderTimeout(k) \/ Crash(k)
        BY <1>0, <1>1, <2>1, QuietDeliveries DEF QuietDelivery
    <2>2. CASE \E w \in 0..MaxSeq, i \in BOOLEAN : PollWindow(k, w, i)
        BY <2>2 DEF PollWindow, ClaimWindow, Stays
    <2>3. CASE Permit(k)
        <3>1. CASE UNCHANGED storeVars
            BY <2>3, <3>1 DEF Permit, storeVars, Stays
        <3>2. CASE GrantBooking(wk[k].tok, wk[k].rt)
            <4>1. wk[k].rt \in Runtimes
                BY <1>0 DEF TypeOK, WorkerStates
            <4>2. rt'.seq = wk[k].rt.seq
                BY <3>2, <4>1 DEF GrantBooking, Runtimes
            <4>3. rt.seq = wk[k].rt.seq
                BY <1>0, <2>3, <3>2
                DEF SnapshotsFenced, Permit, InFlight, GrantBooking, Owns
            <4> QED  BY <2>3, <3>2, <4>2, <4>3 DEF Permit, GrantBooking, Stays
        <3> QED  BY <2>3, <3>1, <3>2 DEF Permit
    <2>4. CASE Commit(k)
        <3>1. CASE UNCHANGED storeVars
            BY <2>4, <3>1 DEF Commit, storeVars, Stays
        <3>2. CASE /\ StatusAfter(wk[k]) = "ACTIVE" => wk[k].rt.seq < MaxSeq
                   /\ CommitWindow(wk[k].tok, wk[k].rt, DocAfter(wk[k]),
                                   RuntimeAfter(wk[k]))
            <4>1. /\ IsActive
                  /\ doc'.attempts \in {doc.attempts, doc.attempts + 1}
                  /\ rt'.seq = IF doc'.status = "ACTIVE" THEN rt.seq + 1
                               ELSE rt.seq
                BY <1>0, <2>4, <3>2, CommitEffect DEF Commit
            <4>2. doc' = DocAfter(wk[k]) /\ rt.rev = wk[k].rt.rev
                BY <3>2 DEF CommitWindow, Owns
            <4>3. doc'.status \in Statuses
                <5>1. wk[k] \in WorkerStates /\ wk[k].doc \in Docs
                    BY <1>0 DEF TypeOK, WorkerStates
                <5>2. (DocAfter(wk[k])).status = StatusAfter(wk[k])
                    BY <5>1 DEF DocAfter, Docs
                <5> QED  BY <4>2, <5>1, <5>2, PlanTypes
            <4>4. CASE doc'.status = "ACTIVE"
                BY <2>4, <3>2, <4>1, <4>2, <4>4
                DEF Commit, CommitWindow, Terminal, Advances
            <4>5. CASE doc'.status \in Terminal
                BY <2>4, <3>2, <4>1, <4>2, <4>5
                DEF Commit, CommitWindow, Finishes
            <4> QED  BY <4>3, <4>4, <4>5 DEF Statuses
        <3> QED  BY <2>4, <3>1, <3>2 DEF Commit
    <2>5. CASE Announce(k)
        <3>1. UNCHANGED <<doc, rt, events>>
            BY <2>5 DEF Announce, storeVars
        <3>2. /\ ~IsActive /\ doc.status # "NEW" /\ notices = <<>>
              /\ StatusAfter(wk[k]) \in EventStatuses
              /\ Outcome(StatusAfter(wk[k]))
            BY <1>0, <2>5 DEF OneAnnouncer, Announce
        <3>3. notices' = <<StatusAfter(wk[k])>>
            BY <2>5, <3>2 DEF Announce
        <3> QED  BY <3>1, <3>2, <3>3 DEF Tells
    <2>6. CASE Release(k)
        BY <2>6 DEF Release, ReleaseClaim, Stays
    <2> QED  BY <1>4, <2>1, <2>2, <2>3, <2>4, <2>5, <2>6 DEF Delivery
<1>5. ASSUME NEW c \in Callers, Calling(c) \/ CallAborts(c)
      PROVE  Finishes \/ Tells \/ Stays
    <2>1. ASSUME NEW d \in Docs, CallFinishes(c, d) \/ CallRecords(c),
                 UNCHANGED notices
          PROVE  Finishes \/ Stays
        <3>1. CASE CallFinishes(c, d)
            BY <2>1, <3>1 DEF CallFinishes, Finishes, Terminal
        <3>2. CASE CallRecords(c)
            BY <1>1, <2>1, <3>2 DEF CallRecords
        <3> QED  BY <2>1, <3>1, <3>2
    <2>2. CASE \/ CallReadsDoc(c) \/ CallReadsRuntime(c) \/ CallRetries(c)
               \/ CallAborts(c)
        BY <1>0, <1>1, <2>2, QuietCalls DEF QuietCall
    <2>3. CASE CallAtomically(c)
        <3>1. doc \in Docs /\ rt \in Runtimes
            BY <1>0 DEF TypeOK, StoreTypeOK
        <3>2. CallFinishes(c, doc) \/ CallRecords(c)
            BY <1>0, <2>3, <3>1, CallEffect DEF CallAtomically
        <3> QED  BY <2>1, <2>3, <3>1, <3>2 DEF CallAtomically
    <2>4. CASE CallRunsScript(c)
        <3>1. CASE UNCHANGED storeVars
            BY <2>4, <3>1 DEF CallRunsScript, storeVars, Stays
        <3>2. CASE ApplyCall(c, call[c].doc, call[c].rt)
            <4>1. call[c].doc \in Docs /\ call[c].rt \in Runtimes
                BY <1>0 DEF TypeOK, CallStates
            <4>2. call[c].pc = "script"
                BY <2>4 DEF CallRunsScript
            <4>3. CallFinishes(c, call[c].doc) \/ CallRecords(c)
                BY <1>0, <3>2, <4>1, <4>2, CallEffect DEF CallsFenced
            <4> QED  BY <2>1, <2>4, <4>1, <4>3 DEF CallRunsScript
        <3> QED  BY <2>4, <3>1, <3>2 DEF CallRunsScript
    <2>5. CASE AnnounceExpiry(c)
        <3>1. UNCHANGED <<doc, rt, events>>
            BY <2>5 DEF AnnounceExpiry, storeVars
        <3>2. /\ ~IsActive /\ doc.status # "NEW" /\ notices = <<>>
              /\ Outcome("EXPIRED")
            BY <1>0, <2>5 DEF OneAnnouncer, AnnounceExpiry
        <3>3. notices' = <<"EXPIRED">>
            BY <2>5, <3>2 DEF AnnounceExpiry
        <3> QED  BY <3>1, <3>2, <3>3 DEF Tells, EventStatuses
    <2> QED  BY <1>5, <2>2, <2>3, <2>4, <2>5 DEF Calling
<1>6. CASE LeaseExpires \/ Ageing
    BY <1>6 DEF LeaseExpires, LeaseLapses, Ageing, LifetimeElapses, Stays
<1>7. CASE Housekeeping
    BY <1>7 DEF Housekeeping, MarkerBecomesDue, RetentionElapses, CleanupDue,
                BackstopTTL, PruneIndex, GoneDoc, Forgets, Stays
<1> QED  BY <1>2, <1>3, <1>4, <1>5, <1>6, <1>7 DEF Next

\* No interleaving of late commits, cancels and sweeps overwrites a finished
\* watch.
THEOREM Finality == Spec => TerminalIsFinal
<1>1. IndInv /\ [Next]_vars => [IsTerminal => doc' = doc \/ doc'.status = "GONE"]_vars
    BY StepEffect
    DEF Opens, Advances, Finishes, Tells, Forgets, Stays, IsActive, IsTerminal,
        Terminal
<1> QED  BY <1>1, Invariance, PTL DEF Spec, TerminalIsFinal

\* The cadence moves by single windows and the attempts only with it: no commit
\* of a delivery that lost its claim overwrites a later one.
THEOREM NoLostCommits == Spec => NoLostCommit
<1>1. ASSUME IndInv, [Next]_vars, IsActive, doc'.status = "ACTIVE"
      PROVE  /\ rt'.seq \in {rt.seq, rt.seq + 1}
             /\ rt'.seq = rt.seq => doc'.attempts = doc.attempts
             /\ doc'.attempts \in {doc.attempts, doc.attempts + 1}
    <2>1. rt.seq \in Nat
        BY <1>1 DEF IndInv, TypeOK, StoreTypeOK, Runtimes
    <2> QED  BY <1>1, <2>1, StepEffect
            DEF Opens, Advances, Finishes, Tells, Forgets, Stays, IsActive,
                IsTerminal, Terminal
<1>2. IndInv /\ [Next]_vars =>
        [IsActive /\ doc'.status = "ACTIVE" =>
            /\ rt'.seq \in {rt.seq, rt.seq + 1}
            /\ rt'.seq = rt.seq => doc'.attempts = doc.attempts
            /\ doc'.attempts \in {doc.attempts, doc.attempts + 1}]_vars
    BY <1>1
<1> QED  BY <1>2, Invariance, PTL DEF Spec, NoLostCommit

-----------------------------------------------------------------------------
(* Refinement                                                              *)

\* The detailed specification implements the promise to the owner: creation
\* opens the watch, the commit, cancel or expiry that takes effect finishes it,
\* the announcement tells the outcome owed, cleanup forgets it, and every other
\* step stutters.
THEOREM Refinement == Spec => LifecycleSpec
<1>1. Init => Lifecycle!Init
    BY DEF Init, StoreInit, NoDoc, Lifecycle!Init
<1>2. ASSUME IndInv, [Next]_vars
      PROVE  [Lifecycle!Next]_(Lifecycle!vars)
    <2>1. CASE Opens
        BY <2>1 DEF Opens, Lifecycle!Next, Lifecycle!Open
    <2>2. CASE Advances
        BY <2>2 DEF Advances, IsActive, Lifecycle!vars
    <2>3. CASE Finishes
        <3>1. events = {}
            BY <1>2, <2>3 DEF IndInv, OneAnnouncer, Finishes
        <3>2. {e.status : e \in events'} = {doc'.status} \cap EventStatuses
            <4> DEFINE e0 == [status |-> doc'.status, rev |-> rt.rev + 1]
            <4>1. CASE doc'.status \in EventStatuses
                <5>1. events' = {e0}
                    BY <2>3, <3>1, <4>1 DEF Finishes, IssueEvent
                <5>2. {e.status : e \in {e0}} = {doc'.status}
                    OBVIOUS
                <5> QED  BY <4>1, <5>1, <5>2
            <4>2. CASE doc'.status \notin EventStatuses
                <5>1. events' = {}
                    BY <2>3, <3>1, <4>2 DEF Finishes, IssueEvent
                <5> QED  BY <4>2, <5>1
            <4> QED  BY <4>1, <4>2
        <3>3. PICK s \in Terminal : s = doc'.status
            BY <2>3 DEF Finishes
        <3>4. Lifecycle!Finish(s)
            BY <2>3, <3>2, <3>3
            DEF Finishes, IsActive, EventStatuses, Lifecycle!Finish,
                Lifecycle!Announced
        <3>5. s \in Lifecycle!Finished
            BY DEF Terminal, Lifecycle!Finished, Lifecycle!Announced
        <3> QED  BY <3>4, <3>5 DEF Lifecycle!Next
    <2>4. CASE Tells
        <3>1. doc.status \in Lifecycle!Finished \cup {"GONE"}
            BY <1>2, <2>4
            DEF Tells, IndInv, TypeOK, StoreTypeOK, Docs, Statuses, Absent,
                Terminal, IsActive, Lifecycle!Finished, Lifecycle!Announced
        <3>2. \E s \in {e.status : e \in events} : notices' = <<s>>
            BY <2>4 DEF Tells, Outcome
        <3>3. Lifecycle!Tell
            BY <2>4, <3>1, <3>2 DEF Tells, Lifecycle!Tell
        <3> QED  BY <3>3 DEF Lifecycle!Next
    <2>5. CASE Forgets
        <3>1. Lifecycle!Forget
            BY <2>5
            DEF Forgets, IsTerminal, Terminal, Lifecycle!Forget,
                Lifecycle!Finished, Lifecycle!Announced
        <3> QED  BY <3>1 DEF Lifecycle!Next
    <2>6. CASE Stays
        BY <2>6 DEF Stays, Lifecycle!vars
    <2> QED  BY <1>2, <2>1, <2>2, <2>3, <2>4, <2>5, <2>6, StepEffect
<1>3. IndInv /\ [Next]_vars => [Lifecycle!Next]_(Lifecycle!vars)
    BY <1>2
<1> QED  BY <1>1, <1>3, Invariance, PTL DEF Spec, LifecycleSpec, Lifecycle!Spec

-----------------------------------------------------------------------------
(* Exclusive deliveries                                                    *)

\* A step that starts no delivery, keeps the tokens and sidecars of those in
\* flight and, if the watch is active afterwards, was active before with the same
\* claim and revision.
Calm ==
    /\ \A k \in Workers : InFlight(k)' => /\ InFlight(k)
                                          /\ wk'[k].tok = wk[k].tok
                                          /\ wk'[k].rt = wk[k].rt
    /\ IsActive' => IsActive /\ claim' = claim /\ rt'.rev = rt.rev

\* A step after which no delivery is in flight.
NoneLeft == \A k \in Workers : ~InFlight(k)'

\* Every step is calm, leaves no delivery in flight, or claims a window that
\* nobody holds.
LEMMA FlightSteps ==
    ASSUME IndInv, ClaimHeldInFlight, SingleFlight, LeaseOutlivesTask, [Next]_vars
    PROVE  \/ Calm
           \/ NoneLeft
           \/ \E k \in Workers, w \in 0..MaxSeq, i \in BOOLEAN : PollWindow(k, w, i)
<1>0. TypeOK /\ Unborn /\ wk \in [Workers -> WorkerStates]
    BY DEF IndInv, TypeOK
<1>1. ASSUME NEW k \in Workers, Rest(k), InFlight(k)
      PROVE  NoneLeft
    BY <1>0, <1>1 DEF Rest, IdleWorker, SingleFlight, InFlight, NoneLeft
<1>2. CASE UNCHANGED vars
    BY <1>2 DEF vars, storeVars, Calm, InFlight, IsActive
<1>3. ASSUME NEW auto \in BOOLEAN, Create(auto)
      PROVE  NoneLeft
    BY <1>0, <1>3 DEF Create, CreateWithSchedule, Unborn, InFlight, NoneLeft
<1>4. ASSUME NEW k \in Workers, QuietDelivery(k), UNCHANGED storeVars
      PROVE  Calm
    BY <1>4 DEF QuietDelivery, storeVars, Calm, InFlight, IsActive
<1>5. ASSUME NEW k \in Workers, Delivery(k) \/ Crash(k)
      PROVE  \/ Calm \/ NoneLeft
             \/ \E w \in 0..MaxSeq, i \in BOOLEAN : PollWindow(k, w, i)
    <2>1. CASE \/ RunClaimed(k) \/ Replay(k) \/ Search(k) \/ BookingLands(k)
               \/ SlotsGone(k) \/ Confirm(k) \/ Reconcile(k) \/ CheckCancel(k)
               \/ ProviderError(k) \/ ProviderTimeout(k) \/ Crash(k)
        <3>1. UNCHANGED storeVars
            BY <2>1
            DEF RunClaimed, Replay, Search, BookingLands, SlotsGone, Confirm,
                Reconcile, CheckCancel, ProviderError, ProviderTimeout, Crash
        <3> QED  BY <1>0, <1>4, <2>1, <3>1, QuietDeliveries
    <2>2. CASE Permit(k)
        <3>1. doc' = doc /\ claim' = claim /\ rt'.rev = rt.rev
            <4>1. wk[k].rt \in Runtimes
                BY <1>0 DEF WorkerStates
            <4> QED  BY <2>2, <4>1 DEF Permit, GrantBooking, Owns, Runtimes, storeVars
        <3>2. InFlight(k)
            BY <2>2 DEF Permit, InFlight
        <3>3. (\E pc \in WorkerPcs : GoTo(k, pc)) \/ \E p \in Plans : Decide(k, p)
            BY <2>2 DEF Permit, WorkerPcs, ProviderPcs, Plans
        <3>4. \A j \in Workers : /\ j # k => wk'[j] = wk[j]
                                 /\ wk'[j].tok = wk[j].tok
                                 /\ wk'[j].rt = wk[j].rt
            BY <1>0, <3>3 DEF GoTo, Decide, WorkerStates
        <3> QED  BY <3>1, <3>2, <3>4 DEF Calm, InFlight, IsActive
    <2>3. CASE Commit(k)
        <3>1. InFlight(k)
            BY <2>3 DEF Commit, InFlight
        <3>2. CASE Rest(k)
            BY <1>1, <3>1, <3>2
        <3>3. CASE GoTo(k, "announce")
            BY <1>0, <3>1, <3>3
            DEF GoTo, SingleFlight, InFlight, NoneLeft, WorkerStates
        <3> QED  BY <2>3, <3>2, <3>3 DEF Commit
    <2>4. CASE Announce(k)
        <3>1. doc' = doc /\ claim' = claim /\ rt' = rt
            BY <2>4 DEF Announce, storeVars
        <3>2. /\ \A j \in Workers : j # k => wk'[j] = wk[j]
              /\ wk'[k].pc = "idle"
            BY <1>0, <2>4 DEF Announce, Rest, IdleWorker
        <3> QED  BY <3>1, <3>2 DEF Calm, InFlight, IsActive
    <2>5. CASE Release(k)
        BY <1>1, <2>5 DEF Release, InFlight
    <2> QED  BY <1>5, <2>1, <2>2, <2>3, <2>4, <2>5 DEF Delivery
<1>6. ASSUME NEW c \in Callers, Calling(c) \/ CallAborts(c)
      PROVE  Calm
    <2>1. wk' = wk
        BY <1>6
        DEF Calling, CallAtomically, CallReadsDoc, CallReadsRuntime,
            CallRunsScript, CallRetries, AnnounceExpiry, CallAborts
    <2>2. ASSUME NEW s \in {"EXPIRED", "CANCELLED"}, NEW d \in Docs, NEW r,
                 FinishIfActive(s, d, r)
          PROVE  ~IsActive'
        <3>1. doc'.status = s
            BY <2>2 DEF FinishIfActive, Docs
        <3> QED  BY <3>1 DEF IsActive
    <2>3. ASSUME NEW d \in Docs, NEW r \in Runtimes, ApplyCall(c, d, r)
          PROVE  IsActive' => IsActive /\ claim' = claim /\ rt'.rev = rt.rev
        BY <2>2, <2>3 DEF ApplyCall, RecordCancel, SameRevision, IsActive, Runtimes
    <2>4. /\ doc \in Docs /\ call[c].doc \in Docs
          /\ rt \in Runtimes /\ call[c].rt \in Runtimes
        BY <1>0 DEF TypeOK, StoreTypeOK, CallStates
    <2>5. ASSUME UNCHANGED storeVars
          PROVE  IsActive' => IsActive /\ claim' = claim /\ rt'.rev = rt.rev
        BY <2>5 DEF storeVars, IsActive
    <2>6. IsActive' => IsActive /\ claim' = claim /\ rt'.rev = rt.rev
        BY <1>6, <2>3, <2>4, <2>5
        DEF Calling, CallAtomically, CallReadsDoc, CallReadsRuntime,
            CallRunsScript, CallRetries, AnnounceExpiry, CallAborts
    <2> QED  BY <2>1, <2>6 DEF Calm, InFlight
<1>7. CASE LeaseExpires
    <2>1. CASE IsActive
        BY <1>7, <2>1
        DEF LeaseExpires, ClaimHeldInFlight, InFlight, NoneLeft
    <2>2. CASE ~IsActive
        BY <1>7, <2>2 DEF LeaseExpires, LeaseLapses, Calm, InFlight, IsActive
    <2> QED  BY <2>1, <2>2
<1>8. CASE Housekeeping \/ Ageing
    <2>1. wk' = wk
        BY <1>8 DEF Housekeeping, Ageing
    <2>2. IsActive' => IsActive /\ claim' = claim /\ rt'.rev = rt.rev
        BY <1>8
        DEF Housekeeping, Ageing, MarkerBecomesDue, RetentionElapses, CleanupDue,
            BackstopTTL, PruneIndex, LifetimeElapses, GoneDoc, IsActive, IsTerminal
    <2> QED  BY <2>1, <2>2 DEF Calm, InFlight
<1> QED  BY <1>2, <1>3, <1>5, <1>6, <1>7, <1>8 DEF Next

\* When a lease outlives the task that holds it, a delivery in flight holds the
\* claim and the revision of its watch, and is the only one.
LEMMA Holding ==
    ASSUME LeaseOutlivesTask
    PROVE  Spec => [](ClaimHeldInFlight /\ SingleFlight)
<1>1. Init => ClaimHeldInFlight /\ SingleFlight
    BY DEF Init, IdleWorker, ClaimHeldInFlight, SingleFlight, InFlight
<1>2. ASSUME IndInv, ClaimHeldInFlight, SingleFlight, [Next]_vars
      PROVE  (ClaimHeldInFlight /\ SingleFlight)'
    <2>1. CASE Calm
        BY <1>2, <2>1 DEF Calm, ClaimHeldInFlight, SingleFlight
    <2>2. CASE NoneLeft
        BY <2>2 DEF NoneLeft, ClaimHeldInFlight, SingleFlight
    <2>3. ASSUME NEW k \in Workers, NEW w, NEW i, PollWindow(k, w, i)
          PROVE  (ClaimHeldInFlight /\ SingleFlight)'
        <3>1. \A j \in Workers : ~InFlight(j)
            BY <1>2, <2>3
            DEF PollWindow, ClaimWindow, CanClaim, ClaimHeldInFlight, IndInv,
                SnapshotsFenced
        <3>2. /\ \A j \in Workers : j # k => wk'[j] = wk[j]
              /\ wk'[k].tok = fence + 1 /\ claim' = fence + 1
              /\ wk'[k].rt = rt /\ rt' = rt
            BY <1>2, <2>3
            DEF PollWindow, ClaimWindow, IdleWorker, IndInv, TypeOK
        <3> QED  BY <3>1, <3>2 DEF ClaimHeldInFlight, SingleFlight, InFlight
    <2> QED  BY <1>2, <2>1, <2>2, <2>3, FlightSteps
<1>3. /\ IndInv /\ ClaimHeldInFlight /\ SingleFlight
      /\ [Next]_vars
      => (ClaimHeldInFlight /\ SingleFlight)'
    BY <1>2
<1> QED  BY <1>1, <1>3, Invariance, PTL DEF Spec

\* When a lease outlives the task that holds it, as Celery's time limits ensure,
\* at most one delivery works on the watch at any time.
THEOREM Exclusion ==
    ASSUME LeaseOutlivesTask
    PROVE  Spec => []SingleFlight
<1> QED  BY Holding, PTL

-----------------------------------------------------------------------------
(* Bookings                                                                *)

\* What going on, deciding and resting do to the deliveries.
LEMMA GoesOn ==
    ASSUME TypeOK, NEW k \in Workers, NEW pc, GoTo(k, pc)
    PROVE  /\ \A j \in Workers : j # k => wk'[j] = wk[j]
           /\ wk'[k].pc = pc /\ wk'[k].plan = wk[k].plan
<1>1. wk \in [Workers -> WorkerStates]
    BY DEF TypeOK
<1> QED  BY <1>1 DEF GoTo, WorkerStates

LEMMA Decides ==
    ASSUME TypeOK, NEW k \in Workers, NEW p, Decide(k, p)
    PROVE  /\ \A j \in Workers : j # k => wk'[j] = wk[j]
           /\ wk'[k].pc = "commit" /\ wk'[k].plan = p
<1>1. wk \in [Workers -> WorkerStates]
    BY DEF TypeOK
<1> QED  BY <1>1 DEF Decide, WorkerStates

LEMMA Rests ==
    ASSUME TypeOK, NEW k \in Workers, Rest(k)
    PROVE  /\ \A j \in Workers : j # k => wk'[j] = wk[j]
           /\ wk'[k].pc = "idle"
<1>1. wk \in [Workers -> WorkerStates]
    BY DEF TypeOK
<1> QED  BY <1>1 DEF Rest, IdleWorker

\* Delivery k goes on with the store as it is, and neither comes to a booking
\* nor decides for one.
Aside(k) ==
    /\ UNCHANGED <<storeVars, call, reservation, notices>>
    /\ \A j \in Workers : j # k => wk'[j] = wk[j]
    /\ wk'[k].pc \notin BookingPcs
    /\ wk'[k].pc = "commit" => wk'[k].plan \notin {"BOOKED", "BOOKED_REPLAY"}
    /\ ~Books(k)

\* The steps of a delivery that have nothing to do with a booking.
LEMMA AsideSteps ==
    ASSUME TypeOK, NEW k \in Workers,
           \/ RunClaimed(k) \/ Search(k)
           \/ Replay(k) /\ ~reservation
    PROVE  Aside(k)
<1>0. wk \in [Workers -> WorkerStates]
    BY DEF TypeOK
<1>1. CASE RunClaimed(k)
    <2>1. /\ \A j \in Workers : j # k => wk'[j] = wk[j]
          /\ \/ wk'[k] = [wk[k] EXCEPT !.life = life, !.pc = "commit",
                                        !.plan = "EXPIRE"]
             \/ wk'[k] = [wk[k] EXCEPT !.life = life, !.pc = "replay"]
             \/ wk'[k] = [wk[k] EXCEPT !.life = life, !.pc = "search"]
        BY <1>0, <1>1 DEF RunClaimed
    <2> QED  BY <1>0, <1>1, <2>1
            DEF RunClaimed, Aside, Books, BookingPcs, WorkerStates
<1>2. CASE Search(k)
    BY <1>2, GoesOn, Decides DEF Search, Aside, Books, BookingPcs
<1>3. CASE Replay(k) /\ ~reservation
    BY <1>3, GoesOn DEF Replay, Aside, Books, BookingPcs
<1> QED  BY <1>1, <1>2, <1>3

\* A commit that is not refused stores the status of its plan.
LEMMA CommitStatus ==
    ASSUME TypeOK, NEW k \in Workers,
           CommitWindow(wk[k].tok, wk[k].rt, DocAfter(wk[k]), RuntimeAfter(wk[k]))
    PROVE  /\ doc'.status = StatusAfter(wk[k])
           /\ doc'.status = "BOOKED" => wk[k].plan \in {"BOOKED", "BOOKED_REPLAY"}
           /\ doc'.status = "CANCELLED" => wk[k].plan = "CANCELLED"
           /\ doc'.status = "ACTIVE" => wk[k].plan \in {"MISS", "OUTAGE"}
           /\ doc'.status # "NEW"
<1>1. wk[k].doc \in Docs /\ doc' = DocAfter(wk[k])
    BY DEF TypeOK, WorkerStates, CommitWindow
<1>2. doc'.status = StatusAfter(wk[k])
    BY <1>1 DEF DocAfter, Docs
<1> QED  BY <1>2 DEF StatusAfter

\* An applied call leaves the watch active, expired or cancelled.
LEMMA CallStatus ==
    ASSUME TypeOK, NEW c \in Callers, NEW d \in Docs, NEW r, ApplyCall(c, d, r)
    PROVE  /\ IsActive
           /\ \/ doc' = doc /\ rt' = [r EXCEPT !.cancelReq = TRUE]
              \/ doc'.status = "EXPIRED"
              \/ doc'.status = "CANCELLED" /\ r.phase # "BOOKING"
<1> QED  BY DEF ApplyCall, FinishIfActive, RecordCancel, SameRevision, Docs

\* Every step keeps bookings backed.
LEMMA BackedStep ==
    ASSUME TypeOK, BookingBacked, [Next]_vars
    PROVE  BookingBacked'
<1>1. CASE UNCHANGED vars
    BY <1>1 DEF vars, storeVars, BookingBacked
<1>2. ASSUME NEW auto \in BOOLEAN, Create(auto)
      PROVE  BookingBacked'
    BY <1>2 DEF Create, CreateWithSchedule, BookingBacked
<1>3. ASSUME NEW k \in Workers, Delivery(k) \/ Crash(k)
      PROVE  BookingBacked'
    <2>1. CASE \E w \in 0..MaxSeq, i \in BOOLEAN : PollWindow(k, w, i)
        <3>1. /\ \A j \in Workers : j # k => wk'[j] = wk[j]
              /\ wk'[k].pc = "claimed"
            BY <2>1 DEF PollWindow, IdleWorker, TypeOK
        <3> QED  BY <2>1, <3>1 DEF PollWindow, ClaimWindow, BookingBacked
    <2>2. CASE RunClaimed(k) \/ Search(k) \/ (Replay(k) /\ ~reservation)
        BY <2>2, AsideSteps DEF Aside, BookingPcs, storeVars, BookingBacked
    <2>3. CASE \/ Replay(k) /\ reservation
               \/ SlotsGone(k) \/ Confirm(k) \/ Reconcile(k) \/ CheckCancel(k)
               \/ ProviderError(k) \/ ProviderTimeout(k)
        <3>1. doc' = doc /\ reservation' = reservation
            BY <2>3 DEF Replay, SlotsGone, Confirm, Reconcile, CheckCancel,
                        ProviderError, ProviderTimeout, storeVars
        <3>2. /\ \A j \in Workers : j # k => wk'[j] = wk[j]
              /\ wk'[k].pc # "landed"
              /\ wk'[k].plan \in {"BOOKED", "BOOKED_REPLAY"} /\ wk'[k].pc = "commit"
                   => reservation
            BY <2>3, GoesOn, Decides
            DEF Replay, SlotsGone, Confirm, Reconcile, CheckCancel, ProviderError,
                ProviderTimeout, BookingBacked
        <3> QED  BY <3>1, <3>2 DEF BookingBacked
    <2>4. CASE BookingLands(k)
        BY <2>4 DEF BookingLands, BookingBacked
    <2>5. CASE Permit(k)
        <3>1. doc' = doc /\ reservation' = reservation
            BY <2>5 DEF Permit, GrantBooking, storeVars
        <3>2. /\ \A j \in Workers : j # k => wk'[j] = wk[j]
              /\ wk'[k].pc # "landed"
              /\ wk'[k].pc = "commit" => wk'[k].plan = "CANCELLED"
            BY <2>5, GoesOn, Decides DEF Permit
        <3> QED  BY <3>1, <3>2 DEF BookingBacked
    <2>6. CASE Commit(k)
        <3>1. /\ \A j \in Workers : j # k => wk'[j] = wk[j]
              /\ wk'[k].pc \in {"idle", "announce"}
            BY <2>6, GoesOn, Rests DEF Commit
        <3>2. doc'.status = "BOOKED" => reservation
            BY <2>6, CommitStatus DEF Commit, storeVars, BookingBacked
        <3> QED  BY <2>6, <3>1, <3>2 DEF Commit, BookingBacked
    <2>7. CASE Announce(k) \/ Release(k) \/ Crash(k)
        BY <2>7, Rests DEF Announce, Release, ReleaseClaim, Crash, storeVars, BookingBacked
    <2> QED  BY <1>3, <2>1, <2>2, <2>3, <2>4, <2>5, <2>6, <2>7 DEF Delivery
<1>4. ASSUME NEW c \in Callers, Calling(c) \/ CallAborts(c)
      PROVE  BookingBacked'
    <2>1. wk' = wk /\ reservation' = reservation
        BY <1>4
        DEF Calling, CallAtomically, CallReadsDoc, CallReadsRuntime,
            CallRunsScript, CallRetries, AnnounceExpiry, CallAborts
    <2>2. doc \in Docs /\ call[c].doc \in Docs
        BY DEF TypeOK, StoreTypeOK, CallStates
    <2>3. doc' = doc \/ doc'.status # "BOOKED"
        BY <1>4, <2>2, CallStatus
        DEF Calling, CallAtomically, CallReadsDoc, CallReadsRuntime,
            CallRunsScript, CallRetries, AnnounceExpiry, CallAborts, storeVars
    <2> QED  BY <2>1, <2>3 DEF BookingBacked
<1>5. CASE LeaseExpires \/ Housekeeping \/ Ageing
    BY <1>5
    DEF LeaseExpires, LeaseLapses, Housekeeping, Ageing, MarkerBecomesDue,
        RetentionElapses, CleanupDue, BackstopTTL, PruneIndex, LifetimeElapses,
        GoneDoc, BookingBacked
<1> QED  BY <1>1, <1>2, <1>3, <1>4, <1>5 DEF Next

\* A watch reported as booked has a reservation at the provider, whatever
\* timeouts, errors, crashes and fenced commits its deliveries met.
THEOREM NoPhantoms == Spec => []NoPhantomBooking
<1>1. Init => BookingBacked
    BY DEF Init, StoreInit, NoDoc, IdleWorker, BookingBacked
<1>2. TypeOK /\ BookingBacked /\ [Next]_vars => BookingBacked'
    BY BackedStep
<1>3. BookingBacked => NoPhantomBooking
    BY DEF BookingBacked, NoPhantomBooking
<1> QED  BY <1>1, <1>2, <1>3, TypeCorrect, PTL DEF Spec

-----------------------------------------------------------------------------
(* The in-memory store                                                     *)

\* In memory a cancel or expire call never holds a snapshot across an await.
LEMMA NoStaleCallStep ==
    ASSUME IndInv, NoStaleCall, AtomicStore, [Next]_vars
    PROVE  NoStaleCall'
<1>0. call \in [Callers -> CallStates]
    BY DEF IndInv, TypeOK
<1>1. \A c \in Callers : call'[c].pc \in {"idle", "announce"}
    <2>1. ASSUME NEW c \in Callers, Calling(c) \/ CallAborts(c)
          PROVE  \A d \in Callers : call'[d].pc \in {"idle", "announce"}
        <3>1. Return(c) \/ AfterCall(c)
            BY <2>1
            DEF NoStaleCall, Calling, CallAtomically, CallReadsDoc,
                CallReadsRuntime, CallRunsScript, CallRetries, AnnounceExpiry,
                CallAborts
        <3>2. /\ \A d \in Callers : d # c => call'[d] = call[d]
              /\ call'[c].pc \in {"idle", "announce"}
            BY <1>0, <3>1 DEF AfterCall, Return, IdleCall, CallStates
        <3> QED  BY <3>2 DEF NoStaleCall
    <2>2. CASE call' = call
        BY <2>2 DEF NoStaleCall
    <2>3. \/ call' = call
          \/ \E c \in Callers : Calling(c) \/ CallAborts(c)
        BY DEF Next, vars, Create, Delivery, PollWindow, RunClaimed, Replay, Search,
               Permit, BookingLands, SlotsGone, Confirm, Reconcile, CheckCancel,
               ProviderError, ProviderTimeout, Commit, Announce, Release, Crash,
               LeaseExpires, Housekeeping, Ageing
    <2> QED  BY <2>1, <2>2, <2>3
<1>2. doc'.status = "NEW" => doc'.attempts = 0
    BY StepEffect
    DEF NoStaleCall, Opens, Advances, Finishes, Tells, Forgets, Stays, Terminal
<1> QED  BY <1>1, <1>2 DEF NoStaleCall

\* So no call of the in-memory store ever comes to a script of its own.
LEMMA NoStaleCalls ==
    ASSUME AtomicStore
    PROVE  Spec => []NoStaleCall
<1>1. Init => NoStaleCall
    BY DEF Init, StoreInit, NoDoc, IdleCall, NoStaleCall
<1>2. IndInv /\ NoStaleCall /\ [Next]_vars => NoStaleCall'
    BY NoStaleCallStep
<1> QED  BY <1>1, <1>2, Invariance, PTL DEF Spec

\* In memory, where cancel and expire read and write in one critical section, the
\* stored attempts of a watch never fall.
THEOREM AttemptsKept ==
    ASSUME AtomicStore
    PROVE  Spec => AttemptsNeverFall
<1>1. ASSUME IndInv, NoStaleCall, [Next]_vars,
             doc.status # "GONE", doc'.status # "GONE"
      PROVE  doc'.attempts >= doc.attempts
    <2>0. TypeOK /\ doc.attempts \in Nat /\ doc \in Docs
        BY <1>1 DEF IndInv, TypeOK, StoreTypeOK, Docs
    <2>1. ASSUME doc'.attempts = doc.attempts
          PROVE  doc'.attempts >= doc.attempts
        BY <2>0, <2>1
    <2>2. CASE Finishes
        <3>1. ASSUME NEW k \in Workers, Commit(k)
              PROVE  doc'.attempts >= doc.attempts
            <4>1. doc'.attempts \in {doc.attempts, doc.attempts + 1}
                BY <1>1, <3>1, CommitEffect DEF IndInv, Commit, storeVars
            <4> QED  BY <2>0, <4>1
        <3>2. ASSUME NEW c \in Callers, CallAtomically(c)
              PROVE  doc'.attempts >= doc.attempts
            BY <2>0, <3>2
            DEF CallAtomically, ApplyCall, FinishIfActive, RecordCancel, Docs
        <3>3. \/ \E k \in Workers : Commit(k)
              \/ \E c \in Callers : CallAtomically(c)
              \/ doc' = doc
              \/ ~IsActive
            BY <1>1
            DEF NoStaleCall, Next, vars, storeVars, Create, CreateWithSchedule,
                Delivery, PollWindow, ClaimWindow, RunClaimed, Replay, Search, Permit,
                GrantBooking, BookingLands, SlotsGone, Confirm, Reconcile,
                CheckCancel, ProviderError, ProviderTimeout, Announce, Release,
                ReleaseClaim, Crash, Calling, CallReadsDoc, CallReadsRuntime,
                CallRunsScript, CallRetries, AnnounceExpiry, CallAborts,
                LeaseExpires, LeaseLapses, Housekeeping, MarkerBecomesDue,
                RetentionElapses, CleanupDue, BackstopTTL, PruneIndex, Ageing,
                LifetimeElapses, IsActive, IsTerminal, Terminal
        <3> QED  BY <2>1, <2>2, <3>1, <3>2, <3>3 DEF Finishes
    <2>3. CASE Opens
        <3>1. doc.attempts = 0
            BY <1>1, <2>3 DEF Opens, NoStaleCall
        <3>2. doc'.attempts \in Nat
            BY <1>1, NextTypes DEF IndInv, TypeOK, StoreTypeOK, Docs
        <3> QED  BY <3>1, <3>2
    <2>4. CASE Advances
        BY <2>0, <2>4 DEF Advances
    <2>5. CASE Tells \/ Stays
        BY <2>1, <2>5 DEF Tells, Stays
    <2>6. ~Forgets
        BY <1>1 DEF Forgets
    <2> QED  BY <1>1, <2>2, <2>3, <2>4, <2>5, <2>6, StepEffect
<1>2. IndInv /\ NoStaleCall /\ [Next]_vars =>
        [doc.status # "GONE" /\ doc'.status # "GONE" =>
            doc'.attempts >= doc.attempts]_vars
    BY <1>1
<1> QED  BY <1>2, Invariance, NoStaleCalls, PTL DEF Spec, AttemptsNeverFall

\* A delivery in flight that carries no reservation: since it is the only one, an
\* active watch has none.
LEMMA NoReservationYet ==
    ASSUME BookingGuarded, SingleFlight, NEW k \in Workers, InFlight(k), ~Books(k)
    PROVE  ~(IsActive /\ reservation)
<1>1. \A j \in Workers : Books(j) => InFlight(j)
    BY DEF Books, InFlight
<1> QED  BY <1>1 DEF BookingGuarded, SingleFlight

\* A step of delivery k that neither books nor touches document, booking phase
\* and reservation keeps a booking guarded.
LEMMA GuardedMove ==
    ASSUME BookingGuarded, NEW k \in Workers,
           UNCHANGED <<doc, reservation>>, rt'.phase = rt.phase,
           \A j \in Workers : j # k => wk'[j] = wk[j],
           wk'[k].pc \in BookingPcs => wk[k].pc \in BookingPcs,
           IsActive /\ reservation => (Books(k) => Books(k)')
    PROVE  BookingGuarded'
<1>1. IsActive /\ reservation => \E j \in Workers : Books(j)'
    BY DEF BookingGuarded, Books
<1> QED  BY <1>1 DEF BookingGuarded, IsActive

\* In memory, with leases that outlive their task and bookings that can be
\* reconciled, every step keeps a booking guarded.
LEMMA GuardedStep ==
    ASSUME IndInv, ClaimHeldInFlight, SingleFlight, NoStaleCall, BookingGuarded,
           AtomicStore, Faults \subseteq {"error"}, [Next]_vars
    PROVE  BookingGuarded'
<1>0. TypeOK /\ Unborn /\ wk \in [Workers -> WorkerStates] /\ rt \in Runtimes
    BY DEF IndInv, TypeOK, StoreTypeOK
<1>1. CASE UNCHANGED vars
    BY <1>1 DEF vars, storeVars, BookingGuarded, IsActive, Books
<1>2. ASSUME NEW auto \in BOOLEAN, Create(auto)
      PROVE  BookingGuarded'
    <2>1. doc.status = "NEW" /\ wk' = wk /\ reservation' = reservation
        BY <1>2 DEF Create, CreateWithSchedule
    <2>2. ~reservation /\ \A k \in Workers : wk[k].pc = "idle"
        BY <1>0, <2>1 DEF BookingGuarded, Unborn
    <2> QED  BY <2>1, <2>2 DEF BookingGuarded, BookingPcs
<1>3. ASSUME NEW k \in Workers, Delivery(k) \/ Crash(k)
      PROVE  BookingGuarded'
    <2>1. CASE \E w \in 0..MaxSeq, i \in BOOLEAN : PollWindow(k, w, i)
        <3>1. /\ \A j \in Workers : j # k => wk'[j] = wk[j]
              /\ wk'[k].pc = "claimed" /\ wk[k].pc = "idle"
            BY <1>0, <2>1 DEF PollWindow, IdleWorker
        <3>2. UNCHANGED <<doc, rt, reservation>>
            BY <2>1 DEF PollWindow, ClaimWindow
        <3> QED  BY <3>1, <3>2, GuardedMove DEF BookingPcs, Books
    <2>2. CASE RunClaimed(k) \/ Search(k) \/ (Replay(k) /\ ~reservation)
        <3>1. Aside(k)
            BY <1>0, <2>2, AsideSteps
        <3> QED  BY <3>1, GuardedMove DEF Aside, storeVars
    <2>3. CASE \/ Replay(k) /\ reservation
               \/ SlotsGone(k) \/ CheckCancel(k)
        <3>1. InFlight(k) /\ ~Books(k)
            BY <2>3 DEF Replay, SlotsGone, CheckCancel, InFlight, Books
        <3>2. UNCHANGED <<doc, rt, reservation>>
            BY <2>3 DEF Replay, SlotsGone, CheckCancel, storeVars
        <3>3. /\ \A j \in Workers : j # k => wk'[j] = wk[j]
              /\ wk'[k].pc \in BookingPcs => wk[k].pc \in BookingPcs
            BY <1>0, <2>3, GoesOn, Decides
            DEF Replay, SlotsGone, CheckCancel, BookingPcs
        <3> QED  BY <3>1, <3>2, <3>3, GuardedMove, NoReservationYet
    <2>4. CASE Confirm(k) \/ Reconcile(k) \/ ProviderError(k)
        <3>1. UNCHANGED <<doc, rt, reservation>>
            BY <2>4 DEF Confirm, Reconcile, ProviderError, storeVars
        <3>2. /\ \A j \in Workers : j # k => wk'[j] = wk[j]
              /\ wk'[k].pc \in BookingPcs => wk[k].pc \in BookingPcs
              /\ reservation => (Books(k) => Books(k)')
            BY <1>0, <2>4, GoesOn, Decides
            DEF Confirm, Reconcile, ProviderError, BookingPcs, Books
        <3> QED  BY <3>1, <3>2, GuardedMove
    <2>5. CASE BookingLands(k)
        <3>1. /\ wk[k].pc = "book" /\ reservation'
              /\ UNCHANGED <<doc, rt>>
            BY <2>5 DEF BookingLands, storeVars
        <3>2. doc.status # "CANCELLED" /\ (IsActive => rt.phase = "BOOKING")
            BY <3>1 DEF BookingGuarded, BookingPcs
        <3>3. doc.status # "NEW"
            BY <1>0, <3>1 DEF Unborn
        <3>4. /\ \A j \in Workers : j # k => wk'[j] = wk[j]
              /\ wk'[k].pc = "landed"
            BY <1>0, <2>5, GoesOn DEF BookingLands
        <3>5. Books(k)'
            BY <3>4 DEF Books
        <3>6. \A j \in Workers : wk'[j].pc \in BookingPcs =>
                 doc.status # "CANCELLED" /\ (IsActive => rt.phase = "BOOKING")
            BY <3>2
        <3> QED  BY <3>1, <3>2, <3>3, <3>5, <3>6 DEF BookingGuarded, IsActive
    <2>6. CASE Permit(k)
        <3>1. InFlight(k) /\ ~Books(k)
            BY <2>6 DEF Permit, InFlight, Books
        <3>2. ~(IsActive /\ reservation)
            BY <3>1, NoReservationYet
        <3>3. CASE GrantBooking(wk[k].tok, wk[k].rt) /\ GoTo(k, "book")
            <4>1. /\ UNCHANGED <<doc, reservation>> /\ IsActive
                  /\ rt'.phase = "BOOKING"
                <5>1. wk[k].rt \in Runtimes
                    BY <1>0 DEF WorkerStates
                <5> QED  BY <2>6, <3>3, <5>1
                        DEF Permit, GrantBooking, Owns, Runtimes
            <4> QED  BY <3>2, <4>1 DEF BookingGuarded, IsActive
        <3>4. CASE /\ UNCHANGED storeVars
                   /\ Decide(k, "CANCELLED") \/ GoTo(k, "release")
            <4>1. /\ \A j \in Workers : j # k => wk'[j] = wk[j]
                  /\ wk'[k].pc \in BookingPcs => wk[k].pc \in BookingPcs
                BY <1>0, <3>4, GoesOn, Decides DEF BookingPcs
            <4> QED  BY <2>6, <3>1, <3>4, <4>1, GuardedMove DEF Permit, storeVars
        <3> QED  BY <2>6, <3>3, <3>4 DEF Permit
    <2>7. CASE Commit(k)
        <3>1. /\ \A j \in Workers : j # k => wk'[j] = wk[j]
              /\ wk'[k].pc \in {"idle", "announce"}
            BY <1>0, <2>7, GoesOn, Rests DEF Commit
        <3>2. \A j \in Workers : wk'[j].pc \notin BookingPcs
            BY <2>7, <3>1 DEF Commit, SingleFlight, InFlight, BookingPcs
        <3>3. reservation' = reservation
            BY <2>7 DEF Commit
        <3>4. CASE ~Books(k)
            <4>1. ~(IsActive /\ reservation)
                BY <2>7, <3>4, NoReservationYet DEF Commit, InFlight
            <4>2. CASE UNCHANGED storeVars
                BY <3>2, <3>3, <4>1, <4>2 DEF storeVars, BookingGuarded, IsActive
            <4>3. CASE CommitWindow(wk[k].tok, wk[k].rt, DocAfter(wk[k]),
                                    RuntimeAfter(wk[k]))
                BY <3>2, <3>3, <4>1, <4>3 DEF CommitWindow, Owns, BookingGuarded
            <4> QED  BY <2>7, <4>2, <4>3 DEF Commit
        <3>5. CASE Books(k)
            <4>1. CASE CommitWindow(wk[k].tok, wk[k].rt, DocAfter(wk[k]),
                                    RuntimeAfter(wk[k]))
                <5>1. doc'.status \notin {"NEW", "CANCELLED", "ACTIVE"}
                    BY <1>0, <2>7, <3>5, <4>1, CommitStatus DEF Commit, Books
                <5> QED  BY <3>2, <5>1 DEF BookingGuarded, IsActive
            <4>2. CASE ~Owns(wk[k].tok, wk[k].rt.rev) /\ UNCHANGED storeVars
                <5>1. InFlight(k) /\ wk[k].tok # NoClaim
                    BY <2>7 DEF Commit, InFlight, IndInv, SnapshotsFenced
                <5>2. ~IsActive
                    BY <4>2, <5>1 DEF Owns, ClaimHeldInFlight
                <5> QED  BY <3>2, <3>3, <4>2, <5>2 DEF BookingGuarded, IsActive, storeVars
            <4> QED  BY <2>7, <4>1, <4>2 DEF Commit
        <3> QED  BY <3>4, <3>5
    <2>8. CASE Announce(k) \/ Release(k) \/ Crash(k)
        <3>1. wk[k].pc \in {"announce", "release"} /\ ~Books(k)
            BY <2>8 DEF Announce, Release, Crash, Books
        <3>2. UNCHANGED <<doc, rt, reservation>>
            BY <2>8 DEF Announce, Release, ReleaseClaim, Crash, storeVars
        <3>3. /\ \A j \in Workers : j # k => wk'[j] = wk[j]
              /\ wk'[k].pc = "idle"
            BY <1>0, <2>8, Rests DEF Announce, Release, Crash
        <3> QED  BY <3>1, <3>2, <3>3, GuardedMove DEF BookingPcs
    <2>9. ~ProviderTimeout(k)
        BY DEF ProviderTimeout
    <2> QED  BY <1>3, <2>1, <2>2, <2>3, <2>4, <2>5, <2>6, <2>7, <2>8, <2>9 DEF Delivery
<1>4. ASSUME NEW c \in Callers, Calling(c) \/ CallAborts(c)
      PROVE  BookingGuarded'
    <2>1. wk' = wk /\ reservation' = reservation
        BY <1>4
        DEF Calling, CallAtomically, CallReadsDoc, CallReadsRuntime,
            CallRunsScript, CallRetries, AnnounceExpiry, CallAborts
    <2>2. CASE CallAtomically(c)
        <3>1. ApplyCall(c, doc, rt) /\ doc \in Docs
            BY <1>0, <2>2 DEF CallAtomically, TypeOK, StoreTypeOK
        <3>2. CASE doc' = doc /\ rt' = [rt EXCEPT !.cancelReq = TRUE]
            <4>1. rt'.phase = rt.phase
                BY <1>0, <3>2 DEF Runtimes
            <4> QED  BY <2>1, <3>2, <4>1 DEF BookingGuarded, IsActive, Books
        <3>3. CASE doc'.status = "EXPIRED"
            BY <2>1, <3>3 DEF BookingGuarded, IsActive
        <3>4. CASE doc'.status = "CANCELLED" /\ rt.phase # "BOOKING"
            <4>1. IsActive
                BY <1>0, <3>1, CallStatus
            <4>2. ~reservation /\ \A k \in Workers : wk[k].pc \notin BookingPcs
                BY <3>4, <4>1 DEF BookingGuarded
            <4> QED  BY <2>1, <3>4, <4>2 DEF BookingGuarded, IsActive
        <3> QED  BY <1>0, <3>1, <3>2, <3>3, <3>4, CallStatus
    <2>3. CASE doc' = doc /\ rt' = rt
        BY <2>1, <2>3 DEF BookingGuarded, IsActive, Books
    <2>4. CallAtomically(c) \/ (doc' = doc /\ rt' = rt)
        BY <1>4
        DEF Calling, CallReadsDoc, CallReadsRuntime, CallRunsScript, CallRetries,
            AnnounceExpiry, CallAborts, NoStaleCall, storeVars
    <2> QED  BY <2>2, <2>3, <2>4
<1>5. CASE LeaseExpires \/ Housekeeping \/ Ageing
    <2>1. wk' = wk /\ reservation' = reservation
        BY <1>5 DEF LeaseExpires, Housekeeping, Ageing
    <2>2. (doc' = doc /\ rt' = rt) \/ doc'.status = "GONE"
        BY <1>5
        DEF LeaseExpires, LeaseLapses, Housekeeping, Ageing, MarkerBecomesDue,
            RetentionElapses, CleanupDue, BackstopTTL, PruneIndex,
            LifetimeElapses, GoneDoc
    <2> QED  BY <2>1, <2>2 DEF BookingGuarded, IsActive, Books
<1> QED  BY <1>1, <1>2, <1>3, <1>4, <1>5 DEF Next

\* "A cancellation never lies", where it holds: in memory, with leases that
\* outlive their task and provider errors that can be reconciled, a watch
\* reported as cancelled has no reservation.
THEOREM Truthful ==
    ASSUME AtomicStore, LeaseOutlivesTask, Faults \subseteq {"error"}
    PROVE  Spec => []CancellationNeverLies
<1>1. Init => BookingGuarded
    BY DEF Init, StoreInit, NoDoc, IdleWorker, BookingGuarded, BookingPcs
<1>2. /\ IndInv /\ ClaimHeldInFlight /\ SingleFlight /\ NoStaleCall
      /\ BookingGuarded /\ [Next]_vars
      => BookingGuarded'
    BY GuardedStep
<1>3. BookingGuarded => CancellationNeverLies
    BY DEF BookingGuarded, CancellationNeverLies
<1> QED  BY <1>1, <1>2, <1>3, Invariance, Holding, NoStaleCalls, PTL DEF Spec
=============================================================================
