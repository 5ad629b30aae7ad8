---------------------------- MODULE WatchPolling ----------------------------
(***************************************************************************)
(* The life of one watch: deliveries that poll it (WatchService.poll_window*)
(* and poll_once, run by Celery workers or asyncio tasks), clients that    *)
(* cancel it (WatchService.cancel), recovery sweeps that expire it         *)
(* (WatchService.expire) and terminal cleanup, all over the store of       *)
(* module WatchStore.                                                      *)
(*                                                                         *)
(* A delivery interleaves with everything else at each of its awaits: the  *)
(* claim, each provider call, the booking permit, the reading of a pending *)
(* cancellation, the commit and the announcement are separate steps.  The  *)
(* queue is over-approximated: any window may be delivered at any moment,  *)
(* any number of times or never, which covers lost, duplicated, delayed    *)
(* and reordered messages and Celery's own retries.                        *)
(***************************************************************************)
EXTENDS WatchStore, Sequences

CONSTANTS Workers,            \* concurrent deliveries
          Clients,            \* concurrent cancel requests
          Sweepers,           \* concurrent recovery sweeps
          AtomicStore,        \* TRUE: in-memory store, cancel and expire hold
                              \* one lock; FALSE: Redis, reads then a script
          LeaseOutlivesTask,  \* TRUE: the time limits end a delivery before
                              \* its 120 s lease lapses
          Faults,             \* provider faults: "error", "timeout", "unknown"
          CancelTries         \* rounds of cancel_if_active's CAS loop (5)

ASSUME PollingAssumption ==
    /\ Clients \cap Sweepers = {}
    /\ AtomicStore \in BOOLEAN
    /\ LeaseOutlivesTask \in BOOLEAN
    /\ Faults \subseteq {"error", "timeout", "unknown"}
    /\ CancelTries \in Nat \ {0}

VARIABLES wk,           \* each delivery: program counter, claim, snapshot, plan
          call,         \* each cancel or expire call in flight
          reservation,  \* the provider holds a reservation under the watch's key
          notices       \* announcements sent to the owner, oldest first

vars == <<storeVars, wk, call, reservation, notices>>

Callers == Clients \cup Sweepers

\* Inside the provider sequence, which one owned timeout bounds.
ProviderPcs == {"replay", "search", "permit", "book", "landed", "reconcile",
                "checkMiss", "checkOutage"}
WorkerPcs == {"idle", "claimed", "commit", "release", "announce"} \cup ProviderPcs
\* _Sequence, and the two plans made outside it.
Plans == {"none", "MISS", "FOUND", "BOOKED", "BOOKED_REPLAY", "CANCELLED",
          "OUTAGE", "EXPIRE"}

WorkerStates == [pc : WorkerPcs, tok : 0..MaxToken, doc : Docs, rt : Runtimes,
                 life : {"open", "closing", "over"}, plan : Plans]
CallPcs == {"idle", "runtime", "script", "again", "announce"}
CallStates == [pc : CallPcs, doc : Docs,
               rt : Runtimes, tries : 0..CancelTries]

IdleWorker == [pc |-> "idle", tok |-> NoClaim, doc |-> NoDoc, rt |-> NoRuntime,
               life |-> "open", plan |-> "none"]
IdleCall == [pc |-> "idle", doc |-> NoDoc, rt |-> NoRuntime, tries |-> 0]

Init ==
    /\ StoreInit
    /\ wk = [k \in Workers |-> IdleWorker]
    /\ call = [c \in Callers |-> IdleCall]
    /\ reservation = FALSE
    /\ notices = <<>>

GoTo(k, pc) == wk' = [wk EXCEPT ![k].pc = pc]
\* The provider sequence returns; what is left is to commit its plan.
Decide(k, plan) == wk' = [wk EXCEPT ![k].pc = "commit", ![k].plan = plan]
Rest(k) == wk' = [wk EXCEPT ![k] = IdleWorker]

-----------------------------------------------------------------------------
(* Creation                                                                *)

Create(auto) ==
    /\ CreateWithSchedule(auto)
    /\ UNCHANGED <<wk, call, reservation, notices>>

-----------------------------------------------------------------------------
(* A delivery                                                              *)

\* poll_window, and poll_once for the current window with ignoreSchedule.  A
\* delivery that claim_window does not answer OWNED ends without effect.
PollWindow(k, w, ignoreSchedule) ==
    /\ wk[k].pc = "idle"
    /\ ClaimWindow(w, ignoreSchedule)
    /\ wk' = [wk EXCEPT ![k] = [IdleWorker EXCEPT !.pc = "claimed",
                                   !.tok = fence + 1, !.doc = doc, !.rt = rt]]
    /\ UNCHANGED <<call, reservation, notices>>

\* _run_claimed reads its clock once; an exhausted watch is expired without a
\* provider call, any other enters the provider sequence.
RunClaimed(k) ==
    /\ wk[k].pc = "claimed"
    /\ wk' = [wk EXCEPT ![k] =
                 IF IsExhausted(@.doc, life)
                 THEN [@ EXCEPT !.life = life, !.pc = "commit", !.plan = "EXPIRE"]
                 ELSE [@ EXCEPT !.life = life,
                                !.pc = IF wk[k].doc.auto THEN "replay"
                                       ELSE "search"]]
    /\ UNCHANGED <<storeVars, call, reservation, notices>>

\* get_booking under the watch's idempotency key: a reservation that an earlier
\* delivery made before it could commit.
Replay(k) ==
    /\ wk[k].pc = "replay"
    /\ IF reservation THEN Decide(k, "BOOKED_REPLAY") ELSE GoTo(k, "search")
    /\ UNCHANGED <<storeVars, call, reservation, notices>>

\* search_availability: no slot is a miss; slots finish a notify-only watch and
\* lead an auto_book one to the booking permit.
Search(k) ==
    /\ wk[k].pc = "search"
    /\ \/ Decide(k, "MISS")
       \/ IF wk[k].doc.auto THEN GoTo(k, "permit") ELSE Decide(k, "FOUND")
    /\ UNCHANGED <<storeVars, call, reservation, notices>>

\* begin_booking: granted, cancelled by a recorded request, or fenced.
Permit(k) ==
    /\ wk[k].pc = "permit"
    /\ \/ GrantBooking(wk[k].tok, wk[k].rt) /\ GoTo(k, "book")
       \/ /\ Owns(wk[k].tok, wk[k].rt.rev)
          /\ rt.cancelReq
          /\ Decide(k, "CANCELLED")
          /\ UNCHANGED storeVars
       \/ /\ ~Owns(wk[k].tok, wk[k].rt.rev)
          /\ GoTo(k, "release")
          /\ UNCHANGED storeVars
    /\ UNCHANGED <<call, reservation, notices>>

\* book_slot takes effect at the provider; the key makes a repeat return the
\* reservation that exists.
BookingLands(k) ==
    /\ wk[k].pc = "book"
    /\ reservation' = TRUE
    /\ GoTo(k, "landed")
    /\ UNCHANGED <<storeVars, call, notices>>

\* _book tried every slot and none was left.
SlotsGone(k) ==
    /\ wk[k].pc = "book"
    /\ ~reservation
    /\ GoTo(k, "checkMiss")
    /\ UNCHANGED <<storeVars, call, reservation, notices>>

\* book_slot answers with the confirmation.
Confirm(k) ==
    /\ wk[k].pc = "landed"
    /\ Decide(k, "BOOKED")
    /\ UNCHANGED <<storeVars, call, reservation, notices>>

\* Mutation: a pending cancellation is honoured as soon as the error is seen.
ReconcileCancelsFirst(k) ==
    /\ wk[k].pc = "reconcile"
    /\ Decide(k, IF rt.cancelReq THEN "CANCELLED"
                 ELSE IF reservation THEN "BOOKED" ELSE "OUTAGE")
    /\ UNCHANGED <<storeVars, call, reservation, notices>>

\* Mutation: an ambiguous booking error is taken for a booking.
ReconcileAssumes(k) ==
    /\ wk[k].pc = "reconcile"
    /\ Decide(k, "BOOKED")
    /\ UNCHANGED <<storeVars, call, reservation, notices>>

\* _resolve_ambiguous asks reconcile_booking up to three times: confirmed,
\* definitively absent, or inconclusive (still unknown, or the call itself
\* fails), which is an outage.
Reconcile(k) ==
    /\ wk[k].pc = "reconcile"
    /\ \/ reservation /\ Decide(k, "BOOKED")
       \/ ~reservation /\ GoTo(k, "checkOutage")
       \/ "unknown" \in Faults /\ Decide(k, "OUTAGE")
    /\ UNCHANGED <<storeVars, call, reservation, notices>>

\* _cancel_requested after a booking that definitively did not happen.
CheckCancel(k) ==
    /\ wk[k].pc \in {"checkMiss", "checkOutage"}
    /\ Decide(k, IF rt.cancelReq THEN "CANCELLED"
                 ELSE IF wk[k].pc = "checkMiss" THEN "MISS" ELSE "OUTAGE")
    /\ UNCHANGED <<storeVars, call, reservation, notices>>

\* A generic AdapterError: ambiguous once the booking call is out, an outage
\* anywhere else.
ProviderError(k) ==
    /\ "error" \in Faults
    /\ \/ wk[k].pc \in {"replay", "search"} /\ Decide(k, "OUTAGE")
       \/ wk[k].pc \in {"book", "landed"} /\ GoTo(k, "reconcile")
    /\ UNCHANGED <<storeVars, call, reservation, notices>>

\* asyncio.timeout around the provider sequence strikes at any of its awaits.
ProviderTimeout(k) ==
    /\ "timeout" \in Faults
    /\ wk[k].pc \in ProviderPcs
    /\ Decide(k, "OUTAGE")
    /\ UNCHANGED <<storeVars, call, reservation, notices>>

\* attempts in the committed document: only a check the provider answered is
\* charged (_commit_miss, _found_watch, _booked_watch).
AttemptsAfter(w) ==
    IF w.plan \in {"MISS", "FOUND", "BOOKED"} /\ w.doc.attempts < MaxAttempts
    THEN w.doc.attempts + 1 ELSE w.doc.attempts

\* The status each plan commits: a miss that spends the budget, and a miss or
\* an outage with less than a second of lifetime left, expire the watch.
StatusAfter(w) ==
    CASE w.plan = "FOUND" -> "FOUND"
      [] w.plan \in {"BOOKED", "BOOKED_REPLAY"} -> "BOOKED"
      [] w.plan = "CANCELLED" -> "CANCELLED"
      [] w.plan = "MISS" -> IF AttemptsAfter(w) >= MaxAttempts \/ w.life # "open"
                            THEN "EXPIRED" ELSE "ACTIVE"
      [] w.plan = "OUTAGE" -> IF w.life # "open" THEN "EXPIRED" ELSE "ACTIVE"
      [] OTHER -> "EXPIRED"

DocAfter(w) == [w.doc EXCEPT !.status = StatusAfter(w),
                             !.attempts = AttemptsAfter(w)]

\* Mutation: a miss keeps its window instead of moving to the next one.
RuntimeAfterSameWindow(w) ==
    IF StatusAfter(w) = "ACTIVE"
    THEN [w.rt EXCEPT !.window = w.rt.seq, !.cancelReq = FALSE]
    ELSE [w.rt EXCEPT !.window = NoWindow, !.cancelReq = FALSE]

\* The sidecar each plan commits: the next window, or none once finished.
RuntimeAfter(w) ==
    IF StatusAfter(w) = "ACTIVE"
    THEN [w.rt EXCEPT !.seq = @ + 1, !.window = w.rt.seq + 1, !.cancelReq = FALSE]
    ELSE [w.rt EXCEPT !.window = NoWindow, !.cancelReq = FALSE]

\* _commit_outage, _commit_miss and _commit_terminal: one fenced commit.  A
\* terminal commit with an event goes on to announce it; a refused commit
\* (TERMINAL, FENCED, UNKNOWN) ends the delivery.
Commit(k) ==
    /\ wk[k].pc = "commit"
    /\ \/ /\ StatusAfter(wk[k]) = "ACTIVE" => wk[k].rt.seq < MaxSeq
          /\ CommitWindow(wk[k].tok, wk[k].rt, DocAfter(wk[k]), RuntimeAfter(wk[k]))
          /\ IF StatusAfter(wk[k]) \in EventStatuses THEN GoTo(k, "announce")
             ELSE Rest(k)
       \/ /\ ~Owns(wk[k].tok, wk[k].rt.rev)
          /\ Rest(k)
          /\ UNCHANGED storeVars
    /\ UNCHANGED <<call, reservation, notices>>

\* _notify, best effort: a failed or skipped announcement is Crash(k).
Announce(k) ==
    /\ wk[k].pc = "announce"
    /\ notices' = Append(notices, StatusAfter(wk[k]))
    /\ Rest(k)
    /\ UNCHANGED <<storeVars, call, reservation>>

\* A fenced permit: the claim is released if it is still this delivery's.
Release(k) ==
    /\ wk[k].pc = "release"
    /\ ReleaseClaim(wk[k].tok)
    /\ Rest(k)
    /\ UNCHANGED <<call, reservation, notices>>

\* The process dies, a Celery time limit kills the task, or a Redis error
\* aborts it; whatever it wrote stays, its claim until the lease lapses.  The
\* in-memory store dies with its process, so there only the announcement, whose
\* failure is swallowed, can be lost.
Crash(k) ==
    /\ wk[k].pc # "idle"
    /\ AtomicStore => wk[k].pc = "announce"
    /\ Rest(k)
    /\ UNCHANGED <<storeVars, call, reservation, notices>>

-----------------------------------------------------------------------------
(* Cancel and expire calls                                                 *)

Return(c) == call' = [call EXCEPT ![c] = IdleCall]

\* What the script of a call does with the snapshots it was given.  A cancel of
\* a watch whose booking is in flight only records the request.
ApplyCall(c, snapDoc, snapRt) ==
    IF c \in Sweepers THEN FinishIfActive("EXPIRED", snapDoc, snapRt)
    ELSE IF snapRt.phase = "BOOKING" THEN RecordCancel(snapRt)
    ELSE FinishIfActive("CANCELLED", snapDoc, snapRt)

\* After the call took effect: an expiry issued its event and is announced.
AfterCall(c) ==
    IF c \in Sweepers THEN call' = [call EXCEPT ![c].pc = "announce"]
    ELSE Return(c)

\* Mutation: a sweep leaves a watch alone until its attempts are spent.
SweepEligibleByAttempts(d) == d.attempts >= MaxAttempts

\* Whether expire_if_eligible goes on with a document it read.
SweepEligible(d) == IsExhausted(d, life)

\* Mutation: the critical section ends between reading and writing, so that
\* the attempts written are those of the last delivery's snapshot.
CallAtomicallyStale(c) ==
    /\ AtomicStore
    /\ call[c].pc = "idle"
    /\ IsActive
    /\ c \in Sweepers => SweepEligible(doc)
    /\ \E a \in 0..doc.attempts : ApplyCall(c, [doc EXCEPT !.attempts = a], rt)
    /\ AfterCall(c)
    /\ UNCHANGED <<wk, reservation, notices>>

\* In memory: one critical section.
CallAtomically(c) ==
    /\ AtomicStore
    /\ call[c].pc = "idle"
    /\ IsActive
    /\ c \in Sweepers => SweepEligible(doc)
    /\ ApplyCall(c, doc, rt)
    /\ AfterCall(c)
    /\ UNCHANGED <<wk, reservation, notices>>

\* Redis, first GET: the document must be active; a missing or finished one
\* ends the call.
CallReadsDoc(c) ==
    /\ ~AtomicStore
    /\ call[c].pc = "idle"
    /\ IsActive
    /\ call' = [call EXCEPT ![c] = [@ EXCEPT !.pc = "runtime", !.doc = doc]]
    /\ UNCHANGED <<storeVars, wk, reservation, notices>>

\* Redis, second GET: the sidecar, whose revision the script will compare.  An
\* expiry goes on only for an exhausted document.
CallReadsRuntime(c) ==
    /\ call[c].pc = "runtime"
    /\ IF c \in Sweepers /\ ~SweepEligible(call[c].doc)
       THEN Return(c)
       ELSE call' = [call EXCEPT ![c] = [@ EXCEPT !.pc = "script", !.rt = rt]]
    /\ UNCHANGED <<storeVars, wk, reservation, notices>>

\* Redis, the script: applied, retried from the first GET (a cancel whose
\* revision moved, for a bounded number of rounds), or without effect.
CallRunsScript(c) ==
    /\ call[c].pc = "script"
    /\ \/ ApplyCall(c, call[c].doc, call[c].rt) /\ AfterCall(c)
       \/ /\ ~SameRevision(call[c].rt)
          /\ IF /\ c \in Clients
                /\ IsActive
                /\ call[c].tries + 1 < CancelTries
             THEN call' = [call EXCEPT ![c] = [IdleCall EXCEPT !.pc = "again",
                                                 !.tries = call[c].tries + 1]]
             ELSE Return(c)
          /\ UNCHANGED storeVars
    /\ UNCHANGED <<wk, reservation, notices>>

\* A retried cancel reads the document again; finished by now, it returns.
CallRetries(c) ==
    /\ call[c].pc = "again"
    /\ IF IsActive
       THEN call' = [call EXCEPT ![c] = [@ EXCEPT !.pc = "runtime", !.doc = doc]]
       ELSE Return(c)
    /\ UNCHANGED <<storeVars, wk, reservation, notices>>

AnnounceExpiry(s) ==
    /\ call[s].pc = "announce"
    /\ notices' = Append(notices, "EXPIRED")
    /\ Return(s)
    /\ UNCHANGED <<storeVars, wk, reservation>>

\* The process serving the call dies between two of its steps.
CallAborts(c) ==
    /\ call[c].pc # "idle"
    /\ Return(c)
    /\ UNCHANGED <<storeVars, wk, reservation, notices>>

-----------------------------------------------------------------------------
(* Time and cleanup                                                        *)

InFlight(k) == wk[k].pc \notin {"idle", "announce"}

LeaseExpires ==
    /\ LeaseOutlivesTask => \A k \in Workers : InFlight(k) => wk[k].tok # claim
    /\ LeaseLapses
    /\ UNCHANGED <<wk, call, reservation, notices>>

Housekeeping ==
    /\ \/ MarkerBecomesDue
       \/ RetentionElapses
       \/ CleanupDue
       \/ BackstopTTL
       \/ PruneIndex
    /\ UNCHANGED <<wk, call, reservation, notices>>

Ageing ==
    /\ LifetimeElapses
    /\ UNCHANGED <<wk, call, reservation, notices>>

-----------------------------------------------------------------------------

Delivery(k) ==
    \/ \E w \in 0..MaxSeq, ignoreSchedule \in BOOLEAN :
            PollWindow(k, w, ignoreSchedule)
    \/ RunClaimed(k) \/ Replay(k) \/ Search(k) \/ Permit(k)
    \/ BookingLands(k) \/ SlotsGone(k) \/ Confirm(k) \/ Reconcile(k)
    \/ CheckCancel(k) \/ ProviderError(k) \/ ProviderTimeout(k)
    \/ Commit(k) \/ Announce(k) \/ Release(k)

Calling(c) ==
    \/ CallAtomically(c) \/ CallReadsDoc(c) \/ CallReadsRuntime(c)
    \/ CallRunsScript(c) \/ CallRetries(c) \/ AnnounceExpiry(c)

Next ==
    \/ \E auto \in BOOLEAN : Create(auto)
    \/ \E k \in Workers : Delivery(k) \/ Crash(k)
    \/ \E c \in Callers : Calling(c) \/ CallAborts(c)
    \/ LeaseExpires
    \/ Housekeeping
    \/ Ageing

Spec == Init /\ [][Next]_vars

\* Time keeps passing; the periodic recovery loop keeps sweeping and, though a
\* sweep may die, it does not die at the same await in every pass.  Nothing is
\* assumed of deliveries: they may all be lost, crash or starve.
Fairness ==
    /\ WF_vars(Ageing)
    /\ \A s \in Sweepers : /\ WF_vars(Calling(s))
                          /\ SF_vars(CallReadsRuntime(s))
                          /\ SF_vars(CallRunsScript(s))

FairSpec == Spec /\ Fairness

-----------------------------------------------------------------------------
(* Properties                                                              *)

\* Every variable has its type.
TypeOK ==
    /\ StoreTypeOK
    /\ wk \in [Workers -> WorkerStates]
    /\ call \in [Callers -> CallStates]
    /\ reservation \in BOOLEAN
    /\ notices \in Seq(Statuses)

\* A finished watch never changes again except by deletion: no late commit,
\* cancel or sweep of any interleaving overwrites a terminal document.
TerminalIsFinal ==
    [][IsTerminal => doc' = doc \/ doc'.status = "GONE"]_vars

\* The schedule never strands a watch: while it is active it has a marker for
\* its current window and sits in both indexes, so recovery can find it; once
\* finished it has neither marker nor claim and has a cleanup entry.
NeverStranded ==
    /\ IsActive => /\ marker # "none" /\ active /\ indexed
                   /\ rt.window = rt.seq /\ retention = "none"
    /\ ~IsActive => marker = "none" /\ ~active /\ claim = NoClaim
    /\ IsTerminal => indexed /\ rt.window = NoWindow /\ retention # "none"

\* One cadence window charges the attempt budget at most once, however often
\* its job is delivered, retried or raced.
WindowChargedOnce ==
    /\ IsActive => doc.attempts <= rt.seq
    /\ IsTerminal => doc.attempts <= rt.seq + 1

\* Each commit builds on the current window: while the watch stays active the
\* cadence moves by single steps, the attempts never fall, and they move only
\* with the window.  A delivery fenced off by another never overwrites it.
NoLostCommit ==
    [][IsActive /\ doc'.status = "ACTIVE" =>
         /\ rt'.seq \in {rt.seq, rt.seq + 1}
         /\ rt'.seq = rt.seq => doc'.attempts = doc.attempts
         /\ doc'.attempts \in {doc.attempts, doc.attempts + 1}]_vars

\* The owner hears of a watch at most once, and what is heard is what happened:
\* no interleaving of deliveries and sweeps announces two outcomes.
AnnouncedOnce ==
    /\ Len(notices) <= 1
    /\ \A i \in 1..Len(notices) :
          /\ \E e \in events : e.status = notices[i]
          /\ IsTerminal => doc.status = notices[i]

\* At most one delivery works on the watch at any time, so two deliveries never
\* call the provider for it together.  Needs leases that outlive their task.
SingleFlight ==
    \A k1, k2 \in Workers : InFlight(k1) /\ InFlight(k2) => k1 = k2

\* A watch reported as booked has a reservation at the provider.
NoPhantomBooking == doc.status = "BOOKED" => reservation

\* "A cancellation never lies": a watch reported as cancelled holds no
\* reservation (docstring of WatchService._auto_book_sequence).
CancellationNeverLies == doc.status = "CANCELLED" => ~reservation

\* "A confirmed booking is never silently discarded" (same docstring): once the
\* provider confirmed the booking to its delivery, the watch does not finish as
\* anything but BOOKED.
ConfirmedBookingKept ==
    \A k \in Workers :
        wk[k].pc = "commit" /\ wk[k].plan = "BOOKED" =>
            doc.status \notin {"EXPIRED", "FOUND", "CANCELLED"}

\* A cancellation that was recorded because a booking was in flight is resolved
\* by that booking's outcome: the request disappears only with the watch.
CancelRequestResolved ==
    [][rt.cancelReq /\ IsActive /\ ~rt'.cancelReq => doc'.status # "ACTIVE"]_vars

\* The stored attempts of a watch never fall, on any transition.
AttemptsNeverFall ==
    [][doc.status # "GONE" /\ doc'.status # "GONE" =>
         doc'.attempts >= doc.attempts]_vars

\* WatchPolling implements WatchLifecycle: whatever deliveries, cancels, sweeps
\* and crashes interleave, the owner sees one opening, one outcome, at most one
\* truthful announcement, and then deletion.
Lifecycle == INSTANCE WatchLifecycle WITH
                status <- doc.status,
                owed <- {e.status : e \in events},
                heard <- notices

LifecycleSpec == Lifecycle!Spec

\* Every watch finishes: even if every delivery is lost, recovery expires it
\* after its deadline.
WatchFinishes == IsActive ~> ~IsActive

-----------------------------------------------------------------------------
(* The inductive invariant behind the safety properties                    *)

\* Before its creation nothing knows the watch.
Unborn ==
    doc.status = "NEW" =>
        /\ ~indexed /\ retention = "none" /\ claim = NoClaim /\ marker = "none"
        /\ ~active
        /\ \A k \in Workers : wk[k].pc = "idle"
        /\ \A c \in Callers : call[c].pc = "idle"

\* A delivery whose revision is still the stored one holds the stored document
\* and window: revisions only grow, and no write leaves them in place but those
\* of the booking phase.  This is what makes a commit built on the snapshot safe.
SnapshotsFenced ==
    \A k \in Workers : InFlight(k) =>
        /\ wk[k].tok # NoClaim
        /\ IsActive =>
             /\ wk[k].rt.rev <= rt.rev
             /\ wk[k].rt.rev = rt.rev => /\ wk[k].doc = doc
                                         /\ wk[k].rt.seq = rt.seq
                                         /\ wk[k].rt.window = rt.window

\* A cancel or expiry holds a sidecar of the stored revision or an older one,
\* and a document that may be older still, whose attempts were not more.
CallsFenced ==
    \A c \in Callers : IsActive =>
        /\ call[c].pc = "script" =>
             /\ call[c].rt.rev <= rt.rev
             /\ call[c].rt.rev = rt.rev => /\ call[c].rt.seq = rt.seq
                                           /\ call[c].rt.window = rt.window
        /\ call[c].pc \in {"runtime", "script"} =>
             call[c].doc.attempts <= doc.attempts

\* s is the announced outcome of the watch.
Outcome(s) ==
    /\ \E e \in events : e.status = s
    /\ IsTerminal => doc.status = s

\* Whoever wrote the terminal document, and no one else, is about to announce it.
OneAnnouncer ==
    /\ (IsActive \/ doc.status = "NEW") =>
         /\ events = {} /\ notices = <<>>
         /\ \A k \in Workers : wk[k].pc # "announce"
         /\ \A c \in Callers : call[c].pc # "announce"
    /\ \A k \in Workers : wk[k].pc = "announce" =>
         /\ notices = <<>>
         /\ StatusAfter(wk[k]) \in EventStatuses
         /\ Outcome(StatusAfter(wk[k]))
         /\ \A k2 \in Workers : wk[k2].pc = "announce" => k2 = k
         /\ \A c \in Callers : call[c].pc # "announce"
    /\ \A c \in Callers : call[c].pc = "announce" =>
         /\ notices = <<>>
         /\ Outcome("EXPIRED")
         /\ \A c2 \in Callers : call[c2].pc = "announce" => c2 = c
    /\ notices # <<>> => \E s \in EventStatuses : notices = <<s>> /\ Outcome(s)

IndInv ==
    /\ TypeOK
    /\ Unborn
    /\ NeverStranded
    /\ SnapshotsFenced
    /\ CallsFenced
    /\ WindowChargedOnce
    /\ OneAnnouncer

\* The live claim is that of the delivery in flight, and the stored revision the
\* one it read; with leases that outlive their task this makes deliveries
\* exclusive, and no commit is refused while the watch is active.
ClaimHeldInFlight ==
    IsActive => \A k \in Workers : InFlight(k) => /\ claim = wk[k].tok
                                                  /\ rt.rev = wk[k].rt.rev

\* The reservation a booked watch reports, or is about to be committed with, is
\* there; nothing takes a reservation back.
BookingBacked ==
    /\ doc.status = "BOOKED" => reservation
    /\ \A k \in Workers :
         \/ wk[k].pc = "landed"
         \/ wk[k].pc = "commit" /\ wk[k].plan \in {"BOOKED", "BOOKED_REPLAY"}
         => reservation

\* Between the booking permit and the plan it ends in.
BookingPcs == {"book", "landed", "reconcile", "checkMiss", "checkOutage"}

\* Carries the reservation it made, confirmed or to be reconciled, to its commit.
Books(k) == \/ wk[k].pc \in {"landed", "reconcile"}
            \/ wk[k].pc = "commit" /\ wk[k].plan = "BOOKED"

\* The booking phase is recorded for as long as a delivery may book, and an
\* active watch has a reservation only while that delivery is on its way to
\* commit it: this is what a cancel that only records its request relies on.
BookingGuarded ==
    /\ doc.status \in {"NEW", "CANCELLED"} => ~reservation
    /\ \A k \in Workers : wk[k].pc \in BookingPcs =>
         /\ doc.status # "CANCELLED"
         /\ IsActive => rt.phase = "BOOKING"
    /\ IsActive /\ reservation => /\ rt.phase = "BOOKING"
                                  /\ \E k \in Workers : Books(k)

\* In memory no call holds a snapshot across an await, and a watch that does not
\* exist yet was never charged.
NoStaleCall ==
    /\ AtomicStore => \A c \in Callers : call[c].pc \in {"idle", "announce"}
    /\ doc.status = "NEW" => doc.attempts = 0
=============================================================================
