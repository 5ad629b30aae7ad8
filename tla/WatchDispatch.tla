--------------------------- MODULE WatchDispatch ---------------------------
(***************************************************************************)
(* How the windows of one watch reach a worker: direct publication by the  *)
(* service (WatchService._dispatch), recovery passes of the API replicas   *)
(* that publish due schedule markers again (RecoveryCoordinator and        *)
(* WatchScheduleDispatcher), the broker, and the worker's deliveries, here *)
(* reduced to claim, commit and death (module WatchPolling has the rest).  *)
(*                                                                         *)
(* The queue may lose, repeat and reorder jobs; publications fail; replicas*)
(* and workers die at any await.  A dispatch lease key is per window and   *)
(* holds "owner|generation|expires_ms"; a replica has one pass at a time   *)
(* (_pass_lock) and a fresh owner id per process, so its owner determines  *)
(* the generation and the key is its owner here.                           *)
(***************************************************************************)
EXTENDS Naturals

CONSTANTS Replicas,             \* API processes with a recovery coordinator
          Pollers,              \* worker slots
          NoOne,                \* no replica, no poller
          MaxWindow,            \* bound: cadence windows after window 0
          MaxJobs,              \* bound: queued copies of one window's job
          LeaseOutlivesPublish  \* TRUE: a dispatch lease does not lapse while
                                \* its owner is still publishing

ASSUME DispatchAssumption ==
    /\ NoOne \notin Replicas \cup Pollers
    /\ MaxWindow \in Nat
    /\ MaxJobs \in Nat \ {0}
    /\ LeaseOutlivesPublish \in BOOLEAN

VARIABLES active,  \* the watch document is ACTIVE
          window,  \* the current cadence window
          reach,   \* its marker: "far", in the "horizon" of a sweep, or "due"
          claim,   \* the poller whose poll claim is live
          lease,   \* dispatch lease of each window: its owner
          leader,  \* the replica holding the leader lease
          queue,   \* copies of each window's job at the broker
          sweep,   \* the recovery pass of each replica
          poll     \* each poller's delivery

vars == <<active, window, reach, claim, lease, leader, queue, sweep, poll>>

Windows == 0..MaxWindow

SweepPcs == {"idle", "lead", "row", "claim", "publish", "release", "mark"}
PollPcs == {"idle", "owner", "successor"}

\* WatchService.create committed the watch with its marker; its own publication
\* of window 0 is a job at the broker, or was lost.
Init ==
    /\ active = TRUE
    /\ window = 0
    /\ reach = "due"
    /\ claim = NoOne
    /\ lease = [w \in Windows |-> NoOne]
    /\ leader = NoOne
    /\ queue \in {[w \in Windows |-> IF w = 0 THEN n ELSE 0] : n \in {0, 1}}
    /\ sweep = [r \in Replicas |-> [pc |-> "idle", window |-> 0]]
    /\ poll = [p \in Pollers |-> [pc |-> "idle", window |-> 0]]

Step(r, pc) == sweep' = [sweep EXCEPT ![r].pc = pc]
EndPass(r) == sweep' = [sweep EXCEPT ![r] = [pc |-> "idle", window |-> 0]]
EndDelivery(p) == poll' = [poll EXCEPT ![p] = [pc |-> "idle", window |-> 0]]

\* apply_async of one more job for window w.  A copy beyond the bound is one the
\* broker loses.
Enqueue(w) ==
    queue' = [queue EXCEPT ![w] = IF @ < MaxJobs THEN @ + 1 ELSE @]

-----------------------------------------------------------------------------
(* A recovery pass                                                         *)

\* reconcile_once: renew the leader lease or take a vacant one; a replica that
\* gets neither ends its pass at once.
HoldLeadership(r) ==
    /\ sweep[r].pc = "idle"
    /\ leader \in {r, NoOne}
    /\ leader' = r
    /\ Step(r, "lead")
    /\ UNCHANGED <<active, window, reach, claim, lease, queue, poll>>

\* Mutation: the index is read from now on, so overdue markers are left out.
ReadIndexFromNow(r) ==
    /\ sweep[r].pc = "lead"
    /\ IF active /\ reach = "horizon" THEN Step(r, "row") ELSE EndPass(r)
    /\ UNCHANGED <<active, window, reach, claim, lease, leader, queue, poll>>

\* due_schedule_markers, ZRANGEBYSCORE: the watch has a marker within the horizon.
ReadIndex(r) ==
    /\ sweep[r].pc = "lead"
    /\ IF active /\ reach # "far" THEN Step(r, "row") ELSE EndPass(r)
    /\ UNCHANGED <<active, window, reach, claim, lease, leader, queue, poll>>

\* Mutation: a sidecar without a window is not skipped.
ReadRuntimeUnchecked(r) ==
    /\ sweep[r].pc = "row"
    /\ sweep' = [sweep EXCEPT ![r] = [pc |-> "claim",
                                      window |-> IF active THEN window ELSE NoOne]]
    /\ UNCHANGED <<active, window, reach, claim, lease, leader, queue, poll>>

\* due_schedule_markers, get_runtime: the window is the sidecar's by now, even one
\* that is not within the horizon.
ReadRuntime(r) ==
    /\ sweep[r].pc = "row"
    /\ IF active
       THEN sweep' = [sweep EXCEPT ![r] = [pc |-> "claim", window |-> window]]
       ELSE EndPass(r)
    /\ UNCHANGED <<active, window, reach, claim, lease, leader, queue, poll>>

\* Mutation: a lease that another replica holds does not defer the dispatch.
DispatchableHeld(w) == active /\ window = w

\* Whether claim_dispatch answers CLAIMED: the window is current and its lease
\* is free.
Dispatchable(w) == active /\ window = w /\ lease[w] = NoOne

ClaimDispatch(r) ==
    /\ sweep[r].pc = "claim"
    /\ IF Dispatchable(sweep[r].window)
       THEN lease' = [lease EXCEPT ![sweep[r].window] = r] /\ Step(r, "publish")
       ELSE EndPass(r) /\ UNCHANGED lease
    /\ UNCHANGED <<active, window, reach, claim, leader, queue, poll>>

\* enqueue_watch_poll reaches the broker.
Publish(r) ==
    /\ sweep[r].pc = "publish"
    /\ Enqueue(sweep[r].window)
    /\ Step(r, "mark")
    /\ UNCHANGED <<active, window, reach, claim, lease, leader, poll>>

\* enqueue_watch_poll raises.
PublishFails(r) ==
    /\ sweep[r].pc = "publish"
    /\ Step(r, "release")
    /\ UNCHANGED <<active, window, reach, claim, lease, leader, queue, poll>>

\* release_dispatch: compare-and-delete.
ReleaseDispatch(r) ==
    /\ sweep[r].pc = "release"
    /\ lease' = [lease EXCEPT ![sweep[r].window] = IF @ = r THEN NoOne ELSE @]
    /\ EndPass(r)
    /\ UNCHANGED <<active, window, reach, claim, leader, queue, poll>>

\* mark_dispatched extends a lease that is still this replica's until the
\* recovery grace ends; it stays the same owner's.
MarkDispatched(r) ==
    /\ sweep[r].pc = "mark"
    /\ EndPass(r)
    /\ UNCHANGED <<active, window, reach, claim, lease, leader, queue, poll>>

\* The replica stops or a call of the pass raises.  Its leases stay.
PassDies(r) ==
    /\ sweep[r].pc # "idle"
    /\ EndPass(r)
    /\ UNCHANGED <<active, window, reach, claim, lease, leader, queue, poll>>

\* RecoveryCoordinator.release at shutdown.
ReleaseLeadership(r) ==
    /\ sweep[r].pc = "idle"
    /\ leader = r
    /\ leader' = NoOne
    /\ UNCHANGED <<active, window, reach, claim, lease, queue, sweep, poll>>

-----------------------------------------------------------------------------
(* A delivery                                                              *)

Claimable(w) == active /\ window = w /\ reach = "due" /\ claim = NoOne

\* monitor_watch takes a job off the broker and claim_window answers OWNED.
ClaimJob(p, w) ==
    /\ poll[p].pc = "idle"
    /\ queue[w] > 0
    /\ Claimable(w)
    /\ queue' = [queue EXCEPT ![w] = @ - 1]
    /\ claim' = p
    /\ poll' = [poll EXCEPT ![p] = [pc |-> "owner", window |-> w]]
    /\ UNCHANGED <<active, window, reach, lease, leader, sweep>>

\* The job is lost, or its delivery finds no work: TERMINAL, STALE, EARLY, BUSY.
DropJob(w) ==
    /\ queue[w] > 0
    /\ queue' = [queue EXCEPT ![w] = @ - 1]
    /\ UNCHANGED <<active, window, reach, claim, lease, leader, sweep, poll>>

\* Mutation: the delivery trusts that it still owns the window.
OwnsPollBlindly(p) == active

\* The fence of commit_window.
OwnsPoll(p) == active /\ claim = p

\* commit_window moves the cadence on, with a marker for the successor.
Advance(p) ==
    /\ poll[p].pc = "owner"
    /\ OwnsPoll(p)
    /\ window < MaxWindow
    /\ window' = poll[p].window + 1
    /\ reach' = "far"
    /\ claim' = NoOne
    /\ poll' = [poll EXCEPT ![p].pc = "successor", ![p].window = @ + 1]
    /\ UNCHANGED <<active, lease, leader, queue, sweep>>

\* commit_window finishes the watch.
Finish(p) ==
    /\ poll[p].pc = "owner"
    /\ OwnsPoll(p)
    /\ active' = FALSE
    /\ claim' = NoOne
    /\ EndDelivery(p)
    /\ UNCHANGED <<window, reach, lease, leader, queue, sweep>>

\* Mutation: the successor is dispatched although the commit was refused.
RefusedDispatches(p) ==
    /\ poll[p].pc = "owner"
    /\ ~OwnsPoll(p)
    /\ poll[p].window < MaxWindow
    /\ poll' = [poll EXCEPT ![p].pc = "successor", ![p].window = @ + 1]
    /\ UNCHANGED <<active, window, reach, claim, lease, leader, queue, sweep>>

\* commit_window is refused.
Refused(p) ==
    /\ poll[p].pc = "owner"
    /\ ~OwnsPoll(p)
    /\ EndDelivery(p)
    /\ UNCHANGED <<active, window, reach, claim, lease, leader, queue, sweep>>

\* WatchService._dispatch of the successor, outside any dispatch lease.
EnqueueSuccessor(p) ==
    /\ poll[p].pc = "successor"
    /\ Enqueue(poll[p].window)
    /\ EndDelivery(p)
    /\ UNCHANGED <<active, window, reach, claim, lease, leader, sweep>>

\* The delivery ends without its last step: the publication fails, a time limit
\* strikes or the worker dies.  The claim stays.  Late acknowledgement or a
\* Celery retry may bring the job back.
DeliveryDies(p) ==
    /\ poll[p].pc # "idle"
    /\ \/ poll[p].pc = "owner" /\ Enqueue(poll[p].window)
       \/ UNCHANGED queue
    /\ EndDelivery(p)
    /\ UNCHANGED <<active, window, reach, claim, lease, leader, sweep>>

-----------------------------------------------------------------------------
(* Other actors and time                                                   *)

\* A client cancels the watch, or recovery expires it (WatchPolling).
EndedElsewhere ==
    /\ active
    /\ active' = FALSE
    /\ claim' = NoOne
    /\ UNCHANGED <<window, reach, lease, leader, queue, sweep, poll>>

MarkerNears ==
    /\ active
    /\ reach # "due"
    /\ reach' = IF reach = "far" THEN "horizon" ELSE "due"
    /\ UNCHANGED <<active, window, claim, lease, leader, queue, sweep, poll>>

ClaimLapses ==
    /\ claim # NoOne
    /\ claim' = NoOne
    /\ UNCHANGED <<active, window, reach, lease, leader, queue, sweep, poll>>

Publishing(r, w) == sweep[r].pc \in {"publish", "release", "mark"} /\ sweep[r].window = w

LeaseLapses(w) ==
    /\ lease[w] # NoOne
    /\ LeaseOutlivesPublish => ~Publishing(lease[w], w)
    /\ lease' = [lease EXCEPT ![w] = NoOne]
    /\ UNCHANGED <<active, window, reach, claim, leader, queue, sweep, poll>>

LeaderLapses ==
    /\ leader # NoOne
    /\ leader' = NoOne
    /\ UNCHANGED <<active, window, reach, claim, lease, queue, sweep, poll>>

-----------------------------------------------------------------------------

Pass(r) ==
    \/ HoldLeadership(r) \/ ReadIndex(r) \/ ReadRuntime(r) \/ ClaimDispatch(r)
    \/ Publish(r) \/ PublishFails(r) \/ ReleaseDispatch(r) \/ MarkDispatched(r)

Deliver(p) ==
    \/ \E w \in Windows : ClaimJob(p, w)
    \/ Advance(p) \/ Finish(p) \/ Refused(p) \/ EnqueueSuccessor(p)

Next ==
    \/ \E r \in Replicas : Pass(r) \/ PassDies(r) \/ ReleaseLeadership(r)
    \/ \E p \in Pollers : Deliver(p) \/ DeliveryDies(p)
    \/ \E w \in Windows : DropJob(w) \/ LeaseLapses(w)
    \/ EndedElsewhere \/ MarkerNears \/ ClaimLapses \/ LeaderLapses

Spec == Init /\ [][Next]_vars

\* Time passes, so markers come due and leases lapse.  The recovery loop keeps
\* running passes, the broker does not fail or lose every publication, and a
\* worker that claims again and again is not killed before every single commit.
\* Nothing is assumed of the service's own publications.
Fairness ==
    /\ WF_vars(MarkerNears) /\ WF_vars(ClaimLapses) /\ WF_vars(LeaderLapses)
    /\ \A w \in Windows : WF_vars(LeaseLapses(w))
    /\ \A r \in Replicas : /\ WF_vars(Pass(r))
                          /\ SF_vars(HoldLeadership(r))
                          /\ SF_vars(ReadIndex(r))
                          /\ SF_vars(ReadRuntime(r))
                          /\ SF_vars(ClaimDispatch(r))
                          /\ SF_vars(Publish(r))
    /\ \A w \in Windows : SF_vars(\E p \in Pollers : ClaimJob(p, w))
    /\ \A p \in Pollers : WF_vars(Deliver(p)) /\ SF_vars(Advance(p) \/ Finish(p))

FairSpec == Spec /\ Fairness

-----------------------------------------------------------------------------
(* Properties                                                              *)

\* Every variable has its type.
TypeOK ==
    /\ active \in BOOLEAN
    /\ window \in Windows
    /\ reach \in {"far", "horizon", "due"}
    /\ claim \in Pollers \cup {NoOne}
    /\ lease \in [Windows -> Replicas \cup {NoOne}]
    /\ leader \in Replicas \cup {NoOne}
    /\ queue \in [Windows -> 0..MaxJobs]
    /\ sweep \in [Replicas -> [pc : SweepPcs, window : Windows]]
    /\ poll \in [Pollers -> [pc : PollPcs, window : Windows]]

\* Dispatch is single-flight: two replicas never publish the same window at the
\* same time, even when the leader lease lapsed under a pass and two passes
\* overlap.  Needs dispatch leases that outlive one publication.
SinglePublisher ==
    \A r1, r2 \in Replicas, w \in Windows :
        Publishing(r1, w) /\ Publishing(r2, w) => r1 = r2

\* A job is never ahead of the cadence: what the queue or a publisher holds is
\* the current window or one that is over, so a delivery can never claim a window
\* that no commit created.
NoJobAhead ==
    /\ \A w \in Windows : queue[w] > 0 => w <= window
    /\ \A r \in Replicas : sweep[r].window <= window
    /\ \A p \in Pollers : poll[p].window <= window

\* Only the holder of the live claim works on the current window: a delivery
\* whose claim lapsed and was taken over cannot move the cadence any more.
CadenceMovedByOwner ==
    [][window' # window =>
         \E p \in Pollers : claim = p /\ poll[p].window = window]_vars

\* Every window of an active watch is served: although jobs are lost, publications
\* fail and replicas and workers die, recovery publishes the window until a
\* worker commits it, or the watch ends.
WindowServed ==
    \A w \in Windows : active /\ window = w ~> ~active \/ window # w
=============================================================================
