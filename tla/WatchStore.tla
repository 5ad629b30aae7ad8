----------------------------- MODULE WatchStore -----------------------------
(***************************************************************************)
(* The persisted state of ONE watch and the atomic transitions the watch   *)
(* repository applies to it (backend/db/repositories/watches.py and the    *)
(* Lua sources of watch_scripts.py).  Every transition here is one script  *)
(* on Redis, and one critical section of the in-memory store.              *)
(*                                                                         *)
(* Abstractions.  The document keeps what decisions read: its status, the  *)
(* consumed attempts and auto_book.  A window identity is its cadence      *)
(* sequence.  A claim key "owner|token|expires_ms" is its fencing token:   *)
(* the owner id is drawn fresh for each delivery, so token and owner       *)
(* identify the same delivery; and a lapsed lease is a missing one, since  *)
(* every script treats the two alike.  Wall-clock time is the order in     *)
(* which its events happen: a marker becomes due, a lease lapses, the      *)
(* watch's lifetime closes and ends, the retention elapses.                *)
(***************************************************************************)
EXTENDS Naturals, Integers, FiniteSets

CONSTANTS MaxAttempts,  \* Watch.max_attempts, the stored poll budget
          MaxSeq,       \* bound: cadence windows explored after window 0
          MaxToken      \* bound: fencing tokens ever issued

ASSUME BoundsAssumption ==
    /\ MaxAttempts \in Nat \ {0}
    /\ MaxSeq \in Nat
    /\ MaxToken \in Nat

VARIABLES doc,        \* the watch document
          rt,         \* the runtime sidecar
          fence,      \* the fencing counter
          claim,      \* token of the live poll claim, NoClaim when none
          marker,     \* schedule index entry: "none", "future" or "due"
          active,     \* membership in the active index
          indexed,    \* membership in the index of all watches
          retention,  \* terminal cleanup index entry: "none", "kept" or "due"
          events,     \* terminal event identities issued so far
          life        \* the lifetime: "open", "closing" (< 1 s left) or "over"

storeVars == <<doc, rt, fence, claim, marker, active, indexed, retention,
               events, life>>

Terminal == {"FOUND", "BOOKED", "EXPIRED", "CANCELLED"}
\* CANCELLED is user-initiated and earns no event.
EventStatuses == {"FOUND", "BOOKED", "EXPIRED"}
Statuses == Terminal \cup {"ACTIVE"}
\* A document that was not created yet, or was deleted.
Absent == {"NEW", "GONE"}

NoWindow == -1
NoClaim == 0

Docs == [status : Statuses \cup Absent, attempts : 0..MaxAttempts, auto : BOOLEAN]
Runtimes == [rev : Nat, seq : 0..MaxSeq, window : 0..MaxSeq \cup {NoWindow},
             phase : {"none", "BOOKING"}, cancelReq : BOOLEAN]
Events == [status : EventStatuses, rev : Nat]

NoDoc == [status |-> "NEW", attempts |-> 0, auto |-> FALSE]
GoneDoc == [status |-> "GONE", attempts |-> 0, auto |-> FALSE]
NoRuntime == [rev |-> 0, seq |-> 0, window |-> NoWindow, phase |-> "none",
              cancelReq |-> FALSE]

IsActive == doc.status = "ACTIVE"
IsTerminal == doc.status \in Terminal

\* Watch.is_exhausted on a document that was read earlier, at the current time.
IsExhausted(d, l) == d.attempts >= MaxAttempts \/ l = "over"

StoreInit ==
    /\ doc = NoDoc
    /\ rt = NoRuntime
    /\ fence = 0
    /\ claim = NoClaim
    /\ marker = "none"
    /\ active = FALSE
    /\ indexed = FALSE
    /\ retention = "none"
    /\ events = {}
    /\ life = "open"

-----------------------------------------------------------------------------
(* Transitions                                                             *)

\* initial_runtime: revision zero, window zero, due at once.
InitialRuntime == [NoRuntime EXCEPT !.window = 0]

\* create_with_schedule: document, sidecar, fence, indexes and first marker
\* commit together.
CreateWithSchedule(auto) ==
    /\ doc.status = "NEW"
    /\ doc' = [status |-> "ACTIVE", attempts |-> 0, auto |-> auto]
    /\ rt' = InitialRuntime
    /\ fence' = 0
    /\ indexed' = TRUE
    /\ active' = TRUE
    /\ marker' = "due"
    /\ UNCHANGED <<claim, retention, events, life>>

\* Mutation: a live claim does not make the window busy.
CanClaimHeld(w, ignoreSchedule) ==
    /\ IsActive
    /\ rt.window = w
    /\ ignoreSchedule \/ marker # "future"

\* Whether claim_window answers OWNED for window w.
CanClaim(w, ignoreSchedule) ==
    /\ IsActive
    /\ rt.window = w
    /\ ignoreSchedule \/ marker # "future"
    /\ claim = NoClaim

\* claim_window, OWNED: the fence is bumped and the claim key written; document
\* and sidecar stay as they are.
ClaimWindow(w, ignoreSchedule) ==
    /\ CanClaim(w, ignoreSchedule)
    /\ fence < MaxToken
    /\ fence' = fence + 1
    /\ claim' = fence + 1
    /\ UNCHANGED <<doc, rt, marker, active, indexed, retention, events, life>>

\* Mutation: a delivery is trusted as long as the watch is active.
OwnsUnfenced(token, rev) == IsActive

\* The fencing test shared by begin_booking and commit_window: the watch is
\* active, the revision is the snapshot's and the claim is still this one.
Owns(token, rev) ==
    /\ IsActive
    /\ rt.rev = rev
    /\ claim = token
    /\ claim # NoClaim

\* begin_booking, GRANTED: the snapshot sidecar is stored with phase BOOKING;
\* its revision is not bumped.
GrantBooking(token, snapRt) ==
    /\ Owns(token, snapRt.rev)
    /\ ~rt.cancelReq
    /\ rt' = [snapRt EXCEPT !.phase = "BOOKING"]
    /\ UNCHANGED <<doc, fence, claim, marker, active, indexed, retention,
                   events, life>>

\* The writes every terminal transition makes besides document and sidecar.
Unschedule ==
    /\ claim' = NoClaim
    /\ active' = FALSE
    /\ marker' = "none"
    /\ retention' = "kept"

\* Mutation: a cancellation earns an event like any other ending.
IssueEventAlways(status, rev) ==
    events' = events \cup {[status |-> status, rev |-> rev]}

\* The event identity a terminal transition stores for its announcement.
IssueEvent(status, rev) ==
    events' = IF status \in EventStatuses
              THEN events \cup {[status |-> status, rev |-> rev]} ELSE events

\* Mutation: a non-terminal commit consumes the marker without a successor.
CommitWindowUnmarked(token, snapRt, newDoc, newRt) ==
    /\ Owns(token, snapRt.rev)
    /\ doc' = newDoc
    /\ rt' = [newRt EXCEPT !.rev = snapRt.rev + 1, !.phase = "none"]
    /\ IF newDoc.status \in Terminal
       THEN Unschedule /\ IssueEvent(newDoc.status, snapRt.rev + 1)
       ELSE /\ claim' = NoClaim
            /\ marker' = "none"
            /\ UNCHANGED <<active, retention, events>>
    /\ UNCHANGED <<fence, indexed, life>>

\* commit_window, COMMITTED: the new document and sidecar replace the stored
\* ones and the claim is dropped; a terminal document leaves the schedule, any
\* other gets a marker for its successor window.
CommitWindow(token, snapRt, newDoc, newRt) ==
    /\ Owns(token, snapRt.rev)
    /\ doc' = newDoc
    /\ rt' = [newRt EXCEPT !.rev = snapRt.rev + 1, !.phase = "none"]
    /\ IF newDoc.status \in Terminal
       THEN Unschedule /\ IssueEvent(newDoc.status, snapRt.rev + 1)
       ELSE /\ claim' = NoClaim
            /\ marker' = "future"
            /\ UNCHANGED <<active, retention, events>>
    /\ UNCHANGED <<fence, indexed, life>>

\* The sidecar of a watch that cancel or expire finishes.
FinishedRuntime(snapRt) ==
    [snapRt EXCEPT !.rev = @ + 1, !.window = NoWindow, !.phase = "none",
                   !.cancelReq = FALSE]

\* Mutation: the script trusts the caller's status check and compares only the
\* revision it is about to write.
SameRevisionOnly(snapRt) == rt.rev \in {snapRt.rev, snapRt.rev + 1}

\* The CAS of the cancel and expire scripts.
SameRevision(snapRt) == IsActive /\ rt.rev = snapRt.rev

\* cancel_if_active, mode 'pending': a booking is in flight, so only the
\* request is recorded, in the snapshot sidecar.
RecordCancel(snapRt) ==
    /\ SameRevision(snapRt)
    /\ rt' = [snapRt EXCEPT !.cancelReq = TRUE]
    /\ UNCHANGED <<doc, fence, claim, marker, active, indexed, retention,
                   events, life>>

\* cancel_if_active, mode 'cancel', and expire_if_eligible: the caller's
\* document and sidecar snapshots are stored as finished.
FinishIfActive(status, snapDoc, snapRt) ==
    /\ SameRevision(snapRt)
    /\ doc' = [snapDoc EXCEPT !.status = status]
    /\ rt' = FinishedRuntime(snapRt)
    /\ Unschedule
    /\ IssueEvent(status, snapRt.rev + 1)
    /\ UNCHANGED <<fence, indexed, life>>

\* release_claim: compare-and-delete of the claim.
ReleaseClaim(token) ==
    /\ claim' = IF claim = token THEN NoClaim ELSE claim
    /\ UNCHANGED <<doc, rt, fence, marker, active, indexed, retention, events,
                   life>>

\* cleanup_due: a finished watch past its retention loses every key; an entry
\* whose document is already gone is only dropped from the cleanup index.
CleanupDue ==
    /\ retention = "due"
    /\ retention' = "none"
    /\ IF IsTerminal
       THEN /\ doc' = GoneDoc
            /\ rt' = NoRuntime
            /\ fence' = 0
            /\ claim' = NoClaim
            /\ indexed' = FALSE
            /\ active' = FALSE
            /\ marker' = "none"
       ELSE UNCHANGED <<doc, rt, fence, claim, indexed, active, marker>>
    /\ UNCHANGED <<events, life>>

\* The key TTL behind the retention (PEXPIRE on document and sidecar): it
\* reaches neither the fence nor the indexes.
BackstopTTL ==
    /\ retention = "due"
    /\ IsTerminal
    /\ doc' = GoneDoc
    /\ rt' = NoRuntime
    /\ UNCHANGED <<fence, claim, marker, active, indexed, retention, events,
                   life>>

\* list_all meeting an index member without a document prunes it.
PruneIndex ==
    /\ indexed
    /\ doc.status = "GONE"
    /\ indexed' = FALSE
    /\ UNCHANGED <<doc, rt, fence, claim, marker, active, retention, events,
                   life>>

-----------------------------------------------------------------------------
(* The passage of time                                                     *)

MarkerBecomesDue ==
    /\ marker = "future"
    /\ marker' = "due"
    /\ UNCHANGED <<doc, rt, fence, claim, active, indexed, retention, events,
                   life>>

\* Every marker is clipped to expires_at, so at the deadline it is due.
LifetimeElapses ==
    /\ doc.status # "NEW"
    /\ \/ life = "open" /\ life' = "closing" /\ marker' = marker
       \/ /\ life = "closing"
          /\ life' = "over"
          /\ marker' = IF marker = "future" THEN "due" ELSE marker
    /\ UNCHANGED <<doc, rt, fence, claim, active, indexed, retention, events>>

LeaseLapses ==
    /\ claim # NoClaim
    /\ claim' = NoClaim
    /\ UNCHANGED <<doc, rt, fence, marker, active, indexed, retention, events,
                   life>>

RetentionElapses ==
    /\ retention = "kept"
    /\ retention' = "due"
    /\ UNCHANGED <<doc, rt, fence, claim, marker, active, indexed, events, life>>

-----------------------------------------------------------------------------

StoreTypeOK ==
    /\ doc \in Docs
    /\ rt \in Runtimes
    /\ fence \in 0..MaxToken
    /\ claim \in 0..MaxToken
    /\ marker \in {"none", "future", "due"}
    /\ active \in BOOLEAN
    /\ indexed \in BOOLEAN
    /\ retention \in {"none", "kept", "due"}
    /\ events \subseteq Events
    /\ life \in {"open", "closing", "over"}

=============================================================================
