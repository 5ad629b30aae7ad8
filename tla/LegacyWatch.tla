---------------------------- MODULE LegacyWatch ----------------------------
(***************************************************************************)
(* A watch document written before the runtime sidecar existed, from the   *)
(* unfenced poll (WatchService._legacy_poll_once) into the coordinated     *)
(* protocol: recovery migrates it, windowed polls take over, and a legacy  *)
(* poll begun earlier may still be in flight.  Redis store.                *)
(*                                                                         *)
(* Jobs carry the watch id alone, as in the in-process queue and in the    *)
(* jobs of a release without windows.  A windowed poll is its claim and    *)
(* its commit here; module WatchPolling has the rest of it.                *)
(*                                                                         *)
(* A cancellation, and the expiry of a recovery pass, read the document,   *)
(* then the sidecar, and run their script on what they read; the script    *)
(* compares revisions only when a sidecar was read.  Without one it blanks *)
(* the sidecar it finds (ARGV new_runtime_json is ''), which readers take  *)
(* for none: NoSide stands for both.                                       *)
(***************************************************************************)
EXTENDS Integers

CONSTANTS Pollers,        \* worker slots
          Coordinators,   \* recovery coordinators that believe to lead
          Cancellers,     \* calls of cancel
          NoOne,
          MaxAttempts,    \* Watch.max_attempts
          MaxSideRev,         \* bound: sidecar revisions
          MaxJobs         \* bound: jobs waiting

LegacyAssumption ==
    /\ NoOne \notin Pollers
    /\ MaxAttempts \in Nat \ {0}
    /\ MaxSideRev \in Nat \ {0}
    /\ MaxJobs \in Nat \ {0}

VARIABLES doc,      \* the watch document
          side,     \* the sidecar: revision, cadence sequence, window open
          marker,   \* a schedule marker exists
          claim,    \* the poller with a live claim
          active,   \* membership in the active index
          booked,   \* the provider holds a reservation under the watch's key
          over,     \* expires_at has passed
          jobs,     \* jobs waiting
          poll,     \* each poller's delivery
          pass,     \* each coordinator's pass
          cancels   \* what each call of cancel has read

legacyVars == <<doc, side, marker, claim, active, booked, over, jobs, poll, pass, cancels>>
store == <<doc, side, marker, claim, active>>

Terminal == {"FOUND", "BOOKED", "EXPIRED", "CANCELLED"}
RecordStatuses == Terminal \cup {"ACTIVE"}

Docs == [status : RecordStatuses, attempts : 0..MaxAttempts, auto : BOOLEAN]
NoSide == [rev |-> -1, seq |-> 0, open |-> FALSE]
Sides == [rev : -1..MaxSideRev, seq : 0..MaxSideRev, open : BOOLEAN]

PollPcs == {"idle", "read", "replay", "search", "book", "save", "enqueue", "owner"}
PassPcs == {"idle", "member", "side", "marker", "claim", "reconcile",
            "again", "sidecar", "expire"}
CancelPcs == {"idle", "side", "script"}

\* Nothing is remembered between two deliveries, passes or cancellations.
NoDoc == [status |-> "ACTIVE", attempts |-> 0, auto |-> FALSE]
Idle == [pc |-> "idle", snap |-> NoDoc, rev |-> NoSide.rev, late |-> FALSE]
Resting == [pc |-> "idle", doc |-> NoDoc, side |-> NoSide, marker |-> FALSE,
            live |-> FALSE, late |-> FALSE]
NoCancel == [pc |-> "idle", doc |-> NoDoc, side |-> NoSide]

\* Watch.is_exhausted on a snapshot, at the time the poll took for its now.
IsExhausted(d, late) == d.attempts >= MaxAttempts \/ late

LegacyInit ==
    /\ doc \in [status : {"ACTIVE"}, attempts : {0}, auto : BOOLEAN]
    /\ side = NoSide
    /\ marker = FALSE
    /\ claim = NoOne
    /\ active = TRUE
    /\ booked = FALSE
    /\ over = FALSE
    /\ jobs \in 0..MaxJobs
    /\ poll = [p \in Pollers |-> Idle]
    /\ pass = [c \in Coordinators |-> Resting]
    /\ cancels = [x \in Cancellers |-> NoCancel]

-----------------------------------------------------------------------------
(* A delivery                                                              *)

Goto(p, pc) == poll' = [poll EXCEPT ![p].pc = pc]
Leave(p) == poll' = [poll EXCEPT ![p] = Idle]

\* The poll goes on to write its snapshot with this status.
Outcome(p, d, status) ==
    poll' = [poll EXCEPT ![p].pc = "save", ![p].snap = [d EXCEPT !.status = status]]

\* _legacy_reschedule, _legacy_retry_auto_book: another poll, or the end.
Missed(p, d) ==
    Outcome(p, d, IF IsExhausted(d, poll[p].late) THEN "EXPIRED" ELSE "ACTIVE")

\* poll_once: with an open window the delivery claims it (a job may come again,
\* so it is not necessarily used up); without one it reads the document.
PollOnce(p) ==
    /\ poll[p].pc = "idle" /\ jobs > 0
    /\ jobs' \in {jobs - 1, jobs}
    /\ IF side.open
       THEN /\ claim = NoOne /\ doc.status = "ACTIVE"
            /\ claim' = p
            /\ poll' = [poll EXCEPT ![p] = [pc |-> "owner", snap |-> doc,
                                            rev |-> side.rev, late |-> over]]
       ELSE Goto(p, "read") /\ UNCHANGED claim
    /\ UNCHANGED <<doc, side, marker, active, booked, over, pass, cancels>>

\* A terminal document ends the delivery, an exhausted one is to be expired,
\* an auto-book watch first asks for its own earlier booking.
LegacyRead(p) ==
    /\ poll[p].pc = "read"
    /\ IF doc.status \in Terminal THEN Leave(p)
       ELSE poll' = [poll EXCEPT ![p] =
              [pc |-> IF IsExhausted(doc, over) THEN "save"
                      ELSE IF doc.auto THEN "replay" ELSE "search",
               snap |-> IF IsExhausted(doc, over)
                        THEN [doc EXCEPT !.status = "EXPIRED"] ELSE doc,
               rev |-> NoSide.rev, late |-> over]]
    /\ UNCHANGED <<store, booked, over, jobs, pass, cancels>>

\* _legacy_replayed_booking
LegacyReplay(p) ==
    /\ poll[p].pc = "replay"
    /\ IF booked THEN Outcome(p, poll[p].snap, "BOOKED") ELSE Goto(p, "search")
    /\ UNCHANGED <<store, booked, over, jobs, pass, cancels>>

\* _search counts an attempt whatever it returns; _legacy_fulfill.
LegacySearch(p) ==
    LET d == [poll[p].snap EXCEPT !.attempts = @ + 1] IN
    /\ poll[p].pc = "search"
    /\ \/ Missed(p, d)
       \/ ~d.auto /\ Outcome(p, d, "FOUND")
       \/ d.auto /\ poll' = [poll EXCEPT ![p].pc = "book", ![p].snap = d]
    /\ UNCHANGED <<store, booked, over, jobs, pass, cancels>>

\* _book: confirmed, refused, or failed after the reservation was made.
LegacyBook(p) ==
    /\ poll[p].pc = "book"
    /\ \/ booked' = TRUE /\ Outcome(p, poll[p].snap, "BOOKED")
       \/ booked' \in {booked, TRUE} /\ Missed(p, poll[p].snap)
    /\ UNCHANGED <<store, over, jobs, pass, cancels>>

\* RedisWatchRepository.save: the whole document and the active index, whatever
\* is stored by now; sidecar, marker and claim are left as they are.
LegacyPollSave(p) ==
    /\ poll[p].pc = "save"
    /\ doc' = poll[p].snap
    /\ active' = (poll[p].snap.status = "ACTIVE")
    /\ IF active' THEN Goto(p, "enqueue") ELSE Leave(p)
    /\ UNCHANGED <<side, marker, claim, booked, over, jobs, pass, cancels>>

LegacyEnqueue(p) ==
    /\ poll[p].pc = "enqueue"
    /\ jobs' = IF jobs < MaxJobs THEN jobs + 1 ELSE jobs
    /\ Leave(p)
    /\ UNCHANGED <<store, booked, over, pass, cancels>>

\* A worker dies, or the enqueueing fails.
Die(p) ==
    /\ poll[p].pc # "idle"
    /\ Leave(p)
    /\ UNCHANGED <<store, booked, over, jobs, pass, cancels>>

-----------------------------------------------------------------------------
(* The coordinated protocol, reduced                                       *)

Owns(p) ==
    /\ doc.status = "ACTIVE"
    /\ claim = p
    /\ side.rev = poll[p].rev

\* Revisions stop growing at the bound, where no commit is explored.
Bumped(rev) == IF rev < MaxSideRev THEN rev + 1 ELSE rev

\* What every coordinated ending writes, from the document and the sidecar its
\* caller has read.
End(status, d, s) ==
    /\ doc' = [d EXCEPT !.status = status]
    /\ side' = IF s = NoSide THEN NoSide
               ELSE [s EXCEPT !.rev = Bumped(@), !.open = FALSE]
    /\ marker' = FALSE
    /\ claim' = NoOne
    /\ active' = FALSE

\* The scripts of cancel and expire: no effect on a watch that ended, or where
\* the sidecar has not the revision of the one that was read, if one was.
EndIfActive(status, d, s) ==
    IF doc.status = "ACTIVE" /\ (s # NoSide => s.rev = side.rev)
    THEN End(status, d, s)
    ELSE UNCHANGED store

\* Refused commits leave everything as it is.
CommitWindow(p) ==
    LET d == poll[p].snap
        charged == [d EXCEPT !.attempts = @ + 1]
    IN
    /\ poll[p].pc = "owner"
    /\ side.rev < MaxSideRev
    /\ IF ~Owns(p) THEN UNCHANGED <<store, booked>>
       ELSE \/ /\ IsExhausted(d, over)
               /\ End("EXPIRED", d, side) /\ UNCHANGED booked
            \/ /\ ~IsExhausted(d, over) /\ ~d.auto
               /\ End("FOUND", charged, side) /\ UNCHANGED booked
            \/ /\ ~IsExhausted(d, over) /\ d.auto
               /\ End("BOOKED", charged, side) /\ booked' = TRUE
            \/ /\ ~IsExhausted(d, over)
               /\ doc' = charged
               /\ side' = [side EXCEPT !.rev = @ + 1, !.seq = @ + 1]
               /\ marker' = TRUE /\ claim' = NoOne
               /\ UNCHANGED <<active, booked>>
    /\ Leave(p)
    /\ UNCHANGED <<over, jobs, pass, cancels>>

LapseClaim ==
    /\ claim # NoOne
    /\ claim' = NoOne
    /\ UNCHANGED <<doc, side, marker, active, booked, over, jobs, poll, pass, cancels>>

\* cancel_if_active, outside of a booking phase: nothing for a watch that ended;
\* otherwise the sidecar, and the script.
CancelReadsDocument(x) ==
    /\ cancels[x].pc = "idle" /\ doc.status = "ACTIVE"
    /\ cancels' = [cancels EXCEPT ![x] = [pc |-> "side", doc |-> doc, side |-> NoSide]]
    /\ UNCHANGED <<store, booked, over, jobs, poll, pass>>

CancelReadsSidecar(x) ==
    /\ cancels[x].pc = "side"
    /\ cancels' = [cancels EXCEPT ![x].pc = "script", ![x].side = side]
    /\ UNCHANGED <<store, booked, over, jobs, poll, pass>>

\* A refused call begins again, at most five times, or is given up.
CancelRecord(x) ==
    /\ cancels[x].pc = "script"
    /\ EndIfActive("CANCELLED", cancels[x].doc, cancels[x].side)
    /\ cancels' = [cancels EXCEPT ![x] = NoCancel]
    /\ UNCHANGED <<booked, over, jobs, poll, pass>>

-----------------------------------------------------------------------------
(* Recovery                                                                *)

\* A pass takes its now; list_recovery_candidates: the active index, the document,
\* then the sidecar, the marker and the claim, each with a read of its own.
ListMember(c) ==
    /\ pass[c].pc = "idle" /\ active
    /\ pass' = [pass EXCEPT ![c].pc = "member", ![c].late = over]
    /\ UNCHANGED <<store, booked, over, jobs, poll, cancels>>

ReadDocument(c) ==
    /\ pass[c].pc = "member"
    /\ pass' = [pass EXCEPT ![c].pc = "side", ![c].doc = doc]
    /\ UNCHANGED <<store, booked, over, jobs, poll, cancels>>

ReadSidecar(c) ==
    /\ pass[c].pc = "side"
    /\ pass' = [pass EXCEPT ![c].pc = "marker", ![c].side = side]
    /\ UNCHANGED <<store, booked, over, jobs, poll, cancels>>

ReadMarker(c) ==
    /\ pass[c].pc = "marker"
    /\ pass' = [pass EXCEPT ![c].pc = "claim", ![c].marker = marker]
    /\ UNCHANGED <<store, booked, over, jobs, poll, cancels>>

ReadClaim(c) ==
    /\ pass[c].pc = "claim"
    /\ pass' = [pass EXCEPT ![c].pc = "reconcile", ![c].live = (claim # NoOne)]
    /\ UNCHANGED <<store, booked, over, jobs, poll, cancels>>

\* Mutation: repair stores the sidecar without the window.
MarkerRuntimeUnopened(c) ==
    IF pass[c].side = NoSide THEN [rev |-> 0, seq |-> 0, open |-> FALSE]
    ELSE pass[c].side

\* _marker_runtime: the sidecar as it was read with its window open, or
\* migrate_legacy_watch.
MarkerRuntime(c) ==
    IF pass[c].side = NoSide THEN [rev |-> 0, seq |-> 0, open |-> TRUE]
    ELSE [pass[c].side EXCEPT !.open = TRUE]

\* Mutation: the script trusts the marker the pass has read.
SynthesizeMarkerRead(c) ==
    IF doc.status = "ACTIVE" /\ claim = NoOne
    THEN side' = MarkerRuntime(c) /\ marker' = TRUE /\ UNCHANGED <<doc, claim, active>>
    ELSE UNCHANGED store

\* synthesize_marker: still active, still unclaimed, still without a marker.
SynthesizeMarker(c) ==
    IF doc.status = "ACTIVE" /\ claim = NoOne /\ ~marker
    THEN side' = MarkerRuntime(c) /\ marker' = TRUE /\ UNCHANGED <<doc, claim, active>>
    ELSE UNCHANGED store

\* Mutation: a watch without a sidecar is not repaired.
ReconcileOneModern(c) ==
    LET k == pass[c] IN
    /\ k.pc = "reconcile"
    /\ IF k.doc.status \in Terminal
       THEN active' = FALSE /\ UNCHANGED <<doc, side, marker, claim>>
       ELSE IF k.side = NoSide \/ k.live \/ k.marker THEN UNCHANGED store
       ELSE SynthesizeMarker(c)
    /\ pass' = [pass EXCEPT ![c] = Resting]
    /\ UNCHANGED <<booked, over, jobs, poll, cancels>>

\* _reconcile_one: prune_index_member for a terminal document, _expire for an
\* exhausted one.
ReconcileOne(c) ==
    LET k == pass[c] IN
    /\ k.pc = "reconcile"
    /\ IF k.doc.status \in Terminal
       THEN active' = FALSE /\ UNCHANGED <<doc, side, marker, claim>>
       ELSE IF IsExhausted(k.doc, k.late) \/ k.live \/ k.marker THEN UNCHANGED store
       ELSE SynthesizeMarker(c)
    /\ pass' = [pass EXCEPT ![c] = IF /\ k.doc.status \notin Terminal
                                      /\ IsExhausted(k.doc, k.late)
                                   THEN [Resting EXCEPT !.pc = "again"] ELSE Resting]
    /\ UNCHANGED <<booked, over, jobs, poll, cancels>>

\* _expire, expire_if_eligible: the document again, unless it ended by now; the
\* sidecar again, and the clock; then the script.
ExpireReadsDocument(c) ==
    /\ pass[c].pc = "again"
    /\ pass' = [pass EXCEPT ![c] = IF doc.status \in Terminal THEN Resting
                                   ELSE [@ EXCEPT !.pc = "sidecar", !.doc = doc]]
    /\ UNCHANGED <<store, booked, over, jobs, poll, cancels>>

ExpireReadsSidecar(c) ==
    /\ pass[c].pc = "sidecar"
    /\ pass' = [pass EXCEPT ![c] = IF IsExhausted(pass[c].doc, over)
                                   THEN [@ EXCEPT !.pc = "expire", !.side = side]
                                   ELSE Resting]
    /\ UNCHANGED <<store, booked, over, jobs, poll, cancels>>

Expire(c) ==
    /\ pass[c].pc = "expire"
    /\ EndIfActive("EXPIRED", pass[c].doc, pass[c].side)
    /\ pass' = [pass EXCEPT ![c] = Resting]
    /\ UNCHANGED <<booked, over, jobs, poll, cancels>>

\* The dispatcher publishes a due marker, for the first time or again.
Dispatch ==
    /\ marker /\ doc.status = "ACTIVE" /\ jobs < MaxJobs
    /\ jobs' = jobs + 1
    /\ UNCHANGED <<store, booked, over, poll, pass, cancels>>

\* An in-process queue goes with its process.
LoseJobs ==
    /\ jobs > 0
    /\ jobs' = 0
    /\ UNCHANGED <<store, booked, over, poll, pass, cancels>>

LifetimeEnds ==
    /\ ~over
    /\ over' = TRUE
    /\ UNCHANGED <<store, booked, jobs, poll, pass, cancels>>

LegacyNext ==
    \/ \E p \in Pollers :
          \/ PollOnce(p) \/ LegacyRead(p) \/ LegacyReplay(p) \/ LegacySearch(p)
          \/ LegacyBook(p) \/ LegacyPollSave(p) \/ LegacyEnqueue(p) \/ Die(p)
          \/ CommitWindow(p)
    \/ \E c \in Coordinators :
          \/ ListMember(c) \/ ReadDocument(c) \/ ReadSidecar(c) \/ ReadMarker(c)
          \/ ReadClaim(c) \/ ReconcileOne(c)
          \/ ExpireReadsDocument(c) \/ ExpireReadsSidecar(c) \/ Expire(c)
    \/ \E x \in Cancellers :
          CancelReadsDocument(x) \/ CancelReadsSidecar(x) \/ CancelRecord(x)
    \/ LapseClaim \/ Dispatch \/ LoseJobs \/ LifetimeEnds

\* The follow-up sweeps go on and the deadline comes; deliveries, which may
\* hang or die, are owed nothing.
Fairness ==
    /\ WF_legacyVars(LifetimeEnds)
    /\ \A c \in Coordinators :
          WF_legacyVars(\/ ListMember(c) \/ ReadDocument(c) \/ ReadSidecar(c)
                        \/ ReadMarker(c) \/ ReadClaim(c) \/ ReconcileOne(c)
                        \/ ExpireReadsDocument(c) \/ ExpireReadsSidecar(c) \/ Expire(c))

LegacySpec == LegacyInit /\ [][LegacyNext]_legacyVars /\ Fairness

-----------------------------------------------------------------------------
(* Properties                                                              *)

\* The record, the snapshots of polls, the reads of recovery passes and cancellations.
LegacyTypeOK ==
    /\ doc \in Docs
    /\ side \in Sides
    /\ marker \in BOOLEAN /\ active \in BOOLEAN /\ booked \in BOOLEAN /\ over \in BOOLEAN
    /\ claim \in Pollers \cup {NoOne}
    /\ jobs \in 0..MaxJobs
    /\ poll \in [Pollers -> [pc : PollPcs, snap : Docs, rev : -1..MaxSideRev, late : BOOLEAN]]
    /\ pass \in [Coordinators -> [pc : PassPcs, doc : Docs, side : Sides,
                                  marker : BOOLEAN, live : BOOLEAN, late : BOOLEAN]]
    /\ cancels \in [Cancellers -> [pc : CancelPcs, doc : Docs, side : Sides]]

\* A schedule marker stands for the open window of a sidecar, so that the job
\* published from it can be claimed, however recovery and unfenced saves mix.
MarkerHasWindow == marker => side.open /\ side.rev >= 0

\* Types and the meaning of markers.
LegacySound == LegacyTypeOK /\ MarkerHasWindow

\* While a watch with an open window goes on, the window stays open and is none
\* that was already polled: no recovery pass writes back a sidecar it read before
\* other coordinators, polls and cancellations moved on, and no cancellation or
\* expiry that read too early takes the window from a watch it does not end.
WindowKept == side.open /\ doc'.status = "ACTIVE" => side'.open /\ side'.seq >= side.seq
WindowNeverRewinds == [][WindowKept]_legacyVars

\* No watch stays active in the index for ever: recovery repairs or expires
\* it, whatever polls, cancellations and crashes it meets.
IndexedSettles == <>[](active => doc.status \in Terminal)

\* Refuted (README, section 6): the cadence never goes back, whether the watch goes
\* on, ends or is made active again.
CadenceNeverRewinds == [][side'.seq >= side.seq]_legacyVars

\* Refuted (README, section 6): a watch ends at the latest some
\* time after its deadline.
Settles == <>[](doc.status \in Terminal)

\* Refuted (README, section 6): a watch that ended is never made
\* active again.
EndIsFinal == [][doc.status \in Terminal => doc'.status \in Terminal]_legacyVars

-----------------------------------------------------------------------------
(* The invariant behind LegacySound and WindowNeverRewinds                 *)

\* A sidecar, stored or read, is absent or has committed once per window at least.
SideSound(s) == s = NoSide \/ (s.rev >= 0 /\ s.seq <= s.rev)

\* Marker, open window and claim go together, and polls know what they need:
\* an owner the revision of a sidecar, a search an attempt that is left.
WindowsAgree ==
    /\ side.open = marker
    /\ claim # NoOne => side.open
    /\ SideSound(side)
    /\ \A c \in Coordinators : SideSound(pass[c].side)
    /\ \A x \in Cancellers : SideSound(cancels[x].side)
    /\ \A p \in Pollers :
          /\ poll[p].pc = "owner" => poll[p].rev >= 0
          /\ poll[p].pc \in {"replay", "search"} => poll[p].snap.attempts < MaxAttempts
=============================================================================
