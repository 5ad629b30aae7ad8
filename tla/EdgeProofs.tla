----------------------------- MODULE EdgeProofs -----------------------------
(***************************************************************************)
(* Proofs about the components around the watch protocol: the records of   *)
(* earlier releases (LegacyWatch), for every number of pollers,            *)
(* coordinators and attempts; the pacing of polls (PollPacing), for every  *)
(* setting of interval, jitter, backoff and lifetime; the times of a       *)
(* request (RequestTimes), for every extraction, clock and venue.          *)
(*                                                                         *)
(* What the recursive Pow2 computes is shown by the least counterexample,  *)
(* which the well-foundedness of < on Nat provides.                        *)
(***************************************************************************)
EXTENDS LegacyWatch, PollPacing, RequestTimes, NaturalsInduction, WellFoundedInduction,
        TLAPS

PollRecords == [pc : PollPcs, snap : Docs, rev : -1..MaxSideRev, late : BOOLEAN]
PassRecords == [pc : PassPcs, doc : Docs, side : Sides, marker : BOOLEAN, live : BOOLEAN,
                late : BOOLEAN]
CancelRecords == [pc : CancelPcs, doc : Docs, side : Sides]

LegacyInv == LegacyTypeOK /\ WindowsAgree

-----------------------------------------------------------------------------
(* Records                                                                 *)

LEMMA EmptyRecords ==
    ASSUME LegacyAssumption
    PROVE  /\ NoDoc \in Docs /\ NoSide \in Sides /\ NoSide.rev = -1 /\ NoSide.open = FALSE
           /\ Idle \in PollRecords /\ Idle.pc = "idle" /\ Idle.rev = -1
           /\ Resting \in PassRecords /\ Resting.pc = "idle" /\ Resting.side = NoSide
           /\ NoCancel \in CancelRecords /\ NoCancel.side = NoSide
    BY DEF LegacyAssumption, NoDoc, NoSide, Docs, Sides, RecordStatuses, Terminal, Idle, Resting,
           PollRecords, PassRecords, PollPcs, PassPcs, NoCancel, CancelRecords, CancelPcs

LEMMA RecordTypes ==
    ASSUME LegacyAssumption, LegacyInv
    PROVE  /\ \A p \in Pollers : poll[p] \in PollRecords
           /\ \A c \in Coordinators : pass[c] \in PassRecords /\ SideSound(pass[c].side)
           /\ \A x \in Cancellers : cancels[x] \in CancelRecords /\ SideSound(cancels[x].side)
           /\ side \in Sides /\ doc \in Docs /\ SideSound(side) /\ side.open = marker
           /\ MaxSideRev \in Nat /\ MaxAttempts \in Nat
    BY DEF LegacyInv, LegacyTypeOK, WindowsAgree, PollRecords, PassRecords, CancelRecords,
           LegacyAssumption

\* A document takes another status, and one attempt more while some are left.
LEMMA DocWith ==
    ASSUME LegacyAssumption, NEW d \in Docs, NEW s \in RecordStatuses
    PROVE  /\ [d EXCEPT !.status = s] \in Docs
           /\ [d EXCEPT !.status = s].attempts = d.attempts
           /\ d.attempts \in Nat /\ d.attempts <= MaxAttempts
    BY DEF LegacyAssumption, Docs

LEMMA DocCharged ==
    ASSUME LegacyAssumption, NEW d \in Docs, d.attempts < MaxAttempts
    PROVE  [d EXCEPT !.attempts = @ + 1] \in Docs
    BY DEF LegacyAssumption, Docs

-----------------------------------------------------------------------------
(* Where one poll or one pass moves                                        *)

LEMMA PollMoves ==
    ASSUME LegacyAssumption, LegacyInv, NEW p \in Pollers,
           NEW q \in PollRecords, poll' = [poll EXCEPT ![p] = q],
           q.pc = "owner" => q.rev >= 0,
           q.pc \in {"replay", "search"} => q.snap.attempts < MaxAttempts
    PROVE  /\ poll' \in [Pollers -> PollRecords]
           /\ \A r \in Pollers :
                 /\ poll'[r].pc = "owner" => poll'[r].rev >= 0
                 /\ poll'[r].pc \in {"replay", "search"} => poll'[r].snap.attempts < MaxAttempts
<1>1. poll \in [Pollers -> PollRecords]
    BY DEF LegacyInv, LegacyTypeOK, PollRecords
<1>2. poll' \in [Pollers -> PollRecords]
    BY <1>1
<1>3. ASSUME NEW r \in Pollers
      PROVE  /\ poll'[r].pc = "owner" => poll'[r].rev >= 0
             /\ poll'[r].pc \in {"replay", "search"} => poll'[r].snap.attempts < MaxAttempts
    <2>1. CASE r = p
        BY <1>1, <2>1
    <2>2. CASE r # p
        <3>1. poll'[r] = poll[r]
            BY <1>1, <2>2
        <3> QED  BY <3>1 DEF LegacyInv, WindowsAgree
    <2> QED  BY <2>1, <2>2
<1> QED  BY <1>2, <1>3

\* A step of a poll that leaves the store alone.
LEMMA PollStep ==
    ASSUME LegacyAssumption, LegacyInv, NEW p \in Pollers,
           NEW q \in PollRecords, poll' = [poll EXCEPT ![p] = q],
           q.pc = "owner" => q.rev >= 0,
           q.pc \in {"replay", "search"} => q.snap.attempts < MaxAttempts,
           UNCHANGED <<store, over, pass, cancels>>, jobs' \in 0..MaxJobs, booked' \in BOOLEAN
    PROVE  LegacyInv'
<1>1. /\ poll' \in [Pollers -> PollRecords]
      /\ \A r \in Pollers :
            /\ poll'[r].pc = "owner" => poll'[r].rev >= 0
            /\ poll'[r].pc \in {"replay", "search"} => poll'[r].snap.attempts < MaxAttempts
    BY PollMoves
<1>2. LegacyTypeOK'
    BY <1>1 DEF LegacyInv, LegacyTypeOK, store, PollRecords
<1>3. WindowsAgree'
    BY <1>1 DEF LegacyInv, WindowsAgree, store, SideSound
<1> QED  BY <1>2, <1>3 DEF LegacyInv

\* A poll that ends its delivery, and may have written the store.
LEMMA LeaveStep ==
    ASSUME LegacyAssumption, LegacyInv, NEW p \in Pollers, Leave(p),
           doc' \in Docs, side' \in Sides, marker' \in BOOLEAN, active' \in BOOLEAN,
           claim' \in Pollers \cup {NoOne}, booked' \in BOOLEAN,
           side'.open = marker', claim' # NoOne => side'.open, SideSound(side'),
           UNCHANGED <<over, pass, cancels>>, jobs' \in 0..MaxJobs
    PROVE  LegacyInv'
<1>1. /\ poll' \in [Pollers -> PollRecords]
      /\ \A r \in Pollers :
            /\ poll'[r].pc = "owner" => poll'[r].rev >= 0
            /\ poll'[r].pc \in {"replay", "search"} => poll'[r].snap.attempts < MaxAttempts
    BY PollMoves, EmptyRecords DEF Leave
<1>2. LegacyTypeOK'
    BY <1>1 DEF LegacyInv, LegacyTypeOK, PollRecords
<1>3. WindowsAgree'
    BY <1>1 DEF LegacyInv, WindowsAgree
<1> QED  BY <1>2, <1>3 DEF LegacyInv

\* A step that moves no poll.
LEMMA StoreStep ==
    ASSUME LegacyAssumption, LegacyInv,
           doc' \in Docs, side' \in Sides, marker' \in BOOLEAN, active' \in BOOLEAN,
           claim' \in Pollers \cup {NoOne},
           side'.open = marker', claim' # NoOne => side'.open, SideSound(side'),
           UNCHANGED <<booked, poll>>, over' \in BOOLEAN, jobs' \in 0..MaxJobs,
           pass' \in [Coordinators -> PassRecords], \A c \in Coordinators : SideSound(pass'[c].side),
           cancels' \in [Cancellers -> CancelRecords],
           \A x \in Cancellers : SideSound(cancels'[x].side)
    PROVE  LegacyInv'
<1>1. LegacyTypeOK'
    BY DEF LegacyInv, LegacyTypeOK, PassRecords, CancelRecords
<1>2. WindowsAgree'
    BY DEF LegacyInv, WindowsAgree
<1> QED  BY <1>1, <1>2 DEF LegacyInv

-----------------------------------------------------------------------------
(* Deliveries                                                              *)

LEMMA LeaveOnly ==
    ASSUME LegacyAssumption, LegacyInv, NEW p \in Pollers, Leave(p),
           UNCHANGED <<store, booked, over, pass, cancels>>, jobs' \in 0..MaxJobs
    PROVE  LegacyInv'
<1>1. Idle \in PollRecords /\ Idle.pc = "idle" /\ booked' \in BOOLEAN
    BY EmptyRecords DEF LegacyInv, LegacyTypeOK
<1> QED  BY <1>1, PollStep DEF Leave

\* Outcome and Goto write a whole delivery.
LEMMA OutcomeIs ==
    ASSUME LegacyAssumption, LegacyInv, NEW p \in Pollers, NEW d \in Docs,
           NEW s \in RecordStatuses, Outcome(p, d, s)
    PROVE  \E q \in PollRecords : q.pc = "save" /\ poll' = [poll EXCEPT ![p] = q]
<1> DEFINE q == [poll[p] EXCEPT !.pc = "save", !.snap = [d EXCEPT !.status = s]]
<1>1. poll \in [Pollers -> PollRecords] /\ poll[p] \in PollRecords
    BY DEF LegacyInv, LegacyTypeOK, PollRecords
<1>2. q \in PollRecords /\ q.pc = "save"
    BY <1>1, DocWith DEF PollRecords, PollPcs
<1>3. poll' = [poll EXCEPT ![p] = q]
    BY <1>1 DEF Outcome
<1> QED  BY <1>2, <1>3

LEMMA OutcomeStep ==
    ASSUME LegacyAssumption, LegacyInv, NEW p \in Pollers, NEW d \in Docs,
           NEW s \in RecordStatuses, Outcome(p, d, s),
           UNCHANGED <<store, over, jobs, pass, cancels>>, booked' \in BOOLEAN
    PROVE  LegacyInv'
<1>1. PICK q \in PollRecords : q.pc = "save" /\ poll' = [poll EXCEPT ![p] = q]
    BY OutcomeIs
<1>2. jobs' \in 0..MaxJobs
    BY DEF LegacyInv, LegacyTypeOK
<1> QED  BY <1>1, <1>2, PollStep

LEMMA MissedStep ==
    ASSUME LegacyAssumption, LegacyInv, NEW p \in Pollers, NEW d \in Docs, Missed(p, d),
           UNCHANGED <<store, over, jobs, pass, cancels>>, booked' \in BOOLEAN
    PROVE  LegacyInv'
    BY OutcomeStep DEF Missed, RecordStatuses, Terminal

LEMMA GotoStep ==
    ASSUME LegacyAssumption, LegacyInv, NEW p \in Pollers, NEW l \in PollPcs, Goto(p, l),
           l # "owner",
           l \in {"replay", "search"} => poll[p].snap.attempts < MaxAttempts,
           UNCHANGED <<store, booked, over, pass, cancels>>, jobs' \in 0..MaxJobs
    PROVE  LegacyInv'
<1> DEFINE q == [poll[p] EXCEPT !.pc = l]
<1>1. poll \in [Pollers -> PollRecords] /\ poll[p] \in PollRecords /\ booked' \in BOOLEAN
    BY DEF LegacyInv, LegacyTypeOK, PollRecords
<1>2. q \in PollRecords /\ q.pc = l /\ q.snap = poll[p].snap
    BY <1>1 DEF PollRecords
<1>3. poll' = [poll EXCEPT ![p] = q]
    BY <1>1 DEF Goto
<1> HIDE DEF q
<1> QED  BY <1>1, <1>2, <1>3, PollStep

LEMMA PollOnceStep ==
    ASSUME LegacyAssumption, LegacyInv, NEW p \in Pollers, PollOnce(p)
    PROVE  LegacyInv'
<1>1. jobs' \in 0..MaxJobs
    BY DEF PollOnce, LegacyInv, LegacyTypeOK, LegacyAssumption
<1>2. CASE side.open
    <2> DEFINE q == [pc |-> "owner", snap |-> doc, rev |-> side.rev, late |-> over]
    <2>1. q \in PollRecords /\ q.rev >= 0 /\ q.pc = "owner"
        BY <1>2, RecordTypes, EmptyRecords DEF LegacyInv, LegacyTypeOK, PollRecords, PollPcs, Sides, SideSound
    <2>2. poll' = [poll EXCEPT ![p] = q] /\ claim' = p
        BY <1>2 DEF PollOnce
    <2> HIDE DEF q
    <2>3. /\ poll' \in [Pollers -> PollRecords]
          /\ \A r \in Pollers :
                /\ poll'[r].pc = "owner" => poll'[r].rev >= 0
                /\ poll'[r].pc \in {"replay", "search"} => poll'[r].snap.attempts < MaxAttempts
        BY <2>1, <2>2, PollMoves
    <2>4. UNCHANGED <<doc, side, marker, active, booked, over, pass, cancels>>
        BY DEF PollOnce
    <2>5. LegacyTypeOK'
        BY <1>1, <2>2, <2>3, <2>4 DEF LegacyInv, LegacyTypeOK, PollRecords
    <2>6. WindowsAgree'
        BY <1>2, <2>3, <2>4 DEF LegacyInv, WindowsAgree, SideSound
    <2> QED  BY <2>5, <2>6 DEF LegacyInv
<1>3. CASE ~side.open
    <2>1. Goto(p, "read") /\ UNCHANGED <<store, booked, over, pass, cancels>>
        BY <1>3 DEF PollOnce, store
    <2> QED  BY <1>1, <2>1, GotoStep DEF PollPcs
<1> QED  BY <1>2, <1>3

LEMMA LegacyReadStep ==
    ASSUME LegacyAssumption, LegacyInv, NEW p \in Pollers, LegacyRead(p)
    PROVE  LegacyInv'
<1>1. jobs' \in 0..MaxJobs /\ booked' \in BOOLEAN /\ UNCHANGED <<store, booked, over, pass, cancels>>
    BY DEF LegacyRead, LegacyInv, LegacyTypeOK
<1>2. CASE doc.status \in Terminal
    BY <1>1, <1>2, LeaveOnly DEF LegacyRead
<1>3. CASE doc.status \notin Terminal
    <2> DEFINE done == IsExhausted(doc, over)
               q == [pc |-> IF done THEN "save" ELSE IF doc.auto THEN "replay" ELSE "search",
                     snap |-> IF done THEN [doc EXCEPT !.status = "EXPIRED"] ELSE doc,
                     rev |-> NoSide.rev, late |-> over]
    <2>1. poll' = [poll EXCEPT ![p] = q]
        BY <1>3 DEF LegacyRead
    <2>2. doc \in Docs /\ over \in BOOLEAN /\ NoSide.rev \in -1..MaxSideRev
        BY EmptyRecords DEF LegacyInv, LegacyTypeOK, Sides
    <2>3. CASE done
        <3>1. [doc EXCEPT !.status = "EXPIRED"] \in Docs
            BY <2>2, DocWith DEF RecordStatuses, Terminal
        <3>2. q \in PollRecords /\ q.pc = "save"
            BY <2>2, <2>3, <3>1 DEF PollRecords, PollPcs
        <3> HIDE DEF q
        <3> QED  BY <1>1, <2>1, <3>2, PollStep
    <2>4. CASE ~done
        <3>1. q \in PollRecords /\ q.pc \in {"replay", "search"} /\ q.snap = doc
            BY <2>2, <2>4 DEF PollRecords, PollPcs
        <3>2. doc.attempts < MaxAttempts
            BY <2>2, <2>4, RecordTypes DEF IsExhausted, Docs
        <3> HIDE DEF q
        <3> QED  BY <1>1, <2>1, <3>1, <3>2, PollStep
    <2> QED  BY <2>3, <2>4
<1> QED  BY <1>2, <1>3

LEMMA LegacyCallStep ==
    ASSUME LegacyAssumption, LegacyInv, NEW p \in Pollers,
           LegacyReplay(p) \/ LegacySearch(p) \/ LegacyBook(p)
    PROVE  LegacyInv'
<1>1. /\ poll[p] \in PollRecords /\ poll[p].snap \in Docs /\ booked \in BOOLEAN
      /\ jobs \in 0..MaxJobs /\ poll \in [Pollers -> PollRecords]
      /\ poll[p].pc \in {"replay", "search"} => poll[p].snap.attempts < MaxAttempts
    BY DEF LegacyInv, LegacyTypeOK, WindowsAgree, PollRecords
<1>2. CASE LegacyReplay(p)
    <2>1. UNCHANGED <<store, booked, over, jobs, pass, cancels>> /\ poll[p].pc = "replay"
        BY <1>2 DEF LegacyReplay
    <2>2. CASE booked
        BY <1>1, <1>2, <2>1, <2>2, OutcomeStep DEF LegacyReplay, RecordStatuses, Terminal
    <2>3. CASE ~booked
        <3>1. Goto(p, "search") /\ "search" \in PollPcs /\ "search" # "owner"
            BY <1>2, <2>3 DEF LegacyReplay, PollPcs
        <3> QED  BY <1>1, <2>1, <3>1, GotoStep
    <2> QED  BY <2>2, <2>3
<1>3. CASE LegacySearch(p)
    <2> DEFINE d == [poll[p].snap EXCEPT !.attempts = @ + 1]
    <2>1. d \in Docs
        BY <1>1, <1>3, DocCharged DEF LegacySearch
    <2>2. \/ Missed(p, d) \/ Outcome(p, d, "FOUND")
          \/ poll' = [poll EXCEPT ![p].pc = "book", ![p].snap = d]
        BY <1>3 DEF LegacySearch
    <2>3. UNCHANGED <<store, booked, over, jobs, pass, cancels>>
        BY <1>3 DEF LegacySearch
    <2> HIDE DEF d
    <2>4. CASE Missed(p, d)
        BY <1>1, <2>1, <2>3, <2>4, MissedStep
    <2>5. CASE Outcome(p, d, "FOUND")
        BY <1>1, <2>1, <2>3, <2>5, OutcomeStep DEF RecordStatuses, Terminal
    <2>6. CASE poll' = [poll EXCEPT ![p].pc = "book", ![p].snap = d]
        <3> DEFINE q == [poll[p] EXCEPT !.pc = "book", !.snap = d]
        <3>1. q \in PollRecords /\ q.pc = "book"
            BY <1>1, <2>1 DEF PollRecords, PollPcs
        <3>2. poll' = [poll EXCEPT ![p] = q]
            BY <1>1, <2>6
        <3> HIDE DEF q
        <3> QED  BY <1>1, <2>3, <3>1, <3>2, PollStep
    <2> QED  BY <2>2, <2>4, <2>5, <2>6
<1>4. CASE LegacyBook(p)
    <2>1. UNCHANGED <<store, over, jobs, pass, cancels>> /\ booked' \in BOOLEAN
        BY <1>1, <1>4 DEF LegacyBook
    <2>2. Outcome(p, poll[p].snap, "BOOKED") \/ Missed(p, poll[p].snap)
        BY <1>4 DEF LegacyBook
    <2> QED  BY <1>1, <2>1, <2>2, OutcomeStep, MissedStep DEF RecordStatuses, Terminal
<1> QED  BY <1>2, <1>3, <1>4

\* The unfenced save writes the document and its index, and nothing else.
LEMMA LegacySaveStep ==
    ASSUME LegacyAssumption, LegacyInv, NEW p \in Pollers, LegacyPollSave(p)
    PROVE  LegacyInv'
<1>1. /\ UNCHANGED <<side, marker, claim, booked, over, jobs, pass, cancels>>
      /\ doc' = poll[p].snap /\ active' = (poll[p].snap.status = "ACTIVE")
    BY DEF LegacyPollSave
<1>2. doc' \in Docs /\ active' \in BOOLEAN /\ poll[p] \in PollRecords
    BY <1>1, RecordTypes DEF PollRecords
<1>3. CASE active'
    <2> DEFINE q == [poll[p] EXCEPT !.pc = "enqueue"]
    <2>1. q \in PollRecords /\ q.pc = "enqueue"
        BY <1>2 DEF PollRecords, PollPcs
    <2>2. poll' = [poll EXCEPT ![p] = q]
        BY <1>3 DEF LegacyPollSave, Goto, LegacyInv, LegacyTypeOK
    <2> HIDE DEF q
    <2>3. /\ poll' \in [Pollers -> PollRecords]
          /\ \A r \in Pollers :
                /\ poll'[r].pc = "owner" => poll'[r].rev >= 0
                /\ poll'[r].pc \in {"replay", "search"} => poll'[r].snap.attempts < MaxAttempts
        BY <2>1, <2>2, PollMoves
    <2>4. LegacyTypeOK'
        BY <1>1, <1>2, <2>3 DEF LegacyInv, LegacyTypeOK, PollRecords
    <2>5. WindowsAgree'
        BY <1>1, <2>3 DEF LegacyInv, WindowsAgree, SideSound
    <2> QED  BY <2>4, <2>5 DEF LegacyInv
<1>4. CASE ~active'
    <2>1. Leave(p)
        BY <1>4 DEF LegacyPollSave
    <2>2. /\ side' \in Sides /\ marker' \in BOOLEAN /\ claim' \in Pollers \cup {NoOne}
          /\ booked' \in BOOLEAN /\ jobs' \in 0..MaxJobs
        BY <1>1 DEF LegacyInv, LegacyTypeOK
    <2>3. side'.open = marker' /\ (claim' # NoOne => side'.open) /\ SideSound(side')
        BY <1>1 DEF LegacyInv, WindowsAgree
    <2> QED  BY <1>1, <1>2, <2>1, <2>2, <2>3, LeaveStep
<1> QED  BY <1>3, <1>4

LEMMA EnqueueStep ==
    ASSUME LegacyAssumption, LegacyInv, NEW p \in Pollers, LegacyEnqueue(p) \/ Die(p)
    PROVE  LegacyInv'
<1>1. jobs' \in 0..MaxJobs
    BY DEF LegacyEnqueue, Die, LegacyInv, LegacyTypeOK, LegacyAssumption
<1> QED  BY <1>1, LeaveOnly DEF LegacyEnqueue, Die

-----------------------------------------------------------------------------
(* The coordinated protocol                                                *)

\* What a step on the store must keep.
StoreKept ==
    /\ doc' \in Docs /\ side' \in Sides /\ marker' \in BOOLEAN /\ active' \in BOOLEAN
    /\ claim' \in Pollers \cup {NoOne}
    /\ side'.open = marker' /\ (claim' # NoOne => side'.open) /\ SideSound(side')
    /\ WindowKept

LEMMA StoreStays ==
    ASSUME LegacyAssumption, LegacyInv, UNCHANGED store
    PROVE  StoreKept
    BY DEF LegacyInv, LegacyTypeOK, WindowsAgree, store, StoreKept, WindowKept, Sides

\* A coordinated ending closes the window with the marker and the claim, whatever
\* sidecar its caller has read.
LEMMA EndEffect ==
    ASSUME LegacyAssumption, LegacyInv, NEW s \in Terminal, NEW d \in Docs, NEW e \in Sides,
           SideSound(e), End(s, d, e)
    PROVE  StoreKept
<1>1. MaxSideRev \in Nat /\ NoSide \in Sides /\ NoSide.open = FALSE
    BY RecordTypes, EmptyRecords
<1>2. doc' \in Docs /\ doc'.status # "ACTIVE"
    BY DEF End, Docs, RecordStatuses, Terminal
<1>3. marker' = FALSE /\ claim' = NoOne /\ active' = FALSE
    BY DEF End
<1>4. side' \in Sides /\ side'.open = FALSE /\ SideSound(side')
    <2>1. CASE e = NoSide
        BY <1>1, <2>1 DEF End, SideSound
    <2>2. CASE e # NoSide
        <3>1. Bumped(e.rev) \in -1..MaxSideRev /\ Bumped(e.rev) >= e.rev
            BY <1>1 DEF Bumped, Sides
        <3>2. side' = [e EXCEPT !.rev = Bumped(e.rev), !.open = FALSE]
            BY <2>2 DEF End
        <3>3. /\ side' \in Sides /\ side'.open = FALSE
              /\ side'.seq = e.seq /\ side'.rev = Bumped(e.rev)
            BY <3>1, <3>2 DEF Sides
        <3>4. SideSound(side')
            BY <2>2, <3>1, <3>3 DEF SideSound, Sides
        <3> QED  BY <3>3, <3>4
    <2> QED  BY <2>1, <2>2
<1> QED  BY <1>2, <1>3, <1>4 DEF StoreKept, WindowKept

\* The scripts of cancel and expire.
LEMMA ScriptEffect ==
    ASSUME LegacyAssumption, LegacyInv, NEW s \in Terminal, NEW d \in Docs, NEW e \in Sides,
           SideSound(e), EndIfActive(s, d, e)
    PROVE  StoreKept
    BY StoreStays, EndEffect DEF EndIfActive

\* An owner commits one attempt and one window, or ends the watch.
LEMMA CommitEffect ==
    ASSUME LegacyAssumption, LegacyInv, NEW p \in Pollers, CommitWindow(p)
    PROVE  StoreKept /\ booked' \in BOOLEAN
<1> DEFINE d == poll[p].snap
           charged == [d EXCEPT !.attempts = @ + 1]
<1>1. /\ doc \in Docs /\ side \in Sides /\ SideSound(side) /\ d \in Docs /\ booked \in BOOLEAN
      /\ MaxAttempts \in Nat /\ MaxSideRev \in Nat /\ side.seq \in Nat
    BY RecordTypes DEF PollRecords, Sides, LegacyInv, LegacyTypeOK
<1>2. CASE UNCHANGED <<store, booked>>
    BY <1>1, <1>2, StoreStays
<1>3. CASE IsExhausted(d, over) /\ End("EXPIRED", d, side) /\ UNCHANGED booked
    BY <1>1, <1>3, EndEffect DEF Terminal
<1>4. ASSUME ~IsExhausted(d, over) PROVE charged \in Docs
    BY <1>1, <1>4, DocCharged DEF IsExhausted, Docs
<1>5. CASE ~IsExhausted(d, over) /\ End("FOUND", charged, side) /\ UNCHANGED booked
    <2> HIDE DEF charged
    <2> QED  BY <1>1, <1>4, <1>5, EndEffect DEF Terminal
<1>6. CASE ~IsExhausted(d, over) /\ End("BOOKED", charged, side) /\ booked' = TRUE
    <2> HIDE DEF charged
    <2> QED  BY <1>1, <1>4, <1>6, EndEffect DEF Terminal
<1>7. CASE /\ Owns(p) /\ ~IsExhausted(d, over)
           /\ doc' = charged
           /\ side' = [side EXCEPT !.rev = @ + 1, !.seq = @ + 1]
           /\ marker' = TRUE /\ claim' = NoOne
           /\ UNCHANGED <<active, booked>>
    <2>1. side.rev < MaxSideRev /\ poll[p].pc = "owner"
        BY DEF CommitWindow
    <2>2. poll[p].rev >= 0 /\ side.rev = poll[p].rev
        BY <1>7, <2>1 DEF Owns, LegacyInv, WindowsAgree
    <2>3. side # NoSide
        BY <2>2, EmptyRecords
    <2>4. side.open
        BY <1>7 DEF Owns, LegacyInv, WindowsAgree, LegacyAssumption
    <2>5. side.seq <= side.rev
        BY <1>1, <2>3 DEF SideSound
    <2>6. /\ side' \in Sides /\ side'.open = side.open
          /\ side'.rev = side.rev + 1 /\ side'.seq = side.seq + 1
        <3>1. side.rev + 1 \in -1..MaxSideRev /\ side.seq + 1 \in 0..MaxSideRev
            BY <1>1, <2>1, <2>2, <2>5 DEF Sides
        <3>2. side' = [side EXCEPT !.rev = side.rev + 1, !.seq = side.seq + 1]
            BY <1>7
        <3> QED  BY <1>1, <3>1, <3>2 DEF Sides
    <2>7. SideSound(side') /\ side'.seq >= side.seq
        BY <1>1, <2>2, <2>5, <2>6 DEF SideSound, Sides
    <2>8. doc' \in Docs
        BY <1>4, <1>7
    <2>9. booked' \in BOOLEAN /\ active' \in BOOLEAN
        BY <1>7 DEF LegacyInv, LegacyTypeOK
    <2>10. side'.open = marker'
        BY <1>7, <2>4, <2>6 DEF LegacyInv, LegacyTypeOK, WindowsAgree
    <2>11. WindowKept
        BY <2>4, <2>6, <2>7 DEF WindowKept
    <2> QED  BY <1>7, <2>6, <2>7, <2>8, <2>9, <2>10, <2>11 DEF StoreKept
<1> QED  BY <1>2, <1>3, <1>5, <1>6, <1>7 DEF CommitWindow

LEMMA CommitStep ==
    ASSUME LegacyAssumption, LegacyInv, NEW p \in Pollers, CommitWindow(p)
    PROVE  LegacyInv'
<1>1. Leave(p) /\ UNCHANGED <<over, pass, cancels>> /\ jobs' \in 0..MaxJobs
    BY DEF CommitWindow, LegacyInv, LegacyTypeOK
<1> QED  BY <1>1, CommitEffect, LeaveStep DEF StoreKept

\* The reads of a cancellation, and its script on what they found.
LEMMA CancelStep ==
    ASSUME LegacyAssumption, LegacyInv, NEW x \in Cancellers,
           CancelReadsDocument(x) \/ CancelReadsSidecar(x) \/ CancelRecord(x)
    PROVE  LegacyInv' /\ WindowKept
<1>1. /\ cancels \in [Cancellers -> CancelRecords] /\ cancels[x] \in CancelRecords
      /\ doc \in Docs /\ side \in Sides /\ SideSound(side) /\ SideSound(cancels[x].side)
    BY RecordTypes DEF LegacyInv, LegacyTypeOK, CancelRecords
<1>2. /\ UNCHANGED <<booked, over, jobs, poll, pass>>
      /\ over' \in BOOLEAN /\ jobs' \in 0..MaxJobs /\ pass' \in [Coordinators -> PassRecords]
      /\ \A c \in Coordinators : SideSound(pass'[c].side)
    BY DEF CancelReadsDocument, CancelReadsSidecar, CancelRecord, LegacyInv, LegacyTypeOK,
           WindowsAgree, PassRecords
<1>3. StoreKept
    <2>1. CASE CancelReadsDocument(x) \/ CancelReadsSidecar(x)
        BY <2>1, StoreStays DEF CancelReadsDocument, CancelReadsSidecar
    <2>2. CASE CancelRecord(x)
        <3>1. cancels[x].doc \in Docs /\ cancels[x].side \in Sides /\ "CANCELLED" \in Terminal
            BY <1>1 DEF CancelRecords, Terminal
        <3>2. EndIfActive("CANCELLED", cancels[x].doc, cancels[x].side)
            BY <2>2 DEF CancelRecord
        <3> QED  BY <1>1, <3>1, <3>2, ScriptEffect
    <2> QED  BY <2>1, <2>2
<1>4. PICK k \in CancelRecords : SideSound(k.side) /\ cancels' = [cancels EXCEPT ![x] = k]
    <2>1. CASE CancelReadsDocument(x)
        <3> DEFINE k == [pc |-> "side", doc |-> doc, side |-> NoSide]
        <3>1. k \in CancelRecords /\ SideSound(k.side)
            BY <1>1, EmptyRecords DEF CancelRecords, CancelPcs, SideSound
        <3>2. cancels' = [cancels EXCEPT ![x] = k]
            BY <2>1 DEF CancelReadsDocument
        <3> QED  BY <3>1, <3>2
    <2>2. CASE CancelReadsSidecar(x)
        <3> DEFINE k == [cancels[x] EXCEPT !.pc = "script", !.side = side]
        <3>1. k \in CancelRecords /\ k.side = side
            BY <1>1 DEF CancelRecords, CancelPcs
        <3>2. cancels' = [cancels EXCEPT ![x] = k]
            BY <1>1, <2>2 DEF CancelReadsSidecar
        <3> HIDE DEF k
        <3> QED  BY <1>1, <3>1, <3>2
    <2>3. CASE CancelRecord(x)
        BY <2>3, EmptyRecords DEF CancelRecord, SideSound
    <2> QED  BY <2>1, <2>2, <2>3
<1>5. /\ cancels' \in [Cancellers -> CancelRecords]
      /\ \A y \in Cancellers : SideSound(cancels'[y].side)
    BY <1>1, <1>4, RecordTypes
<1> QED  BY <1>2, <1>3, <1>5, StoreStep DEF StoreKept

\* What the environment does: a lapsing claim, the dispatcher, lost jobs, time.
LEMMA AroundStep ==
    ASSUME LegacyAssumption, LegacyInv, LapseClaim \/ Dispatch \/ LoseJobs \/ LifetimeEnds
    PROVE  LegacyInv' /\ side' = side
<1>1. /\ UNCHANGED <<doc, side, marker, active, booked, poll, pass, cancels>>
      /\ claim' \in {claim, NoOne}
    BY DEF LapseClaim, Dispatch, LoseJobs, LifetimeEnds, store
<1>2. jobs' \in 0..MaxJobs /\ over' \in BOOLEAN
    <2>1. jobs \in 0..MaxJobs /\ over \in BOOLEAN /\ MaxJobs \in Nat
        BY DEF LegacyInv, LegacyTypeOK, LegacyAssumption
    <2>2. \/ jobs' = jobs \/ jobs' = 0 \/ (jobs < MaxJobs /\ jobs' = jobs + 1)
        BY DEF LapseClaim, Dispatch, LoseJobs, LifetimeEnds
    <2>3. over' = over \/ over' = TRUE
        BY DEF LapseClaim, Dispatch, LoseJobs, LifetimeEnds
    <2>4. jobs' \in 0..MaxJobs
        BY <2>1, <2>2
    <2>5. over' \in BOOLEAN
        BY <2>1, <2>3
    <2> QED  BY <2>4, <2>5
<1>3. LegacyTypeOK'
    BY <1>1, <1>2 DEF LegacyInv, LegacyTypeOK
<1>4. WindowsAgree'
    BY <1>1 DEF LegacyInv, WindowsAgree, SideSound
<1> QED  BY <1>1, <1>3, <1>4 DEF LegacyInv

-----------------------------------------------------------------------------
(* Recovery                                                                *)

\* A pass that remembers something else of the watch, and may have written it.
LEMMA PassStep ==
    ASSUME LegacyAssumption, LegacyInv, NEW c \in Coordinators, NEW k \in PassRecords,
           SideSound(k.side), pass' = [pass EXCEPT ![c] = k], StoreKept,
           UNCHANGED <<booked, over, jobs, poll, cancels>>
    PROVE  LegacyInv'
<1>1. /\ over' \in BOOLEAN /\ jobs' \in 0..MaxJobs /\ pass \in [Coordinators -> PassRecords]
      /\ cancels' \in [Cancellers -> CancelRecords]
      /\ \A x \in Cancellers : SideSound(cancels'[x].side)
    BY DEF LegacyInv, LegacyTypeOK, WindowsAgree, PassRecords, CancelRecords
<1>2. /\ pass' \in [Coordinators -> PassRecords]
      /\ \A e \in Coordinators : SideSound(pass'[e].side)
    BY <1>1, RecordTypes
<1> QED  BY <1>1, <1>2, StoreStep DEF StoreKept

\* The reads of a pass: what it remembers of the sidecar was a sidecar.
LEMMA ReadStep ==
    ASSUME LegacyAssumption, LegacyInv, NEW c \in Coordinators,
           \/ ListMember(c) \/ ReadDocument(c) \/ ReadSidecar(c) \/ ReadMarker(c) \/ ReadClaim(c)
           \/ ExpireReadsDocument(c) \/ ExpireReadsSidecar(c)
    PROVE  LegacyInv' /\ WindowKept
<1>1. UNCHANGED <<store, booked, over, jobs, poll, cancels>>
    BY DEF ListMember, ReadDocument, ReadSidecar, ReadMarker, ReadClaim, ExpireReadsDocument,
           ExpireReadsSidecar
<1>2. /\ pass[c] \in PassRecords /\ pass \in [Coordinators -> PassRecords] /\ doc \in Docs
      /\ side \in Sides /\ SideSound(side) /\ marker \in BOOLEAN /\ over \in BOOLEAN
      /\ SideSound(pass[c].side) /\ Resting \in PassRecords /\ SideSound(Resting.side)
    BY EmptyRecords DEF LegacyInv, LegacyTypeOK, WindowsAgree, PassRecords, SideSound
<1>3. PICK k \in PassRecords : SideSound(k.side) /\ pass' = [pass EXCEPT ![c] = k]
    <2>1. CASE ListMember(c)
        <3> DEFINE k == [pass[c] EXCEPT !.pc = "member", !.late = over]
        <3>1. k \in PassRecords /\ k.side = pass[c].side
            BY <1>2 DEF PassRecords, PassPcs
        <3> QED  BY <1>2, <2>1, <3>1 DEF ListMember
    <2>2. CASE ReadDocument(c)
        <3> DEFINE k == [pass[c] EXCEPT !.pc = "side", !.doc = doc]
        <3>1. k \in PassRecords /\ k.side = pass[c].side
            BY <1>2 DEF PassRecords, PassPcs
        <3> QED  BY <1>2, <2>2, <3>1 DEF ReadDocument
    <2>3. CASE ReadSidecar(c)
        <3> DEFINE k == [pass[c] EXCEPT !.pc = "marker", !.side = side]
        <3>1. k \in PassRecords /\ k.side = side
            BY <1>2 DEF PassRecords, PassPcs
        <3> QED  BY <1>2, <2>3, <3>1 DEF ReadSidecar
    <2>4. CASE ReadMarker(c)
        <3> DEFINE k == [pass[c] EXCEPT !.pc = "claim", !.marker = marker]
        <3>1. k \in PassRecords /\ k.side = pass[c].side
            BY <1>2 DEF PassRecords, PassPcs
        <3> QED  BY <1>2, <2>4, <3>1 DEF ReadMarker
    <2>5. CASE ReadClaim(c)
        <3> DEFINE k == [pass[c] EXCEPT !.pc = "reconcile", !.live = (claim # NoOne)]
        <3>1. k \in PassRecords /\ k.side = pass[c].side
            BY <1>2 DEF PassRecords, PassPcs
        <3> QED  BY <1>2, <2>5, <3>1 DEF ReadClaim
    <2>6. CASE ExpireReadsDocument(c)
        <3> DEFINE k == [pass[c] EXCEPT !.pc = "sidecar", !.doc = doc]
        <3>1. k \in PassRecords /\ k.side = pass[c].side
            BY <1>2 DEF PassRecords, PassPcs
        <3>2. pass' = [pass EXCEPT ![c] = k] \/ pass' = [pass EXCEPT ![c] = Resting]
            BY <2>6 DEF ExpireReadsDocument
        <3> HIDE DEF k
        <3> QED  BY <1>2, <3>1, <3>2
    <2>7. CASE ExpireReadsSidecar(c)
        <3> DEFINE k == [pass[c] EXCEPT !.pc = "expire", !.side = side]
        <3>1. k \in PassRecords /\ k.side = side
            BY <1>2 DEF PassRecords, PassPcs
        <3>2. pass' = [pass EXCEPT ![c] = k] \/ pass' = [pass EXCEPT ![c] = Resting]
            BY <2>7 DEF ExpireReadsSidecar
        <3> HIDE DEF k
        <3> QED  BY <1>2, <3>1, <3>2
    <2> QED  BY <2>1, <2>2, <2>3, <2>4, <2>5, <2>6, <2>7
<1>4. StoreKept
    BY <1>1, StoreStays
<1> QED  BY <1>1, <1>3, <1>4, PassStep DEF StoreKept

\* Repair writes an open window, and only where there is no marker: there is no
\* open window to rewind.
LEMMA SynthesizeEffect ==
    ASSUME LegacyAssumption, LegacyInv, NEW c \in Coordinators, SynthesizeMarker(c)
    PROVE  StoreKept
<1>1. /\ doc \in Docs /\ pass[c].side \in Sides /\ SideSound(pass[c].side) /\ MaxSideRev \in Nat
    BY RecordTypes DEF PassRecords
<1>2. CASE UNCHANGED store
    BY <1>2, StoreStays
<1>3. CASE /\ doc.status = "ACTIVE" /\ claim = NoOne /\ ~marker
           /\ side' = MarkerRuntime(c) /\ marker' = TRUE /\ UNCHANGED <<doc, claim, active>>
    <2>1. /\ MarkerRuntime(c) \in Sides /\ MarkerRuntime(c).open = TRUE
          /\ SideSound(MarkerRuntime(c))
        <3>1. CASE pass[c].side = NoSide
            BY <1>1, <3>1 DEF MarkerRuntime, Sides, SideSound
        <3>2. CASE pass[c].side # NoSide
            <4> DEFINE s == [pass[c].side EXCEPT !.open = TRUE]
            <4>1. /\ s \in Sides /\ s.open = TRUE /\ s.seq = pass[c].side.seq
                  /\ s.rev = pass[c].side.rev
                BY <1>1 DEF Sides
            <4>2. MarkerRuntime(c) = s
                BY <3>2 DEF MarkerRuntime
            <4> HIDE DEF s
            <4> QED  BY <1>1, <3>2, <4>1, <4>2 DEF SideSound
        <3> QED  BY <3>1, <3>2
    <2>2. ~side.open
        BY <1>3 DEF LegacyInv, WindowsAgree
    <2>3. WindowKept
        BY <2>2 DEF WindowKept
    <2> QED  BY <1>1, <1>3, <2>1, <2>3 DEF StoreKept, LegacyInv, LegacyTypeOK
<1> QED  BY <1>2, <1>3 DEF SynthesizeMarker

LEMMA ReconcileStep ==
    ASSUME LegacyAssumption, LegacyInv, NEW c \in Coordinators, ReconcileOne(c) \/ Expire(c)
    PROVE  LegacyInv' /\ WindowKept
<1>1. UNCHANGED <<booked, over, jobs, poll, cancels>>
    BY DEF ReconcileOne, Expire
<1>2. PICK k \in PassRecords : SideSound(k.side) /\ pass' = [pass EXCEPT ![c] = k]
    <2> DEFINE again == [Resting EXCEPT !.pc = "again"]
    <2>1. again \in PassRecords /\ SideSound(again.side)
        BY EmptyRecords DEF PassRecords, PassPcs, SideSound
    <2>2. Resting \in PassRecords /\ SideSound(Resting.side)
        BY EmptyRecords DEF SideSound
    <2>3. pass' = [pass EXCEPT ![c] = again] \/ pass' = [pass EXCEPT ![c] = Resting]
        BY DEF ReconcileOne, Expire
    <2> HIDE DEF again
    <2> QED  BY <2>1, <2>2, <2>3
<1>3. StoreKept
    <2>1. CASE active' = FALSE /\ UNCHANGED <<doc, side, marker, claim>>
        <3>1. WindowKept
            BY <2>1 DEF LegacyInv, LegacyTypeOK, WindowKept, Sides
        <3>2. SideSound(side') /\ side'.open = marker' /\ (claim' # NoOne => side'.open)
            BY <2>1 DEF LegacyInv, WindowsAgree
        <3> QED  BY <2>1, <3>1, <3>2 DEF LegacyInv, LegacyTypeOK, StoreKept
    <2>2. CASE UNCHANGED store
        BY <2>2, StoreStays
    <2>3. CASE SynthesizeMarker(c)
        BY <2>3, SynthesizeEffect
    <2>4. CASE Expire(c)
        <3>1. /\ pass[c].doc \in Docs /\ pass[c].side \in Sides /\ SideSound(pass[c].side)
              /\ "EXPIRED" \in Terminal
            BY RecordTypes DEF PassRecords, Terminal
        <3>2. EndIfActive("EXPIRED", pass[c].doc, pass[c].side)
            BY <2>4 DEF Expire
        <3> QED  BY <3>1, <3>2, ScriptEffect
    <2> QED  BY <2>1, <2>2, <2>3, <2>4 DEF ReconcileOne
<1> QED  BY <1>1, <1>2, <1>3, PassStep DEF StoreKept

-----------------------------------------------------------------------------
(* Theorems                                                                *)

LEMMA LegacyBegins == ASSUME LegacyAssumption, LegacyInit PROVE LegacyInv
<1>1. doc \in Docs
    BY DEF LegacyInit, LegacyAssumption, Docs, RecordStatuses
<1>2. /\ poll \in [Pollers -> PollRecords] /\ pass \in [Coordinators -> PassRecords]
      /\ \A p \in Pollers : poll[p].pc = "idle"
      /\ \A c \in Coordinators : pass[c].side = NoSide
      /\ cancels \in [Cancellers -> CancelRecords]
      /\ \A x \in Cancellers : cancels[x].side = NoSide
    BY EmptyRecords DEF LegacyInit
<1>3. LegacyTypeOK
    BY <1>1, <1>2, EmptyRecords DEF LegacyInit, LegacyTypeOK, PollRecords, PassRecords, CancelRecords
<1>4. WindowsAgree
    BY <1>2, EmptyRecords DEF LegacyInit, WindowsAgree, SideSound
<1> QED  BY <1>3, <1>4 DEF LegacyInv

LEMMA LegacyStep ==
    ASSUME LegacyAssumption, LegacyInv, [LegacyNext]_legacyVars
    PROVE  LegacyInv' /\ WindowKept
<1>0. side' = side => WindowKept
    BY DEF LegacyInv, LegacyTypeOK, Sides, WindowKept
<1>1. ASSUME NEW p \in Pollers,
             \/ PollOnce(p) \/ LegacyRead(p) \/ LegacyReplay(p) \/ LegacySearch(p)
             \/ LegacyBook(p) \/ LegacyPollSave(p) \/ LegacyEnqueue(p) \/ Die(p)
      PROVE  LegacyInv' /\ side' = side
    <2>1. side' = side
        BY <1>1 DEF PollOnce, LegacyRead, LegacyReplay, LegacySearch, LegacyBook, LegacyPollSave,
                    LegacyEnqueue, Die, store
    <2> QED  BY <1>1, <2>1, PollOnceStep, LegacyReadStep, LegacyCallStep, LegacySaveStep,
                EnqueueStep
<1>2. ASSUME NEW p \in Pollers, CommitWindow(p)
      PROVE  LegacyInv' /\ WindowKept
    BY <1>2, CommitStep, CommitEffect DEF StoreKept
<1>3. ASSUME NEW c \in Coordinators,
             \/ ListMember(c) \/ ReadDocument(c) \/ ReadSidecar(c) \/ ReadMarker(c) \/ ReadClaim(c)
             \/ ExpireReadsDocument(c) \/ ExpireReadsSidecar(c)
      PROVE  LegacyInv' /\ WindowKept
    BY <1>3, ReadStep
<1>4. ASSUME NEW c \in Coordinators, ReconcileOne(c) \/ Expire(c)
      PROVE  LegacyInv' /\ WindowKept
    BY <1>4, ReconcileStep
<1>5. ASSUME NEW x \in Cancellers,
             CancelReadsDocument(x) \/ CancelReadsSidecar(x) \/ CancelRecord(x)
      PROVE  LegacyInv' /\ WindowKept
    BY <1>5, CancelStep
<1>6. CASE LapseClaim \/ Dispatch \/ LoseJobs \/ LifetimeEnds
    BY <1>0, <1>6, AroundStep
<1>7. CASE UNCHANGED legacyVars
    BY <1>0, <1>7 DEF legacyVars, LegacyInv, LegacyTypeOK, WindowsAgree, SideSound
<1> QED  BY <1>0, <1>1, <1>2, <1>3, <1>4, <1>5, <1>6, <1>7 DEF LegacyNext

LEMMA LegacyInvariance == ASSUME LegacyAssumption PROVE LegacySpec => []LegacyInv
<1>1. LegacyInit => LegacyInv
    BY LegacyBegins
<1>2. LegacyInv /\ [LegacyNext]_legacyVars => LegacyInv'
    BY LegacyStep
<1> QED  BY <1>1, <1>2, PTL DEF LegacySpec

\* However unfenced polls of an earlier release, windowed polls, cancellations and
\* any number of overlapping recovery passes mix: a schedule marker stands for the
\* open window of a sidecar, so that the job published from it can be claimed.
THEOREM LegacySoundness == ASSUME LegacyAssumption PROVE LegacySpec => []LegacySound
<1>1. LegacyInv => LegacySound
    <2> SUFFICES ASSUME LegacyInv PROVE MarkerHasWindow
        BY DEF LegacyInv, LegacySound
    <2>1. marker => side.open
        BY DEF LegacyInv, WindowsAgree
    <2>2. side.open => side # NoSide
        BY EmptyRecords
    <2>3. side # NoSide => side.rev >= 0
        BY DEF LegacyInv, WindowsAgree, SideSound
    <2> QED  BY <2>1, <2>2, <2>3 DEF MarkerHasWindow
<1> QED  BY <1>1, LegacyInvariance, PTL

\* _marker_runtime writes back a sidecar read earlier, and synthesize_marker does
\* not compare revisions; cancel and expire compare none when they read no sidecar.
\* The check for a marker keeps the one, and the end of the watch the others, from
\* closing or taking back the open window of a watch that goes on.
THEOREM NoRewind == ASSUME LegacyAssumption PROVE LegacySpec => WindowNeverRewinds
<1>1. LegacyInv /\ [LegacyNext]_legacyVars => [WindowKept]_legacyVars
    BY LegacyStep
<1> QED  BY <1>1, LegacyInvariance, PTL DEF LegacySpec, WindowNeverRewinds

-----------------------------------------------------------------------------
(* Powers of two                                                           *)

\* A set of natural numbers that is not empty has a least one.
LEMMA Least ==
    ASSUME NEW T \in SUBSET Nat, T # {}
    PROVE  \E m \in T : \A k \in T : m <= k
<1> DEFINE R == OpToRel(<, Nat)
<1>1. IsWellFoundedOn(R, Nat)
    BY NatLessThanWellFounded
<1>2. \A x, y \in Nat : <<y, x>> \in R <=> y < x
    BY DEF OpToRel
<1> HIDE DEF R
<1>3. PICK x \in T : \A y \in T : ~(<<y, x>> \in R)
    BY <1>1, WFMin
<1>4. ASSUME NEW y \in T PROVE x <= y
    <2>1. x \in Nat /\ y \in Nat
        OBVIOUS
    <2>2. ~(y < x)
        BY <1>2, <1>3, <2>1
    <2> QED  BY <2>1, <2>2
<1> QED  BY <1>4

\* The first powers of two.
Powers(g, n) == g \in [0..n -> Nat] /\ g[0] = 1 /\ \A i \in 1..n : g[i] = 2 * g[i - 1]

LEMMA PowersExist == \A n \in Nat : \E g : Powers(g, n)
<1> SUFFICES ASSUME {n \in Nat : ~\E g : Powers(g, n)} # {} PROVE FALSE
    OBVIOUS
<1> DEFINE T == {n \in Nat : ~\E g : Powers(g, n)}
<1>1. PICK m \in T : \A k \in T : m <= k
    BY Least
<1>2. m # 0
    <2>1. Powers([i \in 0..0 |-> 1], 0)
        BY DEF Powers
    <2> QED  BY <1>1, <2>1
<1>3. m - 1 \in Nat /\ m - 1 \notin T
    BY <1>1, <1>2
<1>4. PICK g : Powers(g, m - 1)
    BY <1>3
<1> DEFINE h == [i \in 0..m |-> IF i = m THEN 2 * g[m - 1] ELSE g[i]]
<1>5. Powers(h, m)
    <2>1. h \in [0..m -> Nat]
        BY <1>3, <1>4 DEF Powers
    <2>2. h[0] = 1
        BY <1>2, <1>3, <1>4 DEF Powers
    <2>3. ASSUME NEW i \in 1..m PROVE h[i] = 2 * h[i - 1]
        <3>1. i - 1 \in 0..m /\ i - 1 # m /\ i \in 0..m /\ m \in Nat
            BY <1>3
        <3>2. h[i - 1] = g[i - 1]
            BY <3>1
        <3>3. CASE i = m
            BY <3>1, <3>2, <3>3
        <3>4. CASE i # m
            <4>1. i \in 1..(m - 1) /\ h[i] = g[i]
                BY <3>1, <3>4
            <4> QED  BY <1>4, <3>2, <4>1 DEF Powers
        <3> QED  BY <3>3, <3>4
    <2> HIDE DEF h
    <2> QED  BY <2>1, <2>2, <2>3 DEF Powers
<1> QED  BY <1>1, <1>5

LEMMA PowersUnique ==
    ASSUME NEW n \in Nat, NEW m \in Nat, NEW g, NEW h, Powers(g, n), Powers(h, m)
    PROVE  \A i \in 0..n : i <= m => g[i] = h[i]
<1> SUFFICES ASSUME {i \in 0..n : i <= m /\ g[i] # h[i]} # {} PROVE FALSE
    OBVIOUS
<1> DEFINE T == {i \in 0..n : i <= m /\ g[i] # h[i]}
<1>1. T \in SUBSET Nat
    OBVIOUS
<1>2. PICK j \in T : \A k \in T : j <= k
    BY <1>1, Least
<1>3. j # 0
    BY <1>2 DEF Powers
<1>4. j - 1 \in 0..n /\ j - 1 <= m /\ j - 1 \notin T
    BY <1>2, <1>3
<1>5. g[j] = 2 * g[j - 1] /\ h[j] = 2 * h[j - 1]
    BY <1>2, <1>3 DEF Powers
<1> QED  BY <1>2, <1>4, <1>5

LEMMA Pow2Exists == \E f : f = [n \in Nat |-> IF n = 0 THEN 1 ELSE 2 * f[n - 1]]
<1> DEFINE P(n) == CHOOSE g : Powers(g, n)
           f == [n \in Nat |-> P(n)[n]]
<1>1. \A n \in Nat : Powers(P(n), n)
    BY PowersExist
<1> HIDE DEF P
<1>2. f[0] = 1
    BY <1>1 DEF Powers
<1>3. ASSUME NEW n \in Nat, n # 0 PROVE f[n] = 2 * f[n - 1]
    <2>1. Powers(P(n), n) /\ Powers(P(n - 1), n - 1) /\ n - 1 \in Nat
        BY <1>1, <1>3
    <2>2. P(n)[n] = 2 * P(n)[n - 1]
        BY <1>3, <2>1 DEF Powers
    <2>3. P(n - 1)[n - 1] = P(n)[n - 1]
        BY <2>1, PowersUnique
    <2> QED  BY <2>1, <2>2, <2>3
<1>4. f = [n \in Nat |-> IF n = 0 THEN 1 ELSE 2 * f[n - 1]]
    <2>1. \A n \in Nat : f[n] = IF n = 0 THEN 1 ELSE 2 * f[n - 1]
        BY <1>2, <1>3
    <2>2. f = [n \in Nat |-> f[n]]
        OBVIOUS
    <2> HIDE DEF f
    <2> QED  BY <2>1, <2>2
<1> QED  BY <1>4

\* The recursion of Pow2.
LEMMA Pow2Def ==
    Pow2[0] = 1 /\ \A n \in Nat : n # 0 => Pow2[n] = 2 * Pow2[n - 1]
<1>1. Pow2 = [n \in Nat |-> IF n = 0 THEN 1 ELSE 2 * Pow2[n - 1]]
    BY Pow2Exists DEF Pow2
<1> HIDE DEF Pow2
<1> QED  BY <1>1

\* Powers of two are positive and grow beyond every number.
LEMMA Pow2Grows == \A n \in Nat : Pow2[n] \in Nat /\ Pow2[n] > n
<1> DEFINE T == {n \in Nat : ~(Pow2[n] \in Nat /\ Pow2[n] > n)}
<1> SUFFICES ASSUME T # {} PROVE FALSE
    OBVIOUS
<1>1. PICK m \in T : \A k \in T : m <= k
    BY Least
<1>2. m # 0
    BY <1>1, Pow2Def
<1>3. m - 1 \in Nat /\ m - 1 \notin T
    BY <1>1, <1>2
<1>4. /\ Pow2[m - 1] \in Nat /\ Pow2[m - 1] > m - 1
      /\ Pow2[m] = 2 * Pow2[m - 1]
    BY <1>1, <1>2, <1>3, Pow2Def
<1> QED  BY <1>1, <1>3, <1>4

LEMMA Pow2Monotone == \A n, k \in Nat : n <= k => Pow2[n] <= Pow2[k]
<1> SUFFICES ASSUME NEW n \in Nat,
                    {k \in Nat : n <= k /\ ~(Pow2[n] <= Pow2[k])} # {}
             PROVE  FALSE
    OBVIOUS
<1> DEFINE T == {k \in Nat : n <= k /\ ~(Pow2[n] <= Pow2[k])}
<1>1. PICK m \in T : \A k \in T : m <= k
    BY Least
<1>2. m # n
    BY <1>1, Pow2Grows
<1>3. m - 1 \in Nat /\ n <= m - 1 /\ m - 1 \notin T /\ m # 0
    BY <1>1, <1>2
<1>4. Pow2[n] <= Pow2[m - 1] /\ Pow2[m] = 2 * Pow2[m - 1]
    BY <1>1, <1>3, Pow2Def
<1>5. Pow2[n] \in Nat /\ Pow2[m - 1] \in Nat
    BY <1>3, Pow2Grows
<1> QED  BY <1>1, <1>4, <1>5

-----------------------------------------------------------------------------
(* Settings                                                                *)

LEMMA SettingFacts ==
    ASSUME PacingAssumption, NEW c \in Settings
    PROVE  /\ c.interval \in Nat /\ c.interval >= 2 /\ c.jitter \in Nat /\ c.jitter < c.interval
           /\ c.backoffMax \in Nat /\ c.lifetime \in Nat /\ c.ceiling \in Nat /\ c.ceiling > 0
           /\ EarliestDelay(c) \in Nat /\ EarliestDelay(c) >= 2
           /\ Maximum(c) \in Nat /\ Maximum(c) >= c.interval
           /\ MaxLate \in Nat /\ MaxStreak \in Nat /\ MaxStreak > 0
    BY DEF PacingAssumption, EarliestDelay, Maximum, Larger,
           MinDelay

\* As many whole intervals as cover the lifetime.
LEMMA CeilDivFacts ==
    ASSUME NEW a \in Nat, NEW b \in Nat, b > 0
    PROVE  CeilDiv(a, b) \in Nat /\ CeilDiv(a, b) * b >= a
<1> DEFINE q == (0 - a) \div b
<1>1. q \in Int /\ b * q <= 0 - a
    BY Z3
<1>2. q <= 0
    BY <1>1, Z3
<1> HIDE DEF q
<1>3. (0 - q) * b >= a
    BY <1>1, Z3
<1> QED  BY <1>1, <1>2, <1>3 DEF CeilDiv, q

LEMMA PolicyFacts ==
    ASSUME PacingAssumption, NEW c \in Settings
    PROVE  /\ Policy(c).required \in Nat /\ Policy(c).effective \in Nat
           /\ Policy(c).effective > 0
           /\ Policy(c).effective = Smaller(Policy(c).required, c.ceiling)
           /\ Policy(c).deadline <=> Policy(c).effective = Policy(c).required
           /\ (Policy(c).required - 1) * EarliestDelay(c) >= c.lifetime
           /\ Derive(c, c.lifetime, Policy(c).effective) = Policy(c)
<1> DEFINE E == EarliestDelay(c)
           r == RequiredAttempts(c, c.lifetime)
           e == Smaller(r, c.ceiling)
<1>1. E \in Nat /\ E > 0 /\ c.lifetime \in Nat /\ c.ceiling \in Nat /\ c.ceiling > 0
    BY SettingFacts
<1> HIDE DEF E
<1>2. r = CeilDiv(c.lifetime, E) + 1
    BY <1>1 DEF RequiredAttempts, Larger, E
<1>3. CeilDiv(c.lifetime, E) \in Nat /\ CeilDiv(c.lifetime, E) * E >= c.lifetime
    BY <1>1, CeilDivFacts
<1> HIDE DEF r
<1>4. r \in Nat /\ r > 0 /\ r - 1 = CeilDiv(c.lifetime, E)
    BY <1>2, <1>3
<1>5. e \in Nat /\ e > 0 /\ Smaller(r, e) = e
    BY <1>1, <1>4 DEF Smaller
<1>6. Policy(c) = [required |-> r, effective |-> e, deadline |-> e = r]
    BY DEF Policy, Derive, r
<1> HIDE DEF e
<1>7. Policy(c).effective = e
    BY <1>6
<1>8. Derive(c, c.lifetime, e) = [required |-> r, effective |-> e, deadline |-> e = r]
    BY <1>5 DEF Derive, r
<1>9. Policy(c).required = r /\ Policy(c).deadline = (e = r)
    BY <1>6
<1>10. (Policy(c).required - 1) * EarliestDelay(c) >= c.lifetime
    BY <1>3, <1>4, <1>9 DEF E
<1>11. Policy(c).effective = Smaller(Policy(c).required, c.ceiling)
    BY <1>7, <1>9 DEF e
<1>12. Derive(c, c.lifetime, Policy(c).effective) = Policy(c)
    BY <1>6, <1>7, <1>8
<1> QED  BY <1>4, <1>5, <1>7, <1>9, <1>10, <1>11, <1>12

\* The loop of _exponent_limit ends at the first power that reaches the maximum.
LEMMA ExponentFacts ==
    ASSUME PacingAssumption, NEW c \in Settings
    PROVE  /\ ExponentLimit(c) \in Nat
           /\ c.interval * Pow2[ExponentLimit(c)] >= Maximum(c)
           /\ \A j \in 0..(ExponentLimit(c) - 1) :
                 c.interval * Pow2[j] < Maximum(c)
<1> DEFINE T == {k \in Nat : c.interval * Pow2[k] >= Maximum(c)}
           M == Maximum(c)
           i == c.interval
<1>1. i \in Nat /\ i >= 1 /\ M \in Nat
    BY SettingFacts
<1> HIDE DEF i
<1>2. \A k \in Nat : i * Pow2[k] \in Nat
    BY <1>1, Pow2Grows
<1>3. M \in T
    <2>1. Pow2[M] \in Nat /\ Pow2[M] > M
        BY <1>1, Pow2Grows
    <2>2. \A p \in Nat : i * p >= p
        BY <1>1, Z3
    <2> QED  BY <1>1, <1>2, <2>1, <2>2 DEF i
<1>4. PICK k \in T : \A j \in T : k <= j
    BY <1>3, Least
<1>5. k \in 0..Maximum(c)
    BY <1>1, <1>3, <1>4
<1>6. \A j \in 0..(k - 1) : c.interval * Pow2[j] < Maximum(c)
    BY <1>1, <1>2, <1>4 DEF i
<1>7. \E n \in 0..Maximum(c) :
        /\ c.interval * Pow2[n] >= Maximum(c)
        /\ \A j \in 0..(n - 1) : c.interval * Pow2[j] < Maximum(c)
    BY <1>4, <1>5, <1>6
<1>8. /\ ExponentLimit(c) \in 0..Maximum(c)
      /\ c.interval * Pow2[ExponentLimit(c)] >= Maximum(c)
      /\ \A j \in 0..(ExponentLimit(c) - 1) :
            c.interval * Pow2[j] < Maximum(c)
    BY <1>7 DEF ExponentLimit
<1> QED  BY <1>1, <1>8

\* The delay after n consecutive outages, whether or not the counter has saturated.
LEMMA BackoffFacts ==
    ASSUME PacingAssumption, NEW c \in Settings, NEW n \in Nat, n > 0
    PROVE  /\ BackoffBase(c, n) \in Nat
           /\ BackoffBase(c, SaturatingOutages(c, n))
                = Smaller(c.interval * Pow2[n - 1], Maximum(c))
<1> DEFINE L == ExponentLimit(c)
           M == Maximum(c)
           i == c.interval
<1>1. /\ L \in Nat /\ i * Pow2[L] >= M /\ (\A j \in 0..(L - 1) : i * Pow2[j] < M)
      /\ i \in Nat /\ M \in Nat
    BY ExponentFacts, SettingFacts
<1>2. \A k \in Nat : Pow2[k] \in Nat
    BY Pow2Grows
<1> HIDE DEF L, M, i
<1>3. \A k \in Nat : i * Pow2[k] \in Nat
    BY <1>1, <1>2
<1>4. BackoffBase(c, n) \in Nat
    BY <1>1, <1>3 DEF BackoffBase, L, M, i
<1>5. CASE n - 1 >= L
    <2>1. Pow2[L] <= Pow2[n - 1] /\ Pow2[n - 1] \in Nat /\ Pow2[L] \in Nat
        BY <1>1, <1>2, <1>5, Pow2Monotone
    <2>2. \A p, q \in Nat : p <= q => i * p <= i * q
        BY <1>1, Z3
    <2>3. i * Pow2[n - 1] >= M
        BY <1>1, <1>3, <2>1, <2>2
    <2>4. SaturatingOutages(c, n) = L + 1
        BY <1>1, <1>5 DEF SaturatingOutages, Smaller, L
    <2>5. BackoffBase(c, L + 1) = M
        BY <1>1 DEF BackoffBase, L, M
    <2>6. Smaller(i * Pow2[n - 1], M) = M
        BY <1>1, <1>3, <2>3 DEF Smaller
    <2> QED  BY <1>4, <2>4, <2>5, <2>6 DEF M, i
<1>6. CASE ~(n - 1 >= L)
    <2>1. SaturatingOutages(c, n) = n
        BY <1>1, <1>6 DEF SaturatingOutages, Smaller, L
    <2>2. BackoffBase(c, n) = i * Pow2[n - 1]
        BY <1>6 DEF BackoffBase, L, i
    <2>3. i * Pow2[n - 1] < M
        BY <1>1, <1>6
    <2>4. Smaller(i * Pow2[n - 1], M) = i * Pow2[n - 1]
        BY <1>1, <1>3, <2>3 DEF Smaller
    <2> QED  BY <1>4, <2>1, <2>2, <2>4 DEF M, i
<1> QED  BY <1>5, <1>6

-----------------------------------------------------------------------------
(* Polls                                                                   *)

LEMMA PacingFacts ==
    ASSUME PacingAssumption, PacingInv, NEW t \in Arrivals
    PROVE  /\ state = "ACTIVE" /\ cfg \in Settings /\ cfg.lifetime \in Nat
           /\ attempts \in Nat /\ outages \in Nat /\ at \in Nat /\ t \in Nat
           /\ last \in Int /\ at - last >= MinDelay /\ MinDelay \in Nat
           /\ attempts < Policy(cfg).effective /\ streak \in 0..MaxStreak
           /\ Policy(cfg).effective \in Nat /\ EarliestDelay(cfg) \in Nat
           /\ cfg.enforce => t >= at /\ t - last >= MinDelay
           /\ cfg.enforce => at >= attempts * EarliestDelay(cfg) \/ at >= cfg.lifetime
<1>1. /\ state = "ACTIVE" /\ cfg \in Settings /\ at \in Nat /\ last \in Int
      /\ at - last >= MinDelay /\ MinDelay \in Nat
    BY DEF PacingInv, Arrivals, MinDelay
<1>2. t \in Nat /\ (cfg.enforce => t >= at)
    BY <1>1, SettingFacts DEF Arrivals, Larger, PacingAssumption
<1>3. cfg.enforce => t - last >= MinDelay
    BY <1>1, <1>2
<1> QED  BY <1>1, <1>2, <1>3, SettingFacts, PolicyFacts DEF PacingInv

\* Where windows are kept, a poll runs the floor after the latest one.
Spaced == cfg.enforce => last' - last >= MinDelay

\* An end leaves the next window as it was; what has to be shown is when it may come.
LEMMA ExpireStep ==
    ASSUME PacingAssumption, PacingInv, NEW t \in Arrivals, ExpireAt(t),
           attempts' \in Nat,
           cfg.enforce /\ Policy(cfg).deadline => cfg.lifetime - t < MinDelay
    PROVE  PacingInv' /\ state' # "ACTIVE" /\ Spaced
<1>1. /\ state' = "EXPIRED" /\ last' = t /\ t \in Nat /\ UNCHANGED <<cfg, outages, at, streak>>
    BY PacingFacts DEF ExpireAt
<1>2. DeadlineReached'
    BY <1>1 DEF DeadlineReached
<1>3. Spaced
    BY <1>1, PacingFacts DEF Spaced
<1> QED  BY <1>1, <1>2, <1>3 DEF PacingInv

LEMMA FinishedStep ==
    ASSUME PacingAssumption, PacingInv, NEW t \in Arrivals, Finished(t)
    PROVE  PacingInv' /\ state' # "ACTIVE" /\ Spaced
<1>1. t >= cfg.lifetime /\ t \in Nat /\ cfg.lifetime \in Nat /\ attempts \in Nat
    BY PacingFacts DEF Finished
<1>2. cfg.lifetime - t < MinDelay /\ ExpireAt(t) /\ attempts' \in Nat
    BY <1>1 DEF Finished, MinDelay
<1> QED  BY <1>2, ExpireStep

\* A miss spends a check.  The budget of a watch that reaches its deadline is not
\* spent before: every check but the first is an earliest interval after another.
LEMMA MissStep ==
    ASSUME PacingAssumption, PacingInv, NEW t \in Arrivals, Miss(t)
    PROVE  /\ PacingInv' /\ Spaced
           /\ state' = "ACTIVE" => at' - last' >= MinDelay /\ at' <= cfg.lifetime
<1> DEFINE E == EarliestDelay(cfg)
           eff == Policy(cfg).effective
<1>1. /\ state = "ACTIVE" /\ cfg \in Settings /\ cfg.lifetime \in Nat
      /\ attempts \in Nat /\ at \in Nat /\ t \in Nat /\ attempts < eff
      /\ cfg.enforce => t >= at /\ t - last >= MinDelay
      /\ eff \in Nat /\ E \in Nat
      /\ cfg.enforce => at >= attempts * E \/ at >= cfg.lifetime
    BY PacingFacts
<1>2. t < cfg.lifetime /\ attempts' = attempts + 1
    BY <1>1 DEF Miss, Polls, Smaller
<1>3. PICK d \in NextDelays(cfg) :
        LET delay == Smaller(d, Remaining(t))
        IN  IF attempts' >= eff \/ delay < MinDelay
            THEN ExpireAt(t)
            ELSE /\ at' = t + delay /\ last' = t
                 /\ outages' = 0 /\ streak' = 0
                 /\ UNCHANGED <<cfg, state>>
    BY DEF Miss
<1> DEFINE delay == Smaller(d, Remaining(t))
<1>4. d \in Nat /\ d >= E /\ d >= MinDelay
    BY <1>1, SettingFacts
       DEF NextDelays, EarliestDelay, Larger, MinDelay
<1>5. Remaining(t) = cfg.lifetime - t /\ Remaining(t) \in Nat
    BY <1>1, <1>2 DEF Remaining
<1>6. /\ delay \in Nat /\ delay <= cfg.lifetime - t
      /\ delay = d \/ delay = cfg.lifetime - t
    BY <1>4, <1>5 DEF Smaller
<1> HIDE DEF E, eff, delay
<1>7. CASE attempts' >= eff
    <2>1. cfg.enforce /\ Policy(cfg).deadline => FALSE
        <3> SUFFICES ASSUME cfg.enforce, Policy(cfg).deadline PROVE FALSE
            OBVIOUS
        <3>1. eff = Policy(cfg).required /\ (eff - 1) * E >= cfg.lifetime
            BY <1>1, PolicyFacts DEF eff, E
        <3>2. attempts = eff - 1
            BY <1>1, <1>2, <1>7
        <3>3. attempts * E >= cfg.lifetime
            BY <3>1, <3>2
        <3>4. attempts * E \in Nat
            BY <1>1
        <3> QED  BY <1>1, <1>2, <3>3, <3>4
    <2>2. ExpireAt(t)
        BY <1>3, <1>7 DEF eff
    <2> QED  BY <1>1, <1>2, <2>1, <2>2, ExpireStep
<1>8. CASE ~(attempts' >= eff) /\ delay < MinDelay
    <2>1. cfg.lifetime - t < MinDelay
        BY <1>1, <1>4, <1>6, <1>8 DEF MinDelay
    <2>2. ExpireAt(t)
        BY <1>3, <1>8 DEF delay
    <2> QED  BY <1>1, <1>2, <2>1, <2>2, ExpireStep
<1>9. CASE ~(attempts' >= eff) /\ ~(delay < MinDelay)
    <2>1. /\ at' = t + delay /\ last' = t /\ outages' = 0 /\ streak' = 0
          /\ UNCHANGED <<cfg, state>>
        BY <1>3, <1>9 DEF delay, eff
    <2>2. at' - last' >= MinDelay /\ at' <= cfg.lifetime /\ at' \in Nat
        BY <1>1, <1>6, <1>9, <2>1 DEF MinDelay
    <2>3. cfg.enforce => at' >= attempts' * E \/ at' >= cfg.lifetime
        <3> SUFFICES ASSUME cfg.enforce PROVE at' >= attempts' * E \/ at' >= cfg.lifetime
            OBVIOUS
        <3>1. CASE delay = cfg.lifetime - t
            BY <1>1, <2>1, <3>1
        <3>2. CASE delay = d
            <4>1. at >= attempts * E /\ attempts * E \in Nat
                BY <1>1, <1>2
            <4>2. (attempts + 1) * E = attempts * E + E
                BY <1>1, Z3
            <4>3. at' >= attempts * E + E
                BY <1>1, <1>4, <2>1, <3>2, <4>1
            <4> QED  BY <1>2, <4>2, <4>3
        <3> QED  BY <1>6, <3>1, <3>2
    <2>4. attempts' < eff /\ attempts' \in Nat
        BY <1>1, <1>2, <1>9
    <2>5. /\ outages' = Smaller(streak', ExponentLimit(cfg) + 1)
          /\ streak' \in 0..MaxStreak
        BY <1>1, <2>1, ExponentFacts, SettingFacts DEF Smaller
    <2>6. DeadlineReached'
        BY <1>1, <2>1 DEF DeadlineReached
    <2>7. PacingInv'
        BY <1>1, <2>1, <2>2, <2>3, <2>4, <2>5, <2>6 DEF PacingInv, E, eff
    <2>8. Spaced
        BY <1>1, <2>1 DEF Spaced
    <2> QED  BY <2>2, <2>7, <2>8
<1> QED  BY <1>7, <1>8, <1>9

\* An outage spends no check, counts as one more and waits the capped delay.
LEMMA OutageStep ==
    ASSUME PacingAssumption, PacingInv, NEW t \in Arrivals, Outage(t)
    PROVE  /\ PacingInv' /\ Spaced
           /\ state' = "ACTIVE" => at' - last' >= MinDelay /\ at' <= cfg.lifetime
<1> DEFINE L == ExponentLimit(cfg)
<1>1. /\ state = "ACTIVE" /\ cfg \in Settings /\ cfg.lifetime \in Nat
      /\ attempts \in Nat /\ outages \in Nat /\ at \in Nat /\ t \in Nat
      /\ cfg.enforce => t >= at /\ t - last >= MinDelay
      /\ attempts < Policy(cfg).effective /\ streak \in 0..MaxStreak
      /\ EarliestDelay(cfg) \in Nat
      /\ cfg.enforce => at >= attempts * EarliestDelay(cfg) \/ at >= cfg.lifetime
    BY PacingFacts
<1>2. t < cfg.lifetime /\ attempts' = attempts
    BY DEF Outage, Polls
<1>3. Remaining(t) = cfg.lifetime - t /\ Remaining(t) \in Nat
    BY <1>1, <1>2 DEF Remaining
<1>4. CASE Remaining(t) < MinDelay
    BY <1>1, <1>2, <1>3, <1>4, ExpireStep DEF Outage
<1>5. CASE ~(Remaining(t) < MinDelay)
    <2>1. /\ outages' = SaturatingOutages(cfg, outages + 1) /\ last' = t
          /\ streak' = Smaller(streak + 1, MaxStreak) /\ UNCHANGED <<cfg, state>>
        BY <1>5 DEF Outage
    <2>2. PICK d \in Backoffs(cfg, outages') :
            at' = t + Smaller(d, Remaining(t))
        BY <1>5 DEF Outage
    <2>3. L \in Nat /\ MaxStreak \in Nat /\ MaxStreak > 0
        BY <1>1, ExponentFacts, SettingFacts
    <2> HIDE DEF L
    <2>4. outages' = Smaller(outages + 1, L + 1) /\ outages' \in Nat /\ outages' > 0
        BY <1>1, <2>1, <2>3 DEF SaturatingOutages, Smaller, L
    <2>5. d \in Nat /\ d >= MinDelay
        <3>1. BackoffBase(cfg, outages') \in Nat
            BY <1>1, <2>4, BackoffFacts
        <3>2. /\ Maximum(cfg) \in Nat /\ Maximum(cfg) >= MinDelay
              /\ cfg.jitter \in Nat
            BY <1>1, SettingFacts DEF MinDelay
        <3>3. PICK u \in (0 - cfg.jitter)..cfg.jitter :
                d = Smaller(
                       Larger(BackoffBase(cfg, outages') + u, MinDelay),
                       Maximum(cfg))
            BY DEF Backoffs
        <3> QED  BY <3>1, <3>2, <3>3 DEF Smaller, Larger, MinDelay
    <2>6. /\ at' \in Nat /\ at' - last' >= MinDelay /\ at' <= cfg.lifetime /\ at' >= t
        BY <1>1, <1>3, <1>5, <2>1, <2>2, <2>5 DEF Smaller, MinDelay
    <2>7. cfg.enforce => at' >= attempts' * EarliestDelay(cfg) \/ at' >= cfg.lifetime
        <3>1. attempts * EarliestDelay(cfg) \in Nat
            BY <1>1
        <3> QED  BY <1>1, <1>2, <2>6, <3>1
    <2>8. streak' \in 0..MaxStreak
        BY <1>1, <2>1, <2>3 DEF Smaller
    <2>9. streak' < MaxStreak => outages' = Smaller(streak', L + 1)
        <3> SUFFICES ASSUME streak' < MaxStreak PROVE outages' = Smaller(streak', L + 1)
            OBVIOUS
        <3>1. streak' = streak + 1 /\ streak < MaxStreak /\ streak \in Nat
            BY <1>1, <2>1, <2>3 DEF Smaller
        <3>2. outages = Smaller(streak, L + 1)
            BY <3>1 DEF PacingInv, L
        <3> QED  BY <2>3, <2>4, <3>1, <3>2 DEF Smaller
    <2>10. DeadlineReached'
        BY <1>1, <2>1 DEF DeadlineReached
    <2>11. PacingInv'
        BY <1>1, <1>2, <2>1, <2>4, <2>6, <2>7, <2>8, <2>9, <2>10 DEF PacingInv, L
    <2>12. Spaced
        BY <1>1, <2>1 DEF Spaced
    <2> QED  BY <2>6, <2>11, <2>12
<1> QED  BY <1>4, <1>5

LEMMA PacingBegins == ASSUME PacingAssumption, PacingInit PROVE PacingInv
<1>1. /\ cfg \in Settings /\ state = "ACTIVE" /\ attempts = 0 /\ outages = 0
      /\ at = 0 /\ last = 0 - MinDelay /\ streak = 0
    BY DEF PacingInit
<1>2. /\ EarliestDelay(cfg) \in Nat /\ Policy(cfg).effective > 0
      /\ ExponentLimit(cfg) \in Nat /\ MaxStreak \in Nat
    BY <1>1, SettingFacts, PolicyFacts, ExponentFacts
<1>3. at >= attempts * EarliestDelay(cfg)
    BY <1>1, <1>2
<1>4. outages = Smaller(streak, ExponentLimit(cfg) + 1)
    BY <1>1, <1>2 DEF Smaller
<1>5. DeadlineReached
    BY <1>1 DEF DeadlineReached
<1>6. last \in Int /\ at - last >= MinDelay
    BY <1>1 DEF MinDelay
<1> QED  BY <1>1, <1>2, <1>3, <1>4, <1>5, <1>6 DEF PacingInv

LEMMA PacingStep ==
    ASSUME PacingAssumption, PacingInv, [PacingNext]_pacingVars
    PROVE  /\ PacingInv'
           /\ \/ UNCHANGED pacingVars
              \/ /\ state' = "ACTIVE" => at' - last' >= MinDelay /\ at' <= cfg.lifetime
                 /\ Spaced
<1>1. CASE UNCHANGED pacingVars
    BY <1>1 DEF pacingVars, PacingInv, DeadlineReached
<1>2. ASSUME NEW t \in Arrivals, Finished(t) \/ Miss(t) \/ Outage(t)
      PROVE  /\ PacingInv' /\ Spaced
             /\ state' = "ACTIVE" => at' - last' >= MinDelay /\ at' <= cfg.lifetime
    BY <1>2, FinishedStep, MissStep, OutageStep
<1> QED  BY <1>1, <1>2 DEF PacingNext

LEMMA PacingInvariance ==
    ASSUME PacingAssumption PROVE PacingSpec => []PacingInv
<1>1. PacingInit => PacingInv
    BY PacingBegins
<1>2. PacingInv /\ [PacingNext]_pacingVars => PacingInv'
    BY PacingStep
<1> QED  BY <1>1, <1>2, PTL DEF PacingSpec

\* Whatever the interval, the jitter and the mixture of misses, outages and late polls:
\* a budget derived to cover the lifetime is not used up before the deadline by jobs that
\* name their windows; and whatever jobs poll the watch, early or late, the stored
\* counter gives the delays of the true number of outages, and the policy can be read
\* back from the stored budget.
THEOREM Budget ==
    ASSUME PacingAssumption PROVE PacingSpec => []PacingSound
<1>1. PacingInv => PacingSound
    <2> SUFFICES ASSUME PacingInv PROVE PacingSound
        OBVIOUS
    <2>1. /\ cfg \in Settings /\ streak \in Nat /\ ExponentLimit(cfg) \in Nat
          /\ DeadlineReached
        BY ExponentFacts, SettingFacts DEF PacingInv
    <2>2. BackoffAsCounted
        <3> SUFFICES ASSUME streak > 0, streak < MaxStreak
                     PROVE  BackoffBase(cfg, outages)
                              = Smaller(cfg.interval * Pow2[streak - 1],
                                               Maximum(cfg))
            BY DEF BackoffAsCounted
        <3>1. outages = SaturatingOutages(cfg, streak)
            BY DEF PacingInv, SaturatingOutages
        <3> QED  BY <2>1, <3>1, BackoffFacts
    <2>3. PolicyRecovered
        BY <2>1, PolicyFacts DEF PolicyRecovered
    <2> QED  BY <2>1, <2>2, <2>3 DEF PacingSound
<1> QED  BY <1>1, PacingInvariance, PTL

\* No poll is scheduled closer than the floor to the one before it, the one clipped to
\* the deadline included, and none after the deadline; and no two polls of a watch run
\* closer than the floor if its jobs name their windows.
THEOREM NoHotPolls ==
    ASSUME PacingAssumption PROVE PacingSpec => NeverHotPolls
<1> DEFINE A == /\ state' = "ACTIVE" => at' - last' >= MinDelay /\ at' <= cfg.lifetime
                /\ cfg.enforce => last' - last >= MinDelay
<1>1. PacingInv /\ [PacingNext]_pacingVars => [A]_pacingVars
    BY PacingStep DEF Spaced
<1> QED  BY <1>1, PacingInvariance, PTL DEF PacingSpec, NeverHotPolls

-----------------------------------------------------------------------------
(* Boundaries                                                              *)

LEMMA Division ==
    ASSUME NEW a \in Nat, NEW b \in Nat, b > 0
    PROVE  /\ a \div b \in Nat /\ a % b \in Nat /\ a % b < b
           /\ a = b * (a \div b) + (a % b)
<1>1. a % b \in 0..(b - 1) /\ a \div b \in Int
    BY Z3
<1>2. a = b * (a \div b) + (a % b)
    BY Z3
<1>3. a \div b >= 0
    <2> DEFINE q == a \div b
               r == a % b
    <2>1. q \in Int /\ r \in Nat /\ r < b /\ a = b * q + r
        BY <1>1, <1>2
    <2> HIDE DEF q, r
    <2>2. q >= 0
        <3> SUFFICES ASSUME q <= 0 - 1 PROVE FALSE
            BY <2>1
        <3>1. b * q <= b * (0 - 1)
            BY <2>1, Z3
        <3> QED  BY <2>1, <3>1
    <2> QED  BY <2>2 DEF q
<1> QED  BY <1>1, <1>2, <1>3

\* Two quotients apart, a divisor apart.
LEMMA Apart ==
    ASSUME NEW b \in Nat, NEW p \in Int, NEW q \in Int, p < q
    PROVE  b * p + b <= b * q
<1>1. b * (p + 1) <= b * q
    BY Z3
<1>2. b * (p + 1) = b * p + b
    BY Z3
<1> QED  BY <1>1, <1>2

LEMMA DivisionUnique ==
    ASSUME NEW b \in Nat, b > 0, NEW p \in Nat, NEW r \in Nat, r < b
    PROVE  (b * p + r) % b = r /\ (b * p + r) \div b = p
<1> DEFINE a == b * p + r
           q == a \div b
           s == a % b
<1>1. a \in Nat
    OBVIOUS
<1>2. q \in Nat /\ s \in Nat /\ s < b /\ a = b * q + s
    BY <1>1, Division
<1> HIDE DEF q, s
<1>3. b * p \in Nat /\ b * q \in Nat
    BY <1>2
<1>4. ~(p < q)
    BY <1>2, <1>3, Apart
<1>5. ~(q < p)
    BY <1>2, <1>3, Apart
<1>6. p = q /\ s = r
    BY <1>2, <1>3, <1>4, <1>5
<1> QED  BY <1>6 DEF q, s

LEMMA Multiple ==
    ASSUME NEW b \in Nat, b > 0, NEW p \in Nat
    PROVE  (b * p) % b = 0 /\ (b * p) \div b = p
<1>1. (b * p + 0) % b = 0 /\ (b * p + 0) \div b = p
    BY DivisionUnique
<1>2. b * p + 0 = b * p
    OBVIOUS
<1> QED  BY <1>1, <1>2

\* A boundary at or after a minute is at or after the nearest one to it, one at or before
\* is at or before.
LEMMA Snapped ==
    ASSUME TimesAssumption, NEW t \in Nat
    PROVE  /\ SnapToGrid(t) \in Nat /\ SnapToGrid(t) % Interval = 0
           /\ t % Interval = 0 => SnapToGrid(t) = t
           /\ \A p \in Nat : p % Interval = 0 => /\ t <= p => SnapToGrid(t) <= p
                                                 /\ p <= t => p <= SnapToGrid(t)
<1> DEFINE q == t \div Interval
           r == t % Interval
<1>1. Interval \in Nat /\ Interval > 2
    BY DEF TimesAssumption
<1>2. q \in Nat /\ r \in Nat /\ r < Interval /\ t = Interval * q + r
    BY <1>1, Division
<1>3. Interval * q \in Nat /\ Interval * (q + 1) = Interval * q + Interval
    BY <1>1, <1>2, Z3
<1>4. SnapToGrid(t) = IF 2 * r <= Interval THEN t - r ELSE t - r + Interval
    BY DEF SnapToGrid
<1> HIDE DEF q, r
<1>5. SnapToGrid(t) = IF 2 * r <= Interval THEN Interval * q ELSE Interval * (q + 1)
    BY <1>1, <1>2, <1>3, <1>4
<1>6. (Interval * q) % Interval = 0 /\ (Interval * (q + 1)) % Interval = 0
    BY <1>1, <1>2, Multiple
<1>7. SnapToGrid(t) \in Nat /\ SnapToGrid(t) % Interval = 0
    BY <1>1, <1>3, <1>5, <1>6
<1>8. r = 0 => SnapToGrid(t) = t
    BY <1>1, <1>2, <1>3, <1>5
<1>9. ASSUME NEW p \in Nat, p % Interval = 0
      PROVE  (t <= p => SnapToGrid(t) <= p) /\ (p <= t => p <= SnapToGrid(t))
    <2> DEFINE k == p \div Interval
    <2>1. k \in Nat /\ p = Interval * k
        BY <1>1, <1>9, Division
    <2> HIDE DEF k
    <2>2. Interval * k \in Nat
        BY <1>1, <2>1
    <2>3. CASE k <= q
        <3>1. k < q \/ k = q
            BY <1>2, <2>1, <2>3
        <3>2. Interval * k <= Interval * q
            BY <1>1, <1>2, <1>3, <2>1, <2>2, <3>1, Apart
        <3>3. t <= p => r = 0 /\ k = q
            <4>1. k < q => Interval * k + Interval <= Interval * q
                BY <1>1, <1>2, <2>1, Apart
            <4> QED  BY <1>1, <1>2, <1>3, <2>1, <2>2, <3>1, <4>1
        <3> QED  BY <1>1, <1>2, <1>3, <1>5, <2>1, <2>2, <3>2, <3>3
    <2>4. CASE q < k
        <3>1. Interval * q + Interval <= Interval * k
            BY <1>1, <1>2, <2>1, <2>4, Apart
        <3> QED  BY <1>1, <1>2, <1>3, <1>5, <2>1, <2>2, <3>1
    <2> QED  BY <1>2, <2>1, <2>3, <2>4
<1> QED  BY <1>7, <1>8, <1>9 DEF r

\* The next boundary is not before the minute; what is not before it starts, on the grid,
\* no earlier than the minute or after the day.
LEMMA Ahead ==
    ASSUME TimesAssumption, NEW m \in Minutes
    PROVE  /\ NextSlotBoundary(m) \in Minutes /\ NextSlotBoundary(m) >= m
           /\ \A t \in Minutes : t >= NextSlotBoundary(m) => SnapToGrid(t) >= m
<1> DEFINE q == m \div Interval
           r == m % Interval
           up == m + ((Interval - r) % Interval)
<1>1. Interval \in Nat /\ Interval > 2 /\ Day \in Nat /\ Day > 0 /\ Day % Interval = 0
    BY DEF TimesAssumption
<1>2. m \in Nat /\ m < Day
    BY <1>1 DEF Minutes
<1>3. q \in Nat /\ r \in Nat /\ r < Interval /\ m = Interval * q + r
    BY <1>1, <1>2, Division
<1>4. NextSlotBoundary(m) = IF up >= Day THEN Day - 1 ELSE up
    BY DEF NextSlotBoundary
<1>5. Interval * q \in Nat /\ Interval * (q + 1) = Interval * q + Interval
    BY <1>1, <1>3, Z3
<1> HIDE DEF q, r
<1>6. /\ (Interval * q) % Interval = 0 /\ (Interval * (q + 1)) % Interval = 0
      /\ (Interval - r) % Interval = IF r = 0 THEN 0 ELSE Interval - r
    <2>1. (Interval * q) % Interval = 0 /\ (Interval * (q + 1)) % Interval = 0
        BY <1>1, <1>3, Multiple
    <2>2. CASE r = 0
        <3>1. (Interval * 1) % Interval = 0
            BY <1>1, Multiple
        <3>2. Interval - r = Interval * 1
            BY <1>1, <2>2
        <3> QED  BY <2>1, <2>2, <3>1, <3>2
    <2>3. CASE r # 0
        <3>1. Interval - r \in Nat /\ Interval - r < Interval
            BY <1>1, <1>3, <2>3
        <3>2. (Interval * 0 + (Interval - r)) % Interval = Interval - r
            BY <1>1, <3>1, DivisionUnique
        <3>3. Interval * 0 + (Interval - r) = Interval - r
            BY <1>1, <3>1
        <3> QED  BY <2>1, <2>3, <3>2, <3>3
    <2> QED  BY <2>2, <2>3
<1>7. up = IF r = 0 THEN Interval * q ELSE Interval * (q + 1)
    BY <1>1, <1>3, <1>5, <1>6
<1>8. up \in Nat /\ up >= m /\ up % Interval = 0
    BY <1>1, <1>3, <1>5, <1>6, <1>7
<1> HIDE DEF up
<1>9. NextSlotBoundary(m) \in Minutes /\ NextSlotBoundary(m) >= m
    BY <1>1, <1>2, <1>4, <1>8 DEF Minutes
<1>10. ASSUME NEW t \in Minutes, t >= NextSlotBoundary(m) PROVE SnapToGrid(t) >= m
    <2>1. t \in Nat /\ t < Day
        BY <1>1 DEF Minutes
    <2>2. SnapToGrid(t) \in Nat
        BY <2>1, Snapped
    <2>3. CASE up < Day
        <3>1. up <= t
            BY <1>1, <1>4, <1>8, <1>10, <2>1, <2>3
        <3>2. up <= SnapToGrid(t)
            BY <1>8, <2>1, <3>1, Snapped
        <3> QED  BY <1>2, <1>8, <2>2, <3>2
    <2>4. CASE ~(up < Day)
        <3>1. t = Day - 1
            BY <1>1, <1>4, <1>8, <1>10, <2>1, <2>4
        <3> DEFINE d == Day \div Interval
        <3>2. d \in Nat /\ Day = Interval * d
            BY <1>1, Division
        <3> HIDE DEF d
        <3>3. d > 0 /\ Interval * d = Interval * (d - 1) + Interval
            BY <1>1, <3>2, Z3
        <3>4. t = Interval * (d - 1) + (Interval - 1)
            BY <1>1, <3>1, <3>2, <3>3
        <3>5. t % Interval = Interval - 1
            <4>1. d - 1 \in Nat /\ Interval - 1 \in Nat /\ Interval - 1 < Interval
                BY <1>1, <3>2, <3>3
            <4>2. (Interval * (d - 1) + (Interval - 1)) % Interval = Interval - 1
                BY <1>1, <4>1, DivisionUnique
            <4> QED  BY <3>4, <4>2
        <3>6. SnapToGrid(t) = t - (Interval - 1) + Interval
            BY <1>1, <3>5 DEF SnapToGrid
        <3> QED  BY <1>1, <1>2, <2>1, <3>1, <3>6
    <2> QED  BY <1>1, <1>8, <2>3, <2>4
<1> QED  BY <1>9, <1>10

-----------------------------------------------------------------------------
(* Lists of times                                                          *)

LEMMA BoundaryFacts ==
    ASSUME TimesAssumption, NEW first \in Nat, NEW final \in Int
    PROVE  /\ Boundaries(first, final) \in Seq(Nat)
           /\ \A i \in 1..Len(Boundaries(first, final)) :
                 Boundaries(first, final)[i] \in first..final
           /\ first % Interval = 0 =>
                 \A p \in first..final :
                    p % Interval = 0 => Holds(Boundaries(first, final), p)
<1>0. Interval \in Nat /\ Interval > 2
    BY DEF TimesAssumption
<1>1. CASE final < first
    BY <1>1 DEF Boundaries, Holds
<1>2. CASE ~(final < first)
    <2> DEFINE n == (final - first) \div Interval
               r == (final - first) % Interval
               B == Boundaries(first, final)
    <2>1. final - first \in Nat
        BY <1>2
    <2>2. n \in Nat /\ r \in Nat /\ final - first = Interval * n + r
        BY <1>0, <2>1, Division
    <2>3. B = [i \in 1..(n + 1) |-> first + (i - 1) * Interval]
        BY <1>2 DEF Boundaries
    <2> HIDE DEF n, r, B
    <2>4. ASSUME NEW i \in 1..(n + 1) PROVE (i - 1) * Interval \in 0..(final - first)
        <3>1. i - 1 \in Nat /\ (i - 1 < n \/ i - 1 = n)
            BY <2>2
        <3> DEFINE j == i - 1
        <3>2. j \in Nat /\ (j < n \/ j = n)
            BY <3>1
        <3> HIDE DEF j
        <3>3. Interval * j \in Nat /\ Interval * n \in Nat /\ j * Interval = Interval * j
            BY <1>0, <2>2, <3>2, Z3
        <3>4. Interval * j <= Interval * n
            BY <1>0, <2>2, <3>2, <3>3, Apart
        <3>5. j * Interval \in 0..(final - first)
            BY <1>0, <2>1, <2>2, <3>3, <3>4
        <3> QED  BY <3>5 DEF j
    <2>5. \A i \in 1..(n + 1) : B[i] \in first..final /\ B[i] \in Nat
        BY <2>1, <2>3, <2>4
    <2>6. B \in [1..(n + 1) -> Nat] /\ n + 1 \in Nat
        BY <2>2, <2>3, <2>5
    <2>7. B \in Seq(Nat) /\ Len(B) = n + 1
        BY <2>6
    <2>8. ASSUME first % Interval = 0, NEW p \in first..final, p % Interval = 0
          PROVE  Holds(B, p)
        <3> DEFINE a == first \div Interval
                   b == p \div Interval
        <3>1. p \in Nat
            BY <1>2
        <3>2. a \in Nat /\ b \in Nat /\ first = Interval * a /\ p = Interval * b
            BY <1>0, <2>8, <3>1, Division
        <3> HIDE DEF a, b
        <3>3. ~(b < a)
            BY <1>0, <2>8, <3>2, Apart
        <3> DEFINE d == b - a
        <3>4. d \in Nat
            BY <3>2, <3>3
        <3>5. p = first + Interval * d
            BY <1>0, <3>2, Z3
        <3> HIDE DEF d
        <3>6. d * Interval = Interval * d
            BY <1>0, <3>4, Z3
        <3>7. Interval * d <= final - first /\ Interval * d \in Nat
            BY <1>0, <3>4, <3>5
        <3>8. ~(n < d)
            <4> SUFFICES ASSUME n < d PROVE FALSE
                OBVIOUS
            <4>1. Interval * n + Interval <= Interval * d
                BY <1>0, <2>2, <3>4, Apart
            <4>2. r < Interval
                BY <1>0, <2>1, Division DEF r
            <4> QED  BY <1>0, <2>2, <3>7, <4>1, <4>2
        <3>9. d + 1 \in 1..(n + 1) /\ (d + 1) - 1 = d
            BY <2>2, <3>4, <3>8
        <3>10. B[d + 1] = p
            BY <2>3, <3>5, <3>6, <3>9
        <3> QED  BY <2>7, <3>9, <3>10 DEF Holds
    <2> QED  BY <2>5, <2>7, <2>8 DEF B
<1> QED  BY <1>1, <1>2

LEMMA MoveFirstFacts ==
    ASSUME NEW times \in Seq(Nat), NEW t, Holds(times, t)
    PROVE  /\ MoveFirst(times, t) \in Seq(Nat)
           /\ Len(MoveFirst(times, t)) > 0 /\ MoveFirst(times, t)[1] = t
           /\ \A i \in 1..Len(MoveFirst(times, t)) :
                 \E j \in 1..Len(times) : MoveFirst(times, t)[i] = times[j]
<1> DEFINE k == CHOOSE i \in 1..Len(times) : times[i] = t
           n == Len(times)
           M == MoveFirst(times, t)
<1>1. n \in Nat /\ \A i \in 1..n : times[i] \in Nat
    OBVIOUS
<1>2. k \in 1..n /\ times[k] = t
    BY DEF Holds
<1>3. M = [i \in 1..n |-> IF i = 1 THEN t ELSE IF i <= k THEN times[i - 1] ELSE times[i]]
    BY DEF MoveFirst
<1> HIDE DEF k, n, M
<1>4. \A i \in 1..n : \E j \in 1..n : M[i] = times[j]
    <2> TAKE i \in 1..n
    <2>1. CASE i = 1
        BY <1>2, <1>3, <2>1
    <2>2. CASE i # 1 /\ i <= k
        <3>1. i - 1 \in 1..n /\ M[i] = times[i - 1]
            BY <1>1, <1>2, <1>3, <2>2
        <3> QED  BY <3>1
    <2>3. CASE i # 1 /\ ~(i <= k)
        BY <1>3, <2>3
    <2> QED  BY <2>1, <2>2, <2>3
<1>5. M \in [1..n -> Nat] /\ n > 0
    <2>1. \A i \in 1..n : M[i] \in Nat
        BY <1>1, <1>4
    <2>2. n > 0
        BY <1>1, <1>2
    <2> QED  BY <1>3, <2>1, <2>2
<1>6. M \in Seq(Nat) /\ Len(M) = n
    BY <1>1, <1>5
<1>7. M[1] = t
    BY <1>1, <1>3, <1>5
<1> QED  BY <1>4, <1>5, <1>6, <1>7 DEF M, n

LEMMA CutFacts ==
    ASSUME TimesAssumption, NEW times \in Seq(Nat)
    PROVE  /\ Cut(times) \in Seq(Nat)
           /\ Len(Cut(times)) <= Len(times) /\ (Len(times) > 0 => Len(Cut(times)) > 0)
           /\ \A i \in 1..Len(Cut(times)) : Cut(times)[i] = times[i]
<1> DEFINE m == IF Len(times) < MaxSlots THEN Len(times) ELSE MaxSlots
<1>1. MaxSlots \in Nat /\ MaxSlots > 0 /\ Len(times) \in Nat
    BY DEF TimesAssumption
<1>2. m \in Nat /\ m <= Len(times) /\ (Len(times) > 0 => m > 0)
    BY <1>1
<1>3. Cut(times) = SubSeq(times, 1, m)
    BY DEF Cut
<1> HIDE DEF m
<1>4. /\ SubSeq(times, 1, m) \in Seq(Nat) /\ Len(SubSeq(times, 1, m)) = m
      /\ \A i \in 1..m : SubSeq(times, 1, m)[i] = times[i]
    BY <1>1, <1>2
<1> QED  BY <1>2, <1>3, <1>4

LEMMA PreferFirstFacts ==
    ASSUME TimesAssumption, NEW times \in Seq(Nat)
    PROVE  /\ PreferFirst(times) \in Seq(Nat)
           /\ \A i \in 1..Len(PreferFirst(times)) :
                 \E j \in 1..Len(times) : PreferFirst(times)[i] = times[j]
           /\ Holds(times, intent.preferred) =>
                 Len(PreferFirst(times)) > 0 /\ PreferFirst(times)[1] = intent.preferred
<1>1. CASE Holds(times, intent.preferred)
    <2> DEFINE M == MoveFirst(times, intent.preferred)
    <2>1. /\ M \in Seq(Nat) /\ Len(M) > 0 /\ M[1] = intent.preferred
          /\ \A i \in 1..Len(M) : \E j \in 1..Len(times) : M[i] = times[j]
        BY <1>1, MoveFirstFacts
    <2>2. PreferFirst(times) = Cut(M)
        BY <1>1 DEF PreferFirst
    <2> HIDE DEF M
    <2>3. /\ Cut(M) \in Seq(Nat) /\ Len(Cut(M)) <= Len(M) /\ Len(Cut(M)) > 0
          /\ \A i \in 1..Len(Cut(M)) : Cut(M)[i] = M[i]
        BY <2>1, CutFacts
    <2>4. Len(Cut(M)) \in Nat /\ Len(M) \in Nat
        BY <2>1, <2>3
    <2>5. Cut(M)[1] = intent.preferred
        BY <2>1, <2>3, <2>4
    <2>6. ASSUME NEW i \in 1..Len(Cut(M))
          PROVE  \E j \in 1..Len(times) : Cut(M)[i] = times[j]
        <3>1. i \in 1..Len(M) /\ Cut(M)[i] = M[i]
            BY <2>3, <2>4
        <3> QED  BY <2>1, <3>1
    <2> QED  BY <2>2, <2>3, <2>5, <2>6
<1>2. CASE ~Holds(times, intent.preferred)
    <2>1. PreferFirst(times) = Cut(times)
        BY <1>2 DEF PreferFirst
    <2>2. /\ Cut(times) \in Seq(Nat) /\ Len(Cut(times)) <= Len(times)
          /\ \A i \in 1..Len(Cut(times)) : Cut(times)[i] = times[i]
        BY CutFacts
    <2> QED  BY <1>2, <2>1, <2>2
<1> QED  BY <1>1, <1>2

LEMMA ThinnedFacts ==
    ASSUME NEW times \in Seq(Nat), NEW s \in Thinned(times)
    PROVE  \A i \in 1..Len(s) : \E j \in 1..Len(times) : s[i] = times[j]
<1>0. PICK n \in 0..Len(times) :
        \E f \in [1..n -> 1..Len(times)] : s = [i \in 1..n |-> times[f[i]]]
    BY DEF Thinned
<1>1. PICK f \in [1..n -> 1..Len(times)] : s = [i \in 1..n |-> times[f[i]]]
    BY <1>0
<1>2. s \in [1..n -> Nat] /\ n \in Nat
    BY <1>1
<1>3. Len(s) = n
    BY <1>2
<1> QED  BY <1>1, <1>3

-----------------------------------------------------------------------------
(* Requests                                                                *)

LEMMA VenueFacts ==
    ASSUME TimesAssumption, ask \in Extractions, venue \in Venues
    PROVE  /\ venue.opens \in Nat /\ venue.opens % Interval = 0 /\ Day \in Nat
           /\ Closes \in Nat /\ Closes <= Day
           /\ LatestStart \in Int /\ LatestStart < Day
<1>1. /\ Day \in Nat /\ venue.opens \in Minutes /\ venue.opens % Interval = 0
      /\ venue.closes \in Minutes /\ (venue.closes > venue.opens \/ venue.closes = 0)
      /\ venue.stay \in Nat /\ venue.stay > 0
      /\ ask.duration = NoTime \/ (ask.duration \in Nat /\ ask.duration > 0)
    BY DEF TimesAssumption
<1>2. Closes \in Nat /\ Closes <= Day
    BY <1>1 DEF Closes, Minutes
<1>3. LatestStart \in Int /\ LatestStart < Day
    BY <1>1, <1>2 DEF LatestStart
<1> QED  BY <1>1, <1>2, <1>3 DEF Minutes

\* Whatever order the extraction's times have: what _resolve_time leaves of them.
LEMMA Resolved ==
    ASSUME TimesAssumption, ask \in Extractions, clock \in Minutes
    PROVE  /\ ResolveTime.preferred \in Minutes \cup {NoTime}
           /\ ResolveTime.window
                 \in [start : Minutes, end : Minutes] \cup {NoWindow}
           /\ HasTime(ResolveTime) =>
                /\ \/ ResolveTime.preferred # NoTime
                   \/ ResolveTime.window # NoWindow
                /\ /\ ResolveTime.preferred # NoTime
                   /\ ResolveTime.window # NoWindow
                   => ResolveTime.preferred
                        \in ResolveTime.window.start..ResolveTime.window.end
                /\ ask.date = "today" /\ ask.window.start <= ask.window.end =>
                      /\ ResolveTime.preferred # NoTime =>
                            ResolveTime.preferred >= NextSlotBoundary(clock)
                      /\ ResolveTime.window # NoWindow =>
                            ResolveTime.window.start >= NextSlotBoundary(clock)
<1> DEFINE p == ask.preferred
           w == ask.window
           e == NextSlotBoundary(clock)
<1>1. /\ p \in Minutes \cup {NoTime}
      /\ w \in [start : Minutes, end : Minutes] \cup {NoWindow}
      /\ Day \in Nat
    BY DEF TimesAssumption
<1>2. e \in Minutes
    BY Ahead
<1>3. /\ NoWindow.start = NoTime /\ NoWindow.end = NoTime
      /\ NoTime \notin Minutes /\ NoTime = -1
      /\ NoWindow \notin [start : Minutes, end : Minutes]
    BY <1>1 DEF NoWindow, NoTime, Minutes
<1>4. /\ w # NoWindow => w.start \in Minutes /\ w.end \in Minutes
      /\ w = NoWindow => w.start = -1 /\ w.end = -1
    BY <1>1, <1>3
<1>5. Minutes \subseteq Nat
    BY <1>1 DEF Minutes
<1> HIDE DEF e
<1>6. w.start \in Int /\ w.end \in Int /\ p \in Int /\ e \in Int
    <2>1. w.start \in Int /\ w.end \in Int
        BY <1>1, <1>4 DEF Minutes
    <2>2. p \in Int
        BY <1>1 DEF Minutes, NoTime
    <2>3. e \in Int
        BY <1>1, <1>2 DEF Minutes
    <2> QED  BY <2>1, <2>2, <2>3
<1>7. CASE w.start > w.end
    <2>1. ResolveTime = Times(p, NoWindow, "invalid_window")
        BY <1>6, <1>7 DEF ResolveTime
    <2>2. ~(w.start <= w.end)
        BY <1>6, <1>7
    <2> QED  BY <1>1, <1>3, <2>1, <2>2 DEF Times, HasTime
<1>8. CASE w.start <= w.end /\ w # NoWindow /\ p # NoTime /\ p \notin w.start..w.end
    <2>1. ~(w.start > w.end)
        BY <1>6, <1>8
    <2>2. ResolveTime = Times(p, w, "conflicting")
        BY <1>8, <2>1 DEF ResolveTime
    <2> QED  BY <1>1, <2>2 DEF Times, HasTime
<1>9. CASE /\ ~(w.start > w.end)
           /\ ~(/\ w.start <= w.end /\ w # NoWindow /\ p # NoTime
                /\ p \notin w.start..w.end)
    <2> DEFINE clipped == IF w # NoWindow /\ w.start < e THEN [w EXCEPT !.start = e] ELSE w
    <2>1. w.start <= w.end /\ (w # NoWindow /\ p # NoTime => p \in w.start..w.end)
        BY <1>6, <1>9
    <2>2. ResolveTime =
            IF ResolveDate # "today" THEN Times(p, w, "none")
            ELSE IF \/ p # NoTime /\ p < e
                    \/ w # NoWindow /\ w.end < e
                 THEN Times(NoTime, NoWindow, "past_time")
            ELSE Times(p, clipped, "none")
        BY <1>9 DEF ResolveTime, e
    <2>3. CASE ResolveDate # "today"
        <3>1. ask.date # "today"
            BY <2>3 DEF ResolveDate
        <3>2. ResolveTime = Times(p, w, "none")
            BY <2>2, <2>3
        <3> QED  BY <1>1, <2>1, <3>1, <3>2 DEF Times, HasTime
    <2>4. CASE /\ ResolveDate = "today"
               /\ ((p # NoTime /\ p < e) \/ (w # NoWindow /\ w.end < e))
        <3>1. ResolveTime = Times(NoTime, NoWindow, "past_time")
            BY <2>2, <2>4
        <3> QED  BY <3>1 DEF Times, HasTime
    <2>5. CASE /\ ResolveDate = "today"
               /\ ~((p # NoTime /\ p < e) \/ (w # NoWindow /\ w.end < e))
        <3>1. ResolveTime = Times(p, clipped, "none")
            BY <2>2, <2>5
        <3>2. clipped = NoWindow <=> w = NoWindow
            BY <1>1, <1>2, <1>3
        <3>3. w # NoWindow =>
                /\ clipped \in [start : Minutes, end : Minutes]
                /\ clipped.end = w.end /\ clipped.start = IF w.start < e THEN e ELSE w.start
            BY <1>1, <1>2, <1>3
        <3>4. w = NoWindow => clipped = NoWindow
            OBVIOUS
        <3> HIDE DEF clipped
        <3>5. w # NoWindow => clipped.start >= e
            BY <1>6, <3>3
        <3>6. p # NoTime => p >= e
            BY <1>6, <2>5
        <3>7. p # NoTime /\ w # NoWindow => p \in clipped.start..clipped.end
            BY <1>1, <1>2, <1>4, <1>5, <2>1, <3>3, <3>6
        <3>8. /\ ResolveTime.preferred = p /\ ResolveTime.window = clipped
              /\ ResolveTime.problem = "none"
            BY <3>1 DEF Times
        <3> QED  BY <1>1, <3>2, <3>3, <3>4, <3>5, <3>6, <3>7, <3>8 DEF HasTime, e
    <2> QED  BY <2>3, <2>4, <2>5
<1> QED  BY <1>7, <1>8, <1>9

\* What a ready request is offered at most: starts inside the venue's hours and, for
\* today, ahead of the clock; first the preferred one where it can be booked.
LEMMA Candidates ==
    ASSUME TimesAssumption, TimesInv, intent.status = "READY"
    PROVE  /\ CandidateTimes \in Seq(Nat)
           /\ \A i \in 1..Len(CandidateTimes) :
                 /\ CandidateTimes[i] \in venue.opens..LatestStart
                 /\ ask.date = "today" /\ ask.window.start <= ask.window.end =>
                       CandidateTimes[i] >= clock
           /\ /\ intent.preferred # NoTime /\ intent.preferred % Interval = 0
              /\ intent.preferred \in venue.opens..LatestStart
              => Len(CandidateTimes) > 0 /\ CandidateTimes[1] = intent.preferred
<1> DEFINE p == intent.preferred
           w == intent.window
           today == ask.date = "today" /\ ask.window.start <= ask.window.end
<1>1. /\ venue.opens \in Nat /\ venue.opens % Interval = 0 /\ Day \in Nat
      /\ LatestStart \in Int /\ LatestStart < Day
    BY VenueFacts DEF TimesInv
<1>2. /\ p \in Minutes \cup {NoTime} /\ clock \in Minutes
      /\ w \in [start : Minutes, end : Minutes] \cup {NoWindow}
      /\ p # NoTime \/ w # NoWindow
      /\ p # NoTime /\ w # NoWindow => p \in w.start..w.end
      /\ today => /\ p # NoTime => p >= NextSlotBoundary(clock)
                  /\ w # NoWindow => w.start >= NextSlotBoundary(clock)
    BY DEF TimesInv, ReadyMakesQuery, AsksAhead
<1>3. Minutes \subseteq Nat /\ NoTime \notin Minutes
    BY <1>1 DEF Minutes, NoTime
<1>4. CASE LatestStart < venue.opens
    <2>1. CandidateTimes = <<>>
        BY <1>4 DEF CandidateTimes
    <2> QED  BY <1>1, <1>4, <2>1
<1>5. CASE ~(LatestStart < venue.opens) /\ w = NoWindow
    <2> DEFINE x == SnapToGrid(p)
    <2>1. CandidateTimes = IF x \in venue.opens..LatestStart THEN <<x>> ELSE <<>>
        BY <1>5 DEF CandidateTimes
    <2>2. p \in Minutes /\ p \in Nat
        BY <1>2, <1>3, <1>5
    <2>3. x \in Nat /\ (p % Interval = 0 => x = p)
        BY <2>2, Snapped
    <2>4. today => x >= clock
        BY <1>2, <1>3, <2>2, Ahead
    <2> HIDE DEF x
    <2> QED  BY <2>1, <2>3, <2>4
<1>6. CASE ~(LatestStart < venue.opens) /\ w # NoWindow
    <2> DEFINE x == SnapToGrid(w.start)
               first == IF x > venue.opens THEN x ELSE venue.opens
               final == IF LatestStart < w.end THEN LatestStart ELSE w.end
               B == Boundaries(first, final)
    <2>1. CandidateTimes = PreferFirst(B)
        BY <1>6 DEF CandidateTimes
    <2>2. w.start \in Minutes /\ w.end \in Minutes /\ w.start \in Nat /\ w.end \in Nat
        BY <1>2, <1>3, <1>6
    <2>3. /\ x \in Nat /\ x % Interval = 0
          /\ \A k \in Nat : k % Interval = 0 => (w.start <= k => x <= k)
        BY <2>2, Snapped
    <2>4. today => x >= clock
        BY <1>2, <1>3, <1>6, <2>2, Ahead
    <2> HIDE DEF x
    <2>5. /\ first \in Nat /\ first % Interval = 0 /\ first >= x /\ first >= venue.opens
          /\ final \in Int /\ final <= LatestStart
        BY <1>1, <2>2, <2>3
    <2>6. /\ p # NoTime /\ p % Interval = 0 /\ p \in venue.opens..LatestStart
          => p \in first..final
        <3> SUFFICES ASSUME p # NoTime, p % Interval = 0, p \in venue.opens..LatestStart
                     PROVE  p \in first..final
            OBVIOUS
        <3>1. p \in w.start..w.end /\ p \in Nat
            BY <1>1, <1>2, <1>6
        <3>2. x <= p
            BY <2>2, <2>3, <3>1
        <3> QED  BY <1>1, <2>2, <2>3, <3>1, <3>2
    <2> HIDE DEF first, final
    <2>7. /\ B \in Seq(Nat) /\ \A i \in 1..Len(B) : B[i] \in first..final
          /\ \A k \in first..final : k % Interval = 0 => Holds(B, k)
        BY <2>5, BoundaryFacts
    <2> HIDE DEF B
    <2>8. /\ PreferFirst(B) \in Seq(Nat)
          /\ \A i \in 1..Len(PreferFirst(B)) :
                \E j \in 1..Len(B) : PreferFirst(B)[i] = B[j]
          /\ Holds(B, p) => Len(PreferFirst(B)) > 0 /\ PreferFirst(B)[1] = p
        BY <2>7, PreferFirstFacts
    <2>9. ASSUME NEW i \in 1..Len(PreferFirst(B))
          PROVE  /\ PreferFirst(B)[i] \in venue.opens..LatestStart
                 /\ today => PreferFirst(B)[i] >= clock
        <3>1. PICK j \in 1..Len(B) : PreferFirst(B)[i] = B[j]
            BY <2>8
        <3>2. B[j] \in first..final
            BY <2>7
        <3>3. clock \in Nat
            BY <1>2, <1>3
        <3> HIDE DEF today
        <3> QED  BY <1>1, <2>3, <2>4, <2>5, <3>1, <3>2, <3>3
    <2> QED  BY <2>1, <2>6, <2>7, <2>8, <2>9
<1> QED  BY <1>4, <1>5, <1>6

LEMMA ValidateStep ==
    ASSUME TimesAssumption, TimesInv, Validate
    PROVE  TimesInv'
<1> DEFINE t == ResolveTime
<1>1. /\ stage = "asked" /\ stage' = "validated" /\ UNCHANGED <<ask, clock, venue, offers>>
      /\ intent'.preferred = t.preferred /\ intent'.window = t.window
      /\ intent'.status = "READY" => MissingFields(t) = {}
    BY DEF Validate
<1>2. intent'.status = "READY" => HasTime(t)
    <2>1. "time" \notin MissingFields(t) => HasTime(t)
        BY DEF MissingFields
    <2> QED  BY <1>1, <2>1
<1>3. ask \in Extractions /\ clock \in Minutes /\ venue \in Venues /\ offers = <<>>
    BY <1>1 DEF TimesInv
<1> HIDE DEF t
<1>4. /\ t.preferred \in Minutes \cup {NoTime}
      /\ t.window \in [start : Minutes, end : Minutes] \cup {NoWindow}
      /\ HasTime(t) =>
           /\ t.preferred # NoTime \/ t.window # NoWindow
           /\ t.preferred # NoTime /\ t.window # NoWindow =>
                 t.preferred \in t.window.start..t.window.end
           /\ ask.date = "today" /\ ask.window.start <= ask.window.end =>
                 /\ t.preferred # NoTime => t.preferred >= NextSlotBoundary(clock)
                 /\ t.window # NoWindow => t.window.start >= NextSlotBoundary(clock)
    BY <1>3, Resolved DEF t
<1>5. ReadyMakesQuery' /\ AsksAhead'
    BY <1>1, <1>2, <1>4 DEF ReadyMakesQuery, AsksAhead, NextSlotBoundary
<1>6. Len(offers') = 0 /\ offers' = <<>>
    BY <1>1, <1>3
<1>7. /\ InsideHours' /\ OffersAhead'
      /\ \A i \in 1..Len(offers') : offers'[i] \in Minutes
    BY <1>6 DEF InsideHours, OffersAhead
<1> QED  BY <1>1, <1>3, <1>4, <1>5, <1>6, <1>7 DEF TimesInv

\* A search offers some of the candidates.
LEMMA SearchStep ==
    ASSUME TimesAssumption, TimesInv, Generate \/ GenerateNothing
    PROVE  TimesInv'
<1>1. /\ stage' = "searched" /\ UNCHANGED <<ask, clock, venue, intent>> /\ intent.status = "READY"
    BY DEF Generate, GenerateNothing
<1>2. \A i \in 1..Len(offers') :
        \E j \in 1..Len(CandidateTimes) : offers'[i] = CandidateTimes[j]
    <2>1. CASE Generate
        <3>1. CandidateTimes \in Seq(Nat) /\ offers' \in Thinned(CandidateTimes)
            BY <1>1, <2>1, Candidates DEF Generate
        <3> QED  BY <3>1, ThinnedFacts
    <2>2. CASE GenerateNothing
        BY <2>2 DEF GenerateNothing
    <2> QED  BY <2>1, <2>2
<1>3. \A i \in 1..Len(offers') :
        /\ offers'[i] \in venue.opens..LatestStart
        /\ ask.date = "today" /\ ask.window.start <= ask.window.end => offers'[i] >= clock
    BY <1>1, <1>2, Candidates
<1>4. /\ venue.opens \in Nat /\ Day \in Nat /\ Day > 0 /\ Closes \in Nat /\ Closes <= Day
      /\ LatestStart \in Int /\ LatestStart < Day
      /\ ask.duration = NoTime \/ (ask.duration \in Nat /\ ask.duration > 0)
      /\ venue.stay \in Nat
    BY VenueFacts DEF TimesInv, TimesAssumption
<1> DEFINE stay == IF ask.duration = NoTime THEN venue.stay ELSE ask.duration
<1>5. LatestStart = Closes - stay /\ stay \in Nat
    BY <1>4 DEF LatestStart
<1>6. ASSUME NEW i \in 1..Len(offers')
      PROVE  /\ offers'[i] \in Minutes /\ offers'[i] >= venue.opens
             /\ offers'[i] + stay <= Closes
             /\ ask.duration # NoTime =>
                   EndTime(offers'[i])
                     \in {offers'[i] + ask.duration, offers'[i] + ask.duration - Day}
    <2>1. offers'[i] \in Nat /\ offers'[i] >= venue.opens /\ offers'[i] <= LatestStart
        BY <1>3, <1>4
    <2> DEFINE o == offers'[i]
    <2> HIDE DEF o
    <2>2. o \in Nat /\ o >= venue.opens /\ o <= LatestStart
        BY <2>1 DEF o
    <2>3. o \in Minutes /\ o + stay <= Closes
        BY <1>4, <1>5, <2>2 DEF Minutes
    <2>4. ask.duration # NoTime =>
            EndTime(o) \in {o + ask.duration, o + ask.duration - Day}
        <3> SUFFICES ASSUME ask.duration # NoTime
                     PROVE  (o + ask.duration) % Day \in {o + ask.duration, o + ask.duration - Day}
            BY DEF EndTime
        <3>1. o + ask.duration \in Nat /\ o + ask.duration <= Day
            BY <1>4, <2>2, <2>3
        <3> DEFINE e == o + ask.duration
        <3>2. e \in Nat /\ e <= Day
            BY <3>1
        <3> HIDE DEF e
        <3>3. CASE e = Day
            <4>1. Day % Day = 0
                <5>1. (Day * 1) % Day = 0
                    BY <1>4, Multiple
                <5>2. Day * 1 = Day
                    BY <1>4
                <5> QED  BY <5>1, <5>2
            <4>2. e % Day = 0 /\ e - Day = 0
                BY <1>4, <3>3, <4>1
            <4>3. o + ask.duration - Day = e - Day
                BY <1>4, <2>2 DEF e
            <4> QED  BY <4>2, <4>3 DEF e
        <3>4. CASE e < Day
            <4>1. (Day * 0 + e) % Day = e
                BY <1>4, <3>2, <3>4, DivisionUnique
            <4>2. Day * 0 + e = e
                BY <1>4, <3>2
            <4> QED  BY <4>1, <4>2 DEF e
        <3> QED  BY <1>4, <3>2, <3>3, <3>4
    <2> QED  BY <2>2, <2>3, <2>4 DEF o
<1>7. InsideHours'
    BY <1>1, <1>6 DEF InsideHours, EndTime, Closes
<1>8. OffersAhead'
    BY <1>1, <1>3 DEF OffersAhead
<1>9. ReadyMakesQuery' /\ AsksAhead'
    BY <1>1 DEF TimesInv, ReadyMakesQuery, AsksAhead, NextSlotBoundary
<1> QED  BY <1>1, <1>6, <1>7, <1>8, <1>9 DEF TimesInv

LEMMA TimesBegins == ASSUME TimesAssumption, TimesInit PROVE TimesInv
<1>1. offers = <<>> /\ Len(offers) = 0 /\ intent = NoIntent /\ intent.status = "none"
    BY DEF TimesInit, NoIntent
<1>2. ReadyMakesQuery /\ AsksAhead /\ InsideHours /\ OffersAhead
    BY <1>1 DEF ReadyMakesQuery, AsksAhead, InsideHours, OffersAhead
<1>3. intent.preferred = NoTime /\ intent.window = NoWindow
    BY <1>1 DEF NoIntent
<1> QED  BY <1>1, <1>2, <1>3 DEF TimesInit, TimesInv

LEMMA TimesInvariance == ASSUME TimesAssumption PROVE TimesSpec => []TimesInv
<1>1. TimesInit => TimesInv
    BY TimesBegins
<1>2. TimesInv /\ [TimesNext]_timesVars => TimesInv'
    <2> SUFFICES ASSUME TimesInv, [TimesNext]_timesVars PROVE TimesInv'
        OBVIOUS
    <2>1. CASE UNCHANGED timesVars
        BY <2>1 DEF timesVars, TimesInv, ReadyMakesQuery, AsksAhead,
               InsideHours, OffersAhead, NextSlotBoundary, EndTime, Closes
    <2>2. CASE Validate
        BY <2>2, ValidateStep
    <2>3. CASE Generate \/ GenerateNothing
        BY <2>3, SearchStep
    <2> QED  BY <2>1, <2>2, <2>3 DEF TimesNext
<1> QED  BY <1>1, <1>2, PTL DEF TimesSpec

\* Whatever the language model extracted and whenever it is validated: a ready intent
\* makes an acceptable query; every slot offered for it lies inside the venue's hours
\* and, for today, ahead of the clock unless the window was reversed; and a preferred
\* time that can be booked is offered first, however many slots come before it.
THEOREM Offers == ASSUME TimesAssumption PROVE TimesSpec => []OffersSound
<1>1. TimesInv => OffersSound
    <2> SUFFICES ASSUME TimesInv PROVE OffersSound
        OBVIOUS
    <2>1. TimesTypeOK
        <3>1. /\ NoWindow \in Windows
              /\ [start : Minutes, end : Minutes] \subseteq Windows
            BY DEF NoWindow, Windows
        <3> QED  BY <3>1 DEF TimesInv, TimesTypeOK
    <2>2. PreferredComesFirst
        <3> SUFFICES ASSUME intent.status = "READY",
                            intent.preferred # NoTime, intent.preferred % Interval = 0,
                            intent.preferred \in venue.opens..LatestStart
                     PROVE  /\ CandidateTimes # <<>>
                            /\ Head(CandidateTimes) = intent.preferred
            BY DEF PreferredComesFirst
        <3>1. /\ CandidateTimes \in Seq(Nat) /\ Len(CandidateTimes) > 0
              /\ CandidateTimes[1] = intent.preferred
            BY Candidates
        <3> QED  BY <3>1
    <2> QED  BY <2>1, <2>2 DEF TimesInv, OffersSound
<1> QED  BY <1>1, TimesInvariance, PTL
=============================================================================
