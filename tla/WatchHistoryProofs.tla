------------------------- MODULE WatchHistoryProofs -------------------------
(***************************************************************************)
(* Proofs about WatchHistory for every number of clients, accounts and     *)
(* revisions, and every order in which upserts arrive or are lost.         *)
(***************************************************************************)
EXTENDS WatchHistory, TLAPS

-----------------------------------------------------------------------------
(* The inductive invariant                                                 *)

\* The writes that exist: under way, or in the row.
Writes == sent \cup ({row} \ {None})

\* A worker has an unfenced call under way.
Busy(w) == calls[w].kind \in Kinds

\* A watch lives once its creation got past its marker; before that nothing was
\* sent, nobody was let in, and a row is the one of the ownership write.
Birth ==
    /\ status # "none" <=> pc \in {"created", "done"}
    /\ pc = "new" => row = None
    /\ status = "none" =>
          /\ sent = {} /\ granted = {} /\ rev = Unrevised /\ ~overrun
          /\ \A w \in Workers : ~Busy(w)
          /\ past = [r \in 0..MaxRev |-> {}]
          /\ row # None => row.rev = 0 /\ row.status = "ACTIVE" /\ row.stamp <= now

\* A watch whose creation still has to record its client has had a sidecar all
\* along, so that no unfenced call ever met it.
Created ==
    pc = "created" =>
        /\ rev >= 0 /\ "ACTIVE" \in past[0] /\ ~overrun
        /\ \A w \in Workers : ~Busy(w)
        /\ \A x \in sent : x.rev >= 0

\* Only the ownership write names an account, and no write but the creation's
\* names a client; the account's row exists before the watch does.
Owned ==
    /\ \A w \in sent : w.user = None /\ w.client \in {None, creator.client}
    /\ row # None => row.client \in {None, creator.client}
    /\ creator.user # None /\ (pc = "owned" \/ status # "none") =>
          row # None /\ row.user = creator.user

\* The account's callers.
Guarded == creator.user # None /\ ~unchecked => granted \subseteq {creator.user}

\* A write tells what its revision stood for, at a time that has been.
Told(x) == x.stamp <= now /\ (x.rev >= 0 => x.rev <= MaxRev /\ x.status \in past[x.rev])
Truthful == status # "none" => \A x \in Writes : Told(x)

\* While unfenced calls landed only on what they had read, every revision stood
\* for one status, an active watch with a sidecar has its window, and every
\* write told of an active watch, at the latest of the current revision.
Ordered ==
    ~overrun =>
        /\ \A r \in 0..MaxRev : \A a, b \in past[r] : a = b
        /\ status = "ACTIVE" =>
              /\ rev >= 0 => windowed
              /\ \A r \in 0..MaxRev : r > rev => past[r] = {}
              /\ \A x \in Writes : x.status = "ACTIVE" /\ x.rev <= rev

\* An unfenced call that nothing overtook is about to write an active watch
\* without sidecar, no earlier than any write so far.
Unfenced ==
    ~overrun => \A w \in Workers : Busy(w) /\ ~calls[w].stale =>
        /\ status = "ACTIVE" /\ rev = Unrevised
        /\ \A x \in Writes : x.stamp <= calls[w].since

\* A write that the statement lets replace the other.
Beats(w, x) ==
    w.rev > x.rev \/ (w.rev = Unrevised /\ x.rev = Unrevised /\ w.stamp >= x.stamp)

\* The write of an ending is under way until the row has it, unless one is lost.
Projected ==
    status \in Endings /\ ~overrun =>
        /\ \A x \in Writes : x.status \in {"ACTIVE", status}
        /\ \/ lost
           \/ row # None /\ row.status = status
           \/ \E w \in sent : /\ w.status = status
                              /\ \A x \in Writes : x.status = "ACTIVE" => Beats(w, x)

IndInv ==
    /\ TypeOK /\ Birth /\ Created /\ Owned /\ Guarded
    /\ Truthful /\ Ordered /\ Unfenced /\ Projected

-----------------------------------------------------------------------------
(* The upsert                                                              *)

\* A merged row is a row with the revision, the status and the time of the
\* write, and an owner of the write or of the row.
LEMMA MergedRow ==
    ASSUME row \in Upserts, NEW w \in Upserts
    PROVE  /\ Merged(w) \in Upserts
           /\ Merged(w).rev = w.rev /\ Merged(w).status = w.status
           /\ Merged(w).stamp = w.stamp
           /\ Merged(w).client = IF w.client # None THEN w.client ELSE row.client
           /\ Merged(w).user = IF w.user # None THEN w.user ELSE row.user
    BY DEF Merged, Coalesce, Upserts, Callers

\* What the statement leaves in the row.
LEMMA RecordCases ==
    ASSUME TypeOK, NEW w \in Upserts, Record(w)
    PROVE  /\ row' \in Upserts
           /\ row = None => row' = w
           /\ row # None => \/ ~Fresh(w) /\ row' = row
                            \/ Fresh(w) /\ row' = Merged(w)
<1>1. CASE row = None
    BY <1>1 DEF Record
<1>2. CASE row # None
    BY <1>2, MergedRow DEF Record, TypeOK
<1> QED  BY <1>1, <1>2

\* An upsert the service sends has the type of a row.
LEMMA UpsertType ==
    ASSUME NEW c \in Clients \cup {None}, NEW u \in Callers, NEW st \in Statuses,
           NEW r \in Unrevised..MaxRev, NEW t \in 0..MaxTime
    PROVE  /\ Upsert(c, u, st, r, t) \in Upserts
           /\ Upsert(c, u, st, r, t).client = c /\ Upsert(c, u, st, r, t).user = u
           /\ Upsert(c, u, st, r, t).status = st /\ Upsert(c, u, st, r, t).rev = r
           /\ Upsert(c, u, st, r, t).stamp = t
    BY DEF Upsert, Upserts

-----------------------------------------------------------------------------
(* Types                                                                   *)

LEMMA TypeInit == Init => TypeOK
<1> SUFFICES ASSUME Init PROVE TypeOK
    OBVIOUS
<1>1. creator \in [client : Clients \cup {None}, user : Callers]
    BY DEF Init
<1>2. pc \in {"new", "done"} /\ status \in {"none"} \cup Statuses
    BY DEF Init, Statuses
<1>3. rev \in Unrevised..MaxRev /\ now \in 0..MaxTime
    BY HistoryAssumption DEF Init, Unrevised
<1>4. past \in [0..MaxRev -> SUBSET Statuses] /\ calls \in [Workers -> Calls]
    BY DEF Init, Calls
<1>5. /\ sent = {} /\ row = None /\ granted = {} /\ windowed = FALSE
      /\ lost = FALSE /\ overrun = FALSE /\ unchecked = FALSE
    BY DEF Init
<1> QED  BY <1>1, <1>2, <1>3, <1>4, <1>5 DEF TypeOK

\* Writing the watch overtakes every call that is under way, and no other.
LEMMA OvertakenCalls ==
    ASSUME TypeOK
    PROVE  /\ Overtaken \in [Workers -> Calls]
           /\ \A w \in Workers : Overtaken[w].kind = calls[w].kind
           /\ \A w \in Workers : calls[w].kind \in Kinds => Overtaken[w].stale
<1>1. ASSUME NEW w \in Workers
      PROVE  /\ Overtaken[w] \in Calls /\ Overtaken[w].kind = calls[w].kind
             /\ calls[w].kind \in Kinds => Overtaken[w].stale
    <2>1. calls[w] \in Calls
        BY DEF TypeOK
    <2>2. CASE calls[w].kind \in Kinds
        <3>1. calls[w] \in [kind : Kinds, since : 0..MaxTime, stale : BOOLEAN]
            BY <2>1, <2>2 DEF Calls, NoCall, Landed, Kinds
        <3>2. Overtaken[w] = [calls[w] EXCEPT !.stale = TRUE]
            BY <2>2 DEF Overtaken
        <3> QED  BY <3>1, <3>2 DEF Calls
    <2>3. CASE calls[w].kind \notin Kinds
        BY <2>1, <2>3 DEF Overtaken
    <2> QED  BY <2>2, <2>3
<1>2. Overtaken = [w \in Workers |-> Overtaken[w]]
    BY DEF Overtaken
<1> QED  BY <1>1, <1>2

\* What a call that lands leaves of the calls.
LEMMA LandsCalls ==
    ASSUME TypeOK, NEW w \in Workers, Lands(w)
    PROVE  /\ calls' \in [Workers -> Calls]
           /\ \A v \in Workers : Busy(v)' => calls'[v].stale /\ Busy(v)
           /\ overrun' \in BOOLEAN /\ (~overrun' => ~overrun /\ (Busy(w) => ~calls[w].stale))
           /\ UNCHANGED <<creator, pc, now, row, granted, lost, unchecked>>
<1>1. calls' = [Overtaken EXCEPT ![w] = Landed] /\ Landed \in Calls /\ Landed.kind \notin Kinds
    BY DEF Lands, Calls, Landed, Kinds
<1>2. calls' \in [Workers -> Calls]
    BY <1>1, OvertakenCalls
<1>3. ASSUME NEW v \in Workers, Busy(v)' PROVE calls'[v].stale /\ Busy(v)
    BY <1>1, <1>3, OvertakenCalls DEF Busy
<1>4. calls[w] \in Calls /\ (Busy(w) => calls[w].stale \in BOOLEAN)
    BY DEF TypeOK, Calls, Busy, NoCall, Landed, Kinds
<1> QED  BY <1>2, <1>3, <1>4 DEF Lands, TypeOK

\* A fenced transition keeps the types of what it stores.
LEMMA StoreTypes ==
    ASSUME TypeOK, NEW st \in Statuses, NEW r \in 0..MaxRev, NEW o \in BOOLEAN,
           Store(st, r, o)
    PROVE  /\ status' = st /\ rev' = r /\ rev' \in Unrevised..MaxRev /\ windowed' = o
           /\ past' \in [0..MaxRev -> SUBSET Statuses]
           /\ past'[r] = past[r] \cup {st}
           /\ \A q \in 0..MaxRev : q # r => past'[q] = past[q]
           /\ calls' \in [Workers -> Calls]
           /\ \A v \in Workers : Busy(v)' => calls'[v].stale /\ Busy(v)
           /\ UNCHANGED <<creator, pc, now, row, granted, lost, overrun, unchecked>>
<1>1. calls' = Overtaken
    BY DEF Store
<1>2. /\ calls' \in [Workers -> Calls]
      /\ \A v \in Workers : Busy(v)' => calls'[v].stale /\ Busy(v)
    BY <1>1, OvertakenCalls DEF Busy
<1>3. past' = [past EXCEPT ![r] = @ \cup {st}]
    BY DEF Store
<1>4. past' \in [0..MaxRev -> SUBSET Statuses] /\ rev' \in Unrevised..MaxRev
    BY <1>3, HistoryAssumption DEF Store, TypeOK, Unrevised
<1>5. past'[r] = past[r] \cup {st} /\ \A q \in 0..MaxRev : q # r => past'[q] = past[q]
    BY <1>3 DEF TypeOK
<1> QED  BY <1>2, <1>4, <1>5 DEF Store, flags

LEMMA TypeStep == TypeOK /\ [Next]_vars => TypeOK'
<1> SUFFICES ASSUME TypeOK, [Next]_vars PROVE TypeOK'
    OBVIOUS
<1> USE DEF live, flags
<1>1. CASE Deliver
    BY <1>1, RecordCases DEF Deliver, TypeOK
<1>2. CASE Lose
    BY <1>2 DEF Lose, TypeOK
<1>3. CASE RecordOwner
    <2>1. Upsert(creator.client, creator.user, "ACTIVE", 0, now) \in Upserts
        BY UpsertType, HistoryAssumption DEF TypeOK, Statuses, Unrevised
    <2>2. row' \in Upserts \cup {None}
        BY <1>3, <2>1, RecordCases DEF RecordOwner, TypeOK
    <2> QED  BY <1>3, <2>2 DEF RecordOwner, TypeOK
<1>4. CASE CreatorDies
    BY <1>4 DEF CreatorDies, TypeOK
<1>5. CASE CreateWithSchedule
    <2>1. past' \in [0..MaxRev -> SUBSET Statuses]
        BY <1>5 DEF CreateWithSchedule, TypeOK, Statuses
    <2> QED
        BY <1>5, <2>1, HistoryAssumption DEF CreateWithSchedule, TypeOK, Statuses, Unrevised
<1>6. CASE RecordAnonymous
    <2>1. Upsert(creator.client, None, "ACTIVE", 0, now) \in Upserts
        BY UpsertType, HistoryAssumption DEF TypeOK, Statuses, Unrevised, Callers
    <2> QED  BY <1>6, <2>1 DEF RecordAnonymous, TypeOK
<1>7. ASSUME NEW st \in Statuses, NEW r \in 0..MaxRev, NEW o \in BOOLEAN, Store(st, r, o),
             \/ UNCHANGED sent
             \/ sent' = sent \cup {Upsert(None, None, st, r, now)}
      PROVE  TypeOK'
    <2>1. Upsert(None, None, st, r, now) \in Upserts
        BY UpsertType, HistoryAssumption DEF TypeOK, Unrevised, Callers
    <2> QED  BY <1>7, <2>1, StoreTypes DEF TypeOK
<1>8. CASE Commit
    <2>1. rev + 1 \in 0..MaxRev
        BY <1>8, HistoryAssumption DEF Commit, TypeOK
    <2> QED  BY <1>7, <1>8, <2>1 DEF Commit
<1>9. CASE Finish
    <2>1. rev + 1 \in 0..MaxRev
        BY <1>9, HistoryAssumption DEF Finish, TypeOK, Unrevised
    <2>2. {"EXPIRED", "CANCELLED"} \subseteq Statuses
        BY DEF Statuses, Endings
    <2> QED  BY <1>7, <1>9, <2>1, <2>2 DEF Finish
<1>10. ASSUME NEW w \in Workers, BeginCall(w) PROVE TypeOK'
    <2>1. calls' \in [Workers -> Calls]
        BY <1>10 DEF BeginCall, TypeOK, Calls
    <2> QED  BY <1>10, <2>1 DEF BeginCall, TypeOK
<1>11. ASSUME NEW w \in Workers, LegacySave(w) PROVE TypeOK'
    <2>1. PICK st \in Statuses \ {"CANCELLED"}, stamp \in calls[w].since..now :
              /\ status' = st
              /\ sent' = sent \cup {Upsert(None, None, st, Unrevised, stamp)}
        BY <1>11 DEF LegacySave
    <2>2. calls[w] \in Calls
        BY DEF TypeOK
    <2>3. calls[w].since \in 0..MaxTime
        BY <2>2, HistoryAssumption DEF Calls, NoCall, Landed
    <2>4. stamp \in 0..MaxTime /\ Unrevised \in Unrevised..MaxRev
        BY <2>3, HistoryAssumption DEF TypeOK, Unrevised
    <2>5. Upsert(None, None, st, Unrevised, stamp) \in Upserts
        BY <2>4, UpsertType DEF Callers
    <2> QED  BY <1>11, <2>1, <2>5, LandsCalls DEF LegacySave, TypeOK
<1>12. ASSUME NEW w \in Workers, FinishUnfenced(w) PROVE TypeOK'
    <2>1. calls[w].kind \in Statuses
        BY <1>12 DEF FinishUnfenced, Statuses, Endings
    <2>2. Upsert(None, None, calls[w].kind, 0, now) \in Upserts
        BY <2>1, UpsertType, HistoryAssumption DEF TypeOK, Unrevised, Callers
    <2>3. past' \in [0..MaxRev -> SUBSET Statuses]
        BY <1>12, <2>1 DEF FinishUnfenced, TypeOK
    <2>4. rev' \in Unrevised..MaxRev
        BY <1>12, HistoryAssumption DEF FinishUnfenced, Unrevised
    <2> QED  BY <1>12, <2>1, <2>2, <2>3, <2>4, LandsCalls DEF FinishUnfenced, TypeOK
<1>13. ASSUME NEW w \in Workers, FinishTooLate(w) PROVE TypeOK'
    <2>1. calls' \in [Workers -> Calls]
        BY <1>13 DEF FinishTooLate, TypeOK, Calls
    <2> QED  BY <1>13, <2>1 DEF FinishTooLate, TypeOK
<1>14. CASE Migrate
    <2>1. "ACTIVE" \in Statuses /\ 0 \in 0..MaxRev
        BY HistoryAssumption DEF Statuses
    <2> QED  BY <1>7, <1>14, <2>1 DEF Migrate
<1>15. CASE Tick
    BY <1>15, HistoryAssumption DEF Tick, TypeOK
<1>16. CASE PassCheck
    BY <1>16 DEF PassCheck, TypeOK
<1>17. CASE PassUnchecked
    BY <1>17 DEF PassUnchecked, TypeOK, Callers
<1>18. CASE \E c \in Clients, u \in Users : ClaimAnonymous(c, u)
    BY <1>18 DEF ClaimAnonymous, ListedForOwner, TypeOK, Upserts, Callers
<1>19. CASE UNCHANGED vars
    BY <1>19 DEF vars, TypeOK
<1> QED
    BY <1>1, <1>2, <1>3, <1>4, <1>5, <1>6, <1>8, <1>9, <1>10, <1>11, <1>12, <1>13,
       <1>14, <1>15, <1>16, <1>17, <1>18, <1>19 DEF Next

\* Every variable of the history keeps its type.
THEOREM TypeCorrect == Spec => []TypeOK
    BY TypeInit, TypeStep, PTL DEF Spec

-----------------------------------------------------------------------------
(* The truth of the row                                                    *)

\* Rows and writes are never None.
LEMMA NoneIsNoRow == None \notin Upserts
    BY HistoryAssumption

LEMMA InvInit == Init => IndInv
<1> SUFFICES ASSUME Init PROVE IndInv
    OBVIOUS
<1>1. TypeOK
    BY TypeInit
<1>2. sent = {} /\ row = None /\ granted = {} /\ Writes = {}
    BY DEF Init, Writes
<1>3. \A w \in Workers : ~Busy(w)
    BY DEF Init, Busy, NoCall, Kinds
<1>4. Birth /\ Created /\ Owned /\ Guarded
    BY <1>2, <1>3 DEF Init, Birth, Created, Owned, Guarded
<1>5. \A r \in 0..MaxRev : past[r] = {}
    BY DEF Init
<1>6. Truthful /\ Ordered /\ Unfenced
    BY <1>2, <1>3, <1>5, HistoryAssumption DEF Init, Truthful, Ordered, Unfenced, Unrevised
<1>7. Projected
    BY DEF Init, Projected, Endings
<1> QED  BY <1>1, <1>4, <1>6, <1>7 DEF IndInv

\* Every write that exists has the type of an upsert.
LEMMA WritesTyped == TypeOK => Writes \subseteq Upserts
    BY DEF TypeOK, Writes

-----------------------------------------------------------------------------
(* Writing the live watch                                                  *)

\* A transition of the live watch that sends u, or opens a window and sends
\* nothing.  What it owes while no unfenced call landed on a write it had not read
\* is the last assumption.
LEMMA LiveStep ==
    ASSUME IndInv, TypeOK', NEW u \in Upserts,
           status # "none", status' = u.status,
           UNCHANGED <<creator, pc, row, granted, lost, unchecked, now>>,
           u.client = None, u.user = None, u.stamp <= now,
           sent' = sent \cup {u} \/ (sent' = sent /\ u.status = "ACTIVE"),
           u.rev >= 0 => u.status \in past'[u.rev],
           \A r \in 0..MaxRev : past[r] \subseteq past'[r],
           \A w \in Workers : Busy(w)' => calls'[w].stale /\ Busy(w),
           pc = "created" => rev' >= 0 /\ u.rev >= 0 /\ ~overrun',
           ~overrun' =>
              /\ ~overrun /\ status = "ACTIVE"
              /\ \A r \in 0..MaxRev :
                    past'[r] = past[r] \/ (past[r] = {} /\ past'[r] = {u.status})
              /\ u.status = "ACTIVE" =>
                    /\ rev' >= 0 => windowed'
                    /\ \A r \in 0..MaxRev : r > rev' => past'[r] = {}
                    /\ rev <= rev' /\ u.rev <= rev'
              /\ u.status \in Endings => \A x \in Writes : Beats(u, x)
    PROVE  IndInv'
<1>1. TypeOK /\ status' \in Statuses /\ status' # "none" /\ u.rev <= MaxRev
    BY HistoryAssumption DEF IndInv, Upserts, Statuses, Endings, Unrevised
<1>2. Writes' = sent' \cup ({row} \ {None}) /\ Writes' \subseteq Writes \cup {u}
    BY DEF Writes
<1>3. Writes \subseteq Upserts
    BY <1>1, WritesTyped
<1>4. Birth'
    BY <1>1 DEF IndInv, Birth
<1>5. Created'
    BY HistoryAssumption DEF IndInv, Created
<1>6. Owned'
    BY <1>1 DEF IndInv, Owned
<1>7. Guarded'
    BY DEF IndInv, Guarded
<1>8. Truthful'
    <2>1. ASSUME NEW x \in Writes PROVE Told(x)'
        <3>1. Told(x) /\ x.rev \in Unrevised..MaxRev
            BY <1>3, <2>1 DEF IndInv, Truthful, Upserts
        <3> QED  BY <3>1, HistoryAssumption DEF Told, Unrevised
    <2>2. Told(u)'
        BY <1>1 DEF Told
    <2> QED  BY <1>2, <2>1, <2>2 DEF Truthful
<1>9. Ordered'
    <2> SUFFICES ASSUME ~overrun' PROVE Ordered'
        BY DEF Ordered
    <2>1. ASSUME NEW r \in 0..MaxRev, NEW a \in past'[r], NEW b \in past'[r] PROVE a = b
        BY <2>1 DEF IndInv, Ordered
    <2>2. ASSUME u.status = "ACTIVE", NEW x \in Writes'
          PROVE  x.status = "ACTIVE" /\ x.rev <= rev'
        <3>1. CASE x \in Writes
            <4>1. x.status = "ACTIVE" /\ x.rev <= rev /\ x.rev \in Int
                BY <1>3, <3>1, HistoryAssumption DEF IndInv, Ordered, Upserts, Unrevised
            <4>2. rev \in Int /\ rev' \in Int
                BY <1>1, HistoryAssumption DEF TypeOK, Unrevised
            <4> QED  BY <2>2, <4>1, <4>2
        <3>2. CASE x = u
            BY <2>2, <3>2
        <3> QED  BY <1>2, <2>2, <3>1, <3>2
    <2>3. \A r \in 0..MaxRev : \A a, b \in past'[r] : a = b
        BY <2>1
    <2> QED  BY <2>2, <2>3 DEF Ordered
<1>10. Unfenced'
    BY DEF Unfenced
<1>11. Projected'
    <2> SUFFICES ASSUME ~overrun', u.status \in Endings PROVE Projected'
        BY DEF Projected
    <2>1. \A x \in Writes : x.status = "ACTIVE" /\ Beats(u, x)
        BY DEF IndInv, Ordered
    <2>2. u.status # "ACTIVE" /\ u \in sent'
        BY DEF Endings
    <2>3. \A x \in Writes' : x.status \in {"ACTIVE", u.status}
        BY <1>2, <2>1
    <2>4. \A x \in Writes' : x.status = "ACTIVE" => Beats(u, x)
        BY <1>2, <2>1, <2>2
    <2>5. (\E w \in sent : /\ w.status = status
                           /\ \A x \in Writes : x.status = "ACTIVE" => Beats(w, x))'
        BY <2>2, <2>4 DEF Beats
    <2> QED  BY <2>3, <2>5 DEF Projected
<1> QED
    BY <1>4, <1>5, <1>6, <1>7, <1>8, <1>9, <1>10, <1>11 DEF IndInv

\* Facts of an active watch while unfenced calls met only what they had read.
LEMMA ActiveFacts ==
    ASSUME IndInv, status = "ACTIVE"
    PROVE  /\ TypeOK /\ status # "none" /\ rev \in Int /\ rev >= Unrevised /\ now \in Int
           /\ now \in 0..MaxTime
           /\ ~overrun /\ ~windowed => rev = Unrevised
           /\ ~overrun => /\ \A r \in 0..MaxRev : r > rev => past[r] = {}
                          /\ \A x \in Writes : x.rev \in Int /\ x.rev <= rev
           /\ \A r \in 0..MaxRev : past[r] \subseteq Statuses
           /\ pc = "created" => rev >= 0 /\ ~overrun
<1>1. TypeOK /\ status # "none"
    BY DEF IndInv
<1>2. /\ rev \in Int /\ rev >= Unrevised /\ now \in Int /\ now \in 0..MaxTime
      /\ \A r \in 0..MaxRev : past[r] \subseteq Statuses
    BY <1>1, HistoryAssumption DEF TypeOK, Unrevised
<1>3. ~overrun /\ ~windowed => rev = Unrevised
    BY <1>2 DEF IndInv, Ordered, Unrevised
<1>4. \A x \in Writes : x.rev \in Int
    BY <1>1, WritesTyped, HistoryAssumption DEF Upserts, Unrevised
<1> QED  BY <1>1, <1>2, <1>3, <1>4 DEF IndInv, Ordered, Created

\* commit_window, cancel and expire store the next revision.
LEMMA FencedStep ==
    ASSUME IndInv, TypeOK', status = "ACTIVE", rev \in 0..(MaxRev - 1),
           NEW st \in Statuses, NEW o \in BOOLEAN, st = "ACTIVE" => o,
           Store(st, rev + 1, o),
           sent' = sent \cup {Upsert(None, None, st, rev + 1, now)}
    PROVE  IndInv'
<1> DEFINE u == Upsert(None, None, st, rev + 1, now)
<1>1. rev + 1 \in 0..MaxRev /\ rev + 1 \in Unrevised..MaxRev
    BY HistoryAssumption DEF Unrevised
<1>2. /\ u \in Upserts /\ u.client = None /\ u.user = None /\ u.status = st
      /\ u.rev = rev + 1 /\ u.stamp = now
    <2>1. now \in 0..MaxTime /\ None \in Clients \cup {None} /\ None \in Callers
        BY ActiveFacts DEF Callers
    <2> QED  BY <1>1, <2>1 DEF Upsert, Upserts
<1>3. /\ status' = st /\ rev' = rev + 1 /\ windowed' = o
      /\ past'[rev + 1] = past[rev + 1] \cup {st}
      /\ \A q \in 0..MaxRev : q # rev + 1 => past'[q] = past[q]
      /\ \A v \in Workers : Busy(v)' => calls'[v].stale /\ Busy(v)
      /\ UNCHANGED <<creator, pc, now, row, granted, lost, overrun, unchecked>>
    BY <1>1, ActiveFacts, StoreTypes
<1>4. \A r \in 0..MaxRev : past[r] \subseteq past'[r]
    BY <1>3
<1>5. ASSUME ~overrun
      PROVE  /\ past[rev + 1] = {}
             /\ \A r \in 0..MaxRev : r > rev + 1 => past'[r] = {}
             /\ \A x \in Writes : Beats(u, x)
    <2>1. past[rev + 1] = {}
        BY <1>1, <1>5, ActiveFacts
    <2>2. ASSUME NEW r \in 0..MaxRev, r > rev + 1 PROVE past'[r] = {}
        BY <1>3, <1>5, <2>2, ActiveFacts
    <2>3. ASSUME NEW x \in Writes PROVE Beats(u, x)
        BY <1>2, <1>5, <2>3, ActiveFacts DEF Beats
    <2> QED  BY <2>1, <2>2, <2>3
<1>6. \A r \in 0..MaxRev :
         ~overrun => past'[r] = past[r] \/ (past[r] = {} /\ past'[r] = {st})
    BY <1>3, <1>5
<1>7. pc = "created" => ~overrun
    BY ActiveFacts
<1>8. rev <= rev + 1 /\ rev + 1 >= 0 /\ now <= now
    BY ActiveFacts
<1> HIDE DEF u
<1>9. /\ status # "none" /\ status' = u.status /\ u.stamp <= now
      /\ UNCHANGED <<creator, pc, row, granted, lost, unchecked, now>>
      /\ sent' = sent \cup {u}
      /\ u.rev >= 0 => u.status \in past'[u.rev]
      /\ pc = "created" => rev' >= 0 /\ u.rev >= 0 /\ ~overrun'
    BY <1>2, <1>3, <1>7, <1>8, ActiveFacts DEF u
<1>10. ~overrun' =>
          /\ ~overrun /\ status = "ACTIVE"
          /\ \A r \in 0..MaxRev :
                past'[r] = past[r] \/ (past[r] = {} /\ past'[r] = {u.status})
          /\ u.status = "ACTIVE" =>
                /\ rev' >= 0 => windowed'
                /\ \A r \in 0..MaxRev : r > rev' => past'[r] = {}
                /\ rev <= rev' /\ u.rev <= rev'
          /\ u.status \in Endings => \A x \in Writes : Beats(u, x)
    BY <1>2, <1>3, <1>5, <1>6, <1>8
<1> QED  BY <1>2, <1>3, <1>4, <1>9, <1>10, LiveStep

\* Recovery gives an active watch a window and sends nothing.
LEMMA MigrateStep == IndInv /\ Migrate /\ TypeOK' => IndInv'
<1> SUFFICES ASSUME IndInv, Migrate, TypeOK' PROVE IndInv'
    OBVIOUS
<1>1. status = "ACTIVE" /\ ~windowed /\ sent' = sent
    BY DEF Migrate
<1>2. PICK r \in {0} \cup {q \in 0..MaxRev : past[q] # {}} : Store("ACTIVE", r, TRUE)
    BY DEF Migrate
<1>3. r \in 0..MaxRev /\ r \in Unrevised..MaxRev /\ "ACTIVE" \in Statuses
    BY HistoryAssumption DEF Unrevised, Statuses
<1> DEFINE u == Upsert(None, None, "ACTIVE", r, now)
<1>4. /\ u \in Upserts /\ u.client = None /\ u.user = None /\ u.status = "ACTIVE"
      /\ u.rev = r /\ u.stamp = now
    BY <1>1, <1>3, ActiveFacts, UpsertType DEF Callers
<1>5. /\ status' = "ACTIVE" /\ rev' = r /\ windowed' = TRUE
      /\ past'[r] = past[r] \cup {"ACTIVE"}
      /\ \A q \in 0..MaxRev : q # r => past'[q] = past[q]
      /\ \A v \in Workers : Busy(v)' => calls'[v].stale /\ Busy(v)
      /\ UNCHANGED <<creator, pc, now, row, granted, lost, overrun, unchecked>>
    BY <1>1, <1>2, <1>3, ActiveFacts, StoreTypes
<1>6. \A q \in 0..MaxRev : past[q] \subseteq past'[q]
    BY <1>5
<1>7. ASSUME ~overrun
      PROVE  rev = Unrevised /\ \A q \in 0..MaxRev : past[q] = {}
    BY <1>1, <1>7, ActiveFacts DEF Unrevised
<1>8. ~overrun => rev <= r
    BY <1>3, <1>7 DEF Unrevised
<1>9. ~overrun => \A q \in 0..MaxRev : q > r => past'[q] = {}
    BY <1>3, <1>5, <1>7
<1>10. \A q \in 0..MaxRev :
          ~overrun => past'[q] = past[q] \/ (past[q] = {} /\ past'[q] = {"ACTIVE"})
    BY <1>5, <1>7
<1>11. pc = "created" => ~overrun
    BY <1>1, ActiveFacts
<1>12. r <= r /\ r >= 0 /\ now <= now /\ "ACTIVE" \notin Endings
    BY <1>1, <1>3, ActiveFacts DEF Endings
<1> HIDE DEF u
<1> QED
    BY <1>1, <1>4, <1>5, <1>6, <1>8, <1>9, <1>10, <1>11, <1>12, ActiveFacts, LiveStep DEF u

\* What a call that nothing overtook finds when it lands.
LEMMA LandingFacts ==
    ASSUME IndInv, NEW w \in Workers, Busy(w), Lands(w)
    PROVE  /\ TypeOK /\ status # "none" /\ pc # "created"
           /\ calls[w].since \in 0..MaxTime /\ now \in 0..MaxTime
           /\ UNCHANGED <<creator, pc, now, row, granted, lost, unchecked>>
           /\ \A v \in Workers : Busy(v)' => calls'[v].stale /\ Busy(v)
           /\ ~overrun' => /\ ~overrun /\ status = "ACTIVE" /\ rev = Unrevised
                           /\ \A x \in Writes : x.stamp <= calls[w].since
<1>1. TypeOK /\ status # "none" /\ pc # "created"
    BY DEF IndInv, Birth, Created
<1>2. calls[w].since \in 0..MaxTime /\ now \in 0..MaxTime
    BY <1>1, HistoryAssumption DEF TypeOK, Calls, NoCall, Landed
<1>3. ~overrun' => ~overrun /\ ~calls[w].stale
    BY <1>1, LandsCalls
<1>4. ~overrun' => /\ status = "ACTIVE" /\ rev = Unrevised
                   /\ \A x \in Writes : x.stamp <= calls[w].since
    BY <1>3 DEF IndInv, Unfenced
<1> QED  BY <1>1, <1>2, <1>3, <1>4, LandsCalls

\* The unfenced save of a legacy poll.
LEMMA LegacySaveStep ==
    ASSUME IndInv, TypeOK', NEW w \in Workers, LegacySave(w)
    PROVE  IndInv'
<1>1. Busy(w) /\ Lands(w) /\ UNCHANGED <<rev, windowed, past>>
    BY DEF LegacySave, Busy, Kinds
<1>2. PICK st \in Statuses \ {"CANCELLED"}, stamp \in calls[w].since..now :
          /\ status' = st
          /\ sent' = sent \cup {Upsert(None, None, st, Unrevised, stamp)}
    BY DEF LegacySave
<1> DEFINE u == Upsert(None, None, st, Unrevised, stamp)
<1>3. /\ stamp \in 0..MaxTime /\ stamp <= now /\ calls[w].since <= stamp
      /\ calls[w].since \in Int /\ Unrevised \in Unrevised..MaxRev
    BY <1>1, LandingFacts, HistoryAssumption DEF Unrevised
<1>4. /\ u \in Upserts /\ u.client = None /\ u.user = None /\ u.status = st
      /\ u.rev = Unrevised /\ u.stamp = stamp
    BY <1>3, UpsertType DEF Callers
<1>5. ASSUME ~overrun'
      PROVE  /\ ~overrun /\ status = "ACTIVE" /\ rev = Unrevised
             /\ \A r \in 0..MaxRev : r > rev => past[r] = {}
             /\ \A x \in Writes : Beats(u, x)
    <2>1. /\ ~overrun /\ status = "ACTIVE" /\ rev = Unrevised
          /\ \A x \in Writes : x.stamp <= calls[w].since
        BY <1>1, <1>5, LandingFacts
    <2>2. Writes \subseteq Upserts
        BY <1>1, LandingFacts, WritesTyped
    <2>3. ASSUME NEW x \in Writes PROVE Beats(u, x)
        <3>1. x.rev = Unrevised
            BY <2>1, <2>2, <2>3, ActiveFacts, HistoryAssumption DEF Upserts, Unrevised
        <3>2. x.stamp \in Int /\ x.stamp <= stamp
            BY <1>3, <2>1, <2>2, <2>3 DEF Upserts
        <3> QED  BY <1>3, <1>4, <3>1, <3>2 DEF Beats
    <2> QED  BY <2>1, <2>3, ActiveFacts
<1>6. ~(Unrevised >= 0) /\ Unrevised <= Unrevised /\ pc # "created"
    BY <1>1, LandingFacts DEF Unrevised
<1> HIDE DEF u
<1>7. /\ status # "none" /\ status' = u.status
      /\ UNCHANGED <<creator, pc, row, granted, lost, unchecked, now>>
      /\ \A v \in Workers : Busy(v)' => calls'[v].stale /\ Busy(v)
      /\ sent' = sent \cup {u} /\ u.stamp <= now
    BY <1>1, <1>2, <1>3, <1>4, LandingFacts DEF u
<1>8. ~overrun' =>
          /\ ~overrun /\ status = "ACTIVE"
          /\ \A r \in 0..MaxRev :
                past'[r] = past[r] \/ (past[r] = {} /\ past'[r] = {u.status})
          /\ u.status = "ACTIVE" =>
                /\ rev' >= 0 => windowed'
                /\ \A r \in 0..MaxRev : r > rev' => past'[r] = {}
                /\ rev <= rev' /\ u.rev <= rev'
          /\ u.status \in Endings => \A x \in Writes : Beats(u, x)
    BY <1>1, <1>4, <1>5, <1>6
<1>9. \A r \in 0..MaxRev : past[r] \subseteq past'[r]
    BY <1>1
<1> QED  BY <1>4, <1>6, <1>7, <1>8, <1>9, LiveStep

\* The script of a cancel or expiry that compares no revision.
LEMMA FinishUnfencedStep ==
    ASSUME IndInv, TypeOK', NEW w \in Workers, FinishUnfenced(w)
    PROVE  IndInv'
<1>1. /\ Busy(w) /\ Lands(w) /\ status = "ACTIVE" /\ rev' = Unrevised
      /\ status' = calls[w].kind /\ past' = [past EXCEPT ![0] = @ \cup {calls[w].kind}]
      /\ sent' = sent \cup {Upsert(None, None, calls[w].kind, 0, now)}
      /\ calls[w].kind \in Endings /\ calls[w].kind # "ACTIVE"
    BY DEF FinishUnfenced, Busy, Kinds, Endings
<1> DEFINE st == calls[w].kind
<1> DEFINE u == Upsert(None, None, st, 0, now)
<1>2. /\ u \in Upserts /\ u.client = None /\ u.user = None /\ u.status = st
      /\ u.rev = 0 /\ u.stamp = now
    BY <1>1, LandingFacts, UpsertType, HistoryAssumption DEF Callers, Statuses, Unrevised
<1>3. /\ past'[0] = past[0] \cup {st} /\ 0 \in 0..MaxRev
      /\ \A q \in 0..MaxRev : q # 0 => past'[q] = past[q]
    BY <1>1, LandingFacts, HistoryAssumption DEF TypeOK
<1>4. ASSUME ~overrun'
      PROVE  /\ ~overrun /\ past[0] = {} /\ \A x \in Writes : Beats(u, x)
    <2>1. ~overrun /\ rev = Unrevised
        BY <1>1, <1>4, LandingFacts
    <2>2. past[0] = {}
        BY <1>1, <1>3, <2>1, ActiveFacts DEF Unrevised
    <2>3. ASSUME NEW x \in Writes PROVE Beats(u, x)
        BY <1>1, <1>2, <2>1, <2>3, ActiveFacts DEF Beats, Unrevised
    <2> QED  BY <2>1, <2>2, <2>3
<1> HIDE DEF u
<1>5. /\ status # "none" /\ status' = u.status /\ pc # "created" /\ u.stamp <= now
      /\ UNCHANGED <<creator, pc, row, granted, lost, unchecked, now>>
      /\ \A v \in Workers : Busy(v)' => calls'[v].stale /\ Busy(v)
      /\ sent' = sent \cup {u}
    BY <1>1, <1>2, LandingFacts DEF u
<1>6. /\ u.rev >= 0 => u.status \in past'[u.rev]
      /\ \A r \in 0..MaxRev : past[r] \subseteq past'[r]
    BY <1>2, <1>3
<1>7. ~overrun' =>
          /\ ~overrun /\ status = "ACTIVE"
          /\ \A r \in 0..MaxRev :
                past'[r] = past[r] \/ (past[r] = {} /\ past'[r] = {u.status})
          /\ u.status \in Endings => \A x \in Writes : Beats(u, x)
    BY <1>1, <1>2, <1>3, <1>4
<1> QED  BY <1>1, <1>2, <1>5, <1>6, <1>7, LiveStep

-----------------------------------------------------------------------------
(* The other steps                                                         *)

\* An upsert that arrives leaves a row with the contents of that write or of
\* the row it met; a row that was not replaced resisted it.
LEMMA Arrival ==
    ASSUME IndInv, NEW w \in sent, Record(w)
    PROVE  /\ row' \in Upserts /\ status # "none"
           /\ row'.client \in {None, creator.client}
           /\ row # None => row'.user = row.user
           /\ \E x \in {w, row} \ {None} :
                 /\ row'.rev = x.rev /\ row'.status = x.status /\ row'.stamp = x.stamp
                 /\ x = w \/ (row # None /\ ~Fresh(w))
           /\ row' = row \/ row = None \/ row.status = "ACTIVE"
<1>1. w \in Upserts /\ row' \in Upserts /\ status # "none" /\ TypeOK /\ w # None
    BY RecordCases, NoneIsNoRow DEF IndInv, TypeOK, Birth
<1>2. w.user = None /\ w.client \in {None, creator.client}
    BY DEF IndInv, Owned
<1>3. CASE row = None
    BY <1>1, <1>2, <1>3, RecordCases
<1>4. CASE row # None /\ ~Fresh(w) /\ row' = row
    BY <1>1, <1>4 DEF IndInv, Owned
<1>5. CASE row # None /\ Fresh(w) /\ row' = Merged(w)
    <2>1. row \in Upserts /\ row.client \in {None, creator.client} /\ row.status = "ACTIVE"
        BY <1>1, <1>5 DEF IndInv, Owned, TypeOK, Fresh
    <2>2. /\ row'.rev = w.rev /\ row'.status = w.status /\ row'.stamp = w.stamp
          /\ row'.client \in {w.client, row.client} /\ row'.user = row.user
        BY <1>1, <1>2, <1>5, <2>1, MergedRow
    <2> QED  BY <1>1, <1>2, <1>5, <2>1, <2>2
<1> QED  BY <1>1, <1>3, <1>4, <1>5, RecordCases

\* What holds of every write and depends on its contents alone holds of the
\* writes after an arrival.
LEMMA ArrivalWrites ==
    ASSUME IndInv, NEW w \in sent, Record(w), sent' = sent \ {w}, NEW y \in Writes'
    PROVE  \E x \in Writes : y.rev = x.rev /\ y.status = x.status /\ y.stamp = x.stamp
<1>1. CASE y \in sent
    BY <1>1 DEF Writes
<1>2. CASE y = row'
    <2>1. PICK x \in {w, row} \ {None} :
              row'.rev = x.rev /\ row'.status = x.status /\ row'.stamp = x.stamp
        BY Arrival
    <2> QED  BY <1>2, <2>1 DEF Writes
<1> QED  BY <1>1, <1>2 DEF Writes

LEMMA DeliverStep == IndInv /\ Deliver /\ TypeOK' => IndInv'
<1> SUFFICES ASSUME IndInv, Deliver, TypeOK' PROVE IndInv'
    OBVIOUS
<1>1. PICK w \in sent : Record(w) /\ sent' = sent \ {w}
    BY DEF Deliver
<1>2. /\ UNCHANGED <<creator, pc, status, rev, windowed, past, calls, now, granted>>
      /\ UNCHANGED <<lost, overrun, unchecked>>
    BY DEF Deliver, live, flags
<1>3. status # "none" /\ row' # None /\ pc # "new" /\ pc' # "new"
    BY <1>1, <1>2, Arrival, NoneIsNoRow DEF IndInv, Birth
<1>4. Birth' /\ Created'
    BY <1>1, <1>2, <1>3 DEF IndInv, Birth, Created, Busy
<1>5. Owned'
    BY <1>1, <1>2, <1>3, Arrival DEF IndInv, Owned
<1>6. Guarded'
    BY <1>2 DEF IndInv, Guarded
<1>7. \A y \in Writes' : \E x \in Writes :
          y.rev = x.rev /\ y.status = x.status /\ y.stamp = x.stamp
    BY <1>1, ArrivalWrites
<1>8. Truthful'
    BY <1>2, <1>3, <1>7 DEF IndInv, Truthful, Told
<1>9. Ordered'
    BY <1>2, <1>7 DEF IndInv, Ordered
<1>10. Unfenced'
    BY <1>2, <1>7 DEF IndInv, Unfenced, Busy
<1>11. Projected'
    <2> SUFFICES ASSUME status \in Endings, ~overrun
                 PROVE  /\ \A y \in Writes' : y.status \in {"ACTIVE", status}
                        /\ \/ lost
                           \/ row'.status = status
                           \/ \E v \in sent' :
                                 /\ v.status = status
                                 /\ \A y \in Writes' : y.status = "ACTIVE" => Beats(v, y)
        BY <1>2, <1>3 DEF Projected, Beats
    <2>1. \A y \in Writes' : y.status \in {"ACTIVE", status}
        BY <1>7 DEF IndInv, Projected
    <2>2. CASE lost
        BY <2>1, <2>2
    <2>3. CASE row # None /\ row.status = status
        BY <1>1, <2>1, <2>3, Arrival DEF Endings
    <2>4. ASSUME NEW v \in sent, v.status = status, ~(row # None /\ row.status = status),
                 \A x \in Writes : x.status = "ACTIVE" => Beats(v, x)
          PROVE  \/ row'.status = status
                 \/ \E z \in sent' :
                       /\ z.status = status
                       /\ \A y \in Writes' : y.status = "ACTIVE" => Beats(z, y)
        <3>1. CASE v = w
            <4>1. row # None => Fresh(w)
                <5> SUFFICES ASSUME row # None PROVE Fresh(w)
                    OBVIOUS
                <5>1. row \in Writes /\ row.status = "ACTIVE"
                    BY <2>4 DEF IndInv, Projected, Writes
                <5> QED  BY <2>4, <3>1, <5>1 DEF Beats, Fresh
            <4>2. row'.status = w.status
                BY <1>1, <4>1, Arrival
            <4> QED  BY <2>4, <3>1, <4>2
        <3>2. CASE v # w
            <4>1. \A y \in Writes' : y.status = "ACTIVE" => Beats(v, y)
                BY <1>7, <2>4 DEF Beats
            <4> QED  BY <1>1, <2>4, <3>2, <4>1
        <3> QED  BY <3>1, <3>2
    <2> QED  BY <2>1, <2>2, <2>3, <2>4 DEF IndInv, Projected
<1> QED  BY <1>4, <1>5, <1>6, <1>8, <1>9, <1>10, <1>11 DEF IndInv

LEMMA RecordOwnerStep == IndInv /\ RecordOwner /\ TypeOK' => IndInv'
<1> SUFFICES ASSUME IndInv, RecordOwner, TypeOK' PROVE IndInv'
    OBVIOUS
<1> DEFINE u == Upsert(creator.client, creator.user, "ACTIVE", 0, now)
<1>1. /\ TypeOK /\ row = None /\ status = "none" /\ sent = {} /\ granted = {}
      /\ rev = Unrevised /\ ~overrun /\ \A w \in Workers : ~Busy(w)
      /\ past = [r \in 0..MaxRev |-> {}]
    BY DEF IndInv, Birth, RecordOwner
<1>2. /\ u \in Upserts /\ u.client = creator.client /\ u.user = creator.user
      /\ u.status = "ACTIVE" /\ u.rev = 0 /\ u.stamp = now /\ now <= now
    BY <1>1, UpsertType, HistoryAssumption DEF TypeOK, Statuses, Unrevised
<1>3. /\ UNCHANGED <<creator, status, rev, windowed, past, calls, sent, granted, now>>
      /\ UNCHANGED <<lost, overrun, unchecked>>
      /\ pc' \in {"owned", "refused"}
      /\ row' \in {None, u} /\ (pc' = "owned" => row' = u)
    BY <1>1, <1>2, RecordCases DEF RecordOwner, live, flags
<1>4. Birth' /\ Created'
    BY <1>1, <1>2, <1>3 DEF Birth, Created, Busy
<1>5. Owned'
    BY <1>1, <1>2, <1>3, NoneIsNoRow DEF Owned
<1>6. Guarded' /\ Truthful' /\ Projected'
    BY <1>1, <1>3 DEF Guarded, Truthful, Projected, Endings
<1>7. \A r \in 0..MaxRev : past'[r] = {}
    BY <1>1, <1>3
<1>8. Ordered' /\ Unfenced'
    BY <1>1, <1>3, <1>7 DEF Ordered, Unfenced, Busy
<1> QED  BY <1>4, <1>5, <1>6, <1>8 DEF IndInv

LEMMA CreateStep == IndInv /\ CreateWithSchedule /\ TypeOK' => IndInv'
<1> SUFFICES ASSUME IndInv, CreateWithSchedule, TypeOK' PROVE IndInv'
    OBVIOUS
<1>1. /\ pc' = "created" /\ status' = "ACTIVE" /\ rev' = 0 /\ windowed' = TRUE
      /\ past' = [past EXCEPT ![0] = {"ACTIVE"}]
      /\ UNCHANGED <<creator, calls, now, sent, row, granted>>
      /\ UNCHANGED <<lost, overrun, unchecked>>
    BY DEF CreateWithSchedule, flags
<1>2. /\ TypeOK /\ status = "none" /\ sent = {} /\ granted = {} /\ ~overrun
      /\ past = [r \in 0..MaxRev |-> {}] /\ \A w \in Workers : ~Busy(w)
      /\ row # None => row.rev = 0 /\ row.status = "ACTIVE" /\ row.stamp <= now
    BY DEF CreateWithSchedule, IndInv, Birth
<1>3. /\ past'[0] = {"ACTIVE"} /\ 0 <= MaxRev
      /\ \A r \in 0..MaxRev : r # 0 => past'[r] = {}
    BY <1>1, <1>2, HistoryAssumption DEF TypeOK
<1>4. Writes' = {row} \ {None}
    BY <1>1, <1>2 DEF Writes
<1>5. Birth' /\ Created'
    BY <1>1, <1>2, <1>3 DEF Birth, Created, Busy
<1>6. Owned'
    BY <1>1 DEF IndInv, Owned, CreateWithSchedule
<1>7. Guarded' /\ Projected'
    BY <1>1 DEF IndInv, Guarded, Projected, Endings
<1>8. Truthful'
    BY <1>1, <1>2, <1>3, <1>4 DEF Truthful, Told
<1>9. Ordered'
    <2>1. \A r \in 0..MaxRev : \A a, b \in past'[r] : a = b
        BY <1>3
    <2>2. \A r \in 0..MaxRev : r > 0 => past'[r] = {}
        BY <1>3
    <2>3. \A x \in Writes' : x.status = "ACTIVE" /\ x.rev <= 0
        BY <1>2, <1>4
    <2> QED  BY <1>1, <2>1, <2>2, <2>3 DEF Ordered
<1>10. Unfenced'
    BY <1>1, <1>2 DEF Unfenced, Busy
<1> QED  BY <1>5, <1>6, <1>7, <1>8, <1>9, <1>10 DEF IndInv

LEMMA RecordAnonymousStep == IndInv /\ RecordAnonymous /\ TypeOK' => IndInv'
<1> SUFFICES ASSUME IndInv, RecordAnonymous, TypeOK' PROVE IndInv'
    OBVIOUS
<1> DEFINE u == Upsert(creator.client, None, "ACTIVE", 0, now)
<1>1. /\ UNCHANGED <<creator, status, rev, windowed, past, calls, now, row, granted>>
      /\ UNCHANGED <<lost, overrun, unchecked>> /\ pc' = "done" /\ pc = "created"
    BY DEF RecordAnonymous, live, flags
<1>2. /\ sent \subseteq sent' /\ sent' \subseteq sent \cup {u}
      /\ Writes \subseteq Writes' /\ Writes' \subseteq Writes \cup {u}
    BY <1>1 DEF RecordAnonymous, Writes
<1>3. TypeOK /\ status # "none"
    BY DEF IndInv, Birth, RecordAnonymous
<1>4. /\ u.client = creator.client /\ u.user = None /\ u \in Upserts
      /\ u.status = "ACTIVE" /\ u.rev = 0 /\ u.stamp = now /\ now <= now
    BY <1>3, UpsertType, HistoryAssumption DEF TypeOK, Statuses, Unrevised, Callers
<1>5. /\ rev >= 0 /\ "ACTIVE" \in past[0] /\ ~overrun
      /\ \A w \in Workers : ~Busy(w)
      /\ \A x \in sent : x.rev >= 0
    BY <1>1 DEF IndInv, Created
<1>6. Birth' /\ Created'
    BY <1>1, <1>3 DEF IndInv, Birth, Created
<1>7. Owned'
    BY <1>1, <1>2, <1>4, <1>3 DEF IndInv, Owned
<1>8. Guarded'
    BY <1>1 DEF IndInv, Guarded
<1>9. Truthful'
    BY <1>1, <1>2, <1>3, <1>4, <1>5, HistoryAssumption DEF IndInv, Truthful, Told
<1>10. Ordered'
    BY <1>1, <1>2, <1>4, <1>5 DEF IndInv, Ordered
<1>11. Unfenced'
    BY <1>1, <1>5 DEF Unfenced, Busy
<1>12. Projected'
    <2> SUFFICES ASSUME status \in Endings, ~overrun
                 PROVE  /\ \A y \in Writes' : y.status \in {"ACTIVE", status}
                        /\ \/ lost
                           \/ row # None /\ row.status = status
                           \/ \E v \in sent' :
                                 /\ v.status = status
                                 /\ \A y \in Writes' : y.status = "ACTIVE" => Beats(v, y)
        BY <1>1 DEF Projected, Beats
    <2>1. \A y \in Writes' : y.status \in {"ACTIVE", status}
        BY <1>2, <1>4 DEF IndInv, Projected
    <2>2. ASSUME NEW v \in sent, v.status = status,
                 \A x \in Writes : x.status = "ACTIVE" => Beats(v, x)
          PROVE  v \in sent' /\ \A y \in Writes' : y.status = "ACTIVE" => Beats(v, y)
        <3>1. v \in Writes /\ v.rev \in Int /\ v.rev >= 0 /\ Told(v)
            BY <1>3, <1>5, HistoryAssumption DEF Writes, IndInv, Truthful, TypeOK, Upserts,
               Unrevised
        <3>2. v.rev # 0
            <4> SUFFICES ASSUME v.rev = 0 PROVE FALSE
                OBVIOUS
            <4>1. v.status \in past[0] /\ 0 \in 0..MaxRev
                BY <3>1, HistoryAssumption DEF Told
            <4>2. v.status = "ACTIVE"
                BY <1>5, <4>1 DEF IndInv, Ordered
            <4> QED  BY <2>2, <4>2 DEF Endings
        <3>3. Beats(v, u)
            BY <1>4, <3>1, <3>2 DEF Beats
        <3> QED  BY <1>2, <2>2, <3>3
    <2> QED  BY <2>1, <2>2 DEF IndInv, Projected
<1> QED  BY <1>6, <1>7, <1>8, <1>9, <1>10, <1>11, <1>12 DEF IndInv

LEMMA ClaimStep ==
    ASSUME IndInv, TypeOK', NEW c \in Clients, NEW u \in Users, ClaimAnonymous(c, u)
    PROVE  IndInv'
<1>1. /\ row # None /\ row.user = None /\ row \in Upserts
      /\ row' = [row EXCEPT !.user = u]
      /\ UNCHANGED <<creator, pc, status, rev, windowed, past, calls, now, sent, granted>>
      /\ UNCHANGED <<lost, overrun, unchecked>>
    BY DEF ClaimAnonymous, ListedForOwner, IndInv, TypeOK, live, flags
<1>2. /\ row'.rev = row.rev /\ row'.status = row.status /\ row'.client = row.client
      /\ row'.stamp = row.stamp /\ row' \in Upserts /\ row' # None
    BY <1>1, NoneIsNoRow DEF Upserts, Callers
<1>3. Writes' = sent \cup {row'} /\ Writes = sent \cup {row}
    BY <1>1, <1>2 DEF Writes
<1>4. Birth' /\ Created' /\ Guarded'
    BY <1>1, <1>2 DEF IndInv, Birth, Created, Guarded, Busy
<1>5. Owned'
    BY <1>1, <1>2 DEF IndInv, Owned
<1>6. Truthful'
    BY <1>1, <1>2, <1>3 DEF IndInv, Truthful, Told
<1>7. Ordered' /\ Unfenced'
    BY <1>1, <1>2, <1>3 DEF IndInv, Ordered, Unfenced, Busy
<1>8. Projected'
    <2>1. ASSUME NEW v, \A x \in Writes : x.status = "ACTIVE" => Beats(v, x)
          PROVE  \A y \in Writes' : y.status = "ACTIVE" => Beats(v, y)
        BY <1>2, <1>3, <2>1 DEF Beats
    <2>2. status \in Endings /\ ~overrun =>
              \A y \in Writes' : y.status \in {"ACTIVE", status}
        BY <1>2, <1>3 DEF IndInv, Projected
    <2>3. status \in Endings /\ ~overrun =>
              \/ lost
              \/ row.status = status
              \/ \E v \in sent : /\ v.status = status
                                 /\ \A y \in Writes' : y.status = "ACTIVE" => Beats(v, y)
        BY <1>1, <2>1 DEF IndInv, Projected
    <2> QED  BY <1>1, <1>2, <2>2, <2>3 DEF Projected, Beats
<1> QED  BY <1>4, <1>5, <1>6, <1>7, <1>8 DEF IndInv

\* Steps that leave the live watch and the row alone.
LEMMA QuietStep ==
    ASSUME IndInv, TypeOK',
           UNCHANGED <<creator, status, rev, windowed, past, row, overrun>>,
           now' >= now,
           \/ UNCHANGED <<pc, sent, lost>>
           \/ pc = "owned" /\ pc' = "refused" /\ UNCHANGED <<sent, lost>>
           \/ sent' \subseteq sent /\ lost' = TRUE /\ UNCHANGED pc,
           \/ UNCHANGED <<granted, unchecked>>
           \/ unchecked' = TRUE /\ status # "none"
           \/ /\ status # "none" /\ UNCHANGED unchecked
              /\ \E u \in Callers : ~Forbidden(u) /\ granted' = granted \cup {u},
           \A w \in Workers : Busy(w)' =>
              \/ Busy(w) /\ calls'[w] = calls[w]
              \/ status = "ACTIVE" /\ ~windowed /\ calls'[w].since = now
    PROVE  IndInv'
<1>1. TypeOK /\ now \in Int /\ now' \in Int
    BY DEF IndInv, TypeOK
<1>2. Writes' \subseteq Writes /\ Writes \subseteq Upserts
    BY <1>1, WritesTyped DEF Writes
<1>3. status \in {"none"} \/ pc = "created" => \A w \in Workers : ~Busy(w)'
    <2>1. CASE status = "none"
        BY <2>1 DEF IndInv, Birth
    <2>2. CASE pc = "created" /\ status # "none"
        <3>1. ~overrun /\ rev >= 0 /\ \A w \in Workers : ~Busy(w)
            BY <2>2 DEF IndInv, Created
        <3>2. ~(status = "ACTIVE" /\ ~windowed)
            BY <3>1 DEF IndInv, Ordered
        <3> QED  BY <3>1, <3>2
    <2> QED  BY <2>1, <2>2
<1>4. Birth'
    <2>1. row # None => row \in Upserts /\ row.stamp \in Int
        BY <1>1 DEF TypeOK, Upserts
    <2> QED  BY <1>1, <1>3, <2>1 DEF IndInv, Birth
<1>5. Created'
    BY <1>3 DEF IndInv, Created
<1>6. Owned'
    BY DEF IndInv, Owned
<1>7. Guarded'
    <2>1. CASE UNCHANGED <<granted, unchecked>> \/ unchecked' = TRUE
        BY <2>1 DEF IndInv, Guarded
    <2>2. CASE creator.user = None
        BY <2>2 DEF Guarded
    <2>3. ASSUME creator.user # None, status # "none", NEW u \in Callers, ~Forbidden(u)
          PROVE  u = creator.user
        BY <2>3 DEF IndInv, Owned, Forbidden, AccountOwner
    <2> QED  BY <2>1, <2>2, <2>3 DEF IndInv, Guarded
<1>8. Truthful'
    <2>1. ASSUME NEW x \in Writes, Told(x) PROVE Told(x)'
        <3>1. x.stamp \in Int
            BY <1>2, <2>1 DEF Upserts
        <3> QED  BY <1>1, <2>1, <3>1 DEF Told
    <2> QED  BY <1>2, <2>1 DEF IndInv, Truthful
<1>9. Ordered'
    BY <1>2 DEF IndInv, Ordered
<1>10. Unfenced'
    <2> SUFFICES ASSUME ~overrun, NEW w \in Workers, Busy(w)', ~calls'[w].stale
                 PROVE  /\ status = "ACTIVE" /\ rev = Unrevised
                        /\ \A x \in Writes : x.stamp <= calls'[w].since
        BY <1>2 DEF Unfenced
    <2>1. CASE Busy(w) /\ calls'[w] = calls[w]
        BY <2>1 DEF IndInv, Unfenced
    <2>2. CASE status = "ACTIVE" /\ ~windowed /\ calls'[w].since = now
        BY <2>2, ActiveFacts DEF IndInv, Truthful, Told
    <2> QED  BY <2>1, <2>2
<1>11. Projected'
    BY <1>2 DEF IndInv, Projected, Beats
<1> QED
    BY <1>4, <1>5, <1>6, <1>7, <1>8, <1>9, <1>10, <1>11 DEF IndInv

\* An unfenced call begins, or ends without effect.
LEMMA CallStep ==
    ASSUME IndInv, TypeOK', NEW w \in Workers, BeginCall(w) \/ FinishTooLate(w)
    PROVE  IndInv'
<1>1. /\ UNCHANGED <<creator, pc, status, rev, windowed, past, now, sent, row, granted>>
      /\ UNCHANGED <<lost, overrun, unchecked>>
    BY DEF BeginCall, FinishTooLate, live, flags
<1>2. TypeOK /\ now' >= now /\ calls \in [Workers -> Calls]
    BY <1>1 DEF IndInv, TypeOK
<1>3. ASSUME NEW v \in Workers, Busy(v)'
      PROVE  \/ Busy(v) /\ calls'[v] = calls[v]
             \/ status = "ACTIVE" /\ ~windowed /\ calls'[v].since = now
    <2>1. CASE v # w
        BY <1>2, <1>3, <2>1 DEF BeginCall, FinishTooLate, Busy
    <2>2. CASE v = w /\ BeginCall(w)
        BY <1>2, <1>3, <2>2 DEF BeginCall
    <2>3. CASE v = w /\ FinishTooLate(w)
        BY <1>2, <1>3, <2>3 DEF FinishTooLate, Busy, Landed, Kinds
    <2> QED  BY <2>1, <2>2, <2>3
<1> QED  BY <1>1, <1>2, <1>3, QuietStep

LEMMA InvStep == IndInv /\ [Next]_vars => IndInv'
<1> SUFFICES ASSUME IndInv, [Next]_vars PROVE IndInv'
    OBVIOUS
<1> TypeOK'
    BY TypeStep DEF IndInv
<1> now \in Int /\ now <= now
    BY DEF IndInv, TypeOK
<1>1. CASE Deliver
    BY <1>1, DeliverStep
<1>2. CASE Lose
    BY <1>2, QuietStep DEF Lose, live, Busy
<1>3. CASE RecordOwner
    BY <1>3, RecordOwnerStep
<1>4. CASE CreatorDies
    BY <1>4, QuietStep DEF CreatorDies, live, flags, Busy
<1>5. CASE CreateWithSchedule
    BY <1>5, CreateStep
<1>6. CASE RecordAnonymous
    BY <1>6, RecordAnonymousStep
<1>7. CASE Commit
    <2>1. PICK st \in Statuses :
              /\ Store(st, rev + 1, st = "ACTIVE")
              /\ sent' = sent \cup {Upsert(None, None, st, rev + 1, now)}
        BY <1>7 DEF Commit
    <2>2. (st = "ACTIVE") \in BOOLEAN /\ (st = "ACTIVE" => (st = "ACTIVE"))
        OBVIOUS
    <2> QED  BY <1>7, <2>1, <2>2, FencedStep DEF Commit
<1>8. CASE Finish
    <2>1. PICK st \in {"EXPIRED", "CANCELLED"} :
              /\ Store(st, rev + 1, FALSE)
              /\ sent' = sent \cup {Upsert(None, None, st, rev + 1, now)}
        BY <1>8 DEF Finish
    <2>2. st \in Statuses /\ st # "ACTIVE"
        BY DEF Statuses, Endings
    <2> QED  BY <1>8, <2>1, <2>2, FencedStep DEF Finish
<1>9. ASSUME NEW w \in Workers, LegacySave(w) PROVE IndInv'
    BY <1>9, LegacySaveStep
<1>10. ASSUME NEW w \in Workers, FinishUnfenced(w) PROVE IndInv'
    BY <1>10, FinishUnfencedStep
<1>11. ASSUME NEW w \in Workers, BeginCall(w) \/ FinishTooLate(w) PROVE IndInv'
    BY <1>11, CallStep
<1>12. CASE Migrate
    BY <1>12, MigrateStep
<1>13. CASE Tick
    BY <1>13, QuietStep DEF Tick, live, flags, Busy
<1>14. CASE PassCheck
    BY <1>14, QuietStep DEF PassCheck, live, flags, Busy
<1>15. CASE PassUnchecked
    BY <1>15, QuietStep DEF PassUnchecked, live, Busy
<1>16. CASE \E c \in Clients, u \in Users : ClaimAnonymous(c, u)
    BY <1>16, ClaimStep
<1>17. CASE UNCHANGED vars
    BY <1>17, QuietStep DEF vars, Busy
<1> QED
    BY <1>1, <1>2, <1>3, <1>4, <1>5, <1>6, <1>7, <1>8, <1>9, <1>10, <1>11, <1>12,
       <1>13, <1>14, <1>15, <1>16, <1>17 DEF Next

\* The inductive invariant holds in every reachable state of the history.
THEOREM Invariance == Spec => []IndInv
    BY InvInit, InvStep, PTL DEF Spec

\* However late, lost or reordered the upserts of _record_history are, the row
\* shows what the revision it names stood for, and the ending once all arrived;
\* the status is the only one and the ending is shown unless a call without a
\* revision to compare landed on a write it had not read.
THEOREM Truth == Spec => []HistorySound
<1>1. IndInv => HistorySound
    <2> SUFFICES ASSUME IndInv PROVE HistorySound
        OBVIOUS
    <2>1. TypeOK
        BY DEF IndInv
    <2>2. RowTruthful
        <3> SUFFICES ASSUME row # None, row.rev >= 0, status # "none"
                     PROVE  /\ row.status \in past[row.rev]
                            /\ ~overrun => past[row.rev] = {row.status}
            BY DEF RowTruthful
        <3>1. row \in Writes /\ row \in Upserts
            BY <2>1 DEF Writes, TypeOK
        <3>2. row.rev \in 0..MaxRev /\ row.status \in past[row.rev]
            BY <3>1, HistoryAssumption DEF IndInv, Truthful, Told, Upserts, Unrevised
        <3>3. ~overrun => \A a, b \in past[row.rev] : a = b
            BY <3>2 DEF IndInv, Ordered
        <3> QED  BY <3>2, <3>3
    <2>3. OutcomeProjected
        BY DEF IndInv, Projected, OutcomeProjected
    <2> QED  BY <2>1, <2>2, <2>3 DEF HistorySound
<1> QED  BY <1>1, Invariance, PTL

\* The ownership write of an account's creation precedes its watch, so no check
\* of _forbid_if_owned_by_another_account lets another caller in, while every
\* process that answers has the projection to check against.
THEOREM Guarding == Spec => []AccountWatchGuarded
<1>1. IndInv => AccountWatchGuarded
    BY DEF IndInv, Guarded, AccountWatchGuarded
<1> QED  BY <1>1, Invariance, PTL

-----------------------------------------------------------------------------
(* What a step may do to the row                                           *)

\* A step replaces a row by a fresh upsert, by a claim, or not at all.
LEMMA RowEffect ==
    ASSUME IndInv, [Next]_vars, row # None
    PROVE  /\ row \in Upserts
           /\ \/ row' = row
              \/ \E w \in sent : w \in Upserts /\ Fresh(w) /\ row' = Merged(w)
              \/ row.user = None /\ \E u \in Users : row' = [row EXCEPT !.user = u]
<1>1. TypeOK /\ row \in Upserts /\ sent \subseteq Upserts
    BY DEF IndInv, TypeOK
<1>2. CASE Deliver
    BY <1>1, <1>2, RecordCases DEF Deliver
<1>3. CASE RecordOwner
    BY <1>3 DEF RecordOwner, IndInv, Birth
<1>4. CASE \E c \in Clients, u \in Users : ClaimAnonymous(c, u)
    BY <1>1, <1>4 DEF ClaimAnonymous, ListedForOwner
<1>5. CASE UNCHANGED row
    BY <1>1, <1>5
<1> QED
    BY <1>2, <1>3, <1>4, <1>5 DEF Next, vars, Lose, CreatorDies, CreateWithSchedule,
       RecordAnonymous, Commit, Finish, BeginCall, LegacySave, FinishUnfenced,
       FinishTooLate, Lands, Migrate, Tick, PassCheck, PassUnchecked, Store

\* No write of any process takes back the progress or the owners of a row.
THEOREM Keeping == Spec => HistoryKept
<1> DEFINE Kept ==
        row # None =>
          /\ row' # None
          /\ row'.rev >= row.rev
          /\ row'.rev = Unrevised => row'.stamp >= row.stamp
          /\ row.status \in Endings =>
                row' \in {[row EXCEPT !.user = u] : u \in Callers}
<1> DEFINE Owner ==
        row # None =>
          /\ row.client # None => row'.client = row.client
          /\ row.user # None => row'.user = row.user
<1>1. ASSUME IndInv, [Next]_vars, row # None PROVE Kept /\ Owner
    <2>1. row \in Upserts /\ row.client \in {None, creator.client}
        BY <1>1, RowEffect DEF IndInv, Owned
    <2>2. row.rev \in Int /\ row.stamp \in Int /\ row.user \in Callers
        BY <2>1, HistoryAssumption DEF Upserts, Unrevised
    <2>3. CASE row' = row
        <3>1. row = [row EXCEPT !.user = row.user]
            BY <2>1 DEF Upserts
        <3> QED  BY <1>1, <2>2, <2>3, <3>1
    <2>4. CASE \E w \in sent : w \in Upserts /\ Fresh(w) /\ row' = Merged(w)
        <3>1. PICK w \in sent : w \in Upserts /\ Fresh(w) /\ row' = Merged(w)
            BY <2>4
        <3>2. w.user = None /\ w.client \in {None, creator.client}
            BY <1>1 DEF IndInv, Owned
        <3>3. /\ row' \in Upserts /\ row'.rev = w.rev /\ row'.stamp = w.stamp
              /\ row.client # None => row'.client = row.client
              /\ row'.user = row.user
            BY <2>1, <3>1, <3>2, MergedRow
        <3>4. w.rev \in Int /\ w.stamp \in Int
            BY <3>1, HistoryAssumption DEF Upserts, Unrevised
        <3>5. /\ row.status = "ACTIVE" /\ w.rev >= row.rev
              /\ w.rev = Unrevised => w.stamp >= row.stamp
            <4>1. row.rev >= Unrevised
                BY <2>1, HistoryAssumption DEF Upserts, Unrevised
            <4> QED  BY <2>2, <3>1, <3>4, <4>1 DEF Fresh, Unrevised
        <3> QED  BY <3>3, <3>5, NoneIsNoRow DEF Endings
    <2>5. CASE row.user = None /\ \E u \in Users : row' = [row EXCEPT !.user = u]
        <3>1. PICK u \in Users : row' = [row EXCEPT !.user = u]
            BY <2>5
        <3>2. /\ row' \in Upserts /\ row'.rev = row.rev /\ row'.stamp = row.stamp
              /\ row'.client = row.client /\ u \in Callers
            BY <2>1, <3>1 DEF Upserts, Callers
        <3> QED  BY <2>2, <2>5, <3>1, <3>2, NoneIsNoRow
    <2>6. \/ row' = row
          \/ \E w \in sent : w \in Upserts /\ Fresh(w) /\ row' = Merged(w)
          \/ row.user = None /\ \E u \in Users : row' = [row EXCEPT !.user = u]
        BY <1>1, RowEffect
    <2> QED  BY <2>3, <2>4, <2>5, <2>6
<1>2. IndInv /\ [Next]_vars => [Kept]_vars /\ [Owner]_vars
    BY <1>1
<1>3. Spec => [][Kept]_vars /\ [][Owner]_vars
    BY <1>2, Invariance, PTL DEF Spec
<1> QED  BY <1>3, PTL DEF HistoryKept, RowNeverRegresses, OwnershipKept
=============================================================================
