---------------------------- MODULE WatchHistory ----------------------------
(***************************************************************************)
(* The PostgreSQL projection of one watch (WatchHistoryRepository) as the  *)
(* service feeds it and the API reads it.  Every transition of the live    *)
(* watch sends one upsert; upserts of several processes arrive in any      *)
(* order or not at all.  The row alone knows who owns the watch.           *)
(*                                                                         *)
(* A watch stored before sidecars existed is also written by calls that no *)
(* revision fences: the poll of such a record, and on Redis a cancel or an *)
(* expiry that read no sidecar.  They read the watch and land later,       *)
(* whatever is stored by then.                                             *)
(***************************************************************************)
EXTENDS Integers, FiniteSets

CONSTANTS Clients,    \* anonymous client ids
          Users,      \* accounts
          None,       \* no client, no account, no row
          Workers,    \* bound: unfenced calls of a behaviour, one per worker
          MaxRev,     \* bound: revisions of the live watch
          MaxTime     \* bound: clock of the pre-sidecar writes

VARIABLES creator,   \* the client id and account the creation was called with
          pc,        \* the creation: "new", "owned", "created", "done" or "refused"
          status,    \* of the live watch; "none" before creation
          rev,       \* its revision, Unrevised without a readable sidecar
          windowed,  \* the sidecar has an open window
          calls,     \* the unfenced call of each worker
          now,       \* clock of the pre-sidecar writes
          sent,      \* upserts under way
          row,       \* the projection's row
          granted,   \* callers that passed the ownership check of a request
          lost,      \* history: an upsert failed
          overrun,   \* history: an unfenced call landed on a write it had not read
          unchecked, \* history: a process without projection answered a request
          past       \* history: the statuses each revision stood for

vars == <<creator, pc, status, rev, windowed, calls, now, sent, row, granted, lost,
          overrun, unchecked, past>>
live == <<status, rev, windowed, past>>
flags == <<lost, overrun, unchecked>>

Unrevised == -1
Endings == {"FOUND", "BOOKED", "EXPIRED", "CANCELLED"}
Statuses == {"ACTIVE"} \cup Endings
Callers == Users \cup {None}
Upserts == [client : Clients \cup {None}, user : Callers, status : Statuses,
            rev : Unrevised..MaxRev, stamp : 0..MaxTime]

\* An unfenced call: what it is to do, its earliest reading of the clock, and
\* whether the watch was written since its first read.
Kinds == {"poll", "CANCELLED", "EXPIRED"}
NoCall == [kind |-> "none", since |-> 0, stale |-> FALSE]
Landed == [kind |-> "landed", since |-> 0, stale |-> FALSE]
Calls == {NoCall, Landed} \cup [kind : Kinds, since : 0..MaxTime, stale : BOOLEAN]

ASSUME HistoryAssumption ==
    /\ None \notin Clients \cup Users \cup Upserts
    /\ MaxRev \in Nat \ {0} /\ MaxTime \in Nat

Upsert(client, user, st, r, stamp) ==
    [client |-> client, user |-> user, status |-> st, rev |-> r, stamp |-> stamp]

\* A watch is created through create(), or was stored before sidecars existed.
Init ==
    /\ creator \in [client : Clients \cup {None}, user : Callers]
    /\ \/ pc = "new" /\ status = "none"
       \/ pc = "done" /\ status = "ACTIVE" /\ creator = [client |-> None, user |-> None]
    /\ rev = Unrevised
    /\ windowed = FALSE
    /\ calls = [w \in Workers |-> NoCall]
    /\ now = 0
    /\ sent = {}
    /\ row = None
    /\ granted = {}
    /\ lost = FALSE
    /\ overrun = FALSE
    /\ unchecked = FALSE
    /\ past = [r \in 0..MaxRev |-> {}]

-----------------------------------------------------------------------------
(* The upsert                                                              *)

\* ON CONFLICT ... WHERE: only an active row is replaced, by a later revision;
\* writes without revision are ordered by updated_at.
Fresh(w) ==
    /\ row.status = "ACTIVE"
    /\ \/ w.rev > row.rev
       \/ w.rev = Unrevised /\ row.rev = Unrevised /\ w.stamp >= row.stamp

Coalesce(a, b) == IF a # None THEN a ELSE b

\* Mutation: the row takes the owner of the latest write, given or not.
ReplacedBy(w) == w

\* The row after a fresh write: an absent owner keeps the recorded one.
Merged(w) == [w EXCEPT !.client = Coalesce(w.client, row.client),
                       !.user = Coalesce(w.user, row.user)]

Record(w) ==
    row' = IF row = None THEN w ELSE IF Fresh(w) THEN Merged(w) ELSE row

\* An upsert of _record_history reaches the database.
Deliver ==
    /\ \E w \in sent : Record(w) /\ sent' = sent \ {w}
    /\ UNCHANGED <<creator, pc, live, calls, now, granted, flags>>

\* It fails, or its process dies first or has no projection: never retried.
Lose ==
    /\ \E w \in sent : sent' = sent \ {w}
    /\ lost' = TRUE
    /\ UNCHANGED <<creator, pc, live, calls, now, row, granted, overrun, unchecked>>

-----------------------------------------------------------------------------
(* WatchService.create                                                     *)

\* Mutation: the account's ownership is recorded like an anonymous one.
RecordOwnerLater ==
    /\ pc = "new"
    /\ creator.user # None
    /\ pc' = "owned"
    /\ sent' = sent \cup {Upsert(creator.client, creator.user, "ACTIVE", 0, now)}
    /\ UNCHANGED <<creator, row, granted, flags, live, calls, now>>

\* An account's watch is recorded before it exists.  A failed write, or a
\* process without projection, refuses the creation, whether or not the row
\* was stored.
RecordOwner ==
    /\ pc = "new"
    /\ creator.user # None
    /\ \/ pc' = "owned"
          /\ Record(Upsert(creator.client, creator.user, "ACTIVE", 0, now))
       \/ pc' = "refused"
          /\ (\/ Record(Upsert(creator.client, creator.user, "ACTIVE", 0, now))
              \/ UNCHANGED row)
    /\ UNCHANGED <<creator, sent, granted, flags, live, calls, now>>

\* The creating process dies between the ownership write and the live watch.
CreatorDies ==
    /\ pc = "owned"
    /\ pc' = "refused"
    /\ UNCHANGED <<creator, live, calls, now, sent, row, granted, flags>>

\* create_with_schedule: the watch and its marker are live from here on.
CreateWithSchedule ==
    /\ IF creator.user = None THEN pc = "new" ELSE pc = "owned"
    /\ pc' = "created"
    /\ status' = "ACTIVE"
    /\ rev' = 0
    /\ windowed' = TRUE
    /\ past' = [past EXCEPT ![0] = {"ACTIVE"}]
    /\ UNCHANGED <<creator, calls, now, sent, row, granted, flags>>

\* An anonymous creation records its owner once the watch is live.
RecordAnonymous ==
    /\ pc = "created"
    /\ pc' = "done"
    /\ sent' = IF creator.user = None
               THEN sent \cup {Upsert(creator.client, None, "ACTIVE", 0, now)}
               ELSE sent
    /\ UNCHANGED <<creator, live, calls, now, row, granted, flags>>

-----------------------------------------------------------------------------
(* Transitions of the live watch                                           *)

\* Whatever is written, an unfenced call under way has not read it.
Overtaken ==
    [w \in Workers |->
        IF calls[w].kind \in Kinds THEN [calls[w] EXCEPT !.stale = TRUE] ELSE calls[w]]

\* The fenced scripts store the document and the next sidecar together.
Store(st, r, opened) ==
    /\ status' = st
    /\ rev' = r
    /\ windowed' = opened
    /\ past' = [past EXCEPT ![r] = @ \cup {st}]
    /\ calls' = Overtaken
    /\ UNCHANGED <<creator, pc, now, row, granted, flags>>

\* commit_window of a poll: a reschedule or an ending, sent as claim revision + 1.
Commit ==
    /\ status = "ACTIVE"
    /\ windowed
    /\ rev \in 0..(MaxRev - 1)
    /\ \E st \in Statuses :
          /\ Store(st, rev + 1, st = "ACTIVE")
          /\ sent' = sent \cup {Upsert(None, None, st, rev + 1, now)}

\* Mutation: recovery expires a watch in the store and tells nobody.
FinishSilently ==
    /\ status = "ACTIVE"
    /\ rev \in 0..(MaxRev - 1)
    /\ \/ Store("EXPIRED", rev + 1, FALSE) /\ UNCHANGED sent
       \/ /\ granted # {}
          /\ Store("CANCELLED", rev + 1, FALSE)
          /\ sent' = sent \cup {Upsert(None, None, "CANCELLED", rev + 1, now)}

\* cancel (by a caller that passed the check) and expire, having read the
\* sidecar whose revision the script compares: one revision up.
Finish ==
    /\ status = "ACTIVE"
    /\ rev \in 0..(MaxRev - 1)
    /\ \E st \in {"EXPIRED"} \cup (IF granted = {} THEN {} ELSE {"CANCELLED"}) :
          /\ Store(st, rev + 1, FALSE)
          /\ sent' = sent \cup {Upsert(None, None, st, rev + 1, now)}

\* The first read of an unfenced call finds the watch active: a legacy poll
\* without an open window, a cancel or an expiry without a sidecar.
BeginCall(w) ==
    /\ calls[w] = NoCall
    /\ status = "ACTIVE" /\ ~windowed
    /\ \E kind \in Kinds :
          /\ kind # "poll" => rev = Unrevised
          /\ kind = "CANCELLED" => granted # {}
          /\ calls' = [calls EXCEPT ![w] = [kind |-> kind, since |-> now, stale |-> FALSE]]
    /\ UNCHANGED <<creator, pc, live, now, sent, row, granted, flags>>

\* The call of w writes the watch, over what it read or over something newer.
Lands(w) ==
    /\ overrun' = (overrun \/ calls[w].stale)
    /\ calls' = [Overtaken EXCEPT ![w] = Landed]
    /\ UNCHANGED <<creator, pc, now, row, granted, lost, unchecked>>

\* A legacy poll saves its document, whatever is stored by now, and records it
\* without a revision, at the time it took for its now.
LegacySave(w) ==
    /\ calls[w].kind = "poll"
    /\ \E st \in Statuses \ {"CANCELLED"}, stamp \in calls[w].since..now :
          /\ status' = st
          /\ sent' = sent \cup {Upsert(None, None, st, Unrevised, stamp)}
    /\ Lands(w)
    /\ UNCHANGED <<rev, windowed, past>>

\* The script of a cancel or expiry that read no sidecar compares no revision.
\* It blanks a sidecar that exists by now, and the call reports revision 0.
FinishUnfenced(w) ==
    /\ calls[w].kind \in {"CANCELLED", "EXPIRED"}
    /\ status = "ACTIVE"
    /\ status' = calls[w].kind
    /\ rev' = Unrevised
    /\ windowed' = FALSE
    /\ past' = [past EXCEPT ![0] = @ \cup {calls[w].kind}]
    /\ sent' = sent \cup {Upsert(None, None, calls[w].kind, 0, now)}
    /\ Lands(w)

\* Otherwise it finds the watch finished and changes nothing.
FinishTooLate(w) ==
    /\ calls[w].kind \in {"CANCELLED", "EXPIRED"}
    /\ status # "ACTIVE"
    /\ calls' = [calls EXCEPT ![w] = Landed]
    /\ UNCHANGED <<creator, pc, live, now, sent, row, granted, flags>>

\* Recovery opens a window for an active watch without one: it migrates the
\* watch to revision 0, or writes back a sidecar it read.  No write is sent.
Migrate ==
    /\ status = "ACTIVE" /\ ~windowed
    /\ \E r \in {0} \cup {q \in 0..MaxRev : past[q] # {}} : Store("ACTIVE", r, TRUE)
    /\ UNCHANGED sent

\* Only the writes without revision are ordered by the clock.
Tick ==
    /\ rev = Unrevised
    /\ now < MaxTime
    /\ now' = now + 1
    /\ UNCHANGED <<creator, pc, live, calls, sent, row, granted, flags>>

-----------------------------------------------------------------------------
(* What the API reads and changes                                          *)

\* get_account_owner: the enforcement read.
AccountOwner == IF row = None THEN None ELSE row.user

\* _forbid_if_owned_by_another_account, in a process with the projection
Forbidden(u) == AccountOwner # None /\ u # AccountOwner

\* list_for_user and list_for_owner
ListedForUser(u) == row # None /\ row.user = u
ListedForOwner(c) == row # None /\ row.client = c /\ row.user = None

\* A GET or DELETE of the live watch passes the ownership check.
PassCheck ==
    /\ status # "none"
    /\ \E u \in Callers :
          ~Forbidden(u) /\ granted' = granted \cup {u}
    /\ UNCHANGED <<creator, pc, live, calls, now, sent, row, flags>>

\* A process that started without reachable PostgreSQL checks nothing; it has
\* no accounts either, so every caller is anonymous to it.
PassUnchecked ==
    /\ status # "none"
    /\ granted' = granted \cup {None}
    /\ unchecked' = TRUE
    /\ UNCHANGED <<creator, pc, live, calls, now, sent, row, lost, overrun>>

\* claim_anonymous at signup or login
ClaimAnonymous(c, u) ==
    /\ ListedForOwner(c)
    /\ row' = [row EXCEPT !.user = u]
    /\ UNCHANGED <<creator, pc, live, calls, now, sent, granted, flags>>

Next ==
    \/ Deliver
    \/ Lose
    \/ RecordOwner
    \/ CreatorDies
    \/ CreateWithSchedule
    \/ RecordAnonymous
    \/ Commit
    \/ Finish
    \/ \E w \in Workers :
          \/ BeginCall(w) \/ LegacySave(w) \/ FinishUnfenced(w) \/ FinishTooLate(w)
    \/ Migrate
    \/ Tick
    \/ PassCheck
    \/ PassUnchecked
    \/ \E c \in Clients, u \in Users : ClaimAnonymous(c, u)

Spec == Init /\ [][Next]_vars

-----------------------------------------------------------------------------
(* Properties                                                              *)

\* The live watch, the row and the writes under way.
TypeOK ==
    /\ creator \in [client : Clients \cup {None}, user : Callers]
    /\ pc \in {"new", "owned", "created", "done", "refused"}
    /\ status \in {"none"} \cup Statuses
    /\ rev \in Unrevised..MaxRev
    /\ windowed \in BOOLEAN
    /\ calls \in [Workers -> Calls]
    /\ now \in 0..MaxTime
    /\ sent \subseteq Upserts
    /\ row \in Upserts \cup {None}
    /\ granted \subseteq Callers
    /\ lost \in BOOLEAN /\ overrun \in BOOLEAN /\ unchecked \in BOOLEAN
    /\ past \in [0..MaxRev -> SUBSET Statuses]

\* However late and in whatever order upserts arrive, a row that names a
\* revision of the live watch shows a status that revision stood for: its only
\* one, unless an unfenced call landed on a write it had not read.
RowTruthful ==
    row # None /\ pc # "refused" /\ row.rev >= 0 /\ status # "none"
        => /\ row.status \in past[row.rev]
           /\ ~overrun => past[row.rev] = {row.status}

\* The row never goes back: its revision never falls, unrevised writes never
\* replace a later one, and a finished row is final (only a claim touches it).
RowNeverRegresses ==
    [][row # None =>
          /\ row' # None
          /\ row'.rev >= row.rev
          /\ row'.rev = Unrevised => row'.stamp >= row.stamp
          /\ row.status \in Endings =>
                row' \in {[row EXCEPT !.user = u] : u \in Callers}]_vars

\* Once recorded, neither the client nor the account of a row ever changes:
\* no ownerless write erases them and no sign-in steals them.
OwnershipKept ==
    [][row # None =>
          /\ row.client # None => row'.client = row.client
          /\ row.user # None => row'.user = row.user]_vars

\* Neither the progress nor the owner of a row is ever taken back.
HistoryKept == RowNeverRegresses /\ OwnershipKept

\* A watch that an account created is never open to another caller, at any
\* point of its life, even when every other write is late or lost; as long as
\* every process that answers for it has the projection.
AccountWatchGuarded ==
    creator.user # None /\ ~unchecked => granted \subseteq {creator.user}

\* Once every upsert of a finished watch has arrived and none was lost, the row
\* shows how it ended, with a sidecar or without; unless an unfenced call landed
\* on a write it had not read.
OutcomeProjected ==
    status \in Endings /\ sent = {} /\ ~lost /\ ~overrun /\ pc = "done"
        => row # None /\ row.status = status

\* The row tells the truth while writes are late, and the whole of it in the end.
HistorySound == TypeOK /\ RowTruthful /\ OutcomeProjected

\* Refuted (README, section 6): a watch created with a client id
\* is listed for that client, or for the account that claimed it, once every
\* upsert has arrived and none was lost.
ClientWatchListed ==
    "ACTIVE" \in past[0] /\ pc = "done" /\ creator.client # None /\ sent = {} /\ ~lost
        => ListedForOwner(creator.client) \/ \E u \in Users : ListedForUser(u)

\* Refuted (README, section 6): the outcome is projected whatever unfenced calls
\* landed on; a legacy poll that ends a migrated watch writes revision -1, which
\* the row of a later revision refuses.
OutcomeAlwaysProjected ==
    status \in Endings /\ sent = {} /\ ~lost /\ pc = "done"
        => row # None /\ row.status = status
=============================================================================
