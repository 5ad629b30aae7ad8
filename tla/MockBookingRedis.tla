-------------------------- MODULE MockBookingRedis --------------------------
(***************************************************************************)
(* The Redis representation of the mock provider's state: slot keys, the   *)
(* touch index `all', the eviction index `lru' (unpinned slots only), pins *)
(* as a sorted set with an owner hash and a set per operation, bookings and*)
(* tombstones with their expiry indexes.  Scripts are atomic; get_booking  *)
(* and book_slot are a read followed by a second round trip.  The module   *)
(* implements MockBooking.                                                 *)
(***************************************************************************)
EXTENDS MockBookingLimits

CONSTANTS Sids, IdKeys, OpIds,   \* Slots, Keys and Ops of MockBooking
          KeyGrace,  \* Redis keeps a record this much longer than it is protected
          MaxClock,  \* bound: the clock
          Callers,   \* concurrent get_booking and book_slot calls
          Empty      \* the confirmation_json of a slot that was gone at read time

Tombs == [key : IdKeys, until : Nat]
Pins == [op : OpIds, until : Nat]
Reservations == [slot : Sids, until : Nat]
PubRecords == [op : OpIds, now : Nat, cands : Seq(Sids), next : Nat \ {0},
                 admitted : SUBSET Sids]
Scripts == [op : OpIds, now : Nat, cands : Seq(Sids), next : Nat \ {0},
            admitted : SUBSET Sids, before : [Sids -> Pins \cup {None}]]
Calls == [kind : {"get", "book"}, slot : Sids \cup {None}, key : IdKeys, now : Nat,
          raw : Sids \cup {Empty}]

RedisAssumption ==
    /\ IsFiniteSet(Sids) /\ IsFiniteSet(IdKeys)
    /\ {Capacity, IdleTTL, PinTTL, Retention, KeyGrace, BatchSize, Skew, MaxClock} \subseteq Nat
    /\ None \notin Sids /\ None \notin OpIds /\ None # Empty /\ None \notin Nat
    /\ None \notin Tombs /\ None \notin Pins /\ None \notin Reservations
    /\ None \notin PubRecords
    /\ None \notin Scripts /\ None \notin Calls

VARIABLES clock,
          slotkey,   \* slots with a prefix:slot:<sid> key
          all, lru,  \* sorted sets: last touch
          pin, pinowner, pinop,
          booking, bookexp,
          booked, tombexp,
          script,    \* the publish script under way
          call,      \* what each caller read before its second round trip
          offered,   \* history: slots some search returned
          held       \* history: the slot each key's last BOOKED script took

keys == <<slotkey, all, lru, pin, pinowner, pinop, booking, bookexp, booked, tombexp>>
redisVars == <<clock, keys, script, call, offered, held>>

Nil(S) == [x \in S |-> None]

RedisInit ==
    /\ clock = 0
    /\ slotkey = {}
    /\ all = Nil(Sids) /\ lru = Nil(Sids)
    /\ pin = Nil(Sids) /\ pinowner = Nil(Sids)
    /\ pinop = [o \in OpIds |-> {}]
    /\ booking = Nil(IdKeys) /\ bookexp = Nil(IdKeys)
    /\ booked = Nil(Sids) /\ tombexp = Nil(Sids)
    /\ script = None
    /\ call = Nil(Callers)
    /\ offered = {}
    /\ held = Nil(IdKeys)

Members(zset) == {x \in DOMAIN zset : zset[x] # None}
ZRem(zset, S) == [x \in DOMAIN zset |-> IF x \in S THEN None ELSE zset[x]]
UpTo(zset, t) == {x \in Members(zset) : zset[x] <= t}
Lowest(zset) == {x \in Members(zset) : \A y \in Members(zset) : zset[x] <= zset[y]}
FirstOf(zset, t) ==
    {S \in SUBSET UpTo(zset, t) :
        /\ Cardinality(S) <= BatchSize
        /\ Cardinality(S) < BatchSize => S = UpTo(zset, t)
        /\ \A x \in S, y \in UpTo(zset, t) \ S : zset[x] <= zset[y]}

\* A call's clock reading is at most Skew old when its last step runs.
Recent(t) == t <= clock /\ clock - t <= Skew
Recents == {t \in 0..clock : Recent(t)}

NoScript == script = None

\* Slots return to the eviction index with the score of their last touch.
Returned(S) ==
    [s \in Sids |-> IF s \in S \cap slotkey /\ all[s] # None THEN all[s] ELSE lru[s]]

\* Mutation: lapsed pins go, but their slots do not return to the index.
ReconcilePinsForgets(t) ==
    LET stale == UpTo(pin, t)
    IN  /\ pin' = ZRem(pin, stale)
        /\ pinowner' = ZRem(pinowner, stale)
        /\ pinop' = [o \in OpIds |-> pinop[o] \ {s \in stale : pinowner[s] = o}]
        /\ lru' = lru

\* reconcile_pins, at the head of the publish and cleanup scripts.
ReconcilePins(t) ==
    LET stale == UpTo(pin, t)
    IN  /\ pin' = ZRem(pin, stale)
        /\ pinowner' = ZRem(pinowner, stale)
        /\ pinop' = [o \in OpIds |-> pinop[o] \ {s \in stale : pinowner[s] = o}]
        /\ lru' = Returned(stale)

-----------------------------------------------------------------------------
(* PUBLISH_AND_FILTER: one step per candidate of the script                *)

\* `before' remembers the pins as the script found them.
PublishScript(op, cands, t) ==
    /\ NoScript
    /\ ReconcilePins(t)
    /\ script' = [op |-> op, now |-> t, cands |-> cands, next |-> 1, admitted |-> {},
                  before |-> [s \in Sids |->
                     IF pin[s] # None /\ pin[s] > t
                     THEN [op |-> pinowner[s], until |-> pin[s]] ELSE None]]
    /\ UNCHANGED <<clock, slotkey, all, booking, bookexp, booked, tombexp, call, offered, held>>

Sid == script.cands[script.next]
HasNext == script # None /\ script.next <= Len(script.cands)
Skip == booked[Sid] # None /\ booked[Sid].until > script.now

\* The script's pin(sid): ownership moves to this operation.
PinAndAdmit(gone) ==
    /\ lru' = ZRem(lru, gone \cup {Sid})
    /\ pinowner' = [pinowner EXCEPT ![Sid] = script.op]
    /\ pinop' = [o \in OpIds |->
                    IF o = script.op THEN pinop[o] \cup {Sid} ELSE pinop[o] \ {Sid}]
    /\ pin' = [pin EXCEPT ![Sid] = script.now + PinTTL]
    /\ offered' = offered \cup {Sid}
    /\ script' = [script EXCEPT !.next = @ + 1, !.admitted = @ \cup {Sid}]

Touch ==
    /\ HasNext /\ ~Skip /\ Sid \in slotkey
    /\ all' = [all EXCEPT ![Sid] = script.now]
    /\ PinAndAdmit({})
    /\ UNCHANGED <<clock, slotkey, booking, bookexp, booked, tombexp, call, held>>

\* A full index gives up the lowest score of lru.
Admit ==
    /\ HasNext /\ ~Skip /\ Sid \notin slotkey
    /\ \E gone \in IF Cardinality(Members(all)) >= Capacity
                   THEN {{v} : v \in Lowest(lru)} ELSE {{}} :
          /\ slotkey' = (slotkey \ gone) \cup {Sid}
          /\ all' = [ZRem(all, gone) EXCEPT ![Sid] = script.now]
          /\ PinAndAdmit(gone)
    /\ UNCHANGED <<clock, booking, bookexp, booked, tombexp, call, held>>

Omit ==
    /\ HasNext
    /\ \/ Skip
       \/ /\ Sid \notin slotkey
          /\ Cardinality(Members(all)) >= Capacity
          /\ Members(lru) = {}
    /\ script' = [script EXCEPT !.next = @ + 1]
    /\ UNCHANGED <<clock, keys, call, offered, held>>

PublishDone ==
    /\ script # None /\ script.next > Len(script.cands)
    /\ script' = None
    /\ UNCHANGED <<clock, keys, call, offered, held>>

-----------------------------------------------------------------------------
(* get_booking and book_slot                                               *)

\* GET booking; a missing key is answered at once.
GetRead(c, k) ==
    /\ NoScript /\ call[c] = None
    /\ booking[k] # None
    /\ call' = [call EXCEPT ![c] =
                  [kind |-> "get", slot |-> None, key |-> k, now |-> clock, raw |-> booking[k]]]
    /\ UNCHANGED <<clock, keys, script, offered, held>>

\* ZSCORE bookexp decides whether the record read earlier is still protected.
GetScore(c) ==
    /\ NoScript /\ call[c] # None /\ call[c].kind = "get"
    /\ call' = [call EXCEPT ![c] = None]
    /\ UNCHANGED <<clock, keys, script, offered, held>>

\* GET slot: the confirmation is built from what it returns.
BookRead(c, s, k) ==
    /\ NoScript /\ call[c] = None
    /\ s \in offered
    /\ call' = [call EXCEPT ![c] =
                  [kind |-> "book", slot |-> s, key |-> k, now |-> clock,
                   raw |-> IF s \in slotkey THEN s ELSE Empty]]
    /\ UNCHANGED <<clock, keys, script, offered, held>>

\* Mutation: the script does not look whether the slot is still published.
BooksUnpublished(s, k, t) ==
    /\ ~(booking[k] # None /\ bookexp[k] # None /\ bookexp[k] > t)
    /\ ~(booked[s] # None /\ booked[s].until > t /\ booked[s].key # k)

\* The script gets past EXISTING, UNAVAILABLE and NOTFOUND.
Books(s, k, t) ==
    /\ ~(booking[k] # None /\ bookexp[k] # None /\ bookexp[k] > t)
    /\ ~(booked[s] # None /\ booked[s].until > t /\ booked[s].key # k)
    /\ s \in slotkey

BookScript(c) ==
    /\ NoScript /\ call[c] # None /\ call[c].kind = "book"
    /\ LET s == call[c].slot  k == call[c].key  until == call[c].now + Retention
       IN  IF Books(s, k, call[c].now)
           THEN /\ booking' = [booking EXCEPT ![k] = call[c].raw]
                /\ bookexp' = [bookexp EXCEPT ![k] = until]
                /\ booked' = [booked EXCEPT ![s] = [key |-> k, until |-> until]]
                /\ tombexp' = [tombexp EXCEPT ![s] = until]
                /\ slotkey' = slotkey \ {s}
                /\ all' = ZRem(all, {s}) /\ lru' = ZRem(lru, {s})
                /\ pin' = ZRem(pin, {s}) /\ pinowner' = ZRem(pinowner, {s})
                /\ pinop' = [o \in OpIds |-> IF o = pinowner[s] THEN pinop[o] \ {s} ELSE pinop[o]]
                /\ held' = [held EXCEPT ![k] = s]
           ELSE UNCHANGED <<keys, held>>
    /\ call' = [call EXCEPT ![c] = None]
    /\ UNCHANGED <<clock, script, offered>>

-----------------------------------------------------------------------------
(* Release, cleanup and native expiry                                      *)

ReleaseScript(op) ==
    /\ NoScript
    /\ LET mine == {s \in pinop[op] : pinowner[s] = op}
       IN  /\ pin' = ZRem(pin, mine) /\ pinowner' = ZRem(pinowner, mine)
           /\ lru' = Returned(mine)
    /\ pinop' = [pinop EXCEPT ![op] = {}]
    /\ UNCHANGED <<clock, slotkey, all, booking, bookexp, booked, tombexp, script, call,
                   offered, held>>

\* The cleanup script reads lru after its reconcile_pins.
CleanupScript(t) ==
    /\ NoScript
    /\ LET stale == UpTo(pin, t)  index == Returned(stale)
       IN  /\ pin' = ZRem(pin, stale) /\ pinowner' = ZRem(pinowner, stale)
           /\ pinop' = [o \in OpIds |-> pinop[o] \ {s \in stale : pinowner[s] = o}]
           /\ \E idle \in IF t >= IdleTTL THEN FirstOf(index, t - IdleTTL) ELSE {{}} :
                 /\ lru' = ZRem(index, idle) /\ all' = ZRem(all, idle)
                 /\ slotkey' = slotkey \ idle
    /\ \E ekeys \in FirstOf(bookexp, t) :
          booking' = ZRem(booking, ekeys) /\ bookexp' = ZRem(bookexp, ekeys)
    /\ \E etombs \in FirstOf(tombexp, t) :
          booked' = ZRem(booked, etombs) /\ tombexp' = ZRem(tombexp, etombs)
    /\ UNCHANGED <<clock, script, call, offered, held>>

\* PEXPIRE of the booking, of the tombstone and of an operation's pin set.
ExpireBooking(k) ==
    /\ NoScript
    /\ booking[k] # None /\ bookexp[k] + KeyGrace <= clock
    /\ booking' = [booking EXCEPT ![k] = None]
    /\ UNCHANGED <<clock, slotkey, all, lru, pin, pinowner, pinop, bookexp, booked, tombexp,
                   script, call, offered, held>>

ExpireTomb(s) ==
    /\ NoScript
    /\ booked[s] # None /\ booked[s].until + KeyGrace <= clock
    /\ booked' = [booked EXCEPT ![s] = None]
    /\ UNCHANGED <<clock, slotkey, all, lru, pin, pinowner, pinop, booking, bookexp, tombexp,
                   script, call, offered, held>>

ExpirePinop(op) ==
    /\ NoScript
    /\ pinop[op] # {} /\ \A s \in pinop[op] : pin[s] <= clock
    /\ pinop' = [pinop EXCEPT ![op] = {}]
    /\ UNCHANGED <<clock, slotkey, all, lru, pin, pinowner, booking, bookexp, booked, tombexp,
                   script, call, offered, held>>

ClockTick ==
    /\ NoScript
    /\ clock < MaxClock
    /\ \A c \in Callers : call[c] # None => clock + 1 - call[c].now <= Skew
    /\ clock' = clock + 1
    /\ UNCHANGED <<keys, script, call, offered, held>>

-----------------------------------------------------------------------------
CandLists ==
    {q \in UNION {[1..n -> Sids] : n \in 1..Cardinality(Sids)} :
        \A i, j \in DOMAIN q : q[i] = q[j] => i = j}

RedisNext ==
    \/ \E op \in OpIds, q \in CandLists, t \in Recents : PublishScript(op, q, t)
    \/ Touch \/ Admit \/ Omit \/ PublishDone
    \/ \E c \in Callers, k \in IdKeys : GetRead(c, k)
    \/ \E c \in Callers : GetScore(c)
    \/ \E c \in Callers, s \in Sids, k \in IdKeys : BookRead(c, s, k)
    \/ \E c \in Callers : BookScript(c)
    \/ \E op \in OpIds : ReleaseScript(op)
    \/ \E t \in Recents : CleanupScript(t)
    \/ \E k \in IdKeys : ExpireBooking(k)
    \/ \E s \in Sids : ExpireTomb(s)
    \/ \E op \in OpIds : ExpirePinop(op)
    \/ ClockTick

RedisSpec == RedisInit /\ [][RedisNext]_redisVars

-----------------------------------------------------------------------------
(* Properties                                                              *)

\* The indexes agree with the slots: `all' ranks exactly the published ones, a
\* pin and its owner come and go together, and outside a script lru holds exactly
\* the published slots without a pin, with their touch.  A slot missing from lru
\* could never be evicted or cleaned; one too many would be taken from a search.
IndexesAgree ==
    /\ Members(all) = slotkey
    /\ Members(pin) = Members(pinowner) /\ Members(pin) \subseteq slotkey
    /\ \A o \in OpIds : \A s \in pinop[o] : pinowner[s] = o
    /\ lru = [s \in Sids |-> IF s \in slotkey /\ pin[s] = None THEN all[s] ELSE None]

\* What the keys say of pins and bookings.
PinView ==
    [s \in Sids |-> IF pin[s] # None THEN [op |-> pinowner[s], until |-> pin[s]] ELSE None]
BookingView ==
    [k \in IdKeys |-> IF booking[k] # None THEN [slot |-> held[k], until |-> bookexp[k]] ELSE None]

Store == INSTANCE MockBooking WITH
    Slots <- Sids, Keys <- IdKeys, Ops <- OpIds, Grace <- KeyGrace,
    MaxTime <- MaxClock, now <- clock,
    slots <- all,
    tombs <- booked,
    bookings <- BookingView,
    pins <- IF script # None THEN script.before ELSE PinView,
    pub <- IF script = None THEN None
           ELSE [op |-> script.op, now |-> script.now, cands |-> script.cands,
                 next |-> script.next, admitted |-> script.admitted]

\* The Redis store makes the decisions of the shared state, MockBooking: its
\* capacity, eviction, pin ownership, booking protection and cleanup, whatever
\* round trips overlap.
StoreSpec == Store!Spec

\* Refuted (README, section 6): a stored booking is a confirmation the store can give back.
ConfirmationStored == \A k \in IdKeys : booking[k] # Empty

\* Refuted (README, section 6): a replay returns the confirmation
\* of the booking that is protected.
ReplayIsCurrent ==
    \A c \in Callers :
        call[c] # None /\ call[c].kind = "get" =>
            LET k == call[c].key
            IN  booking[k] # None /\ bookexp[k] > call[c].now => call[c].raw = booking[k]

-----------------------------------------------------------------------------
(* The invariant behind IndexesAgree and StoreSpec                         *)

\* The values of the keys, of the script and of what a caller has read.
RedisTypeOK ==
    /\ clock \in Nat
    /\ slotkey \in SUBSET Sids
    /\ all \in [Sids -> Nat \cup {None}] /\ lru \in [Sids -> Nat \cup {None}]
    /\ pin \in [Sids -> Nat \cup {None}] /\ pinowner \in [Sids -> OpIds \cup {None}]
    /\ pinop \in [OpIds -> SUBSET Sids]
    /\ booking \in [IdKeys -> Sids \cup {Empty, None}] /\ bookexp \in [IdKeys -> Nat \cup {None}]
    /\ booked \in [Sids -> Tombs \cup {None}] /\ tombexp \in [Sids -> Nat \cup {None}]
    /\ script \in Scripts \cup {None}
    /\ call \in [Callers -> Calls \cup {None}]
    /\ offered \in SUBSET Sids
    /\ held \in [IdKeys -> Sids \cup {None}]

\* An expiry index outlives the record it is of.
RecordsIndexed ==
    /\ \A k \in IdKeys : booking[k] # None => bookexp[k] # None /\ held[k] # None
    /\ \A s \in Sids : booked[s] # None => tombexp[s] = booked[s].until

\* A release finds every pin of its operation that has not lapsed.
PinsFound == \A s \in Sids : pin[s] # None => s \in pinop[pinowner[s]] \/ pin[s] <= clock

\* While a script runs, the pins are those it found live and those it has set.
ScriptPins ==
    script # None =>
        /\ \A s \in Sids : script.before[s] # None => script.before[s].until > script.now
        /\ \A s \in Sids : PinView[s] = IF s \in script.admitted
                                       THEN [op |-> script.op, until |-> script.now + PinTTL]
                                       ELSE script.before[s]

\* A caller's clock reading is recent when its second round trip runs.
CallsRecent ==
    \A c \in Callers : call[c] # None =>
        Recent(call[c].now) /\ (call[c].kind = "book" => call[c].slot # None)

RedisInv == RedisTypeOK /\ IndexesAgree /\ RecordsIndexed /\ PinsFound /\ ScriptPins /\ CallsRecent
=============================================================================
