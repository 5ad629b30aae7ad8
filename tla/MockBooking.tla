---------------------------- MODULE MockBooking ----------------------------
(***************************************************************************)
(* The shared state of the mock provider: published slots under a capacity,*)
(* search pins that protect them from eviction, idempotent bookings and    *)
(* the tombstones that keep a booked slot from being offered again         *)
(* (MockBookingStateRepository, InMemoryMockBookingStateRepository).       *)
(*                                                                         *)
(* Every operation is handed the caller's clock reading, which is at most  *)
(* Skew behind the clock when the operation takes effect: 0 in the single- *)
(* process store, the length of a round trip with Redis.                   *)
(* publish_and_filter is one step per candidate under the store's lock.    *)
(* A booking is the slot its confirmation names.                           *)
(***************************************************************************)
EXTENDS MockBookingLimits

CONSTANTS Slots, Keys,          \* slot ids; idempotency keys
          Ops,                  \* search operation ids
          Grace,                \* a booking is kept this much longer than protected
          MaxTime               \* bound: the clock

ASSUME MockBookingAssumption ==
    /\ None \notin Ops /\ None \notin Slots
    /\ Capacity \in Nat /\ BatchSize \in Nat
    /\ IdleTTL \in Nat /\ PinTTL \in Nat /\ Grace \in Nat
    /\ Retention \in Nat /\ Skew \in Nat /\ MaxTime \in Nat
    /\ None \notin Nat
    /\ None \notin [key : Keys, until : Nat]
    /\ None \notin [slot : Slots, until : Nat]
    /\ None \notin [op : Ops, until : Nat]
    /\ IsFiniteSet(Slots)

VARIABLES now,       \* the clock
          slots,     \* last touch of each published slot
          tombs,     \* tombstone of each booked slot: its key, its protection
          bookings,  \* booking of each key: its slot, its protection
          pins,      \* the operation that last returned a slot, its expiry
          pub        \* the publish_and_filter that holds the lock

store == <<slots, tombs, bookings, pins>>
vars == <<now, store, pub>>

\* Candidates of one query, in the order the adapter generates them.
Candidates ==
    {q \in UNION {[1..n -> Slots] : n \in 1..Cardinality(Slots)} :
        \A i, j \in DOMAIN q : q[i] = q[j] => i = j}

Init ==
    /\ now = 0
    /\ slots = [s \in Slots |-> None]
    /\ tombs = [s \in Slots |-> None]
    /\ bookings = [k \in Keys |-> None]
    /\ pins = [s \in Slots |-> None]
    /\ pub = None

Live(record, t) == record # None /\ record.until > t
Published == {s \in Slots : slots[s] # None}
Pinned(t) == {s \in Slots : Live(pins[s], t)}

\* The clock readings a caller may come with.
Readings == {t \in 0..now : now - t <= Skew}

Unlocked == pub = None

-----------------------------------------------------------------------------
(* publish_and_filter                                                      *)

\* _expire_pins
LivePins(t) == [s \in Slots |-> IF Live(pins[s], t) THEN pins[s] ELSE None]

PublishBegin(op, cands, t) ==
    /\ Unlocked
    /\ pins' = LivePins(t)
    /\ pub' = [op |-> op, now |-> t, cands |-> cands, next |-> 1, admitted |-> {}]
    /\ UNCHANGED <<now, slots, tombs, bookings>>

Candidate == pub.cands[pub.next]
Considering == pub # None /\ pub.next <= Len(pub.cands)
Pass == pub' = [pub EXCEPT !.next = @ + 1]
Admitted == pub' = [pub EXCEPT !.next = @ + 1, !.admitted = @ \cup {Candidate}]

\* A protected booked slot is never published again.
BookedSlot == Live(tombs[Candidate], pub.now)

SkipBooked ==
    /\ Considering
    /\ BookedSlot
    /\ Pass
    /\ UNCHANGED <<now, store>>

TouchPublished ==
    /\ Considering
    /\ ~BookedSlot
    /\ slots[Candidate] # None
    /\ slots' = [slots EXCEPT ![Candidate] = pub.now]
    /\ Admitted
    /\ UNCHANGED <<now, tombs, bookings, pins>>

\* Mutation: what this search admitted is protected, earlier pins are not.
EvictableOthers == Published \ pub.admitted

\* Neither pinned by an operation nor admitted by this one.
Evictable == Published \ (Pinned(pub.now) \cup pub.admitted)

\* _evict_one: a least recently touched one.  Which of several with the same
\* touch goes is the dictionary's order, or the sorted set's.
Victims == {v \in Evictable : \A e \in Evictable : slots[v] <= slots[e]}

HasRoom == Cardinality(Published) < Capacity

AdmitNew ==
    /\ Considering
    /\ ~BookedSlot
    /\ slots[Candidate] = None
    /\ \/ HasRoom /\ slots' = [slots EXCEPT ![Candidate] = pub.now]
       \/ /\ ~HasRoom
          /\ \E v \in Victims :
                slots' = [slots EXCEPT ![v] = None, ![Candidate] = pub.now]
    /\ Admitted
    /\ UNCHANGED <<now, tombs, bookings, pins>>

\* At capacity with nothing evictable the candidate is omitted.
OmitNew ==
    /\ Considering
    /\ ~BookedSlot
    /\ slots[Candidate] = None
    /\ ~HasRoom /\ Victims = {}
    /\ Pass
    /\ UNCHANGED <<now, store>>

\* The admitted slots are pinned to this operation, whoever pinned them before.
PublishEnd ==
    /\ pub # None /\ pub.next > Len(pub.cands)
    /\ pins' = [s \in Slots |->
                   IF s \in pub.admitted
                   THEN [op |-> pub.op, until |-> pub.now + PinTTL]
                   ELSE pins[s]]
    /\ pub' = None
    /\ UNCHANGED <<now, slots, tombs, bookings>>

PublishStep == SkipBooked \/ TouchPublished \/ AdmitNew \/ OmitNew \/ PublishEnd

-----------------------------------------------------------------------------
(* Booking, replay, release and cleanup                                    *)

\* get_booking, reconcile_booking: the confirmation under a key while it is
\* protected.
GetBooking(k, t) == IF Live(bookings[k], t) THEN bookings[k].slot ELSE None

\* Mutation: a booking does not look for an earlier one of its key.
BookCodeBlind(s, k, t) ==
    CASE Live(tombs[s], t) /\ tombs[s].key # k -> "UNAVAILABLE"
      [] slots[s] = None -> "NOTFOUND"
      [] OTHER -> "BOOKED"

BookCode(s, k, t) ==
    IF Live(bookings[k], t) THEN "EXISTING"
    ELSE IF Live(tombs[s], t) /\ tombs[s].key # k THEN "UNAVAILABLE"
    ELSE IF slots[s] = None THEN "NOTFOUND"
    ELSE "BOOKED"

BookSlot(s, k, t) ==
    /\ Unlocked
    /\ IF BookCode(s, k, t) = "BOOKED"
       THEN /\ bookings' = [bookings EXCEPT ![k] = [slot |-> s, until |-> t + Retention]]
            /\ tombs' = [tombs EXCEPT ![s] = [key |-> k, until |-> t + Retention]]
            /\ slots' = [slots EXCEPT ![s] = None]
            /\ pins' = [pins EXCEPT ![s] = None]
       ELSE UNCHANGED store
    /\ UNCHANGED <<now, pub>>

\* release_operation.  With Redis the set of an operation's pins has a TTL of its
\* own, so the ones that lapsed may be left to the next _expire_pins.
ReleaseOperation(op) ==
    /\ Unlocked
    /\ LET owned == {s \in Slots : pins[s] # None /\ pins[s].op = op}
       IN  \E left \in SUBSET {s \in owned : pins[s].until <= now} :
              pins' = [s \in Slots |-> IF s \in owned \ left THEN None ELSE pins[s]]
    /\ UNCHANGED <<now, slots, tombs, bookings, pub>>

Idle(t) == {s \in Published \ Pinned(t) : slots[s] + IdleTTL <= t}

Expired(records, t) ==
    {x \in DOMAIN records : records[x] # None /\ records[x].until <= t}

\* cleanup: at most a batch of each.  Which ones a full batch leaves for the next
\* pass is not modelled.
Batches(S) == {T \in SUBSET S : Cardinality(T) <= BatchSize}
Without(records, gone) ==
    [x \in DOMAIN records |-> IF x \in gone THEN None ELSE records[x]]

Cleanup(t) ==
    /\ Unlocked
    /\ pins' = LivePins(t)
    /\ \E idle \in Batches(Idle(t)) : slots' = Without(slots, idle)
    /\ \E keys \in Batches(Expired(bookings, t)) : bookings' = Without(bookings, keys)
    /\ \E gone \in Batches(Expired(tombs, t)) : tombs' = Without(tombs, gone)
    /\ UNCHANGED <<now, pub>>

\* The native TTL of a Redis record, Grace after its protection.
LapseBooking(k) ==
    /\ Unlocked
    /\ bookings[k] # None /\ bookings[k].until + Grace <= now
    /\ bookings' = [bookings EXCEPT ![k] = None]
    /\ UNCHANGED <<now, slots, tombs, pins, pub>>

LapseTomb(s) ==
    /\ Unlocked
    /\ tombs[s] # None /\ tombs[s].until + Grace <= now
    /\ tombs' = [tombs EXCEPT ![s] = None]
    /\ UNCHANGED <<now, slots, bookings, pins, pub>>

Tick ==
    /\ Unlocked
    /\ now < MaxTime
    /\ now' = now + 1
    /\ UNCHANGED <<store, pub>>

-----------------------------------------------------------------------------
Next ==
    \/ \E op \in Ops, q \in Candidates, t \in Readings : PublishBegin(op, q, t)
    \/ PublishStep
    \/ \E s \in Slots, k \in Keys, t \in Readings : BookSlot(s, k, t)
    \/ \E op \in Ops : ReleaseOperation(op)
    \/ \E t \in Readings : Cleanup(t)
    \/ \E k \in Keys : LapseBooking(k)
    \/ \E s \in Slots : LapseTomb(s)
    \/ Tick

Spec == Init /\ [][Next]_vars

-----------------------------------------------------------------------------
(* Properties                                                              *)

Publications ==
    [op : Ops, now : Nat, cands : Seq(Slots), next : Nat \ {0},
     admitted : SUBSET Slots]

\* Every entry of the store has the type its dictionary declares.
TypeOK ==
    /\ now \in 0..MaxTime
    /\ slots \in [Slots -> Nat \cup {None}]
    /\ tombs \in [Slots -> [key : Keys, until : Nat] \cup {None}]
    /\ bookings \in [Keys -> [slot : Slots, until : Nat] \cup {None}]
    /\ pins \in [Slots -> [op : Ops, until : Nat] \cup {None}]
    /\ pub = None \/ (pub \in Publications /\ pub.now <= now)

\* However searches overlap, the store never holds more unbooked slots than its
\* capacity: _evict_one frees a place before each admission at the limit.
CapacityRespected == Cardinality(Published) <= Capacity

\* A protected reservation has one holder: the tombstone of its slot names its
\* key with the same protection, so two keys never hold one slot and a key never
\* holds two, although bookings and tombstones expire and are reaped one by one.
OneHolder ==
    /\ \A k \in Keys : Live(bookings[k], now) =>
          tombs[bookings[k].slot] = [key |-> k, until |-> bookings[k].until]
    /\ \A s \in Slots : Live(tombs[s], now) =>
          bookings[tombs[s].key] = [slot |-> s, until |-> tombs[s].until]

\* A search never offers a slot somebody holds, even one whose caller read the
\* clock before the reservation was made (publish_and_filter's tombstone check).
HeldNeverOffered == \A s \in Slots : Live(tombs[s], now) => slots[s] = None

\* The store is sound: its types, its capacity, one holder per reservation, and
\* no offer of a held slot.
StoreSound == TypeOK /\ CapacityRespected /\ OneHolder /\ HeldNeverOffered

\* A slot an operation has pinned leaves the published ones only by being
\* booked: neither another search's eviction nor an idle cleanup takes it.
PinnedKept ==
    [][\A s \in Pinned(now) :
          slots[s] # None /\ slots'[s] = None => tombs'[s] # tombs[s]]_vars

\* While it is protected a reservation neither changes nor disappears: a repeated
\* book_slot replays it, a cleanup that reads an older clock spares it.
ProtectedKept ==
    [][\A k \in Keys : Live(bookings[k], now) => bookings'[k] = bookings[k]]_vars

\* What a caller was promised is kept, for as long as the promise lasts: a pinned
\* slot by eviction and idle cleanup, a reservation by everything.
HeldKept == PinnedKept /\ ProtectedKept
=============================================================================
