-------------------------- MODULE BookingRequests --------------------------
(***************************************************************************)
(* Concurrent one-shot requests (BookingService.execute) over the shared   *)
(* mock provider state, through MockReservationAdapter.  A request awaits  *)
(* the store at every step: replay, search, release of the search's pins,  *)
(* one booking attempt per offered slot, replay.  Equal requests of one    *)
(* owner have one idempotency key.                                         *)
(***************************************************************************)
EXTENDS MockBooking

CONSTANTS Requests,   \* the requests, each its own search operation
          KeyOf,      \* idempotency key of a booking request, None of a search
          QueryOf     \* its candidates, as MockReservationAdapter generates them

ASSUME RequestsAssumption ==
    /\ Requests \subseteq Ops
    /\ KeyOf \in [Requests -> Keys \cup {None}]
    /\ QueryOf \in [Requests -> Candidates \cup {<<>>}]
    /\ None \notin Keys

VARIABLE req          \* where each request is, what its search offered, its answer

rvars == <<vars, req>>

RInit ==
    /\ Init
    /\ req = [r \in Requests |->
                [pc |-> IF KeyOf[r] = None THEN "search" ELSE "replay",
                 offer |-> <<>>, answer |-> None]]

At(r, pc) == req[r].pc = pc /\ Unlocked
Go(r, pc) == req' = [req EXCEPT ![r].pc = pc]
Answer(r, status, answer) ==
    req' = [req EXCEPT ![r].pc = status, ![r].answer = answer]

\* _replayed_booking: the confirmation an equivalent request already created.
ReplayOr(r, pc) ==
    \E t \in Readings :
        /\ IF GetBooking(KeyOf[r], t) # None
           THEN Answer(r, "BOOKED", bookings[KeyOf[r]])
           ELSE Go(r, pc)
        /\ UNCHANGED vars

Replay(r) == At(r, "replay") /\ ReplayOr(r, "search")

\* search_availability: no candidates, no call.
Search(r) ==
    /\ At(r, "search")
    /\ IF QueryOf[r] = <<>>
       THEN Go(r, "empty") /\ UNCHANGED vars
       ELSE /\ \E t \in Readings : PublishBegin(r, QueryOf[r], t)
            /\ Go(r, "publishing")

\* The slots a search admits are offered, in the order of its candidates.
Consider ==
    \/ (SkipBooked \/ OmitNew) /\ UNCHANGED req
    \/ /\ TouchPublished \/ AdmitNew
       /\ req' = [req EXCEPT ![pub.op].offer = Append(@, Candidate)]

EndSearch == PublishEnd /\ req' = [req EXCEPT ![pub.op].pc = "release"]

\* The pins go as soon as the search has its answer, before anything is booked.
Release(r) ==
    /\ At(r, "release")
    /\ ReleaseOperation(r)
    /\ CASE req[r].offer = <<>> -> Go(r, "empty")
         [] KeyOf[r] = None -> Answer(r, "FOUND", None)
         [] OTHER -> Go(r, "book")

\* Mutation: an empty search is sold out at once.
EmptySoldOut(r) ==
    /\ At(r, "empty")
    /\ Answer(r, "NONE", None) /\ UNCHANGED vars

\* Nothing was offered: an equal request may have taken the only slot meanwhile.
EmptySearch(r) ==
    /\ At(r, "empty")
    /\ IF KeyOf[r] = None
       THEN Answer(r, "NONE", None) /\ UNCHANGED vars
       ELSE ReplayOr(r, "NONE")

\* Mutation: the slot the search offered is confirmed whatever book_slot found.
TakenSlot(r) ==
    /\ At(r, "book") /\ req[r].offer # <<>>
    /\ \E t \in Readings :
          /\ BookSlot(Head(req[r].offer), KeyOf[r], t)
          /\ Answer(r, "BOOKED", [slot |-> Head(req[r].offer), until |-> t + Retention])

\* The next offered slot: a lost race falls through to the one after it.
TrySlot(r) ==
    /\ At(r, "book") /\ req[r].offer # <<>>
    /\ \E t \in Readings :
          LET s == Head(req[r].offer)  code == BookCode(s, KeyOf[r], t)
          IN  /\ BookSlot(s, KeyOf[r], t)
              /\ IF code \in {"BOOKED", "EXISTING"}
                 THEN Answer(r, "BOOKED", bookings'[KeyOf[r]])
                 ELSE req' = [req EXCEPT ![r].offer = Tail(@)]

\* Every offered slot was taken: a last replay, then sold out.
OutOfSlots(r) ==
    /\ At(r, "book") /\ req[r].offer = <<>>
    /\ ReplayOr(r, "NONE")

\* Cleanup of the store and time go on around the requests.
Around ==
    /\ \/ Tick
       \/ \E t \in Readings : Cleanup(t)
       \/ \E k \in Keys : LapseBooking(k)
       \/ \E s \in Slots : LapseTomb(s)
    /\ UNCHANGED req

RNext ==
    \/ \E r \in Requests :
          \/ Replay(r) \/ Search(r) \/ Release(r) \/ EmptySearch(r) \/ TrySlot(r)
          \/ OutOfSlots(r)
    \/ Consider \/ EndSearch \/ Around

RSpec == RInit /\ [][RNext]_rvars

-----------------------------------------------------------------------------
(* Properties                                                              *)

\* The phases of a request, and which ones only a booking request is in.
BookingPhases == {"replay", "book", "BOOKED"}
Phases == BookingPhases \cup {"search", "publishing", "release", "empty", "FOUND", "NONE"}

\* Where a request is, what was offered to it and what it was told fit together:
\* only a request with a key books, and its answer is a reservation.
RequestsOK ==
    /\ req \in [Requests -> [pc : Phases, offer : Seq(Slots),
                             answer : [slot : Slots, until : Nat] \cup {None}]]
    /\ \A r \in Requests :
          /\ req[r].pc \in BookingPhases => KeyOf[r] # None
          /\ req[r].pc = "BOOKED" => req[r].answer # None

\* Whoever was told MOCK_BOOKED holds the slot for as long as it is protected:
\* equal requests are told of one reservation, different ones never of the same
\* slot, although pins are released before booking and slots are evicted, taken
\* and cleaned between the search and the booking.
ConfirmedIsHeld ==
    \A r \in Requests :
        req[r].pc = "BOOKED" /\ req[r].answer.until > now =>
            /\ bookings[KeyOf[r]] = req[r].answer
            /\ tombs[req[r].answer.slot] = [key |-> KeyOf[r], until |-> req[r].answer.until]

\* No request is told there is no availability while its own key holds a
\* reservation: both exits of execute look for one again.
NoFalseSoldOut ==
    [][\A r \in Requests :
          req[r].pc # "NONE" /\ req'[r].pc = "NONE" /\ KeyOf[r] # None
             => ~Live(bookings[KeyOf[r]], now)]_rvars
=============================================================================
