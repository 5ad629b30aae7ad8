------------------------- MODULE MockBookingProofs -------------------------
(***************************************************************************)
(* Proofs about MockBooking for every number of slots, keys and searches,  *)
(* every capacity, lifetime and age of a clock reading, and about what     *)
(* BookingRequests tells the one-shot requests that use it.                *)
(***************************************************************************)
EXTENDS BookingRequests, FiniteSetTheorems, TLAPS

Tombs == [key : Keys, until : Nat]
Records == [slot : Slots, until : Nat]
Pins == [op : Ops, until : Nat]

-----------------------------------------------------------------------------
(* Entries and clock readings                                              *)

\* A caller's reading is a past one.
LEMMA ReadingPast ==
    ASSUME TypeOK, NEW t \in Readings
    PROVE  t \in Nat /\ t <= now /\ now - t <= Skew /\ now \in Nat
    BY MockBookingAssumption DEF TypeOK, Readings

\* What a caller with an old reading finds lapsed has lapsed.
LEMMA LapsedForGood ==
    ASSUME NEW e \in Tombs \cup Records \cup Pins \cup {None},
           NEW t \in Nat, NEW u \in Nat, t <= u, Live(e, u)
    PROVE  Live(e, t)
    BY DEF Live, Tombs, Records, Pins

LEMMA EntryTypes ==
    ASSUME TypeOK
    PROVE  /\ now \in Nat
           /\ \A s \in Slots : tombs[s] \in Tombs \cup {None}
           /\ \A k \in Keys : bookings[k] \in Records \cup {None}
           /\ \A s \in Slots : pins[s] \in Pins \cup {None}
           /\ \A s \in Slots : slots[s] \in Nat \cup {None}
    BY MockBookingAssumption DEF TypeOK, Tombs, Records, Pins

\* The candidate under consideration is a slot, read at a past time.
LEMMA CandidateSlot ==
    ASSUME TypeOK, Considering
    PROVE  /\ pub \in Publications /\ pub.now \in Nat /\ pub.now <= now
           /\ Candidate \in Slots /\ pub.next \in Nat
    BY DEF TypeOK, Considering, Candidate, Publications

-----------------------------------------------------------------------------
(* Types                                                                   *)

LEMMA TypeInit == Init => TypeOK
    BY MockBookingAssumption DEF Init, TypeOK

LEMMA CandidateSequences ==
    ASSUME NEW q \in Candidates
    PROVE  q \in Seq(Slots)
<1>1. Cardinality(Slots) \in Nat
    BY MockBookingAssumption, FS_CardinalityType
<1>2. PICK n \in 1..Cardinality(Slots) : q \in [1..n -> Slots]
    BY DEF Candidates
<1> QED  BY <1>1, <1>2

LEMMA LivePinsType ==
    ASSUME TypeOK, NEW t
    PROVE  LivePins(t) \in [Slots -> Pins \cup {None}]
    BY DEF TypeOK, LivePins, Pins

\* The step of a search that admits its candidate.
LEMMA AdmittedType ==
    ASSUME TypeOK, Considering, Admitted \/ Pass
    PROVE  pub' \in Publications /\ pub'.now = pub.now
<1>1. /\ pub \in Publications /\ Candidate \in Slots
      /\ pub.next + 1 \in Nat \ {0} /\ pub.admitted \cup {Candidate} \in SUBSET Slots
    BY CandidateSlot DEF Publications
<1>2. CASE Admitted
    BY <1>1, <1>2 DEF Admitted, Publications
<1>3. CASE Pass
    BY <1>1, <1>3 DEF Pass, Publications
<1> QED  BY <1>2, <1>3

LEMMA TypeStep == TypeOK /\ [Next]_vars => TypeOK'
<1> SUFFICES ASSUME TypeOK, [Next]_vars PROVE TypeOK'
    OBVIOUS
<1>1. ASSUME NEW op \in Ops, NEW q \in Candidates, NEW t \in Readings, PublishBegin(op, q, t)
      PROVE  TypeOK'
    <2>1. pub' \in Publications /\ pub'.now <= now
        BY <1>1, CandidateSequences, ReadingPast DEF PublishBegin, Publications
    <2> QED  BY <1>1, <2>1, LivePinsType DEF PublishBegin, TypeOK, Pins
<1>2. CASE SkipBooked
    BY <1>2, AdmittedType DEF SkipBooked, TypeOK, store, Considering
<1>3. CASE TouchPublished
    BY <1>3, AdmittedType, CandidateSlot DEF TouchPublished, TypeOK, Considering
<1>4. CASE AdmitNew
    <2>1. slots' \in [Slots -> Nat \cup {None}]
        BY <1>4, CandidateSlot DEF AdmitNew, TypeOK
    <2> QED  BY <1>4, <2>1, AdmittedType DEF AdmitNew, TypeOK, Considering
<1>5. CASE OmitNew
    BY <1>5, AdmittedType DEF OmitNew, TypeOK, store, Considering
<1>6. CASE PublishEnd
    <2>1. pub \in Publications /\ pub.now + PinTTL \in Nat
        BY <1>6, MockBookingAssumption DEF PublishEnd, TypeOK, Publications
    <2>2. [op |-> pub.op, until |-> pub.now + PinTTL] \in Pins
        BY <2>1 DEF Publications, Pins
    <2>3. pins' \in [Slots -> Pins \cup {None}]
        BY <1>6, <2>2 DEF PublishEnd, TypeOK, Pins
    <2> QED  BY <1>6, <2>3 DEF PublishEnd, TypeOK, Pins
<1>7. ASSUME NEW s \in Slots, NEW k \in Keys, NEW t \in Readings, BookSlot(s, k, t)
      PROVE  TypeOK'
    <2>1. t + Retention \in Nat
        BY ReadingPast, MockBookingAssumption
    <2>2. /\ [slot |-> s, until |-> t + Retention] \in [slot : Slots, until : Nat]
          /\ [key |-> k, until |-> t + Retention] \in [key : Keys, until : Nat]
        BY <2>1
    <2> QED  BY <1>7, <2>2 DEF BookSlot, TypeOK, store
<1>8. ASSUME NEW op \in Ops, ReleaseOperation(op) PROVE TypeOK'
    BY <1>8 DEF ReleaseOperation, TypeOK
<1>9. ASSUME NEW t \in Readings, Cleanup(t) PROVE TypeOK'
    <2>1. slots' \in [Slots -> Nat \cup {None}]
        <3>1. PICK idle : slots' = Without(slots, idle)
            BY <1>9 DEF Cleanup
        <3> QED  BY <3>1 DEF Without, TypeOK
    <2>2. bookings' \in [Keys -> [slot : Slots, until : Nat] \cup {None}]
        <3>1. PICK keys : bookings' = Without(bookings, keys)
            BY <1>9 DEF Cleanup
        <3> QED  BY <3>1 DEF Without, TypeOK
    <2>3. tombs' \in [Slots -> [key : Keys, until : Nat] \cup {None}]
        <3>1. PICK gone : tombs' = Without(tombs, gone)
            BY <1>9 DEF Cleanup
        <3> QED  BY <3>1 DEF Without, TypeOK
    <2> QED  BY <1>9, <2>1, <2>2, <2>3, LivePinsType DEF Cleanup, TypeOK, Pins
<1>10. ASSUME NEW k \in Keys, LapseBooking(k) PROVE TypeOK'
    BY <1>10 DEF LapseBooking, TypeOK
<1>11. ASSUME NEW s \in Slots, LapseTomb(s) PROVE TypeOK'
    BY <1>11 DEF LapseTomb, TypeOK
<1>12. CASE Tick
    BY <1>12, MockBookingAssumption DEF Tick, TypeOK, store, Unlocked
<1>13. CASE UNCHANGED vars
    BY <1>13 DEF vars, store, TypeOK
<1> QED
    BY <1>1, <1>2, <1>3, <1>4, <1>5, <1>6, <1>7, <1>8, <1>9, <1>10, <1>11, <1>12, <1>13
    DEF Next, PublishStep

-----------------------------------------------------------------------------
(* Reservations                                                            *)

\* What a step does to reservations unless it makes one: it drops those that
\* have lapsed, and publishes slots nobody holds.
Reaps ==
    /\ now' \in Nat /\ now <= now'
    /\ \A k \in Keys : bookings'[k] # bookings[k] =>
                        ~Live(bookings[k], now) /\ bookings'[k] = None
    /\ \A s \in Slots : tombs'[s] # tombs[s] =>
                         ~Live(tombs[s], now) /\ tombs'[s] = None
    /\ \A s \in Slots : slots'[s] # None => slots[s] # None \/ ~Live(tombs[s], now)

\* What is protected later is protected now, and was left alone.
LEMMA StillLive ==
    ASSUME TypeOK, Reaps
    PROVE  /\ \A k \in Keys : Live(bookings'[k], now') =>
                  bookings'[k] = bookings[k] /\ Live(bookings[k], now)
           /\ \A s \in Slots : Live(tombs'[s], now') =>
                  tombs'[s] = tombs[s] /\ Live(tombs[s], now)
<1>1. ASSUME NEW k \in Keys, Live(bookings'[k], now')
      PROVE  bookings'[k] = bookings[k] /\ Live(bookings[k], now)
    <2>1. bookings'[k] = bookings[k]
        BY <1>1 DEF Reaps, Live
    <2> QED  BY <1>1, <2>1, EntryTypes, LapsedForGood DEF Reaps
<1>2. ASSUME NEW s \in Slots, Live(tombs'[s], now')
      PROVE  tombs'[s] = tombs[s] /\ Live(tombs[s], now)
    <2>1. tombs'[s] = tombs[s]
        BY <1>2 DEF Reaps, Live
    <2> QED  BY <1>2, <2>1, EntryTypes, LapsedForGood DEF Reaps
<1> QED  BY <1>1, <1>2

LEMMA ReapsKeeps ==
    ASSUME TypeOK, OneHolder, HeldNeverOffered, Reaps
    PROVE  OneHolder' /\ HeldNeverOffered'
<1>1. ASSUME NEW k \in Keys, Live(bookings'[k], now')
      PROVE  tombs'[bookings'[k].slot] = [key |-> k, until |-> bookings'[k].until]
    <2>1. bookings'[k] = bookings[k] /\ Live(bookings[k], now) /\ bookings[k] \in Records
        BY <1>1, StillLive, EntryTypes DEF Live
    <2>2. /\ bookings[k].slot \in Slots
          /\ tombs[bookings[k].slot] = [key |-> k, until |-> bookings[k].until]
        BY <2>1 DEF OneHolder, Records
    <2>3. Live(tombs[bookings[k].slot], now)
        BY <2>1, <2>2, EntryTypes, MockBookingAssumption DEF Live, Records, Tombs
    <2> QED  BY <2>1, <2>2, <2>3 DEF Reaps
<1>2. ASSUME NEW s \in Slots, Live(tombs'[s], now')
      PROVE  bookings'[tombs'[s].key] = [slot |-> s, until |-> tombs'[s].until]
    <2>1. tombs'[s] = tombs[s] /\ Live(tombs[s], now) /\ tombs[s] \in Tombs
        BY <1>2, StillLive, EntryTypes DEF Live
    <2>2. /\ tombs[s].key \in Keys
          /\ bookings[tombs[s].key] = [slot |-> s, until |-> tombs[s].until]
        BY <2>1 DEF OneHolder, Tombs
    <2>3. Live(bookings[tombs[s].key], now)
        BY <2>1, <2>2, EntryTypes, MockBookingAssumption DEF Live, Records, Tombs
    <2> QED  BY <2>1, <2>2, <2>3 DEF Reaps
<1>3. HeldNeverOffered'
    BY StillLive DEF HeldNeverOffered, Reaps
<1> QED  BY <1>1, <1>2, <1>3 DEF OneHolder

\* A booking that is made replaces entries that have lapsed.
LEMMA BookedOverLapsed ==
    ASSUME TypeOK, OneHolder, HeldNeverOffered,
           NEW s \in Slots, NEW k \in Keys, NEW t \in Readings,
           BookCode(s, k, t) = "BOOKED"
    PROVE  /\ ~Live(bookings[k], now) /\ ~Live(tombs[s], now) /\ slots[s] # None
           /\ ~Live(bookings[k], t)
<1>1. ~Live(bookings[k], t) /\ slots[s] # None
    BY DEF BookCode
<1>2. ~Live(bookings[k], now)
    BY <1>1, EntryTypes, ReadingPast, LapsedForGood
<1> QED  BY <1>1, <1>2 DEF HeldNeverOffered

LEMMA BookKeeps ==
    ASSUME TypeOK, OneHolder, HeldNeverOffered,
           NEW s \in Slots, NEW k \in Keys, NEW t \in Readings, BookSlot(s, k, t)
    PROVE  OneHolder' /\ HeldNeverOffered'
<1>1. CASE BookCode(s, k, t) # "BOOKED"
    BY <1>1 DEF BookSlot, store, OneHolder, HeldNeverOffered
<1>2. CASE BookCode(s, k, t) = "BOOKED"
    <2> DEFINE b == [slot |-> s, until |-> t + Retention]
    <2> DEFINE m == [key |-> k, until |-> t + Retention]
    <2>1. /\ bookings'[k] = b /\ \A j \in Keys : j # k => bookings'[j] = bookings[j]
          /\ tombs'[s] = m /\ \A x \in Slots : x # s => tombs'[x] = tombs[x]
          /\ slots'[s] = None /\ \A x \in Slots : x # s => slots'[x] = slots[x]
          /\ now' = now
        BY <1>2 DEF BookSlot, TypeOK
    <2>2. ~Live(bookings[k], now) /\ ~Live(tombs[s], now)
        BY <1>2, BookedOverLapsed
    <2>3. ASSUME NEW j \in Keys, Live(bookings'[j], now')
          PROVE  tombs'[bookings'[j].slot] = [key |-> j, until |-> bookings'[j].until]
        <3>1. CASE j = k
            BY <2>1, <3>1
        <3>2. CASE j # k
            <4>1. bookings'[j] = bookings[j] /\ Live(bookings[j], now) /\ bookings[j] \in Records
                BY <2>1, <2>3, <3>2, EntryTypes DEF Live
            <4>2. tombs[bookings[j].slot] = [key |-> j, until |-> bookings[j].until]
                BY <4>1 DEF OneHolder
            <4>3. bookings[j].slot \in Slots /\ Live(tombs[bookings[j].slot], now)
                BY <4>1, <4>2, EntryTypes, MockBookingAssumption DEF Live, Records, Tombs
            <4>4. bookings[j].slot # s
                BY <2>2, <4>3
            <4> QED  BY <2>1, <4>1, <4>2, <4>3, <4>4
        <3> QED  BY <3>1, <3>2
    <2>4. ASSUME NEW x \in Slots, Live(tombs'[x], now')
          PROVE  bookings'[tombs'[x].key] = [slot |-> x, until |-> tombs'[x].until]
        <3>1. CASE x = s
            BY <2>1, <3>1
        <3>2. CASE x # s
            <4>1. tombs'[x] = tombs[x] /\ Live(tombs[x], now) /\ tombs[x] \in Tombs
                BY <2>1, <2>4, <3>2, EntryTypes DEF Live
            <4>2. bookings[tombs[x].key] = [slot |-> x, until |-> tombs[x].until]
                BY <4>1 DEF OneHolder
            <4>3. tombs[x].key \in Keys /\ Live(bookings[tombs[x].key], now)
                BY <4>1, <4>2, EntryTypes, MockBookingAssumption DEF Live, Records, Tombs
            <4>4. tombs[x].key # k
                BY <2>2, <4>3
            <4> QED  BY <2>1, <4>1, <4>2, <4>3, <4>4
        <3> QED  BY <3>1, <3>2
    <2>5. HeldNeverOffered'
        BY <2>1 DEF HeldNeverOffered
    <2> QED  BY <2>3, <2>4, <2>5 DEF OneHolder
<1> QED  BY <1>1, <1>2

\* Every step but a booking only reaps.
LEMMA StepReaps ==
    ASSUME TypeOK, [Next]_vars
    PROVE  \/ Reaps
           \/ \E s \in Slots, k \in Keys, t \in Readings : BookSlot(s, k, t)
<1>0. now \in Nat /\ now <= now
    BY EntryTypes
<1>1. ASSUME UNCHANGED <<now, bookings, tombs>>,
             \A s \in Slots : slots'[s] # None => slots[s] # None \/ ~Live(tombs[s], now)
      PROVE  Reaps
    BY <1>0, <1>1 DEF Reaps
<1>2. ASSUME Considering, ~BookedSlot PROVE ~Live(tombs[Candidate], now)
    BY <1>0, <1>2, CandidateSlot, EntryTypes, LapsedForGood DEF BookedSlot
<1>3. CASE \E op \in Ops, q \in Candidates, t \in Readings : PublishBegin(op, q, t)
    BY <1>1, <1>3 DEF PublishBegin
<1>4. CASE SkipBooked \/ OmitNew \/ PublishEnd
    BY <1>1, <1>4 DEF SkipBooked, OmitNew, PublishEnd, store
<1>5. CASE TouchPublished
    BY <1>1, <1>2, <1>5, CandidateSlot DEF TouchPublished, TypeOK
<1>6. CASE AdmitNew
    BY <1>1, <1>2, <1>6, CandidateSlot DEF AdmitNew, TypeOK
<1>7. CASE \E op \in Ops : ReleaseOperation(op)
    BY <1>1, <1>7 DEF ReleaseOperation
<1>8. ASSUME NEW t \in Readings, Cleanup(t) PROVE Reaps
    <2>1. PICK idle \in Batches(Idle(t)) : slots' = Without(slots, idle)
        BY <1>8 DEF Cleanup
    <2>2. PICK keys \in Batches(Expired(bookings, t)) : bookings' = Without(bookings, keys)
        BY <1>8 DEF Cleanup
    <2>3. PICK gone \in Batches(Expired(tombs, t)) : tombs' = Without(tombs, gone)
        BY <1>8 DEF Cleanup
    <2>4. now' = now /\ t \in Nat /\ t <= now
        BY <1>8, ReadingPast DEF Cleanup
    <2>5. ASSUME NEW k \in Keys, bookings'[k] # bookings[k]
          PROVE  ~Live(bookings[k], now) /\ bookings'[k] = None
        <3>1. k \in keys /\ bookings'[k] = None
            BY <2>2, <2>5 DEF Without, TypeOK
        <3>2. bookings[k] # None /\ bookings[k].until <= t
            BY <2>2, <3>1 DEF Batches, Expired
        <3> QED  BY <1>0, <2>4, <3>1, <3>2, EntryTypes DEF Live, Records
    <2>6. ASSUME NEW s \in Slots, tombs'[s] # tombs[s]
          PROVE  ~Live(tombs[s], now) /\ tombs'[s] = None
        <3>1. s \in gone /\ tombs'[s] = None
            BY <2>3, <2>6 DEF Without, TypeOK
        <3>2. tombs[s] # None /\ tombs[s].until <= t
            BY <2>3, <3>1 DEF Batches, Expired
        <3> QED  BY <1>0, <2>4, <3>1, <3>2, EntryTypes DEF Live, Tombs
    <2>7. \A s \in Slots : slots'[s] # None => slots[s] # None
        BY <2>1 DEF Without, TypeOK
    <2> QED  BY <1>0, <2>4, <2>5, <2>6, <2>7 DEF Reaps
<1>9. ASSUME NEW k \in Keys, LapseBooking(k) PROVE Reaps
    <2>1. ~Live(bookings[k], now)
        BY <1>0, <1>9, EntryTypes, MockBookingAssumption DEF LapseBooking, Live, Records
    <2> QED  BY <1>0, <1>9, <2>1 DEF LapseBooking, Reaps, TypeOK
<1>10. ASSUME NEW s \in Slots, LapseTomb(s) PROVE Reaps
    <2>1. ~Live(tombs[s], now)
        BY <1>0, <1>10, EntryTypes, MockBookingAssumption DEF LapseTomb, Live, Tombs
    <2> QED  BY <1>0, <1>10, <2>1 DEF LapseTomb, Reaps, TypeOK
<1>11. CASE Tick
    BY <1>0, <1>11 DEF Tick, Reaps, store
<1>12. CASE UNCHANGED vars
    BY <1>1, <1>12 DEF vars, store
<1> QED
    BY <1>3, <1>4, <1>5, <1>6, <1>7, <1>8, <1>9, <1>10, <1>11, <1>12 DEF Next, PublishStep

-----------------------------------------------------------------------------
(* Capacity                                                                *)

LEMMA PublishedFinite ==
    IsFiniteSet(Published) /\ Cardinality(Published) \in Nat
<1>1. Published \in SUBSET Slots
    BY DEF Published
<1> QED  BY <1>1, MockBookingAssumption, FS_Subset, FS_CardinalityType

\* Only a search publishes, and one slot at a time.
LEMMA PublishedEffect ==
    ASSUME TypeOK, [Next]_vars
    PROVE  \/ Published' \subseteq Published
           \/ HasRoom /\ \E c \in Slots : Published' = Published \cup {c}
           \/ \E c \in Slots, v \in Published : Published' \subseteq (Published \ {v}) \cup {c}
<1>1. CASE UNCHANGED slots
    BY <1>1 DEF Published
<1>2. CASE TouchPublished
    BY <1>2, CandidateSlot DEF TouchPublished, Published, TypeOK
<1>3. CASE AdmitNew
    <2>1. Candidate \in Slots /\ pub.now # None
        BY <1>3, CandidateSlot, MockBookingAssumption DEF AdmitNew
    <2>2. CASE HasRoom /\ slots' = [slots EXCEPT ![Candidate] = pub.now]
        <3>1. Published' = Published \cup {Candidate}
            BY <2>1, <2>2 DEF Published, TypeOK
        <3> QED  BY <2>1, <2>2, <3>1
    <2>3. CASE \E v \in Victims : slots' = [slots EXCEPT ![v] = None, ![Candidate] = pub.now]
        <3>1. PICK v \in Victims : slots' = [slots EXCEPT ![v] = None, ![Candidate] = pub.now]
            BY <2>3
        <3>2. v \in Published
            BY DEF Victims, Evictable
        <3>3. Published' \subseteq (Published \ {v}) \cup {Candidate}
            BY <2>1, <3>1, <3>2 DEF Published, TypeOK
        <3> QED  BY <2>1, <3>2, <3>3
    <2> QED  BY <1>3, <2>2, <2>3 DEF AdmitNew
<1>4. ASSUME NEW s \in Slots, NEW k \in Keys, NEW t \in Readings, BookSlot(s, k, t)
      PROVE  Published' \subseteq Published
    BY <1>4 DEF BookSlot, store, Published, TypeOK
<1>5. ASSUME NEW t \in Readings, Cleanup(t) PROVE Published' \subseteq Published
    <2>1. PICK idle : slots' = Without(slots, idle)
        BY <1>5 DEF Cleanup
    <2> QED  BY <2>1 DEF Without, Published, TypeOK
<1>6. \/ UNCHANGED slots \/ TouchPublished \/ AdmitNew
      \/ \E s \in Slots, k \in Keys, t \in Readings : BookSlot(s, k, t)
      \/ \E t \in Readings : Cleanup(t)
    BY DEF Next, PublishStep, vars, store, PublishBegin, SkipBooked, OmitNew,
       PublishEnd, ReleaseOperation, LapseBooking, LapseTomb, Tick
<1> QED  BY <1>1, <1>2, <1>3, <1>4, <1>5, <1>6

LEMMA CapacityStep ==
    ASSUME TypeOK, CapacityRespected, [Next]_vars
    PROVE  CapacityRespected'
<1> DEFINE P == Published
<1>1. IsFiniteSet(P) /\ Cardinality(P) \in Nat /\ Cardinality(P) <= Capacity /\ Capacity \in Nat
    BY PublishedFinite, MockBookingAssumption DEF CapacityRespected
<1>2. CASE Published' \subseteq P
    <2>1. Cardinality(Published') <= Cardinality(P) /\ IsFiniteSet(Published')
        BY <1>1, <1>2, FS_Subset
    <2>2. Cardinality(Published') \in Nat
        BY <2>1, FS_CardinalityType
    <2> QED  BY <1>1, <2>1, <2>2 DEF CapacityRespected
<1>3. CASE HasRoom /\ \E c \in Slots : Published' = P \cup {c}
    <2>1. PICK c \in Slots : Published' = P \cup {c}
        BY <1>3
    <2>2. Cardinality(P \cup {c}) \in {Cardinality(P), Cardinality(P) + 1}
        BY <1>1, FS_AddElement
    <2>3. Cardinality(P) < Capacity
        BY <1>3 DEF HasRoom
    <2>4. Cardinality(P \cup {c}) <= Capacity
        BY <1>1, <2>2, <2>3
    <2> QED  BY <2>1, <2>4 DEF CapacityRespected
<1>4. CASE \E c \in Slots, v \in P : Published' \subseteq (P \ {v}) \cup {c}
    <2>1. PICK c \in Slots, v \in P : Published' \subseteq (P \ {v}) \cup {c}
        BY <1>4
    <2>2. IsFiniteSet(P \ {v}) /\ Cardinality(P \ {v}) = Cardinality(P) - 1
        BY <1>1, FS_RemoveElement
    <2>3. /\ IsFiniteSet((P \ {v}) \cup {c})
          /\ Cardinality((P \ {v}) \cup {c}) \in {Cardinality(P) - 1, Cardinality(P)}
        <3> DEFINE R == P \ {v}
        <3>1. IsFiniteSet(R) /\ Cardinality(R) = Cardinality(P) - 1
            BY <2>2
        <3> HIDE DEF R
        <3>2. /\ IsFiniteSet(R \cup {c})
              /\ Cardinality(R \cup {c}) \in {Cardinality(R), Cardinality(R) + 1}
            BY <3>1, FS_AddElement
        <3>3. Cardinality(R \cup {c}) \in {Cardinality(P) - 1, Cardinality(P)}
            BY <1>1, <3>1, <3>2
        <3> QED  BY <3>2, <3>3 DEF R
    <2>4. /\ IsFiniteSet(Published')
          /\ Cardinality(Published') <= Cardinality((P \ {v}) \cup {c})
        <3> DEFINE Q == (P \ {v}) \cup {c}
        <3>1. IsFiniteSet(Q) /\ Published' \in SUBSET Q
            BY <2>1, <2>3
        <3> HIDE DEF Q
        <3>2. IsFiniteSet(Published') /\ Cardinality(Published') <= Cardinality(Q)
            BY <3>1, FS_Subset
        <3> QED  BY <3>2 DEF Q
    <2>5. Cardinality(Published') \in Nat
        BY <2>4, FS_CardinalityType
    <2> QED  BY <1>1, <2>3, <2>4, <2>5 DEF CapacityRespected
<1> QED  BY <1>2, <1>3, <1>4, PublishedEffect

-----------------------------------------------------------------------------
(* Theorems                                                                *)

LEMMA SoundInit == Init => StoreSound
<1> SUFFICES ASSUME Init PROVE StoreSound
    OBVIOUS
<1>1. Published = {}
    BY DEF Init, Published
<1>2. CapacityRespected
    BY <1>1, FS_EmptySet, MockBookingAssumption DEF CapacityRespected
<1>3. OneHolder /\ HeldNeverOffered
    BY DEF Init, OneHolder, HeldNeverOffered, Live
<1> QED  BY <1>2, <1>3, TypeInit DEF StoreSound

LEMMA SoundStep == StoreSound /\ [Next]_vars => StoreSound'
<1> SUFFICES ASSUME StoreSound, [Next]_vars PROVE StoreSound'
    OBVIOUS
<1>1. TypeOK' /\ CapacityRespected'
    BY TypeStep, CapacityStep DEF StoreSound
<1>2. OneHolder' /\ HeldNeverOffered'
    BY StepReaps, ReapsKeeps, BookKeeps DEF StoreSound
<1> QED  BY <1>1, <1>2 DEF StoreSound

\* Whatever searches, bookings, releases and cleanups overlap, with whatever old
\* clock readings: the store keeps its types and its capacity, a reservation has
\* one holder, and publish_and_filter offers no slot somebody holds.
THEOREM Soundness == Spec => []StoreSound
    BY SoundInit, SoundStep, PTL DEF Spec

\* A pinned slot leaves the published ones only by being booked.
LEMMA PinnedStep ==
    ASSUME StoreSound, [Next]_vars, Skew < Retention,
           NEW s \in Pinned(now), slots[s] # None, slots'[s] = None
    PROVE  tombs'[s] # tombs[s]
<1>1. TypeOK /\ s \in Slots /\ Live(pins[s], now) /\ now \in Nat
    BY EntryTypes DEF Pinned, StoreSound
<1>2. ASSUME NEW t \in Nat, t <= now PROVE s \in Pinned(t)
    BY <1>1, <1>2, EntryTypes, LapsedForGood DEF Pinned
<1>3. CASE UNCHANGED slots
    BY <1>3
<1>4. CASE TouchPublished
    BY <1>1, <1>4, CandidateSlot, MockBookingAssumption DEF TouchPublished, TypeOK
<1>5. CASE AdmitNew
    <2>1. Candidate \in Slots /\ pub.now \in Nat /\ pub.now <= now /\ pub.now # None
        BY <1>1, <1>5, CandidateSlot, MockBookingAssumption DEF AdmitNew
    <2>2. s \notin Victims
        BY <1>2, <2>1 DEF Victims, Evictable
    <2> QED  BY <1>1, <1>5, <2>1, <2>2 DEF AdmitNew, TypeOK
<1>6. ASSUME NEW x \in Slots, NEW k \in Keys, NEW t \in Readings, BookSlot(x, k, t)
      PROVE  tombs'[s] # tombs[s]
    <2>1. x = s /\ BookCode(x, k, t) = "BOOKED"
        BY <1>1, <1>6 DEF BookSlot, store, TypeOK
    <2>2. tombs'[s] = [key |-> k, until |-> t + Retention]
        BY <1>1, <1>6, <2>1 DEF BookSlot, TypeOK
    <2>3. ~Live(tombs[s], now)
        BY <1>1, <2>1, BookedOverLapsed DEF StoreSound
    <2>4. t + Retention > now /\ t + Retention \in Nat
        BY <1>1, ReadingPast, MockBookingAssumption
    <2>5. tombs'[s] \in Tombs
        BY <2>2, <2>4 DEF Tombs
    <2>6. Live(tombs'[s], now)
        BY <2>2, <2>4, <2>5, MockBookingAssumption DEF Live, Tombs
    <2> QED  BY <2>3, <2>6
<1>7. ASSUME NEW t \in Readings, Cleanup(t) PROVE FALSE
    <2>1. PICK idle \in Batches(Idle(t)) : slots' = Without(slots, idle)
        BY <1>7 DEF Cleanup
    <2>2. s \in idle
        BY <1>1, <2>1 DEF Without, TypeOK
    <2>3. s \notin Pinned(t)
        BY <2>1, <2>2 DEF Batches, Idle
    <2> QED  BY <1>1, <1>2, <2>3, ReadingPast
<1>8. \/ UNCHANGED slots \/ TouchPublished \/ AdmitNew
      \/ \E x \in Slots, k \in Keys, t \in Readings : BookSlot(x, k, t)
      \/ \E t \in Readings : Cleanup(t)
    BY DEF Next, PublishStep, vars, store, PublishBegin, SkipBooked, OmitNew,
       PublishEnd, ReleaseOperation, LapseBooking, LapseTomb, Tick
<1> QED  BY <1>3, <1>4, <1>5, <1>6, <1>7, <1>8

\* A protected reservation neither changes nor disappears.
LEMMA ProtectedStep ==
    ASSUME StoreSound, [Next]_vars, NEW k \in Keys, Live(bookings[k], now)
    PROVE  bookings'[k] = bookings[k]
<1>1. TypeOK /\ OneHolder /\ HeldNeverOffered
    BY DEF StoreSound
<1>2. CASE Reaps
    BY <1>2 DEF Reaps
<1>3. ASSUME NEW s \in Slots, NEW j \in Keys, NEW t \in Readings, BookSlot(s, j, t)
      PROVE  bookings'[k] = bookings[k]
    <2>1. CASE BookCode(s, j, t) # "BOOKED"
        BY <1>3, <2>1 DEF BookSlot, store
    <2>2. CASE BookCode(s, j, t) = "BOOKED"
        <3>1. j # k
            BY <1>1, <2>2, BookedOverLapsed
        <3> QED  BY <1>1, <1>3, <2>2, <3>1 DEF BookSlot, TypeOK
    <2> QED  BY <2>1, <2>2
<1> QED  BY <1>1, <1>2, <1>3, StepReaps

\* No eviction and no cleanup takes a pinned slot, and nothing takes or changes a
\* protected reservation, as long as it is protected for longer than a clock
\* reading may be old.
THEOREM Keeping ==
    ASSUME Skew < Retention
    PROVE  Spec => HeldKept
<1> DEFINE PinsHold ==
        \A s \in Pinned(now) : slots[s] # None /\ slots'[s] = None => tombs'[s] # tombs[s]
<1> DEFINE BookingsHold ==
        \A k \in Keys : Live(bookings[k], now) => bookings'[k] = bookings[k]
<1>1. StoreSound /\ [Next]_vars => [PinsHold]_vars /\ [BookingsHold]_vars
    BY PinnedStep, ProtectedStep
<1>2. Spec => [][PinsHold]_vars /\ [][BookingsHold]_vars
    BY <1>1, Soundness, PTL DEF Spec
<1> QED  BY <1>2, PTL DEF HeldKept, PinnedKept, ProtectedKept
-----------------------------------------------------------------------------
(* What a one-shot request is told, over the store shown sound above       *)

Entries == [pc : Phases, offer : Seq(Slots), answer : Records \cup {None}]

\* What a request was told is stored under its key while it is protected; that the
\* slot's tombstone agrees is OneHolder's.
AnswerStored ==
    \A r \in Requests :
        req[r].pc = "BOOKED" /\ req[r].answer.until > now => bookings[KeyOf[r]] = req[r].answer

RequestsInv == StoreSound /\ RequestsOK /\ AnswerStored

-----------------------------------------------------------------------------
(* Requests                                                                *)

LEMMA EntryFacts ==
    ASSUME RequestsInv, NEW r \in Requests
    PROVE  /\ req[r] \in Entries /\ req \in [Requests -> Entries] /\ TypeOK
           /\ req[r].pc \in BookingPhases => KeyOf[r] \in Keys
           /\ r \in Ops
<1>1. /\ req[r] \in Entries /\ req \in [Requests -> Entries] /\ TypeOK
    BY DEF RequestsInv, RequestsOK, StoreSound, Entries, Records
<1>2. req[r].pc \in BookingPhases => KeyOf[r] \in Keys
    BY RequestsAssumption DEF RequestsInv, RequestsOK
<1> QED  BY <1>1, <1>2, RequestsAssumption

\* One request moves on, to an entry that fits its key.
LEMMA EntryMoves ==
    ASSUME RequestsInv, NEW r \in Requests, NEW e \in Entries,
           req' = [req EXCEPT ![r] = e],
           e.pc \in BookingPhases => KeyOf[r] # None,
           e.pc = "BOOKED" => e.answer # None
    PROVE  RequestsOK'
<1>1. req' \in [Requests -> Entries]
    BY EntryFacts
<1>2. ASSUME NEW x \in Requests
      PROVE  /\ req'[x].pc \in BookingPhases => KeyOf[x] # None
             /\ req'[x].pc = "BOOKED" => req'[x].answer # None
    <2>1. CASE x = r
        BY <2>1, EntryFacts
    <2>2. CASE x # r
        <3>1. req'[x] = req[x]
            BY <2>2, EntryFacts
        <3> QED  BY <3>1 DEF RequestsInv, RequestsOK
    <2> QED  BY <2>1, <2>2
<1> QED  BY <1>1, <1>2 DEF RequestsOK, Entries, Records

\* A step of a request: all that can happen to its entry.
LEMMA GoMoves ==
    ASSUME RequestsInv, NEW r \in Requests, NEW l \in Phases, Go(r, l),
           l \in BookingPhases => KeyOf[r] # None, l # "BOOKED"
    PROVE  /\ RequestsOK' /\ req'[r].pc = l
           /\ \A x \in Requests : x # r => req'[x] = req[x]
<1> DEFINE e == [req[r] EXCEPT !.pc = l]
<1>1. e \in Entries /\ e.pc = l /\ req' = [req EXCEPT ![r] = e]
    BY EntryFacts DEF Go, Entries
<1> HIDE DEF e
<1>2. RequestsOK'
    BY <1>1, EntryMoves
<1> QED  BY <1>1, <1>2, EntryFacts

LEMMA AnswerMoves ==
    ASSUME RequestsInv, NEW r \in Requests, NEW l \in Phases, NEW a \in Records \cup {None},
           Answer(r, l, a),
           l \in BookingPhases => KeyOf[r] # None,
           l = "BOOKED" => a # None
    PROVE  /\ RequestsOK' /\ req'[r].pc = l /\ req'[r].answer = a
           /\ \A x \in Requests : x # r => req'[x] = req[x]
<1> DEFINE e == [req[r] EXCEPT !.pc = l, !.answer = a]
<1>1. e \in Entries /\ e.pc = l /\ e.answer = a /\ req' = [req EXCEPT ![r] = e]
    BY EntryFacts DEF Answer, Entries
<1> HIDE DEF e
<1>2. RequestsOK'
    BY <1>1, EntryMoves
<1> QED  BY <1>1, <1>2, EntryFacts

-----------------------------------------------------------------------------
(* The steps of a request                                                  *)

\* What a request may have been told in a step.
Told(r) == req'[r].pc = "BOOKED" => req'[r].answer = bookings'[KeyOf[r]]
NotSoldOut(r) == req'[r].pc = "NONE" /\ KeyOf[r] # None => ~Live(bookings[KeyOf[r]], now)

\* A step of request r alone: the store takes one of its steps, the others stay.
OwnStep(r) ==
    /\ [Next]_vars /\ RequestsOK' /\ Told(r) /\ NotSoldOut(r)
    /\ \A x \in Requests : x # r => req'[x] = req[x]

LEMMA ReplayStep ==
    ASSUME RequestsInv, NEW r \in Requests, KeyOf[r] # None, NEW l \in {"search", "NONE"},
           ReplayOr(r, l)
    PROVE  OwnStep(r)
<1>1. PICK t \in Readings :
        /\ IF GetBooking(KeyOf[r], t) # None
           THEN Answer(r, "BOOKED", bookings[KeyOf[r]]) ELSE Go(r, l)
        /\ UNCHANGED vars
    BY DEF ReplayOr
<1>2. KeyOf[r] \in Keys /\ TypeOK /\ bookings' = bookings
    BY <1>1, RequestsAssumption, EntryFacts DEF vars, store
<1>3. bookings[KeyOf[r]] \in Records \cup {None}
    BY <1>2, EntryTypes
<1>4. CASE GetBooking(KeyOf[r], t) # None
    <2>1. bookings[KeyOf[r]] # None
        BY <1>4 DEF GetBooking, Live
    <2>2. Answer(r, "BOOKED", bookings[KeyOf[r]])
        BY <1>1, <1>4
    <2>3. /\ RequestsOK' /\ req'[r].pc = "BOOKED" /\ req'[r].answer = bookings[KeyOf[r]]
          /\ \A x \in Requests : x # r => req'[x] = req[x]
        BY <1>3, <2>1, <2>2, AnswerMoves DEF Phases, BookingPhases
    <2> QED  BY <1>1, <1>2, <2>3 DEF OwnStep, Told, NotSoldOut
<1>5. CASE GetBooking(KeyOf[r], t) = None
    <2>1. Go(r, l)
        BY <1>1, <1>5
    <2>2. /\ RequestsOK' /\ req'[r].pc = l
          /\ \A x \in Requests : x # r => req'[x] = req[x]
        BY <2>1, GoMoves DEF Phases, BookingPhases
    <2>3. ~Live(bookings[KeyOf[r]], t)
        BY <1>2, <1>3, <1>5, MockBookingAssumption DEF GetBooking, Live, Records
    <2>4. ~Live(bookings[KeyOf[r]], now)
        BY <1>2, <1>3, <2>3, ReadingPast, LapsedForGood
    <2> QED  BY <1>1, <2>2, <2>4 DEF OwnStep, Told, NotSoldOut
<1> QED  BY <1>4, <1>5

LEMMA SearchStep ==
    ASSUME RequestsInv, NEW r \in Requests, Search(r)
    PROVE  OwnStep(r)
<1>1. CASE QueryOf[r] = <<>>
    <2>1. Go(r, "empty") /\ UNCHANGED vars
        BY <1>1 DEF Search
    <2>2. /\ RequestsOK' /\ req'[r].pc = "empty"
          /\ \A x \in Requests : x # r => req'[x] = req[x]
        BY <2>1, GoMoves DEF Phases, BookingPhases
    <2> QED  BY <2>1, <2>2 DEF OwnStep, Told, NotSoldOut
<1>2. CASE QueryOf[r] # <<>>
    <2>1. PICK t \in Readings : PublishBegin(r, QueryOf[r], t) /\ Go(r, "publishing")
        BY <1>2 DEF Search
    <2>2. /\ RequestsOK' /\ req'[r].pc = "publishing"
          /\ \A x \in Requests : x # r => req'[x] = req[x]
        BY <2>1, GoMoves DEF Phases, BookingPhases
    <2>3. QueryOf[r] \in Candidates /\ r \in Ops
        BY <1>2, RequestsAssumption
    <2>4. Next
        BY <2>1, <2>3 DEF Next
    <2> QED  BY <2>2, <2>4 DEF OwnStep, Told, NotSoldOut
<1> QED  BY <1>1, <1>2

LEMMA ReleaseStep ==
    ASSUME RequestsInv, NEW r \in Requests, Release(r)
    PROVE  OwnStep(r)
<1>1. Next
    BY EntryFacts DEF Release, Next
<1>2. CASE req[r].offer = <<>> /\ Go(r, "empty")
    <2>1. /\ RequestsOK' /\ req'[r].pc = "empty"
          /\ \A x \in Requests : x # r => req'[x] = req[x]
        BY <1>2, GoMoves DEF Phases, BookingPhases
    <2> QED  BY <1>1, <2>1 DEF OwnStep, Told, NotSoldOut
<1>3. CASE KeyOf[r] = None /\ Answer(r, "FOUND", None)
    <2>1. /\ RequestsOK' /\ req'[r].pc = "FOUND"
          /\ \A x \in Requests : x # r => req'[x] = req[x]
        BY <1>3, AnswerMoves DEF Phases, BookingPhases
    <2> QED  BY <1>1, <2>1 DEF OwnStep, Told, NotSoldOut
<1>4. CASE KeyOf[r] # None /\ Go(r, "book")
    <2>1. /\ RequestsOK' /\ req'[r].pc = "book"
          /\ \A x \in Requests : x # r => req'[x] = req[x]
        BY <1>4, GoMoves DEF Phases, BookingPhases
    <2> QED  BY <1>1, <2>1 DEF OwnStep, Told, NotSoldOut
<1> QED  BY <1>2, <1>3, <1>4 DEF Release

LEMMA EmptyStep ==
    ASSUME RequestsInv, NEW r \in Requests, EmptySearch(r)
    PROVE  OwnStep(r)
<1>1. CASE KeyOf[r] = None
    <2>1. Answer(r, "NONE", None) /\ UNCHANGED vars
        BY <1>1 DEF EmptySearch
    <2>2. /\ RequestsOK' /\ req'[r].pc = "NONE"
          /\ \A x \in Requests : x # r => req'[x] = req[x]
        BY <2>1, AnswerMoves DEF Phases, BookingPhases
    <2> QED  BY <1>1, <2>1, <2>2 DEF OwnStep, Told, NotSoldOut
<1>2. CASE KeyOf[r] # None
    BY <1>2, ReplayStep DEF EmptySearch
<1> QED  BY <1>1, <1>2

LEMMA TryStep ==
    ASSUME RequestsInv, NEW r \in Requests, TrySlot(r)
    PROVE  OwnStep(r)
<1>1. /\ req[r].pc = "book" /\ req[r].offer # <<>> /\ req[r].offer \in Seq(Slots)
      /\ KeyOf[r] \in Keys /\ KeyOf[r] # None /\ TypeOK /\ r \in Ops
    BY EntryFacts DEF TrySlot, At, BookingPhases, Entries, RequestsInv, RequestsOK
<1>2. Head(req[r].offer) \in Slots /\ Tail(req[r].offer) \in Seq(Slots)
    BY <1>1
<1> DEFINE s == Head(req[r].offer)
           k == KeyOf[r]
<1>3. PICK t \in Readings :
        /\ BookSlot(s, k, t)
        /\ IF BookCode(s, k, t) \in {"BOOKED", "EXISTING"}
           THEN Answer(r, "BOOKED", bookings'[k])
           ELSE req' = [req EXCEPT ![r].offer = Tail(@)]
    BY DEF TrySlot
<1>4. Next
    BY <1>1, <1>2, <1>3 DEF Next
<1> HIDE DEF s, k
<1>5. CASE BookCode(s, k, t) \in {"BOOKED", "EXISTING"}
    <2>1. bookings'[k] \in Records
        <3>1. bookings[k] \in Records \cup {None} /\ t \in Nat /\ k \in Keys /\ s \in Slots
            BY <1>1, <1>2, EntryTypes, ReadingPast DEF k, s
        <3>2. CASE BookCode(s, k, t) = "BOOKED"
            <4>1. bookings' = [bookings EXCEPT ![k] = [slot |-> s, until |-> t + Retention]]
                BY <1>3, <3>2 DEF BookSlot
            <4>2. t + Retention \in Nat
                BY <3>1, MockBookingAssumption
            <4> QED  BY <1>1, <3>1, <4>1, <4>2 DEF TypeOK, Records
        <3>3. CASE BookCode(s, k, t) = "EXISTING"
            <4>1. bookings' = bookings
                BY <1>3, <3>3 DEF BookSlot, store
            <4>2. Live(bookings[k], t)
                BY <3>3 DEF BookCode
            <4> QED  BY <3>1, <4>1, <4>2 DEF Live
        <3> QED  BY <1>5, <3>2, <3>3
    <2>2. bookings'[k] # None
        BY <2>1, MockBookingAssumption DEF Records
    <2>3. Answer(r, "BOOKED", bookings'[k])
        BY <1>3, <1>5
    <2>4. /\ RequestsOK' /\ req'[r].pc = "BOOKED" /\ req'[r].answer = bookings'[k]
          /\ \A x \in Requests : x # r => req'[x] = req[x]
        BY <1>1, <2>1, <2>2, <2>3, AnswerMoves DEF Phases, BookingPhases
    <2> QED  BY <1>4, <2>4 DEF OwnStep, Told, NotSoldOut, k
<1>6. CASE BookCode(s, k, t) \notin {"BOOKED", "EXISTING"}
    <2> DEFINE e == [req[r] EXCEPT !.offer = Tail(req[r].offer)]
    <2>1. e \in Entries /\ e.pc = "book" /\ req' = [req EXCEPT ![r] = e]
        BY <1>1, <1>2, <1>3, <1>6, EntryFacts DEF Entries
    <2> HIDE DEF e
    <2>2. RequestsOK'
        BY <1>1, <2>1, EntryMoves
    <2>3. req'[r].pc = "book" /\ \A x \in Requests : x # r => req'[x] = req[x]
        BY <2>1, EntryFacts
    <2> QED  BY <1>4, <2>2, <2>3 DEF OwnStep, Told, NotSoldOut
<1> QED  BY <1>5, <1>6

LEMMA OwnSteps ==
    ASSUME RequestsInv, NEW r \in Requests,
           \/ Replay(r) \/ Search(r) \/ Release(r) \/ EmptySearch(r) \/ TrySlot(r)
           \/ OutOfSlots(r)
    PROVE  OwnStep(r)
<1>1. CASE Replay(r) \/ OutOfSlots(r)
    <2>1. KeyOf[r] # None
        BY <1>1 DEF Replay, OutOfSlots, At, RequestsInv, RequestsOK, BookingPhases
    <2> QED  BY <1>1, <2>1, ReplayStep DEF Replay, OutOfSlots
<1> QED  BY <1>1, SearchStep, ReleaseStep, EmptyStep, TryStep

-----------------------------------------------------------------------------
(* The store moves by itself                                               *)

\* The store's own steps, and those of the search that holds its lock: nobody is
\* told anything.
StoreStep ==
    /\ [Next]_vars /\ RequestsOK'
    /\ \A x \in Requests :
          /\ req'[x].pc \in {"BOOKED", "NONE"} => req'[x].pc = req[x].pc
          /\ req'[x].answer = req[x].answer

LEMMA SearchGoesOn ==
    ASSUME RequestsInv, NEW o \in Ops, NEW e \in Entries,
           [Next]_vars, req' = [req EXCEPT ![o] = e],
           o \in Requests => /\ e.pc = req[o].pc \/ e.pc = "release"
                             /\ e.answer = req[o].answer
    PROVE  StoreStep
<1>1. CASE o \notin Requests
    <2>1. req' = req
        BY <1>1 DEF RequestsInv, RequestsOK
    <2> QED  BY <2>1 DEF StoreStep, RequestsInv, RequestsOK
<1>2. CASE o \in Requests
    <2>1. req[o] \in Entries /\ req \in [Requests -> Entries]
        BY <1>2, EntryFacts
    <2>2. RequestsOK'
        BY <1>2, <2>1, EntryMoves DEF BookingPhases, RequestsInv, RequestsOK
    <2>3. ASSUME NEW x \in Requests
          PROVE  /\ req'[x].pc \in {"BOOKED", "NONE"} => req'[x].pc = req[x].pc
                 /\ req'[x].answer = req[x].answer
        BY <1>2, <2>1
    <2> QED  BY <2>2, <2>3 DEF StoreStep
<1> QED  BY <1>1, <1>2

LEMMA ConsiderStep ==
    ASSUME RequestsInv, Consider \/ EndSearch \/ Around
    PROVE  StoreStep
<1>1. TypeOK
    BY DEF RequestsInv, StoreSound
<1>2. CASE UNCHANGED req /\ [Next]_vars
    BY <1>2 DEF StoreStep, RequestsInv, RequestsOK
<1>3. CASE (TouchPublished \/ AdmitNew) /\ req' = [req EXCEPT ![pub.op].offer = Append(@, Candidate)]
    <2>1. Considering /\ Next
        BY <1>3 DEF TouchPublished, AdmitNew, Next, PublishStep
    <2>2. pub.op \in Ops /\ Candidate \in Slots
        BY <1>1, <2>1, CandidateSlot DEF Publications
    <2>3. CASE pub.op \in Requests
        <3> DEFINE e == [req[pub.op] EXCEPT !.offer = Append(@, Candidate)]
        <3>1. /\ e \in Entries /\ e.pc = req[pub.op].pc /\ e.answer = req[pub.op].answer
              /\ req' = [req EXCEPT ![pub.op] = e]
            <4>1. req[pub.op] \in Entries /\ req \in [Requests -> Entries]
                BY <2>3, EntryFacts
            <4>2. req[pub.op].offer \in Seq(Slots)
                BY <4>1 DEF Entries
            <4>3. Append(req[pub.op].offer, Candidate) \in Seq(Slots)
                BY <2>2, <4>2
            <4>4. /\ e \in Entries /\ e.pc = req[pub.op].pc /\ e.answer = req[pub.op].answer
                BY <4>1, <4>3 DEF Entries
            <4>5. req' = [req EXCEPT ![pub.op] = e]
                BY <1>3, <2>3, <4>1
            <4> QED  BY <4>4, <4>5
        <3> HIDE DEF e
        <3> QED  BY <2>1, <2>2, <3>1, SearchGoesOn
    <2>4. CASE pub.op \notin Requests
        <3>1. req' = req
            BY <1>3, <2>4 DEF RequestsInv, RequestsOK
        <3> QED  BY <1>2, <2>1, <3>1
    <2> QED  BY <2>3, <2>4
<1>4. CASE EndSearch
    <2>1. Next /\ pub # None /\ req' = [req EXCEPT ![pub.op].pc = "release"]
        BY <1>4 DEF EndSearch, PublishEnd, Next, PublishStep
    <2>2. pub.op \in Ops
        BY <1>1, <2>1 DEF TypeOK, Publications
    <2>3. CASE pub.op \in Requests
        <3> DEFINE e == [req[pub.op] EXCEPT !.pc = "release"]
        <3>1. /\ e \in Entries /\ e.pc = "release" /\ e.answer = req[pub.op].answer
              /\ req' = [req EXCEPT ![pub.op] = e]
            BY <2>1, <2>3, EntryFacts DEF Entries, Phases
        <3> HIDE DEF e
        <3> QED  BY <2>1, <2>2, <3>1, SearchGoesOn
    <2>4. CASE pub.op \notin Requests
        <3>1. req' = req
            BY <2>1, <2>4 DEF RequestsInv, RequestsOK
        <3> QED  BY <1>2, <2>1, <3>1
    <2> QED  BY <2>3, <2>4
<1>5. CASE (SkipBooked \/ OmitNew) /\ UNCHANGED req
    BY <1>2, <1>5 DEF Next, PublishStep
<1>6. CASE Around
    BY <1>2, <1>6 DEF Around, Next
<1> QED  BY <1>3, <1>4, <1>5, <1>6 DEF Consider

-----------------------------------------------------------------------------
(* Theorems                                                                *)

\* An answer that was stored stays stored while it is protected.
LEMMA StillStored ==
    ASSUME RequestsInv, [Next]_vars, NEW r \in Requests,
           req[r].pc = "BOOKED", req[r].answer.until > now'
    PROVE  bookings'[KeyOf[r]] = req[r].answer
<1>1. /\ req[r].answer \in Records /\ KeyOf[r] \in Keys /\ TypeOK
    BY EntryFacts DEF BookingPhases, RequestsInv, RequestsOK, Records
<1>2. now \in Nat /\ now' \in Nat /\ now <= now'
    <2>1. CASE Reaps
        BY <1>1, <2>1, EntryTypes DEF Reaps
    <2>2. ASSUME NEW s \in Slots, NEW k \in Keys, NEW t \in Readings, BookSlot(s, k, t)
          PROVE  now \in Nat /\ now' \in Nat /\ now <= now'
        BY <1>1, <2>2, EntryTypes DEF BookSlot
    <2> QED  BY <1>1, <2>1, <2>2, StepReaps
<1>3. req[r].answer.until > now
    BY <1>1, <1>2 DEF Records
<1>4. bookings[KeyOf[r]] = req[r].answer
    BY <1>3 DEF RequestsInv, AnswerStored
<1>5. Live(bookings[KeyOf[r]], now)
    BY <1>1, <1>3, <1>4, MockBookingAssumption DEF Live, Records
<1> QED  BY <1>1, <1>4, <1>5, ProtectedStep DEF RequestsInv

LEMMA RequestsStep ==
    ASSUME RequestsInv, [RNext]_rvars
    PROVE  /\ RequestsInv'
           /\ \A r \in Requests :
                 req[r].pc # "NONE" /\ req'[r].pc = "NONE" /\ KeyOf[r] # None
                    => ~Live(bookings[KeyOf[r]], now)
<1>1. ASSUME NEW r \in Requests, OwnStep(r)
      PROVE  /\ RequestsInv'
             /\ \A x \in Requests :
                   req[x].pc # "NONE" /\ req'[x].pc = "NONE" /\ KeyOf[x] # None
                      => ~Live(bookings[KeyOf[x]], now)
    <2>1. StoreSound' /\ RequestsOK'
        BY <1>1, SoundStep DEF OwnStep, RequestsInv
    <2>2. ASSUME NEW x \in Requests, req'[x].pc = "BOOKED", req'[x].answer.until > now'
          PROVE  bookings'[KeyOf[x]] = req'[x].answer
        <3>1. CASE x = r
            BY <1>1, <2>2, <3>1 DEF OwnStep, Told
        <3>2. CASE x # r
            <4>1. req'[x] = req[x] /\ [Next]_vars
                BY <1>1, <3>2 DEF OwnStep
            <4> QED  BY <2>2, <4>1, StillStored
        <3> QED  BY <3>1, <3>2
    <2>3. ASSUME NEW x \in Requests, req[x].pc # "NONE", req'[x].pc = "NONE", KeyOf[x] # None
          PROVE  ~Live(bookings[KeyOf[x]], now)
        BY <1>1, <2>3 DEF OwnStep, NotSoldOut
    <2> QED  BY <2>1, <2>2, <2>3 DEF RequestsInv, AnswerStored
<1>2. CASE StoreStep
    <2>1. StoreSound' /\ RequestsOK'
        BY <1>2, SoundStep DEF StoreStep, RequestsInv
    <2>2. ASSUME NEW x \in Requests, req'[x].pc = "BOOKED", req'[x].answer.until > now'
          PROVE  bookings'[KeyOf[x]] = req'[x].answer
        <3>1. req[x].pc = "BOOKED" /\ req[x].answer = req'[x].answer /\ [Next]_vars
            BY <1>2, <2>2 DEF StoreStep
        <3> QED  BY <2>2, <3>1, StillStored
    <2> QED  BY <1>2, <2>1, <2>2 DEF RequestsInv, AnswerStored, StoreStep
<1>3. CASE UNCHANGED rvars
    <2>1. StoreStep
        BY <1>3 DEF rvars, StoreStep, RequestsInv, RequestsOK
    <2> QED  BY <1>2, <2>1
<1> QED  BY <1>1, <1>2, <1>3, OwnSteps, ConsiderStep DEF RNext

LEMMA RequestsInit == RInit => RequestsInv
<1> SUFFICES ASSUME RInit PROVE RequestsInv
    OBVIOUS
<1>1. StoreSound
    BY SoundInit DEF RInit
<1>2. RequestsOK
    BY RequestsAssumption DEF RInit, RequestsOK, Phases, BookingPhases
<1>3. AnswerStored
    BY DEF RInit, AnswerStored
<1> QED  BY <1>1, <1>2, <1>3 DEF RequestsInv

LEMMA RequestsInvariance == RSpec => []RequestsInv
<1>1. RequestsInv /\ [RNext]_rvars => RequestsInv'
    BY RequestsStep
<1> QED  BY <1>1, RequestsInit, PTL DEF RSpec

\* However many requests overlap: whoever BookingService.execute told of a
\* reservation holds it, booking and tombstone, for as long as it is protected, so
\* equal requests share one reservation and different ones never one slot.
THEOREM Confirmation == RSpec => []ConfirmedIsHeld
<1>1. RequestsInv => ConfirmedIsHeld
    <2> SUFFICES ASSUME RequestsInv, NEW r \in Requests,
                        req[r].pc = "BOOKED", req[r].answer.until > now
                 PROVE  /\ bookings[KeyOf[r]] = req[r].answer
                        /\ tombs[req[r].answer.slot] = [key |-> KeyOf[r], until |-> req[r].answer.until]
        BY DEF ConfirmedIsHeld
    <2>1. bookings[KeyOf[r]] = req[r].answer
        BY DEF RequestsInv, AnswerStored
    <2>2. KeyOf[r] \in Keys /\ req[r].answer # None
        BY EntryFacts DEF BookingPhases, RequestsInv, RequestsOK
    <2>3. Live(bookings[KeyOf[r]], now)
        BY <2>1, <2>2 DEF Live
    <2> QED  BY <2>1, <2>2, <2>3 DEF RequestsInv, StoreSound, OneHolder
<1> QED  BY <1>1, RequestsInvariance, PTL

\* No request is answered that nothing is available while its own key holds a
\* reservation: the last look of execute finds it, with however old a clock reading.
THEOREM NoFalseAnswer == RSpec => NoFalseSoldOut
<1> DEFINE A == \A r \in Requests :
                   req[r].pc # "NONE" /\ req'[r].pc = "NONE" /\ KeyOf[r] # None
                      => ~Live(bookings[KeyOf[r]], now)
<1>1. RequestsInv /\ [RNext]_rvars => [A]_rvars
    BY RequestsStep
<1> QED  BY <1>1, RequestsInvariance, PTL DEF RSpec, NoFalseSoldOut
=============================================================================
