----------------------- MODULE MockBookingRedisProofs -----------------------
(***************************************************************************)
(* Proofs about MockBookingRedis: the keys and sorted sets of the scripts  *)
(* agree, and the scripts with their separate reads implement MockBooking, *)
(* for every number of slots, keys, searches and callers.                  *)
(***************************************************************************)
EXTENDS MockBookingRedis, FiniteSetTheorems, TLAPS

-----------------------------------------------------------------------------
(* Sorted sets                                                             *)

LEMMA ConstantFacts ==
    ASSUME RedisAssumption
    PROVE  /\ Capacity \in Nat /\ IdleTTL \in Nat /\ PinTTL \in Nat /\ Retention \in Nat
           /\ KeyGrace \in Nat /\ BatchSize \in Nat /\ Skew \in Nat /\ MaxClock \in Nat
           /\ None \notin Nat /\ None \notin Sids /\ None \notin OpIds /\ None # Empty
           /\ None \notin Tombs /\ None \notin Pins /\ None \notin PubRecords
           /\ None \notin Scripts /\ None \notin Calls /\ None \notin Reservations
    BY DEF RedisAssumption

LEMMA CandidateSequences ==
    ASSUME RedisAssumption, NEW q \in CandLists
    PROVE  q \in Seq(Sids)
<1>1. Cardinality(Sids) \in Nat
    BY FS_CardinalityType DEF RedisAssumption
<1>2. PICK n \in 1..Cardinality(Sids) : q \in [1..n -> Sids]
    BY DEF CandLists
<1> QED  BY <1>1, <1>2

\* The candidate the script is at.
LEMMA SidFacts ==
    ASSUME RedisAssumption, RedisTypeOK, HasNext
    PROVE  /\ script \in Scripts /\ script # None /\ Sid \in Sids
           /\ script.op \in OpIds /\ script.now \in Nat /\ script.next \in Nat
    BY DEF RedisTypeOK, HasNext, Sid, Scripts

\* What reconcile_pins leaves, and what returns to the eviction index.
LEMMA ReconcileEffect ==
    ASSUME RedisAssumption, RedisInv, NEW t \in Nat, ReconcilePins(t), UNCHANGED <<slotkey, all>>
    PROVE  /\ pin' \in [Sids -> Nat \cup {None}] /\ pinowner' \in [Sids -> OpIds \cup {None}]
           /\ pinop' \in [OpIds -> SUBSET Sids] /\ lru' \in [Sids -> Nat \cup {None}]
           /\ \A s \in Sids : IF pin[s] # None /\ pin[s] > t
                               THEN pin'[s] = pin[s] /\ pinowner'[s] = pinowner[s]
                               ELSE pin'[s] = None /\ pinowner'[s] = None
           /\ IndexesAgree'
           /\ \A s \in Sids : pin'[s] # None => s \in pinop'[pinowner'[s]] \/ pin'[s] <= clock
<1> DEFINE stale == UpTo(pin, t)
<1>1. /\ pin \in [Sids -> Nat \cup {None}] /\ pinowner \in [Sids -> OpIds \cup {None}]
      /\ pinop \in [OpIds -> SUBSET Sids] /\ lru \in [Sids -> Nat \cup {None}]
      /\ all \in [Sids -> Nat \cup {None}] /\ slotkey \in SUBSET Sids /\ clock \in Nat
    BY DEF RedisInv, RedisTypeOK
<1>2. stale = {s \in Sids : pin[s] # None /\ pin[s] <= t}
    BY <1>1 DEF UpTo, Members
<1>3. /\ pin' = ZRem(pin, stale) /\ pinowner' = ZRem(pinowner, stale)
      /\ pinop' = [o \in OpIds |-> pinop[o] \ {s \in stale : pinowner[s] = o}]
      /\ lru' = Returned(stale)
    BY DEF ReconcilePins
<1> HIDE DEF stale
<1>4. /\ pin' \in [Sids -> Nat \cup {None}] /\ pinowner' \in [Sids -> OpIds \cup {None}]
      /\ pinop' \in [OpIds -> SUBSET Sids]
    BY <1>1, <1>3 DEF ZRem
<1>5. lru' \in [Sids -> Nat \cup {None}]
    BY <1>1, <1>3 DEF Returned
<1>6. /\ Members(pin) = Members(pinowner) /\ Members(pin) \subseteq slotkey
      /\ Members(all) = slotkey
      /\ \A o \in OpIds : \A s \in pinop[o] : pinowner[s] = o
      /\ lru = [s \in Sids |-> IF s \in slotkey /\ pin[s] = None THEN all[s] ELSE None]
    BY DEF RedisInv, IndexesAgree
<1>7. \A s \in Sids : pin[s] # None <=> pinowner[s] # None
    BY <1>1, <1>6 DEF Members
<1>8. \A s \in Sids : IF pin[s] # None /\ pin[s] > t
                       THEN pin'[s] = pin[s] /\ pinowner'[s] = pinowner[s]
                       ELSE pin'[s] = None /\ pinowner'[s] = None
    BY <1>1, <1>2, <1>3, <1>7, ConstantFacts DEF ZRem
<1>9. Members(pin') = Members(pinowner') /\ Members(pin') \subseteq slotkey'
    BY <1>1, <1>3, <1>4, <1>6 DEF Members, ZRem
<1>10. \A o \in OpIds : \A s \in pinop'[o] : pinowner'[s] = o
    BY <1>1, <1>3, <1>4, <1>6 DEF ZRem
<1>11. lru' = [s \in Sids |-> IF s \in slotkey' /\ pin'[s] = None THEN all'[s] ELSE None]
    <2>1. ASSUME NEW s \in Sids
          PROVE  lru'[s] = IF s \in slotkey' /\ pin'[s] = None THEN all'[s] ELSE None
        BY <1>1, <1>2, <1>3, <1>6 DEF Returned, ZRem, Members
    <2> QED  BY <1>5, <2>1
<1>12. \A s \in Sids : pin'[s] # None => s \in pinop'[pinowner'[s]] \/ pin'[s] <= clock
    <2> SUFFICES ASSUME NEW s \in Sids, pin'[s] # None
                 PROVE  s \in pinop'[pinowner'[s]] \/ pin'[s] <= clock
        OBVIOUS
    <2>1. pin'[s] = pin[s] /\ pinowner'[s] = pinowner[s] /\ s \notin stale /\ pinowner[s] \in OpIds
        BY <1>1, <1>2, <1>7, <1>8
    <2>2. s \in pinop[pinowner[s]] \/ pin[s] <= clock
        BY <2>1 DEF RedisInv, PinsFound
    <2> QED  BY <1>3, <2>1, <2>2
<1>13. IndexesAgree'
    BY <1>6, <1>9, <1>10, <1>11 DEF IndexesAgree
<1> QED  BY <1>4, <1>5, <1>8, <1>12, <1>13

-----------------------------------------------------------------------------
(* The publish script                                                      *)

\* What the invariant says of the pins and the indexes, slot by slot.
LEMMA IndexFacts ==
    ASSUME RedisAssumption, RedisInv
    PROVE  /\ pin \in [Sids -> Nat \cup {None}] /\ pinowner \in [Sids -> OpIds \cup {None}]
           /\ pinop \in [OpIds -> SUBSET Sids] /\ lru \in [Sids -> Nat \cup {None}]
           /\ all \in [Sids -> Nat \cup {None}] /\ slotkey \in SUBSET Sids /\ clock \in Nat
           /\ \A s \in Sids : pin[s] # None <=> pinowner[s] # None
           /\ \A s \in Sids : pin[s] # None => s \in slotkey
           /\ \A s \in Sids : s \in slotkey <=> all[s] # None
           /\ \A s \in Sids : lru[s] = IF s \in slotkey /\ pin[s] = None THEN all[s] ELSE None
           /\ \A o \in OpIds : \A s \in pinop[o] : pinowner[s] = o
<1>1. /\ pin \in [Sids -> Nat \cup {None}] /\ pinowner \in [Sids -> OpIds \cup {None}]
      /\ pinop \in [OpIds -> SUBSET Sids] /\ lru \in [Sids -> Nat \cup {None}]
      /\ all \in [Sids -> Nat \cup {None}] /\ slotkey \in SUBSET Sids /\ clock \in Nat
    BY DEF RedisInv, RedisTypeOK
<1> QED  BY <1>1 DEF RedisInv, IndexesAgree, Members

\* The same facts, of the next state, make its indexes agree.
LEMMA IndexesFrom ==
    ASSUME pin' \in [Sids -> Nat \cup {None}], pinowner' \in [Sids -> OpIds \cup {None}],
           lru' \in [Sids -> Nat \cup {None}], all' \in [Sids -> Nat \cup {None}],
           slotkey' \in SUBSET Sids,
           \A s \in Sids : pin'[s] # None <=> pinowner'[s] # None,
           \A s \in Sids : pin'[s] # None => s \in slotkey',
           \A s \in Sids : s \in slotkey' <=> all'[s] # None,
           \A s \in Sids : lru'[s] = IF s \in slotkey' /\ pin'[s] = None THEN all'[s] ELSE None,
           \A o \in OpIds : \A s \in pinop'[o] : pinowner'[s] = o
    PROVE  IndexesAgree'
    BY DEF IndexesAgree, Members

\* Slots of the eviction index, none of them pinned, make room and the candidate
\* is pinned for the script's operation.
LEMMA AdmitEffect ==
    ASSUME RedisAssumption, RedisInv, HasNext, NEW gone \in SUBSET Sids,
           \A s \in gone : lru[s] # None, Sid \notin gone, PinAndAdmit(gone),
           slotkey' = (slotkey \ gone) \cup {Sid},
           all' = [ZRem(all, gone) EXCEPT ![Sid] = script.now],
           UNCHANGED <<clock, booking, bookexp, booked, tombexp, call, held>>
    PROVE  RedisInv'
<1>1. /\ script \in Scripts /\ script # None /\ Sid \in Sids
      /\ script.op \in OpIds /\ script.now \in Nat /\ script.next \in Nat
    BY SidFacts DEF RedisInv
<1> DEFINE op == script.op
           sid == Sid
           until == script.now + PinTTL
<1>2. /\ lru' = ZRem(lru, gone \cup {sid})
      /\ pinowner' = [pinowner EXCEPT ![sid] = op]
      /\ pinop' = [o \in OpIds |-> IF o = op THEN pinop[o] \cup {sid} ELSE pinop[o] \ {sid}]
      /\ pin' = [pin EXCEPT ![sid] = until]
      /\ offered' = offered \cup {sid}
      /\ script' = [script EXCEPT !.next = @ + 1, !.admitted = @ \cup {sid}]
    BY DEF PinAndAdmit
<1>3. sid \in Sids /\ op \in OpIds /\ until \in Nat /\ until # None /\ op # None
    BY <1>1, ConstantFacts
<1>4. /\ script' \in Scripts /\ script'.op = op /\ script'.now = script.now
      /\ script'.admitted = script.admitted \cup {sid} /\ script'.before = script.before
    <2>1. script.next + 1 \in Nat \ {0} /\ script.admitted \cup {sid} \in SUBSET Sids
        BY <1>1, <1>3 DEF Scripts
    <2>2. script' = [script EXCEPT !.next = script.next + 1, !.admitted = script.admitted \cup {sid}]
        BY <1>2
    <2> HIDE DEF sid, op, until
    <2>3. script' \in Scripts
        BY <1>1, <2>1, <2>2 DEF Scripts
    <2>4. /\ script'.op = script.op /\ script'.now = script.now
          /\ script'.admitted = script.admitted \cup {sid} /\ script'.before = script.before
        BY <1>1, <2>2 DEF Scripts
    <2> QED  BY <2>3, <2>4 DEF op
<1> DEFINE ready == script.now
<1>5. /\ slotkey' = (slotkey \ gone) \cup {sid} /\ all' = [ZRem(all, gone) EXCEPT ![sid] = ready]
      /\ sid \notin gone /\ ready \in Nat /\ ready # None
    BY <1>1, ConstantFacts
<1> HIDE DEF sid, op, until, ready
<1>6. /\ pin' \in [Sids -> Nat \cup {None}] /\ pinowner' \in [Sids -> OpIds \cup {None}]
      /\ pinop' \in [OpIds -> SUBSET Sids] /\ lru' \in [Sids -> Nat \cup {None}]
      /\ all' \in [Sids -> Nat \cup {None}] /\ slotkey' \in SUBSET Sids
    <2>1. /\ pin' \in [Sids -> Nat \cup {None}] /\ pinowner' \in [Sids -> OpIds \cup {None}]
          /\ slotkey' \in SUBSET Sids
        BY <1>2, <1>3, <1>5, IndexFacts
    <2>2. pinop' \in [OpIds -> SUBSET Sids]
        BY <1>2, <1>3, IndexFacts
    <2>3. lru' \in [Sids -> Nat \cup {None}] /\ ZRem(all, gone) \in [Sids -> Nat \cup {None}]
        BY <1>2, IndexFacts DEF ZRem
    <2>4. all' \in [Sids -> Nat \cup {None}]
        BY <1>5, <2>3
    <2> QED  BY <2>1, <2>2, <2>3, <2>4
<1>7. RedisTypeOK'
    BY <1>2, <1>3, <1>4, <1>6 DEF RedisInv, RedisTypeOK
<1>8. /\ pin'[sid] = until /\ pinowner'[sid] = op
      /\ \A s \in Sids : s # sid => pin'[s] = pin[s] /\ pinowner'[s] = pinowner[s]
    BY <1>2, <1>3, IndexFacts
<1>9. IndexesAgree'
    <2>1. \A s \in Sids : pin'[s] # None <=> pinowner'[s] # None
        BY <1>3, <1>8, IndexFacts
    <2>2. \A s \in Sids : pin'[s] # None => s \in slotkey'
        BY <1>5, <1>8, IndexFacts
    <2>3. \A s \in Sids : s \in slotkey' <=> all'[s] # None
        BY <1>5, IndexFacts DEF ZRem
    <2>4. ASSUME NEW s \in Sids
          PROVE  lru'[s] = IF s \in slotkey' /\ pin'[s] = None THEN all'[s] ELSE None
        <3>1. CASE s = sid
            BY <1>2, <1>3, <1>8, <3>1, IndexFacts DEF ZRem
        <3>2. CASE s # sid
            BY <1>2, <1>5, <1>8, <3>2, IndexFacts DEF ZRem
        <3> QED  BY <3>1, <3>2
    <2>5. \A o \in OpIds : \A s \in pinop'[o] : pinowner'[s] = o
        BY <1>2, <1>3, <1>8, IndexFacts
    <2> QED  BY <1>6, <2>1, <2>2, <2>3, <2>4, <2>5, IndexesFrom
<1>10. RecordsIndexed'
    BY DEF RedisInv, RecordsIndexed
<1>11. PinsFound'
    <2> SUFFICES ASSUME NEW s \in Sids, pin'[s] # None
                 PROVE  s \in pinop'[pinowner'[s]] \/ pin'[s] <= clock'
        BY DEF PinsFound
    <2>1. CASE s = sid
        BY <1>2, <1>3, <1>8, <2>1
    <2>2. CASE s # sid
        <3>1. pin'[s] = pin[s] /\ pinowner'[s] = pinowner[s] /\ pinowner[s] \in OpIds
            BY <1>8, <2>2, IndexFacts
        <3>2. s \in pinop[pinowner[s]] \/ pin[s] <= clock
            BY <3>1 DEF RedisInv, PinsFound
        <3> QED  BY <1>2, <2>2, <3>1, <3>2
    <2> QED  BY <2>1, <2>2
<1>12. ScriptPins'
    <2>1. /\ \A s \in Sids : script.before[s] # None => script.before[s].until > script.now
          /\ \A s \in Sids : PinView[s] = IF s \in script.admitted
                                 THEN [op |-> script.op, until |-> script.now + PinTTL]
                                 ELSE script.before[s]
        BY <1>1 DEF RedisInv, ScriptPins
    <2>2. ASSUME NEW s \in Sids
          PROVE  PinView'[s] = IF s \in script'.admitted
                               THEN [op |-> script'.op, until |-> script'.now + PinTTL]
                               ELSE script'.before[s]
        <3>1. CASE s = sid
            BY <1>3, <1>4, <1>8, <3>1 DEF PinView, op, until
        <3>2. CASE s # sid
            BY <1>4, <1>8, <2>1, <3>2 DEF PinView, op
        <3> QED  BY <3>1, <3>2
    <2>3. \A s \in Sids : script'.before[s] # None => script'.before[s].until > script'.now
        BY <1>4, <2>1
    <2> QED  BY <2>2, <2>3 DEF ScriptPins
<1>13. CallsRecent'
    BY DEF RedisInv, CallsRecent, Recent
<1> QED  BY <1>7, <1>9, <1>10, <1>11, <1>12, <1>13 DEF RedisInv

LEMMA PublishBeginInv ==
    ASSUME RedisAssumption, RedisInv, NEW op \in OpIds, NEW q \in CandLists, NEW t \in Recents,
           PublishScript(op, q, t)
    PROVE  RedisInv' /\ script' \in Scripts
<1>1. t \in Nat /\ clock \in Nat
    BY DEF Recents, RedisInv, RedisTypeOK
<1>2. /\ ReconcilePins(t)
      /\ UNCHANGED <<clock, slotkey, all, booking, bookexp, booked, tombexp, call, offered, held>>
    BY DEF PublishScript
<1>3. /\ pin' \in [Sids -> Nat \cup {None}] /\ pinowner' \in [Sids -> OpIds \cup {None}]
      /\ pinop' \in [OpIds -> SUBSET Sids] /\ lru' \in [Sids -> Nat \cup {None}]
      /\ \A s \in Sids : IF pin[s] # None /\ pin[s] > t
                          THEN pin'[s] = pin[s] /\ pinowner'[s] = pinowner[s]
                          ELSE pin'[s] = None /\ pinowner'[s] = None
      /\ IndexesAgree'
      /\ \A s \in Sids : pin'[s] # None => s \in pinop'[pinowner'[s]] \/ pin'[s] <= clock
    BY <1>1, <1>2, ReconcileEffect
<1> DEFINE before == [s \in Sids |-> IF pin[s] # None /\ pin[s] > t
                                      THEN [op |-> pinowner[s], until |-> pin[s]] ELSE None]
<1>4. before \in [Sids -> Pins \cup {None}]
    BY IndexFacts DEF Pins
<1>5. script' = [op |-> op, now |-> t, cands |-> q, next |-> 1, admitted |-> {},
                 before |-> before]
    BY DEF PublishScript
<1>6. \A s \in Sids : before[s] # None => before[s].until > t
    BY <1>1, IndexFacts
<1>7. \A s \in Sids : PinView'[s] = before[s]
    BY <1>1, <1>3, IndexFacts, ConstantFacts DEF PinView
<1> HIDE DEF before
<1>8. script' \in Scripts
    BY <1>1, <1>4, <1>5, CandidateSequences DEF Scripts
<1>9. RedisTypeOK'
    BY <1>2, <1>3, <1>8 DEF RedisInv, RedisTypeOK
<1>10. ScriptPins'
    BY <1>5, <1>6, <1>7 DEF ScriptPins
<1>11. RecordsIndexed' /\ CallsRecent' /\ PinsFound'
    BY <1>2, <1>3 DEF RedisInv, RecordsIndexed, CallsRecent, Recent, PinsFound
<1> QED  BY <1>3, <1>8, <1>9, <1>10, <1>11 DEF RedisInv

LEMMA TouchInv ==
    ASSUME RedisAssumption, RedisInv, Touch
    PROVE  RedisInv'
<1>1. HasNext /\ Sid \in slotkey /\ PinAndAdmit({})
    BY DEF Touch
<1>2. ZRem(all, {}) = all
    BY IndexFacts DEF ZRem
<1>3. /\ slotkey' = (slotkey \ {}) \cup {Sid} /\ all' = [ZRem(all, {}) EXCEPT ![Sid] = script.now]
      /\ UNCHANGED <<clock, booking, bookexp, booked, tombexp, call, held>>
    BY <1>1, <1>2 DEF Touch
<1> QED  BY <1>1, <1>3, AdmitEffect

\* A slot of lru is published and not pinned.
LEMMA LowestFacts ==
    ASSUME RedisAssumption, RedisInv, NEW v \in Lowest(lru)
    PROVE  v \in Sids /\ lru[v] # None /\ v \in slotkey /\ pin[v] = None
    BY IndexFacts DEF Lowest, Members

LEMMA AdmitInv ==
    ASSUME RedisAssumption, RedisInv, Admit
    PROVE  RedisInv'
<1>1. HasNext /\ Sid \notin slotkey
      /\ UNCHANGED <<clock, booking, bookexp, booked, tombexp, call, held>>
    BY DEF Admit
<1>2. PICK gone \in {{v} : v \in Lowest(lru)} \cup {{}} :
        /\ slotkey' = (slotkey \ gone) \cup {Sid}
        /\ all' = [ZRem(all, gone) EXCEPT ![Sid] = script.now]
        /\ PinAndAdmit(gone)
    BY DEF Admit
<1>3. gone \in SUBSET Sids /\ (\A s \in gone : lru[s] # None) /\ Sid \notin gone
    BY <1>1, <1>2, LowestFacts
<1> QED  BY <1>1, <1>2, <1>3, AdmitEffect

\* A step that leaves the indexes and the records alone.
LEMMA QuietInv ==
    ASSUME RedisAssumption, RedisInv, UNCHANGED <<slotkey, all, lru, pin, pinowner>>,
           UNCHANGED <<booking, bookexp, booked, tombexp, offered, held>>,
           pinop' \in [OpIds -> SUBSET Sids], \A o \in OpIds : pinop'[o] \subseteq pinop[o],
           clock' \in Nat, PinsFound', ScriptPins', CallsRecent',
           script' \in Scripts \cup {None}, call' \in [Callers -> Calls \cup {None}]
    PROVE  RedisInv'
<1>1. RedisTypeOK'
    BY DEF RedisInv, RedisTypeOK
<1>2. IndexesAgree'
    BY DEF RedisInv, IndexesAgree, RedisTypeOK
<1>3. RecordsIndexed'
    BY DEF RedisInv, RecordsIndexed
<1> QED  BY <1>1, <1>2, <1>3 DEF RedisInv

LEMMA ScriptInv ==
    ASSUME RedisAssumption, RedisInv, Omit \/ PublishDone
    PROVE  RedisInv'
<1>1. UNCHANGED <<clock, keys, call, offered, held>>
    BY DEF Omit, PublishDone
<1>2. /\ clock' \in Nat /\ pinop' \in [OpIds -> SUBSET Sids]
      /\ call' \in [Callers -> Calls \cup {None}] /\ CallsRecent' /\ PinsFound'
    BY <1>1 DEF RedisInv, RedisTypeOK, CallsRecent, Recent, PinsFound, keys
<1>3. CASE Omit
    <2>1. /\ script \in Scripts /\ script # None /\ script.next \in Nat
        BY <1>3, SidFacts DEF Omit, RedisInv
    <2>2. script' = [script EXCEPT !.next = script.next + 1] /\ script.next + 1 \in Nat \ {0}
        BY <1>3, <2>1 DEF Omit
    <2>3. /\ script' \in Scripts /\ script'.before = script.before /\ script'.now = script.now
          /\ script'.op = script.op /\ script'.admitted = script.admitted
        BY <2>1, <2>2 DEF Scripts
    <2>4. ScriptPins'
        BY <1>1, <2>1, <2>3 DEF RedisInv, ScriptPins, PinView, keys
    <2> QED  BY <1>1, <1>2, <2>3, <2>4, QuietInv DEF keys
<1>4. CASE PublishDone
    <2>1. script' = None
        BY <1>4 DEF PublishDone
    <2>2. ScriptPins'
        BY <2>1 DEF ScriptPins
    <2> QED  BY <1>1, <1>2, <2>1, <2>2, QuietInv DEF keys
<1> QED  BY <1>3, <1>4

-----------------------------------------------------------------------------
(* Calls                                                                   *)

\* A caller remembers what its first round trip read, or is done.
LEMMA CallMoves ==
    ASSUME RedisAssumption, RedisInv, NEW c \in Callers, NEW e \in Calls \cup {None},
           call' = [call EXCEPT ![c] = e], clock' = clock,
           e # None => Recent(e.now) /\ (e.kind = "book" => e.slot # None)
    PROVE  call' \in [Callers -> Calls \cup {None}] /\ CallsRecent'
<1>1. call \in [Callers -> Calls \cup {None}]
    BY DEF RedisInv, RedisTypeOK
<1>2. call' \in [Callers -> Calls \cup {None}]
    BY <1>1
<1>3. ASSUME NEW d \in Callers, call'[d] # None
      PROVE  /\ call'[d].now <= clock' /\ clock' - call'[d].now <= Skew
             /\ (call'[d].kind = "book" => call'[d].slot # None)
    <2>1. CASE d = c
        BY <1>1, <1>3, <2>1 DEF Recent
    <2>2. CASE d # c
        BY <1>1, <1>3, <2>2 DEF RedisInv, CallsRecent, Recent
    <2> QED  BY <2>1, <2>2
<1> QED  BY <1>2, <1>3 DEF CallsRecent, Recent

LEMMA CallInv ==
    ASSUME RedisAssumption, RedisInv, NEW c \in Callers, NEW e \in Calls \cup {None},
           call' = [call EXCEPT ![c] = e], UNCHANGED <<clock, keys, script, offered, held>>,
           e # None => Recent(e.now) /\ (e.kind = "book" => e.slot # None)
    PROVE  RedisInv'
<1>1. call' \in [Callers -> Calls \cup {None}] /\ CallsRecent'
    BY CallMoves
<1>2. /\ clock' \in Nat /\ pinop' \in [OpIds -> SUBSET Sids] /\ script' \in Scripts \cup {None}
      /\ PinsFound'
    BY DEF RedisInv, RedisTypeOK, PinsFound, keys
<1>3. ScriptPins'
    BY DEF RedisInv, ScriptPins, PinView, keys
<1> QED  BY <1>1, <1>2, <1>3, QuietInv DEF keys

LEMMA ReadInv ==
    ASSUME RedisAssumption, RedisInv, NEW c \in Callers,
           \/ \E k \in IdKeys : GetRead(c, k)
           \/ GetScore(c)
           \/ \E s \in Sids, k \in IdKeys : BookRead(c, s, k)
    PROVE  RedisInv'
<1>1. UNCHANGED <<clock, keys, script, offered, held>>
    BY DEF GetRead, GetScore, BookRead
<1>2. clock \in Nat /\ Recent(clock)
    BY ConstantFacts DEF RedisInv, RedisTypeOK, Recent
<1>3. ASSUME NEW k \in IdKeys, GetRead(c, k) PROVE RedisInv'
    <2> DEFINE e == [kind |-> "get", slot |-> None, key |-> k, now |-> clock, raw |-> booking[k]]
    <2>1. booking[k] \in Sids \cup {Empty}
        BY <1>3 DEF GetRead, RedisInv, RedisTypeOK
    <2>2. e \in Calls /\ e.now = clock /\ e.kind # "book"
        BY <1>2, <2>1 DEF Calls
    <2>3. call' = [call EXCEPT ![c] = e]
        BY <1>3 DEF GetRead
    <2> HIDE DEF e
    <2> QED  BY <1>1, <1>2, <2>2, <2>3, CallInv
<1>4. CASE GetScore(c)
    BY <1>1, <1>4, CallInv DEF GetScore
<1>5. ASSUME NEW s \in Sids, NEW k \in IdKeys, BookRead(c, s, k) PROVE RedisInv'
    <2> DEFINE e == [kind |-> "book", slot |-> s, key |-> k, now |-> clock,
                     raw |-> IF s \in slotkey THEN s ELSE Empty]
    <2>1. e \in Calls /\ e.now = clock /\ e.slot # None
        BY <1>2, ConstantFacts DEF Calls
    <2>2. call' = [call EXCEPT ![c] = e]
        BY <1>5 DEF BookRead
    <2> HIDE DEF e
    <2> QED  BY <1>1, <1>2, <2>1, <2>2, CallInv
<1> QED  BY <1>3, <1>4, <1>5

\* Where no script runs, nothing is said of its pins.
LEMMA NoScriptPins == ASSUME script' = None PROVE ScriptPins'
    BY DEF ScriptPins

\* What a booking reads from its call.
LEMMA BookFacts ==
    ASSUME RedisAssumption, RedisInv, NEW c \in Callers, call[c] # None, call[c].kind = "book"
    PROVE  /\ call[c].slot \in Sids /\ call[c].key \in IdKeys /\ call[c].now \in Nat
           /\ call[c].raw \in Sids \cup {Empty} /\ call[c].raw # None
           /\ call[c].now <= clock /\ clock - call[c].now <= Skew
<1>1. call[c] \in Calls
    BY DEF RedisInv, RedisTypeOK
<1>2. Recent(call[c].now) /\ call[c].slot # None
    BY DEF RedisInv, CallsRecent
<1> QED  BY <1>1, <1>2, ConstantFacts DEF Calls, Recent

LEMMA BookScriptInv ==
    ASSUME RedisAssumption, RedisInv, NEW c \in Callers, BookScript(c)
    PROVE  RedisInv'
<1> DEFINE s == call[c].slot
           k == call[c].key
           until == call[c].now + Retention
           raw == call[c].raw
<1>1. /\ script = None /\ UNCHANGED <<clock, script, offered>> /\ call' = [call EXCEPT ![c] = None]
      /\ call[c] # None /\ call[c].kind = "book"
    BY DEF BookScript, NoScript
<1>2. /\ s \in Sids /\ k \in IdKeys /\ until \in Nat /\ raw \in Sids \cup {Empty} /\ raw # None
      /\ until # None
    BY <1>1, BookFacts, ConstantFacts
<1>3. CASE Books(s, k, call[c].now)
    <2>1. /\ booking' = [booking EXCEPT ![k] = raw]
          /\ bookexp' = [bookexp EXCEPT ![k] = until]
          /\ booked' = [booked EXCEPT ![s] = [key |-> k, until |-> until]]
          /\ tombexp' = [tombexp EXCEPT ![s] = until]
          /\ slotkey' = slotkey \ {s}
          /\ all' = ZRem(all, {s}) /\ lru' = ZRem(lru, {s})
          /\ pin' = ZRem(pin, {s}) /\ pinowner' = ZRem(pinowner, {s})
          /\ pinop' = [o \in OpIds |-> IF o = pinowner[s] THEN pinop[o] \ {s} ELSE pinop[o]]
          /\ held' = [held EXCEPT ![k] = s]
        BY <1>3 DEF BookScript
    <2>2. call' \in [Callers -> Calls \cup {None}] /\ CallsRecent'
        BY <1>1, CallMoves
    <2>3. s # None /\ [key |-> k, until |-> until] \in Tombs
        BY <1>2, ConstantFacts DEF Tombs
    <2> HIDE DEF s, k, until, raw
    <2>4. /\ pin' \in [Sids -> Nat \cup {None}] /\ pinowner' \in [Sids -> OpIds \cup {None}]
          /\ all' \in [Sids -> Nat \cup {None}] /\ slotkey' \in SUBSET Sids
          /\ lru' \in [Sids -> Nat \cup {None}] /\ pinop' \in [OpIds -> SUBSET Sids]
        <3>1. /\ pin' \in [Sids -> Nat \cup {None}] /\ pinowner' \in [Sids -> OpIds \cup {None}]
            BY <2>1, IndexFacts DEF ZRem
        <3>2. /\ all' \in [Sids -> Nat \cup {None}] /\ slotkey' \in SUBSET Sids
              /\ lru' \in [Sids -> Nat \cup {None}]
            BY <2>1, IndexFacts DEF ZRem
        <3>3. pinop' \in [OpIds -> SUBSET Sids]
            BY <2>1, IndexFacts
        <3> QED  BY <3>1, <3>2, <3>3
    <2>5. /\ booking' \in [IdKeys -> Sids \cup {Empty, None}] /\ bookexp' \in [IdKeys -> Nat \cup {None}]
          /\ booked' \in [Sids -> Tombs \cup {None}] /\ tombexp' \in [Sids -> Nat \cup {None}]
          /\ held' \in [IdKeys -> Sids \cup {None}]
        BY <1>2, <2>1, <2>3 DEF RedisInv, RedisTypeOK
    <2>6. RedisTypeOK'
        BY <1>1, <2>2, <2>4, <2>5 DEF RedisInv, RedisTypeOK
    <2>7. IndexesAgree'
        <3>1. \A x \in Sids : pin'[x] # None <=> pinowner'[x] # None
            BY <2>1, IndexFacts DEF ZRem
        <3>2. \A x \in Sids : pin'[x] # None => x \in slotkey'
            BY <2>1, IndexFacts DEF ZRem
        <3>3. \A x \in Sids : x \in slotkey' <=> all'[x] # None
            BY <2>1, IndexFacts DEF ZRem
        <3>4. \A x \in Sids : lru'[x] = IF x \in slotkey' /\ pin'[x] = None THEN all'[x] ELSE None
            BY <2>1, IndexFacts DEF ZRem
        <3>5. \A o \in OpIds : \A x \in pinop'[o] : pinowner'[x] = o
            BY <2>1, IndexFacts DEF ZRem
        <3> QED  BY <2>4, <3>1, <3>2, <3>3, <3>4, <3>5, IndexesFrom
    <2>8. RecordsIndexed'
        <3>1. \A j \in IdKeys : booking'[j] # None => bookexp'[j] # None /\ held'[j] # None
            BY <1>2, <2>1, <2>3 DEF RedisInv, RedisTypeOK, RecordsIndexed
        <3>2. \A x \in Sids : booked'[x] # None => tombexp'[x] = booked'[x].until
            BY <1>2, <2>1 DEF RedisInv, RedisTypeOK, RecordsIndexed
        <3> QED  BY <3>1, <3>2 DEF RecordsIndexed
    <2>9. PinsFound'
        <3> SUFFICES ASSUME NEW x \in Sids, pin'[x] # None
                     PROVE  x \in pinop'[pinowner'[x]] \/ pin'[x] <= clock'
            BY DEF PinsFound
        <3>1. x # s /\ pin'[x] = pin[x] /\ pinowner'[x] = pinowner[x]
            BY <2>1, IndexFacts DEF ZRem
        <3>2. (x \in pinop[pinowner[x]] \/ pin[x] <= clock) /\ pinowner[x] \in OpIds
            BY <3>1, IndexFacts DEF RedisInv, PinsFound
        <3> QED  BY <1>1, <2>1, <3>1, <3>2
    <2> QED  BY <1>1, <2>2, <2>6, <2>7, <2>8, <2>9, NoScriptPins DEF RedisInv
<1>4. CASE ~Books(s, k, call[c].now)
    <2>1. UNCHANGED <<clock, keys, script, offered, held>>
        BY <1>1, <1>4 DEF BookScript
    <2> QED  BY <1>1, <2>1, CallInv
<1> QED  BY <1>3, <1>4

-----------------------------------------------------------------------------
(* Release, cleanup and expiry                                             *)

\* A step that changes pins, the indexes and expired records, and moves neither
\* time nor callers nor a script.
LEMMA ReapInv ==
    ASSUME RedisAssumption, RedisInv, script' = None, UNCHANGED <<clock, call, offered, held>>,
           pin' \in [Sids -> Nat \cup {None}], pinowner' \in [Sids -> OpIds \cup {None}],
           pinop' \in [OpIds -> SUBSET Sids], lru' \in [Sids -> Nat \cup {None}],
           all' \in [Sids -> Nat \cup {None}], slotkey' \in SUBSET Sids,
           booking' \in [IdKeys -> Sids \cup {Empty, None}], bookexp' \in [IdKeys -> Nat \cup {None}],
           booked' \in [Sids -> Tombs \cup {None}], tombexp' \in [Sids -> Nat \cup {None}],
           IndexesAgree', PinsFound', RecordsIndexed'
    PROVE  RedisInv'
<1>1. RedisTypeOK'
    BY DEF RedisInv, RedisTypeOK
<1>2. CallsRecent'
    BY DEF RedisInv, CallsRecent, Recent
<1> QED  BY <1>1, <1>2, NoScriptPins DEF RedisInv

LEMMA ReleaseInv ==
    ASSUME RedisAssumption, RedisInv, NEW op \in OpIds, ReleaseScript(op)
    PROVE  RedisInv'
<1> DEFINE mine == {s \in pinop[op] : pinowner[s] = op}
<1>1. /\ script' = None
      /\ UNCHANGED <<clock, slotkey, all, booking, bookexp, booked, tombexp, call, offered, held>>
    BY DEF ReleaseScript, NoScript
<1>2. /\ pin' = ZRem(pin, mine) /\ pinowner' = ZRem(pinowner, mine)
      /\ lru' = Returned(mine) /\ pinop' = [pinop EXCEPT ![op] = {}]
    BY DEF ReleaseScript
<1>3. mine = pinop[op] /\ mine \subseteq Sids
    BY IndexFacts
<1> HIDE DEF mine
<1>4. /\ pin' \in [Sids -> Nat \cup {None}] /\ pinowner' \in [Sids -> OpIds \cup {None}]
      /\ pinop' \in [OpIds -> SUBSET Sids]
    BY <1>2, IndexFacts DEF ZRem
<1>5. lru' \in [Sids -> Nat \cup {None}]
    BY <1>2, IndexFacts DEF Returned
<1>6. IndexesAgree'
    <2>1. \A x \in Sids : pin'[x] # None <=> pinowner'[x] # None
        BY <1>2, IndexFacts DEF ZRem
    <2>2. \A x \in Sids : pin'[x] # None => x \in slotkey'
        BY <1>1, <1>2, IndexFacts DEF ZRem
    <2>3. \A x \in Sids : lru'[x] = IF x \in slotkey' /\ pin'[x] = None THEN all'[x] ELSE None
        BY <1>1, <1>2, IndexFacts DEF ZRem, Returned
    <2>4. \A o \in OpIds : \A x \in pinop'[o] : pinowner'[x] = o
        BY <1>2, <1>3, IndexFacts DEF ZRem
    <2>5. \A x \in Sids : x \in slotkey' <=> all'[x] # None
        BY <1>1, IndexFacts
    <2>6. all' \in [Sids -> Nat \cup {None}] /\ slotkey' \in SUBSET Sids
        BY <1>1, IndexFacts
    <2> QED  BY <1>4, <1>5, <2>1, <2>2, <2>3, <2>4, <2>5, <2>6, IndexesFrom
<1>7. PinsFound'
    <2> SUFFICES ASSUME NEW x \in Sids, pin'[x] # None
                 PROVE  x \in pinop'[pinowner'[x]] \/ pin'[x] <= clock'
        BY DEF PinsFound
    <2>1. x \notin mine /\ pin'[x] = pin[x] /\ pinowner'[x] = pinowner[x]
        BY <1>2, IndexFacts DEF ZRem
    <2>2. (x \in pinop[pinowner[x]] \/ pin[x] <= clock) /\ pinowner[x] \in OpIds
        BY <2>1, IndexFacts DEF RedisInv, PinsFound
    <2> QED  BY <1>1, <1>2, <1>3, <2>1, <2>2, IndexFacts
<1>8. RecordsIndexed'
    BY <1>1 DEF RedisInv, RecordsIndexed
<1> QED  BY <1>1, <1>4, <1>5, <1>6, <1>7, <1>8, ReapInv DEF RedisInv, RedisTypeOK

LEMMA ExpireInv ==
    ASSUME RedisAssumption, RedisInv,
           \/ \E k \in IdKeys : ExpireBooking(k)
           \/ \E s \in Sids : ExpireTomb(s)
    PROVE  RedisInv'
<1>1. /\ script' = None
      /\ UNCHANGED <<clock, slotkey, all, lru, pin, pinowner, pinop, bookexp, tombexp, call,
                     offered, held>>
    BY DEF ExpireBooking, ExpireTomb, NoScript
<1>2. IndexesAgree' /\ PinsFound'
    BY <1>1 DEF RedisInv, IndexesAgree, PinsFound
<1>3. ASSUME NEW k \in IdKeys, ExpireBooking(k) PROVE RedisInv'
    <2>1. booking' = [booking EXCEPT ![k] = None] /\ booked' = booked
        BY <1>3 DEF ExpireBooking
    <2>2. booking' \in [IdKeys -> Sids \cup {Empty, None}] /\ RecordsIndexed'
        BY <1>1, <2>1 DEF RedisInv, RedisTypeOK, RecordsIndexed
    <2> QED  BY <1>1, <1>2, <2>1, <2>2, ReapInv DEF RedisInv, RedisTypeOK
<1>4. ASSUME NEW s \in Sids, ExpireTomb(s) PROVE RedisInv'
    <2>1. booked' = [booked EXCEPT ![s] = None] /\ booking' = booking
        BY <1>4 DEF ExpireTomb
    <2>2. booked' \in [Sids -> Tombs \cup {None}] /\ RecordsIndexed'
        BY <1>1, <2>1 DEF RedisInv, RedisTypeOK, RecordsIndexed
    <2> QED  BY <1>1, <1>2, <2>1, <2>2, ReapInv DEF RedisInv, RedisTypeOK
<1> QED  BY <1>3, <1>4

\* An operation's set of pins expires once all of them have lapsed.
LEMMA ExpirePinopInv ==
    ASSUME RedisAssumption, RedisInv, NEW op \in OpIds, ExpirePinop(op)
    PROVE  RedisInv'
<1>1. /\ script' = None /\ call' = call /\ clock' = clock
      /\ UNCHANGED <<slotkey, all, lru, pin, pinowner>>
      /\ UNCHANGED <<booking, bookexp, booked, tombexp, offered, held>>
      /\ pinop' = [pinop EXCEPT ![op] = {}]
    BY DEF ExpirePinop, NoScript
<1>2. pinop' \in [OpIds -> SUBSET Sids] /\ \A o \in OpIds : pinop'[o] \subseteq pinop[o]
    BY <1>1, IndexFacts
<1>3. PinsFound'
    <2> SUFFICES ASSUME NEW x \in Sids, pin'[x] # None
                 PROVE  x \in pinop'[pinowner'[x]] \/ pin'[x] <= clock'
        BY DEF PinsFound
    <2>1. x \in pinop[pinowner[x]] \/ pin[x] <= clock
        BY <1>1 DEF RedisInv, PinsFound
    <2>2. \A s \in pinop[op] : pin[s] <= clock
        BY DEF ExpirePinop
    <2> QED  BY <1>1, <2>1, <2>2, IndexFacts
<1>4. CallsRecent' /\ clock' \in Nat /\ call' \in [Callers -> Calls \cup {None}]
    BY <1>1 DEF RedisInv, RedisTypeOK, CallsRecent, Recent
<1> QED  BY <1>1, <1>2, <1>3, <1>4, NoScriptPins, QuietInv

\* Time passes, but not while that makes a caller's reading too old.
LEMMA TickInv ==
    ASSUME RedisAssumption, RedisInv, ClockTick
    PROVE  RedisInv'
<1>1. /\ script' = None /\ call' = call /\ clock' = clock + 1 /\ clock \in Nat
      /\ UNCHANGED <<slotkey, all, lru, pin, pinowner>>
      /\ UNCHANGED <<booking, bookexp, booked, tombexp, offered, held>> /\ pinop' = pinop
    BY DEF ClockTick, NoScript, keys, RedisInv, RedisTypeOK
<1>2. PinsFound'
    <2> SUFFICES ASSUME NEW x \in Sids, pin[x] # None, ~(x \in pinop[pinowner[x]])
                 PROVE  pin[x] <= clock + 1
        BY <1>1 DEF PinsFound
    <2>1. pin[x] <= clock /\ pin[x] \in Nat
        BY IndexFacts DEF RedisInv, PinsFound
    <2> QED  BY <1>1, <2>1
<1>3. CallsRecent'
    <2> SUFFICES ASSUME NEW c \in Callers, call'[c] # None
                 PROVE  /\ call'[c].now <= clock' /\ clock' - call'[c].now <= Skew
                        /\ call'[c].kind = "book" => call'[c].slot # None
        BY DEF CallsRecent, Recent
    <2>0. call[c] # None
        BY <1>1
    <2>1. call[c].now \in Nat /\ call[c].now <= clock /\ (call[c].kind = "book" => call[c].slot # None)
        <3>1. call[c] \in Calls
            BY <2>0 DEF RedisInv, RedisTypeOK
        <3>2. Recent(call[c].now) /\ (call[c].kind = "book" => call[c].slot # None)
            BY <2>0 DEF RedisInv, CallsRecent
        <3> QED  BY <3>1, <3>2 DEF Recent, Calls
    <2>2. clock + 1 - call[c].now <= Skew
        BY <2>0 DEF ClockTick
    <2> QED  BY <1>1, <2>1, <2>2
<1>4. pinop' \in [OpIds -> SUBSET Sids] /\ clock' \in Nat /\ call' \in [Callers -> Calls \cup {None}]
    BY <1>1 DEF RedisInv, RedisTypeOK
<1> QED  BY <1>1, <1>2, <1>3, <1>4, NoScriptPins, QuietInv

\* A batch has the members whose score is due, and no more than the batch size.
LEMMA BatchFacts ==
    ASSUME NEW S, NEW zset \in [S -> Nat \cup {None}], NEW t, NEW B \in FirstOf(zset, t)
    PROVE  /\ B \subseteq S /\ Cardinality(B) <= BatchSize
           /\ \A x \in B : zset[x] # None /\ zset[x] <= t
    BY DEF FirstOf, UpTo, Members

\* The eviction index after reconcile_pins: the published slots without a live pin.
LEMMA IndexAfter ==
    ASSUME RedisAssumption, RedisInv, NEW t \in Nat
    PROVE  /\ Returned(UpTo(pin, t)) \in [Sids -> Nat \cup {None}]
           /\ \A s \in Sids : Returned(UpTo(pin, t))[s] =
                IF s \in slotkey /\ ~(pin[s] # None /\ pin[s] > t) THEN all[s] ELSE None
<1>1. UpTo(pin, t) = {s \in Sids : pin[s] # None /\ pin[s] <= t}
    BY IndexFacts DEF UpTo, Members
<1>2. Returned(UpTo(pin, t)) \in [Sids -> Nat \cup {None}]
    BY IndexFacts DEF Returned
<1>3. ASSUME NEW s \in Sids
      PROVE  Returned(UpTo(pin, t))[s] =
                IF s \in slotkey /\ ~(pin[s] # None /\ pin[s] > t) THEN all[s] ELSE None
    <2>1. CASE pin[s] = None
        BY <1>1, <2>1, IndexFacts DEF Returned
    <2>2. CASE pin[s] # None /\ pin[s] > t
        BY <1>1, <2>2, IndexFacts DEF Returned
    <2>3. CASE pin[s] # None /\ ~(pin[s] > t)
        <3>1. s \in UpTo(pin, t) \cap slotkey /\ all[s] # None
            BY <1>1, <2>3, IndexFacts
        <3> QED  BY <2>3, <3>1 DEF Returned
    <2> QED  BY <2>1, <2>2, <2>3
<1> QED  BY <1>2, <1>3

\* What one cleanup takes: idle slots without a live pin, expired records.
CleanupTakes(t, idle, ekeys, etombs) ==
    /\ idle \subseteq Sids /\ Cardinality(idle) <= BatchSize
    /\ \A s \in idle : s \in slotkey /\ ~(pin[s] # None /\ pin[s] > t) /\ all[s] + IdleTTL <= t
    /\ slotkey' = slotkey \ idle /\ all' = ZRem(all, idle)
    /\ lru' = ZRem(Returned(UpTo(pin, t)), idle)
    /\ ekeys \subseteq IdKeys /\ Cardinality(ekeys) <= BatchSize
    /\ \A k \in ekeys : bookexp[k] # None /\ bookexp[k] <= t
    /\ booking' = ZRem(booking, ekeys) /\ bookexp' = ZRem(bookexp, ekeys)
    /\ etombs \subseteq Sids /\ Cardinality(etombs) <= BatchSize
    /\ \A s \in etombs : tombexp[s] # None /\ tombexp[s] <= t
    /\ booked' = ZRem(booked, etombs) /\ tombexp' = ZRem(tombexp, etombs)

LEMMA CleanupEffect ==
    ASSUME RedisAssumption, RedisInv, NEW t \in Recents, CleanupScript(t)
    PROVE  /\ t \in Nat
           /\ \E idle, ekeys, etombs : CleanupTakes(t, idle, ekeys, etombs)
<1>1. t \in Nat
    BY DEF Recents
<1> DEFINE index == Returned(UpTo(pin, t))
<1>2. PICK idle \in IF t >= IdleTTL THEN FirstOf(index, t - IdleTTL) ELSE {{}} :
        lru' = ZRem(index, idle) /\ all' = ZRem(all, idle) /\ slotkey' = slotkey \ idle
    BY DEF CleanupScript
<1>3. index \in [Sids -> Nat \cup {None}]
    BY <1>1, IndexAfter
<1>4. /\ idle \subseteq Sids /\ Cardinality(idle) <= BatchSize
      /\ \A s \in idle : index[s] # None /\ t >= IdleTTL /\ index[s] <= t - IdleTTL
    <2>1. CASE t >= IdleTTL
        <3>1. idle \in FirstOf(index, t - IdleTTL)
            BY <1>2, <2>1
        <3> HIDE DEF index
        <3> QED  BY <1>3, <2>1, <3>1, BatchFacts
    <2>2. CASE ~(t >= IdleTTL)
        <3>1. idle = {}
            BY <1>2, <2>2
        <3> QED  BY <3>1, FS_EmptySet, ConstantFacts
    <2> QED  BY <2>1, <2>2
<1>5. \A s \in idle : s \in slotkey /\ ~(pin[s] # None /\ pin[s] > t) /\ all[s] + IdleTTL <= t
    <2> SUFFICES ASSUME NEW s \in idle
                 PROVE  s \in slotkey /\ ~(pin[s] # None /\ pin[s] > t) /\ all[s] + IdleTTL <= t
        OBVIOUS
    <2>1. s \in Sids /\ index[s] # None /\ index[s] <= t - IdleTTL
        BY <1>4
    <2>2. s \in slotkey /\ ~(pin[s] # None /\ pin[s] > t) /\ index[s] = all[s]
        BY <1>1, <2>1, IndexAfter
    <2>3. all[s] \in Nat /\ all[s] <= t - IdleTTL
        BY <2>1, <2>2, IndexFacts
    <2> QED  BY <1>1, <2>2, <2>3, ConstantFacts
<1>6. PICK ekeys \in FirstOf(bookexp, t) :
        booking' = ZRem(booking, ekeys) /\ bookexp' = ZRem(bookexp, ekeys)
    BY DEF CleanupScript
<1>7. /\ ekeys \subseteq IdKeys /\ Cardinality(ekeys) <= BatchSize
      /\ \A k \in ekeys : bookexp[k] # None /\ bookexp[k] <= t
    BY <1>6, BatchFacts DEF RedisInv, RedisTypeOK
<1>8. PICK etombs \in FirstOf(tombexp, t) :
        booked' = ZRem(booked, etombs) /\ tombexp' = ZRem(tombexp, etombs)
    BY DEF CleanupScript
<1>9. /\ etombs \subseteq Sids /\ Cardinality(etombs) <= BatchSize
      /\ \A s \in etombs : tombexp[s] # None /\ tombexp[s] <= t
    BY <1>8, BatchFacts DEF RedisInv, RedisTypeOK
<1>10. CleanupTakes(t, idle, ekeys, etombs)
    BY <1>2, <1>4, <1>5, <1>6, <1>7, <1>8, <1>9 DEF CleanupTakes
<1> QED  BY <1>1, <1>10

\* Without lapsed pins: what is left of them.
LEMMA CleanupPins ==
    ASSUME RedisAssumption, RedisInv, NEW t \in Nat, CleanupScript(t)
    PROVE  /\ pin' \in [Sids -> Nat \cup {None}] /\ pinowner' \in [Sids -> OpIds \cup {None}]
           /\ pinop' \in [OpIds -> SUBSET Sids]
           /\ \A s \in Sids : IF pin[s] # None /\ pin[s] > t
                               THEN pin'[s] = pin[s] /\ pinowner'[s] = pinowner[s]
                               ELSE pin'[s] = None /\ pinowner'[s] = None
           /\ \A o \in OpIds : \A s \in pinop'[o] : pinowner'[s] = o
           /\ \A s \in Sids : pin'[s] # None => s \in pinop'[pinowner'[s]] \/ pin'[s] <= clock
<1> DEFINE stale == UpTo(pin, t)
<1>1. stale = {s \in Sids : pin[s] # None /\ pin[s] <= t}
    BY IndexFacts DEF UpTo, Members
<1>2. /\ pin' = ZRem(pin, stale) /\ pinowner' = ZRem(pinowner, stale)
      /\ pinop' = [o \in OpIds |-> pinop[o] \ {s \in stale : pinowner[s] = o}]
    BY DEF CleanupScript
<1> HIDE DEF stale
<1>3. /\ pin' \in [Sids -> Nat \cup {None}] /\ pinowner' \in [Sids -> OpIds \cup {None}]
      /\ pinop' \in [OpIds -> SUBSET Sids]
    BY <1>2, IndexFacts DEF ZRem
<1>4. \A s \in Sids : IF pin[s] # None /\ pin[s] > t
                       THEN pin'[s] = pin[s] /\ pinowner'[s] = pinowner[s]
                       ELSE pin'[s] = None /\ pinowner'[s] = None
    BY <1>1, <1>2, IndexFacts, ConstantFacts DEF ZRem
<1>5. \A o \in OpIds : \A s \in pinop'[o] : pinowner'[s] = o
    BY <1>2, <1>3, IndexFacts DEF ZRem
<1>6. \A s \in Sids : pin'[s] # None => s \in pinop'[pinowner'[s]] \/ pin'[s] <= clock
    <2> SUFFICES ASSUME NEW s \in Sids, pin'[s] # None
                 PROVE  s \in pinop'[pinowner'[s]] \/ pin'[s] <= clock
        OBVIOUS
    <2>1. pin'[s] = pin[s] /\ pinowner'[s] = pinowner[s] /\ s \notin stale /\ pinowner[s] \in OpIds
        BY <1>1, <1>4, IndexFacts
    <2>2. s \in pinop[pinowner[s]] \/ pin[s] <= clock
        BY <2>1 DEF RedisInv, PinsFound
    <2> QED  BY <1>2, <2>1, <2>2
<1> QED  BY <1>3, <1>4, <1>5, <1>6

LEMMA CleanupInv ==
    ASSUME RedisAssumption, RedisInv, NEW t \in Recents, CleanupScript(t)
    PROVE  RedisInv'
<1>1. t \in Nat /\ script' = None /\ UNCHANGED <<clock, call, offered, held>>
    BY CleanupEffect DEF CleanupScript, NoScript
<1>2. PICK idle, ekeys, etombs : CleanupTakes(t, idle, ekeys, etombs)
    BY CleanupEffect
<1> DEFINE index == Returned(UpTo(pin, t))
<1>3. /\ idle \subseteq Sids
      /\ \A s \in idle : s \in slotkey /\ ~(pin[s] # None /\ pin[s] > t)
      /\ slotkey' = slotkey \ idle /\ all' = ZRem(all, idle) /\ lru' = ZRem(index, idle)
    BY <1>2 DEF CleanupTakes
<1>4. /\ index \in [Sids -> Nat \cup {None}]
      /\ \A s \in Sids : index[s] =
            IF s \in slotkey /\ ~(pin[s] # None /\ pin[s] > t) THEN all[s] ELSE None
    BY <1>1, IndexAfter
<1> HIDE DEF index
<1>5. /\ pin' \in [Sids -> Nat \cup {None}] /\ pinowner' \in [Sids -> OpIds \cup {None}]
      /\ pinop' \in [OpIds -> SUBSET Sids]
      /\ \A s \in Sids : IF pin[s] # None /\ pin[s] > t
                          THEN pin'[s] = pin[s] /\ pinowner'[s] = pinowner[s]
                          ELSE pin'[s] = None /\ pinowner'[s] = None
      /\ \A o \in OpIds : \A s \in pinop'[o] : pinowner'[s] = o
      /\ \A s \in Sids : pin'[s] # None => s \in pinop'[pinowner'[s]] \/ pin'[s] <= clock
    BY <1>1, CleanupPins
<1>6. /\ lru' \in [Sids -> Nat \cup {None}] /\ all' \in [Sids -> Nat \cup {None}]
      /\ slotkey' \in SUBSET Sids
    BY <1>3, <1>4, IndexFacts DEF ZRem
<1>7. IndexesAgree'
    <2>1. \A x \in Sids : pin'[x] # None <=> pinowner'[x] # None
        BY <1>5, IndexFacts
    <2>2. \A x \in Sids : pin'[x] # None => x \in slotkey'
        BY <1>3, <1>5, IndexFacts
    <2>3. \A x \in Sids : x \in slotkey' <=> all'[x] # None
        BY <1>3, IndexFacts DEF ZRem
    <2>4. ASSUME NEW x \in Sids
          PROVE  lru'[x] = IF x \in slotkey' /\ pin'[x] = None THEN all'[x] ELSE None
        <3>1. CASE x \in idle
            BY <1>3, <1>4, <3>1 DEF ZRem
        <3>2. CASE x \notin idle
            <4>1. lru'[x] = index[x] /\ all'[x] = all[x] /\ (x \in slotkey' <=> x \in slotkey)
                BY <1>3, <1>4, <3>2, IndexFacts DEF ZRem
            <4>2. pin'[x] = None <=> ~(pin[x] # None /\ pin[x] > t)
                BY <1>5
            <4> QED  BY <1>4, <4>1, <4>2
        <3> QED  BY <3>1, <3>2
    <2> QED  BY <1>5, <1>6, <2>1, <2>2, <2>3, <2>4, IndexesFrom
<1>8. /\ booking' = ZRem(booking, ekeys) /\ bookexp' = ZRem(bookexp, ekeys)
      /\ booked' = ZRem(booked, etombs) /\ tombexp' = ZRem(tombexp, etombs)
    BY <1>2 DEF CleanupTakes
<1>9. /\ booking' \in [IdKeys -> Sids \cup {Empty, None}] /\ bookexp' \in [IdKeys -> Nat \cup {None}]
    BY <1>8 DEF RedisInv, RedisTypeOK, ZRem
<1>10. /\ booked' \in [Sids -> Tombs \cup {None}] /\ tombexp' \in [Sids -> Nat \cup {None}]
    BY <1>8 DEF RedisInv, RedisTypeOK, ZRem
<1>11. RecordsIndexed'
    <2>1. ASSUME NEW k \in IdKeys, booking'[k] # None PROVE bookexp'[k] # None /\ held'[k] # None
        BY <1>1, <1>8, <2>1 DEF RedisInv, RedisTypeOK, RecordsIndexed, ZRem
    <2>2. ASSUME NEW s \in Sids, booked'[s] # None PROVE tombexp'[s] = booked'[s].until
        BY <1>8, <2>2 DEF RedisInv, RedisTypeOK, RecordsIndexed, ZRem
    <2> QED  BY <2>1, <2>2 DEF RecordsIndexed
<1>12. PinsFound'
    BY <1>1, <1>5 DEF PinsFound
<1> QED  BY <1>1, <1>5, <1>6, <1>7, <1>9, <1>10, <1>11, <1>12, ReapInv

-----------------------------------------------------------------------------
(* The indexes agree                                                       *)

LEMMA RedisBegins == ASSUME RedisAssumption, RedisInit PROVE RedisInv
<1>1. RedisTypeOK
    BY DEF RedisInit, RedisTypeOK, Nil
<1>2. IndexesAgree
    BY DEF RedisInit, IndexesAgree, Nil, Members
<1>3. RecordsIndexed /\ PinsFound /\ ScriptPins /\ CallsRecent
    BY DEF RedisInit, RecordsIndexed, PinsFound, ScriptPins, CallsRecent, Nil
<1> QED  BY <1>1, <1>2, <1>3 DEF RedisInv

LEMMA RedisStep == ASSUME RedisAssumption, RedisInv, [RedisNext]_redisVars PROVE RedisInv'
<1>1. CASE UNCHANGED redisVars
    BY <1>1 DEF redisVars, keys, RedisInv, RedisTypeOK, IndexesAgree, RecordsIndexed, PinsFound,
                ScriptPins, PinView, CallsRecent, Recent
<1>2. CASE \E op \in OpIds, q \in CandLists, t \in Recents : PublishScript(op, q, t)
    BY <1>2, PublishBeginInv
<1>3. CASE Touch \/ Admit \/ Omit \/ PublishDone
    BY <1>3, TouchInv, AdmitInv, ScriptInv
<1>4. CASE \/ \E c \in Callers, k \in IdKeys : GetRead(c, k)
           \/ \E c \in Callers : GetScore(c)
           \/ \E c \in Callers, s \in Sids, k \in IdKeys : BookRead(c, s, k)
    BY <1>4, ReadInv
<1>5. CASE \E c \in Callers : BookScript(c)
    BY <1>5, BookScriptInv
<1>6. CASE \E op \in OpIds : ReleaseScript(op)
    BY <1>6, ReleaseInv
<1>7. CASE \E t \in Recents : CleanupScript(t)
    BY <1>7, CleanupInv
<1>8. CASE \/ \E k \in IdKeys : ExpireBooking(k)
           \/ \E s \in Sids : ExpireTomb(s)
    BY <1>8, ExpireInv
<1>9. CASE \E op \in OpIds : ExpirePinop(op)
    BY <1>9, ExpirePinopInv
<1>10. CASE ClockTick
    BY <1>10, TickInv
<1> QED  BY <1>1, <1>2, <1>3, <1>4, <1>5, <1>6, <1>7, <1>8, <1>9, <1>10 DEF RedisNext

LEMMA RedisInvariance == ASSUME RedisAssumption PROVE RedisSpec => []RedisInv
<1>1. RedisInit => RedisInv
    BY RedisBegins
<1>2. RedisInv /\ [RedisNext]_redisVars => RedisInv'
    BY RedisStep
<1> QED  BY <1>1, <1>2, PTL DEF RedisSpec

\* Whatever scripts, reads and native expiries overlap: `all' ranks the published
\* slots, pins have owners, an operation's set holds its own pins only, and lru has
\* exactly the published slots that no search has pinned.
THEOREM Indexes == ASSUME RedisAssumption PROVE RedisSpec => []IndexesAgree
<1>1. RedisInv => IndexesAgree
    BY DEF RedisInv
<1> QED  BY <1>1, RedisInvariance, PTL

-----------------------------------------------------------------------------
(* The scripts implement MockBooking                                       *)

\* The pins and the search of MockBooking.
PinsHere == IF script # None THEN script.before ELSE PinView
PubHere ==
    IF script = None THEN None
    ELSE [op |-> script.op, now |-> script.now, cands |-> script.cands,
          next |-> script.next, admitted |-> script.admitted]

LEMMA SameCardinality == ASSUME NEW S PROVE Store!Cardinality(S) = Cardinality(S)
    BY DEF Cardinality, Store!Cardinality

LEMMA InitImplements == ASSUME RedisAssumption, RedisInit PROVE Store!Init
    BY DEF RedisInit, Store!Init, BookingView, PinView, Nil

LEMMA PubFacts ==
    ASSUME RedisAssumption, RedisInv, script # None
    PROVE  /\ PubHere # None /\ PubHere.op = script.op /\ PubHere.now = script.now
           /\ PubHere.cands = script.cands /\ PubHere.next = script.next
           /\ PubHere.admitted = script.admitted
<1>1. script \in Scripts
    BY DEF RedisInv, RedisTypeOK
<1>2. PubHere \in PubRecords
    BY <1>1 DEF PubHere, PubRecords, Scripts
<1>3. PubHere # None
    BY <1>2, ConstantFacts
<1> QED  BY <1>3 DEF PubHere

LEMMA BeginImplements ==
    ASSUME RedisAssumption, RedisInv, NEW op \in OpIds, NEW q \in CandLists, NEW t \in Recents,
           PublishScript(op, q, t)
    PROVE  Store!Next
<1>1. q \in Store!Candidates /\ t \in Store!Readings
    <2>1. Store!Cardinality(Sids) = Cardinality(Sids)
        BY SameCardinality
    <2>2. Store!Candidates = CandLists
        BY <2>1 DEF CandLists, Store!Candidates
    <2>3. t \in Store!Readings
        BY DEF Recents, Store!Readings, Recent
    <2> QED  BY <2>2, <2>3
<1>2. script = None /\ script' # None
    BY PublishBeginInv, ConstantFacts DEF PublishScript, NoScript
<1>3. script' = [op |-> op, now |-> t, cands |-> q, next |-> 1, admitted |-> {},
                 before |-> [s \in Sids |->
                     IF pin[s] # None /\ pin[s] > t
                     THEN [op |-> pinowner[s], until |-> pin[s]] ELSE None]]
    BY DEF PublishScript
<1>4. script'.before = [s \in Sids |-> IF Store!Live(PinView[s], t) THEN PinView[s] ELSE None]
    <2>1. ASSUME NEW s \in Sids
          PROVE  (IF pin[s] # None /\ pin[s] > t
                  THEN [op |-> pinowner[s], until |-> pin[s]] ELSE None)
                 = IF Store!Live(PinView[s], t) THEN PinView[s] ELSE None
        <3>1. CASE pin[s] = None
            BY <3>1 DEF PinView, Store!Live
        <3>2. CASE pin[s] # None
            <4>1. [op |-> pinowner[s], until |-> pin[s]] \in Pins
                BY <3>2, IndexFacts DEF Pins
            <4> QED  BY <3>2, <4>1, ConstantFacts DEF PinView, Store!Live
        <3> QED  BY <3>1, <3>2
    <2> QED  BY <1>3, <2>1
<1>5. UNCHANGED <<clock, all, booked, booking, bookexp, held>>
    BY DEF PublishScript
<1>6. Store!PublishBegin(op, q, t)
    BY <1>2, <1>3, <1>4, <1>5 DEF Store!PublishBegin, Store!Unlocked, Store!LivePins, BookingView
<1> QED  BY <1>1, <1>6 DEF Store!Next

\* What the script considers is what MockBooking considers.
LEMMA ConsideringSame ==
    ASSUME RedisAssumption, RedisInv, HasNext
    PROVE  /\ Store!Considering /\ Store!Candidate = Sid /\ Sid \in Sids
           /\ Store!BookedSlot <=> Skip
           /\ script # None /\ script.now \in Nat
           /\ Store!Published = Members(all) /\ Store!Evictable = Members(lru)
           /\ IsFiniteSet(Members(all)) /\ Cardinality(Members(all)) \in Nat
<1>1. /\ script \in Scripts /\ script # None /\ Sid \in Sids /\ script.now \in Nat
    BY SidFacts DEF RedisInv
<1>2. /\ PubHere # None /\ PubHere.now = script.now
      /\ PubHere.cands = script.cands /\ PubHere.next = script.next
      /\ PubHere.admitted = script.admitted
    BY <1>1, PubFacts
<1>3. Store!Considering /\ Store!Candidate = Sid
    BY <1>2 DEF Store!Considering, Store!Candidate, Sid, HasNext, PubHere
<1>4. Store!BookedSlot <=> Skip
    BY <1>2, <1>3 DEF Store!BookedSlot, Store!Live, Skip, PubHere
<1>5. Store!Published = Members(all)
    BY IndexFacts DEF Store!Published, Members
<1>6. Store!Evictable = Members(lru)
    <2>1. /\ \A s \in Sids : script.before[s] # None => script.before[s].until > script.now
          /\ \A s \in Sids : PinView[s] = IF s \in script.admitted
                                 THEN [op |-> script.op, until |-> script.now + PinTTL]
                                 ELSE script.before[s]
        BY <1>1 DEF RedisInv, ScriptPins
    <2>2. Store!Evictable = {s \in Sids : all[s] # None /\ script.before[s] = None
                                           /\ s \notin script.admitted}
        BY <1>1, <1>2, <2>1 DEF Store!Evictable, Store!Published, Store!Pinned, Store!Live, PubHere
    <2>3. ASSUME NEW s \in Sids
          PROVE  pin[s] = None <=> script.before[s] = None /\ s \notin script.admitted
        <3>1. pin[s] # None => PinView[s] \in Pins
            BY IndexFacts DEF PinView, Pins
        <3>2. pin[s] = None <=> PinView[s] = None
            BY <3>1, ConstantFacts DEF PinView
        <3>3. [op |-> script.op, until |-> script.now + PinTTL] \in Pins
            BY <1>1, ConstantFacts DEF Pins, Scripts
        <3> QED  BY <2>1, <3>2, <3>3, ConstantFacts
    <2>4. Members(lru) = {s \in Sids : all[s] # None /\ pin[s] = None}
        BY IndexFacts DEF Members
    <2> QED  BY <2>2, <2>3, <2>4
<1>7. Members(all) \in SUBSET Sids
    BY IndexFacts DEF Members
<1>8. IsFiniteSet(Members(all)) /\ Cardinality(Members(all)) \in Nat
    BY <1>7, FS_Subset, FS_CardinalityType DEF RedisAssumption
<1> QED  BY <1>1, <1>3, <1>4, <1>5, <1>6, <1>8

\* The script's own record of a search that goes on is MockBooking's.
LEMMA AdmittedSame ==
    ASSUME RedisAssumption, RedisInv, HasNext, NEW A \in SUBSET Sids,
           script' = [script EXCEPT !.next = @ + 1, !.admitted = A]
    PROVE  /\ script' \in Scripts /\ script' # None /\ script'.before = script.before
           /\ PubHere' = [PubHere EXCEPT !.next = @ + 1, !.admitted = A]
<1>1. script \in Scripts /\ script # None /\ script.next \in Nat
    BY SidFacts DEF RedisInv
<1>2. script.next + 1 \in Nat \ {0}
    BY <1>1
<1>3. /\ script' \in Scripts /\ script'.before = script.before /\ script'.op = script.op
      /\ script'.now = script.now /\ script'.cands = script.cands
      /\ script'.next = script.next + 1 /\ script'.admitted = A
    BY <1>1, <1>2 DEF Scripts
<1>4. script' # None
    BY <1>3, ConstantFacts
<1>5. PubHere \in PubRecords /\ PubHere' \in PubRecords
    BY <1>1, <1>3, <1>4 DEF PubHere, PubRecords, Scripts
<1>6. /\ PubHere.op = script.op /\ PubHere.now = script.now /\ PubHere.cands = script.cands
      /\ PubHere.next = script.next
    BY <1>1 DEF PubHere
<1>7. /\ PubHere'.op = script.op /\ PubHere'.now = script.now /\ PubHere'.cands = script.cands
      /\ PubHere'.next = script.next + 1 /\ PubHere'.admitted = A
    BY <1>3, <1>4 DEF PubHere
<1> HIDE DEF PubHere
<1>8. PubHere' = [PubHere EXCEPT !.next = @ + 1, !.admitted = A]
    <2> DEFINE next == [PubHere EXCEPT !.next = @ + 1, !.admitted = A]
    <2>1. /\ next \in PubRecords /\ next.op = script.op /\ next.now = script.now
          /\ next.cands = script.cands /\ next.next = script.next + 1 /\ next.admitted = A
        BY <1>2, <1>5, <1>6 DEF PubRecords
    <2> HIDE DEF next
    <2>2. PubHere' = next
        BY <1>5, <1>7, <2>1 DEF PubRecords
    <2> QED  BY <2>2 DEF next
<1> QED  BY <1>3, <1>4, <1>8

LEMMA TouchImplements ==
    ASSUME RedisAssumption, RedisInv, Touch
    PROVE  Store!Next
<1>1. /\ HasNext /\ ~Skip /\ Sid \in slotkey /\ all' = [all EXCEPT ![Sid] = script.now]
      /\ script' = [script EXCEPT !.next = @ + 1, !.admitted = @ \cup {Sid}]
      /\ UNCHANGED <<clock, booked, booking, bookexp, held>>
    BY DEF Touch, PinAndAdmit
<1>2. /\ Store!Considering /\ Store!Candidate = Sid /\ Sid \in Sids
      /\ ~Store!BookedSlot /\ script # None
    BY <1>1, ConsideringSame
<1>3. script.admitted \cup {Sid} \in SUBSET Sids
    BY <1>1, <1>2, SidFacts DEF RedisInv, Scripts
<1>4. /\ script' # None /\ script'.before = script.before
      /\ PubHere' = [PubHere EXCEPT !.next = @ + 1, !.admitted = script.admitted \cup {Sid}]
    BY <1>1, <1>3, AdmittedSame
<1>5. PubHere.admitted = script.admitted /\ PubHere.now = script.now
    BY <1>2, PubFacts
<1>6. all[Sid] # None
    BY <1>1, <1>2, IndexFacts
<1>7. Store!Admitted
    BY <1>2, <1>4, <1>5 DEF Store!Admitted, PubHere
<1>8. Store!TouchPublished
    BY <1>1, <1>2, <1>4, <1>5, <1>6, <1>7 DEF Store!TouchPublished, BookingView, PubHere
<1> QED  BY <1>8 DEF Store!Next, Store!PublishStep

\* At the limit both give up a least recently touched slot that no search holds.
LEMMA RoomSame ==
    ASSUME RedisAssumption, RedisInv, HasNext
    PROVE  /\ Store!HasRoom <=> Cardinality(Members(all)) < Capacity
           /\ Store!Victims = Lowest(lru)
           /\ Lowest(lru) \subseteq Sids
<1>1. Store!Published = Members(all) /\ Store!Evictable = Members(lru)
    BY ConsideringSame
<1>2. Store!HasRoom <=> Cardinality(Members(all)) < Capacity
    BY <1>1, SameCardinality DEF Store!HasRoom
<1>3. \A s \in Members(lru) : s \in Sids /\ lru[s] = all[s]
    BY IndexFacts DEF Members
<1>4. Store!Victims = Lowest(lru)
    BY <1>1, <1>3 DEF Store!Victims, Lowest
<1> QED  BY <1>2, <1>3, <1>4 DEF Lowest

LEMMA AdmitImplements ==
    ASSUME RedisAssumption, RedisInv, Admit
    PROVE  Store!Next
<1>1. /\ HasNext /\ ~Skip /\ Sid \notin slotkey
      /\ script' = [script EXCEPT !.next = @ + 1, !.admitted = @ \cup {Sid}]
      /\ UNCHANGED <<clock, booked, booking, bookexp, held>>
    BY DEF Admit, PinAndAdmit
<1>2. /\ Store!Considering /\ Store!Candidate = Sid /\ Sid \in Sids
      /\ ~Store!BookedSlot /\ script # None /\ Cardinality(Members(all)) \in Nat
    BY <1>1, ConsideringSame
<1>3. script.admitted \cup {Sid} \in SUBSET Sids
    BY <1>1, <1>2, SidFacts DEF RedisInv, Scripts
<1>4. /\ script' # None /\ script'.before = script.before
      /\ PubHere' = [PubHere EXCEPT !.next = @ + 1, !.admitted = script.admitted \cup {Sid}]
    BY <1>1, <1>3, AdmittedSame
<1>5. PubHere.admitted = script.admitted /\ PubHere.now = script.now
    BY <1>2, PubFacts
<1>6. all[Sid] = None
    BY <1>1, <1>2, IndexFacts
<1>7. Store!Admitted
    BY <1>2, <1>4, <1>5 DEF Store!Admitted, PubHere
<1>8. PICK gone \in IF Cardinality(Members(all)) >= Capacity
                    THEN {{v} : v \in Lowest(lru)} ELSE {{}} :
         all' = [ZRem(all, gone) EXCEPT ![Sid] = script.now]
    BY DEF Admit
<1>9. \/ Store!HasRoom /\ all' = [all EXCEPT ![Sid] = script.now]
      \/ /\ ~Store!HasRoom
         /\ \E v \in Store!Victims : all' = [all EXCEPT ![v] = None, ![Sid] = script.now]
    <2>1. CASE Cardinality(Members(all)) < Capacity
        <3>1. gone = {} /\ Store!HasRoom
            BY <1>1, <1>2, <1>8, <2>1, RoomSame, ConstantFacts
        <3>2. ZRem(all, {}) = all
            BY IndexFacts DEF ZRem
        <3> QED  BY <1>8, <3>1, <3>2
    <2>2. CASE ~(Cardinality(Members(all)) < Capacity)
        <3>1. PICK v \in Lowest(lru) : gone = {v}
            BY <1>2, <1>8, <2>2, ConstantFacts
        <3>2. v \in Sids /\ v \in Store!Victims /\ ~Store!HasRoom
            BY <1>1, <2>2, <3>1, RoomSame
        <3>3. ZRem(all, {v}) = [all EXCEPT ![v] = None]
            BY <3>2, IndexFacts DEF ZRem
        <3>4. all' = [all EXCEPT ![v] = None, ![Sid] = script.now]
            BY <1>8, <3>1, <3>3
        <3> QED  BY <3>2, <3>4
    <2> QED  BY <2>1, <2>2
<1>10. Store!AdmitNew
    BY <1>1, <1>2, <1>4, <1>5, <1>6, <1>7, <1>9 DEF Store!AdmitNew, BookingView, PubHere
<1> QED  BY <1>10 DEF Store!Next, Store!PublishStep

LEMMA OmitImplements ==
    ASSUME RedisAssumption, RedisInv, Omit
    PROVE  Store!Next
<1>1. /\ HasNext /\ script' = [script EXCEPT !.next = @ + 1]
      /\ UNCHANGED <<clock, all, booked, booking, bookexp, held>>
    BY DEF Omit, keys
<1>2. /\ Store!Considering /\ Store!Candidate = Sid /\ Sid \in Sids
      /\ (Store!BookedSlot <=> Skip) /\ script # None /\ Cardinality(Members(all)) \in Nat
    BY <1>1, ConsideringSame
<1>3. script \in Scripts /\ script.next \in Nat
    BY <1>1, SidFacts DEF RedisInv
<1>4. script' = [script EXCEPT !.next = @ + 1, !.admitted = script.admitted]
    BY <1>1, <1>3 DEF Scripts
<1>5. script.admitted \in SUBSET Sids
    BY <1>3 DEF Scripts
<1>6. /\ script' # None /\ script'.before = script.before
      /\ PubHere' = [PubHere EXCEPT !.next = @ + 1, !.admitted = script.admitted]
    BY <1>1, <1>4, <1>5, AdmittedSame
<1>7. PubHere \in PubRecords /\ PubHere.admitted = script.admitted
    BY <1>2, <1>3 DEF PubHere, PubRecords, Scripts
<1>8. PubHere' = [PubHere EXCEPT !.next = @ + 1]
    <2> HIDE DEF PubHere
    <2> QED  BY <1>6, <1>7 DEF PubRecords
<1>9. Store!Pass
    BY <1>8 DEF Store!Pass, PubHere
<1>10. CASE Skip
    <2>1. Store!SkipBooked
        BY <1>1, <1>2, <1>6, <1>9, <1>10 DEF Store!SkipBooked, Store!store, BookingView
    <2> QED  BY <2>1 DEF Store!Next, Store!PublishStep
<1>11. CASE ~Skip
    <2>1. Sid \notin slotkey /\ ~(Cardinality(Members(all)) < Capacity) /\ Members(lru) = {}
        BY <1>2, <1>11, ConstantFacts DEF Omit
    <2>2. ~Store!HasRoom /\ Store!Victims = {}
        BY <1>1, <2>1, RoomSame DEF Lowest
    <2>3. all[Sid] = None
        BY <1>2, <2>1, IndexFacts
    <2>4. Store!OmitNew
        BY <1>1, <1>2, <1>6, <1>9, <1>11, <2>2, <2>3
           DEF Store!OmitNew, Store!store, BookingView
    <2> QED  BY <2>4 DEF Store!Next, Store!PublishStep
<1> QED  BY <1>10, <1>11

\* At its end the pins the script has set become everyone's.
LEMMA EndImplements ==
    ASSUME RedisAssumption, RedisInv, PublishDone
    PROVE  Store!Next
<1>1. /\ script # None /\ script.next > Len(script.cands) /\ script' = None
      /\ UNCHANGED <<clock, all, booked, booking, bookexp, held, pin, pinowner>>
    BY DEF PublishDone, keys
<1>2. /\ PubHere # None /\ PubHere.op = script.op /\ PubHere.now = script.now
      /\ PubHere.cands = script.cands /\ PubHere.next = script.next
      /\ PubHere.admitted = script.admitted
    BY <1>1, PubFacts
<1>3. PinView' = [s \in Sids |-> IF s \in script.admitted
                                  THEN [op |-> script.op, until |-> script.now + PinTTL]
                                  ELSE script.before[s]]
    <2>1. \A s \in Sids : PinView[s] = IF s \in script.admitted
                                        THEN [op |-> script.op, until |-> script.now + PinTTL]
                                        ELSE script.before[s]
        BY <1>1 DEF RedisInv, ScriptPins
    <2>2. PinView' = PinView /\ PinView = [s \in Sids |-> PinView[s]]
        BY <1>1 DEF PinView
    <2> HIDE DEF PinView
    <2> QED  BY <2>1, <2>2
<1>4. Store!PublishEnd
    BY <1>1, <1>2, <1>3 DEF Store!PublishEnd, BookingView, PubHere
<1> QED  BY <1>4 DEF Store!Next, Store!PublishStep

\* Reads, answers and the loss of an operation's pin set change no decision.
LEMMA ReadImplements ==
    ASSUME \/ \E c \in Callers, k \in IdKeys : GetRead(c, k)
           \/ \E c \in Callers : GetScore(c)
           \/ \E c \in Callers, s \in Sids, k \in IdKeys : BookRead(c, s, k)
           \/ \E op \in OpIds : ExpirePinop(op)
    PROVE  UNCHANGED Store!vars
<1>1. UNCHANGED <<clock, all, pin, pinowner, booking, bookexp, booked, held, script>>
    BY DEF GetRead, GetScore, BookRead, ExpirePinop, keys
<1> QED  BY <1>1 DEF Store!vars, Store!store, BookingView, PinView

\* What MockBooking knows of a key, and of a pin.
LEMMA ViewFacts ==
    ASSUME RedisAssumption, RedisInv
    PROVE  /\ \A k \in IdKeys : IF booking[k] = None THEN BookingView[k] = None
                 ELSE /\ BookingView[k] # None /\ BookingView[k].until = bookexp[k]
                      /\ bookexp[k] \in Nat
           /\ \A s \in Sids : IF pin[s] = None THEN PinView[s] = None
                 ELSE /\ PinView[s] # None /\ PinView[s].until = pin[s]
                      /\ PinView[s].op = pinowner[s]
<1>1. ASSUME NEW k \in IdKeys, booking[k] # None
      PROVE  /\ BookingView[k] # None /\ BookingView[k].until = bookexp[k]
             /\ bookexp[k] \in Nat
    <2>1. held[k] \in Sids /\ bookexp[k] \in Nat
        BY <1>1 DEF RedisInv, RedisTypeOK, RecordsIndexed
    <2>2. [slot |-> held[k], until |-> bookexp[k]] \in Reservations
        BY <2>1 DEF Reservations
    <2>3. BookingView[k] = [slot |-> held[k], until |-> bookexp[k]]
        BY <1>1 DEF BookingView
    <2> QED  BY <2>1, <2>2, <2>3, ConstantFacts
<1>2. ASSUME NEW s \in Sids, pin[s] # None
      PROVE  /\ PinView[s] # None /\ PinView[s].until = pin[s] /\ PinView[s].op = pinowner[s]
    <2>1. PinView[s] = [op |-> pinowner[s], until |-> pin[s]]
        BY <1>2 DEF PinView
    <2>2. [op |-> pinowner[s], until |-> pin[s]] \in Pins
        BY <1>2, IndexFacts DEF Pins
    <2> QED  BY <2>1, <2>2, ConstantFacts
<1> QED  BY <1>1, <1>2 DEF BookingView, PinView

\* The script books exactly when MockBooking's book_slot does, at the clock reading
\* its caller came with.
LEMMA BookImplements ==
    ASSUME RedisAssumption, RedisInv, NEW c \in Callers, BookScript(c)
    PROVE  Store!Next \/ UNCHANGED Store!vars
<1> DEFINE s == call[c].slot
           k == call[c].key
           t == call[c].now
<1>1. /\ script = None /\ UNCHANGED <<clock, script>> /\ call[c] # None /\ call[c].kind = "book"
    BY DEF BookScript, NoScript
<1>2. s \in Sids /\ k \in IdKeys /\ t \in Nat /\ t <= clock /\ clock - t <= Skew /\ clock \in Nat
    BY <1>1, BookFacts, IndexFacts
<1>3. t \in Store!Readings
    BY <1>2 DEF Store!Readings
<1>4. CASE Books(s, k, t)
    <2>1. /\ booking' = [booking EXCEPT ![k] = call[c].raw]
          /\ bookexp' = [bookexp EXCEPT ![k] = t + Retention]
          /\ booked' = [booked EXCEPT ![s] = [key |-> k, until |-> t + Retention]]
          /\ all' = ZRem(all, {s})
          /\ pin' = ZRem(pin, {s}) /\ pinowner' = ZRem(pinowner, {s})
          /\ held' = [held EXCEPT ![k] = s]
        BY <1>4 DEF BookScript
    <2>2. call[c].raw # None
        BY <1>1, BookFacts
    <2>3. Store!BookCode(s, k, t) = "BOOKED"
        <3>1. ~Store!Live(BookingView[k], t)
            BY <1>2, <1>4, ViewFacts, ConstantFacts DEF Books, Store!Live
        <3>2. ~(Store!Live(booked[s], t) /\ booked[s].key # k)
            BY <1>4 DEF Books, Store!Live
        <3>3. all[s] # None
            BY <1>2, <1>4, IndexFacts DEF Books
        <3> QED  BY <3>1, <3>2, <3>3 DEF Store!BookCode
    <2> HIDE DEF s, k, t
    <2>4. BookingView' = [BookingView EXCEPT ![k] = [slot |-> s, until |-> t + Retention]]
        <3>1. /\ booking \in [IdKeys -> Sids \cup {Empty, None}]
              /\ bookexp \in [IdKeys -> Nat \cup {None}] /\ held \in [IdKeys -> Sids \cup {None}]
            BY DEF RedisInv, RedisTypeOK
        <3>2. ASSUME NEW x \in IdKeys
              PROVE  (IF booking'[x] # None THEN [slot |-> held'[x], until |-> bookexp'[x]]
                                            ELSE None)
                     = IF x = k THEN [slot |-> s, until |-> t + Retention] ELSE BookingView[x]
            BY <1>2, <2>1, <2>2, <3>1 DEF BookingView
        <3> QED  BY <1>2, <3>2 DEF BookingView
    <2>5. PinView' = [PinView EXCEPT ![s] = None]
        <3>1. ASSUME NEW x \in Sids
              PROVE  (IF pin'[x] # None THEN [op |-> pinowner'[x], until |-> pin'[x]] ELSE None)
                     = IF x = s THEN None ELSE PinView[x]
            BY <1>2, <2>1, IndexFacts DEF PinView, ZRem
        <3> QED  BY <1>2, <3>1 DEF PinView
    <2>6. all' = [all EXCEPT ![s] = None]
        BY <2>1, <1>2, IndexFacts DEF ZRem
    <2>7. Store!BookSlot(s, k, t)
        BY <1>1, <2>1, <2>3, <2>4, <2>5, <2>6 DEF Store!BookSlot, Store!Unlocked
    <2> QED  BY <1>2, <1>3, <2>7 DEF Store!Next
<1>5. CASE ~Books(s, k, t)
    <2>1. UNCHANGED <<keys, held>>
        BY <1>5 DEF BookScript
    <2> QED  BY <1>1, <2>1 DEF keys, Store!vars, Store!store, BookingView, PinView
<1> QED  BY <1>4, <1>5

\* A release leaves only pins of its operation that have lapsed.
LEMMA ReleaseImplements ==
    ASSUME RedisAssumption, RedisInv, NEW op \in OpIds, ReleaseScript(op)
    PROVE  Store!Next
<1> DEFINE mine == {s \in pinop[op] : pinowner[s] = op}
           owned == {s \in Sids : PinView[s] # None /\ PinView[s].op = op}
           left == owned \ mine
<1>1. /\ script = None
      /\ UNCHANGED <<clock, script, all, booking, bookexp, booked, held>>
      /\ pin' = ZRem(pin, mine) /\ pinowner' = ZRem(pinowner, mine)
    BY DEF ReleaseScript, NoScript
<1>2. owned = {s \in Sids : pin[s] # None /\ pinowner[s] = op}
    BY ViewFacts
<1>3. mine = pinop[op] /\ mine \subseteq owned
    BY <1>2, IndexFacts, ConstantFacts
<1>4. left \in SUBSET {s \in owned : PinView[s].until <= clock}
    <2> SUFFICES ASSUME NEW s \in left PROVE PinView[s].until <= clock
        OBVIOUS
    <2>1. s \in Sids /\ pin[s] # None /\ pinowner[s] = op /\ s \notin pinop[op]
        BY <1>2, <1>3
    <2>2. pin[s] <= clock
        BY <2>1 DEF RedisInv, PinsFound
    <2> QED  BY <2>1, <2>2, ViewFacts
<1>5. owned \ left = mine
    BY <1>3
<1> HIDE DEF mine
<1>6. PinView' = [s \in Sids |-> IF s \in mine THEN None ELSE PinView[s]]
    <2>1. ASSUME NEW x \in Sids
          PROVE  (IF pin'[x] # None THEN [op |-> pinowner'[x], until |-> pin'[x]] ELSE None)
                 = IF x \in mine THEN None ELSE PinView[x]
        BY <1>1, IndexFacts DEF PinView, ZRem
    <2> QED  BY <2>1 DEF PinView
<1>7. PinView' = [s \in Sids |-> IF s \in owned \ left THEN None ELSE PinView[s]]
    <2> HIDE DEF owned, left
    <2> QED  BY <1>5, <1>6
<1>8. \E l \in SUBSET {s \in owned : PinView[s].until <= clock} :
         PinView' = [s \in Sids |-> IF s \in owned \ l THEN None ELSE PinView[s]]
    <2> HIDE DEF owned, left
    <2> QED  BY <1>4, <1>7
<1>9. Store!ReleaseOperation(op)
    BY <1>1, <1>8 DEF Store!ReleaseOperation, Store!Unlocked, BookingView
<1> QED  BY <1>9 DEF Store!Next

\* A cleanup takes a batch of the index; its members that still have a record are a
\* batch of MockBooking's expired ones.
LEMMA SmallerBatch ==
    ASSUME RedisAssumption, NEW S, IsFiniteSet(S), NEW B \in SUBSET S,
           Cardinality(B) <= BatchSize, NEW T \in SUBSET B
    PROVE  Store!Cardinality(T) <= BatchSize
<1>1. IsFiniteSet(B)
    BY FS_Subset
<1>2. Cardinality(T) <= Cardinality(B) /\ IsFiniteSet(T)
    BY <1>1, FS_Subset
<1>3. Cardinality(T) \in Nat /\ Cardinality(B) \in Nat
    BY <1>1, <1>2, FS_CardinalityType
<1> QED  BY <1>2, <1>3, SameCardinality, ConstantFacts

LEMMA CleanupImplements ==
    ASSUME RedisAssumption, RedisInv, NEW t \in Recents, CleanupScript(t)
    PROVE  Store!Next
<1>1. /\ t \in Nat /\ t \in Store!Readings /\ script = None
      /\ UNCHANGED <<clock, script, held>>
    BY CleanupEffect DEF CleanupScript, NoScript, Recents, Store!Readings, Recent
<1>2. PICK idle, ekeys, etombs : CleanupTakes(t, idle, ekeys, etombs)
    BY CleanupEffect
<1>3. PinView' = [s \in Sids |-> IF Store!Live(PinView[s], t) THEN PinView[s] ELSE None]
    <2>1. ASSUME NEW s \in Sids
          PROVE  (IF pin'[s] # None THEN [op |-> pinowner'[s], until |-> pin'[s]] ELSE None)
                 = IF Store!Live(PinView[s], t) THEN PinView[s] ELSE None
        <3>1. IF pin[s] # None /\ pin[s] > t
              THEN pin'[s] = pin[s] /\ pinowner'[s] = pinowner[s]
              ELSE pin'[s] = None /\ pinowner'[s] = None
            BY <1>1, CleanupPins
        <3>2. Store!Live(PinView[s], t) <=> pin[s] # None /\ pin[s] > t
            BY ViewFacts DEF Store!Live
        <3> QED  BY <3>1, <3>2 DEF PinView
    <2> QED  BY <2>1 DEF PinView
<1>4. \E gone \in Store!Batches(Store!Idle(t)) : all' = Store!Without(all, gone)
    <2>1. /\ idle \in SUBSET Sids /\ Cardinality(idle) <= BatchSize /\ all' = ZRem(all, idle)
          /\ \A s \in idle : s \in slotkey /\ ~(pin[s] # None /\ pin[s] > t)
                             /\ all[s] + IdleTTL <= t
        BY <1>2 DEF CleanupTakes
    <2>2. Store!Cardinality(idle) <= BatchSize
        BY <2>1, SmallerBatch DEF RedisAssumption
    <2>3. \A s \in idle : s \in Sids /\ all[s] # None /\ ~Store!Live(PinView[s], t)
                          /\ all[s] + IdleTTL <= t
        BY <2>1, IndexFacts, ViewFacts DEF Store!Live
    <2>4. idle \in SUBSET Store!Idle(t)
        BY <1>1, <2>3 DEF Store!Idle, Store!Published, Store!Pinned
    <2>5. idle \in Store!Batches(Store!Idle(t))
        BY <2>2, <2>4 DEF Store!Batches
    <2>6. all' = Store!Without(all, idle)
        BY <2>1 DEF ZRem, Store!Without
    <2> QED  BY <2>5, <2>6
<1>5. \E gone \in Store!Batches(Store!Expired(BookingView, t)) :
         BookingView' = Store!Without(BookingView, gone)
    <2> DEFINE gone == {k \in ekeys : booking[k] # None}
    <2>1. /\ ekeys \in SUBSET IdKeys /\ Cardinality(ekeys) <= BatchSize
          /\ \A k \in ekeys : bookexp[k] # None /\ bookexp[k] <= t
          /\ booking' = ZRem(booking, ekeys) /\ bookexp' = ZRem(bookexp, ekeys)
        BY <1>2 DEF CleanupTakes
    <2>2. gone \in SUBSET ekeys
        OBVIOUS
    <2>3. Store!Cardinality(gone) <= BatchSize
        <3> HIDE DEF gone
        <3> QED  BY <2>1, <2>2, SmallerBatch DEF RedisAssumption
    <2>4. \A k \in gone : k \in IdKeys /\ BookingView[k] # None /\ BookingView[k].until <= t
        BY <2>1, ViewFacts
    <2>5. DOMAIN BookingView = IdKeys
        BY DEF BookingView
    <2>6. gone \in Store!Batches(Store!Expired(BookingView, t))
        <3> HIDE DEF gone
        <3> QED  BY <2>3, <2>4, <2>5 DEF Store!Batches, Store!Expired
    <2>7. ASSUME NEW x \in IdKeys
          PROVE  (IF booking'[x] # None THEN [slot |-> held'[x], until |-> bookexp'[x]] ELSE None)
                 = IF x \in gone THEN None ELSE BookingView[x]
        <3>1. booking \in [IdKeys -> Sids \cup {Empty, None}]
              /\ bookexp \in [IdKeys -> Nat \cup {None}]
            BY DEF RedisInv, RedisTypeOK
        <3>2. CASE x \in ekeys
            BY <2>1, <3>1, <3>2 DEF ZRem, BookingView
        <3>3. CASE x \notin ekeys
            BY <1>1, <2>1, <3>1, <3>3 DEF ZRem, BookingView
        <3> QED  BY <3>2, <3>3
    <2> HIDE DEF gone
    <2>8. BookingView' = Store!Without(BookingView, gone)
        BY <2>5, <2>7 DEF Store!Without, BookingView
    <2> QED  BY <2>6, <2>8
<1>6. \E gone \in Store!Batches(Store!Expired(booked, t)) : booked' = Store!Without(booked, gone)
    <2> DEFINE gone == {s \in etombs : booked[s] # None}
    <2>1. /\ etombs \in SUBSET Sids /\ Cardinality(etombs) <= BatchSize
          /\ \A s \in etombs : tombexp[s] # None /\ tombexp[s] <= t
          /\ booked' = ZRem(booked, etombs) /\ booked \in [Sids -> Tombs \cup {None}]
        BY <1>2 DEF CleanupTakes, RedisInv, RedisTypeOK
    <2>2. gone \in SUBSET etombs
        OBVIOUS
    <2>3. Store!Cardinality(gone) <= BatchSize
        <3> HIDE DEF gone
        <3> QED  BY <2>1, <2>2, SmallerBatch DEF RedisAssumption
    <2>4. \A s \in gone : s \in Sids /\ booked[s] # None /\ booked[s].until <= t
        BY <2>1 DEF RedisInv, RecordsIndexed
    <2>5. \A x \in Sids : (IF x \in etombs THEN None ELSE booked[x])
                           = IF x \in gone THEN None ELSE booked[x]
        OBVIOUS
    <2> HIDE DEF gone
    <2>6. gone \in Store!Batches(Store!Expired(booked, t))
        BY <2>1, <2>3, <2>4 DEF Store!Batches, Store!Expired
    <2>7. booked' = Store!Without(booked, gone)
        BY <2>1, <2>5 DEF Store!Without, ZRem
    <2> QED  BY <2>6, <2>7
<1>7. Store!Cleanup(t)
    BY <1>1, <1>3, <1>4, <1>5, <1>6 DEF Store!Cleanup, Store!Unlocked, Store!LivePins
<1> QED  BY <1>1, <1>7 DEF Store!Next

\* Native expiry, and the clock.
LEMMA LapseImplements ==
    ASSUME RedisAssumption, RedisInv,
           (\E k \in IdKeys : ExpireBooking(k)) \/ (\E s \in Sids : ExpireTomb(s)) \/ ClockTick
    PROVE  Store!Next
<1>1. ASSUME NEW k \in IdKeys, ExpireBooking(k) PROVE Store!Next
    <2>1. /\ script = None /\ booking[k] # None /\ bookexp[k] + KeyGrace <= clock
          /\ booking' = [booking EXCEPT ![k] = None]
          /\ UNCHANGED <<clock, all, pin, pinowner, bookexp, booked, script, held>>
        BY <1>1 DEF ExpireBooking, NoScript
    <2>2. BookingView[k] # None /\ BookingView[k].until + KeyGrace <= clock
        BY <2>1, ViewFacts
    <2>3. ASSUME NEW x \in IdKeys
          PROVE  (IF booking'[x] # None THEN [slot |-> held'[x], until |-> bookexp'[x]] ELSE None)
                 = IF x = k THEN None ELSE BookingView[x]
        BY <2>1 DEF RedisInv, RedisTypeOK, BookingView
    <2>4. BookingView' = [BookingView EXCEPT ![k] = None]
        BY <2>3 DEF BookingView
    <2>5. Store!LapseBooking(k)
        BY <2>1, <2>2, <2>4 DEF Store!LapseBooking, Store!Unlocked, PinView
    <2> QED  BY <2>5 DEF Store!Next
<1>2. ASSUME NEW s \in Sids, ExpireTomb(s) PROVE Store!Next
    <2>1. Store!LapseTomb(s)
        BY <1>2 DEF ExpireTomb, NoScript, Store!LapseTomb, Store!Unlocked, PinView, BookingView
    <2> QED  BY <2>1 DEF Store!Next
<1>3. CASE ClockTick
    <2>1. Store!Tick
        BY <1>3 DEF ClockTick, keys, NoScript, Store!Tick, Store!Unlocked, Store!store,
                    PinView, BookingView
    <2> QED  BY <2>1 DEF Store!Next
<1> QED  BY <1>1, <1>2, <1>3

LEMMA StepImplements ==
    ASSUME RedisAssumption, RedisInv, [RedisNext]_redisVars
    PROVE  [Store!Next]_Store!vars
<1>1. CASE UNCHANGED redisVars
    BY <1>1 DEF redisVars, keys, Store!vars, Store!store, BookingView, PinView
<1>2. CASE \E op \in OpIds, q \in CandLists, t \in Recents : PublishScript(op, q, t)
    BY <1>2, BeginImplements
<1>3. CASE Touch \/ Admit \/ Omit \/ PublishDone
    BY <1>3, TouchImplements, AdmitImplements, OmitImplements, EndImplements
<1>4. CASE \/ \E c \in Callers, k \in IdKeys : GetRead(c, k)
           \/ \E c \in Callers : GetScore(c)
           \/ \E c \in Callers, s \in Sids, k \in IdKeys : BookRead(c, s, k)
           \/ \E op \in OpIds : ExpirePinop(op)
    BY <1>4, ReadImplements
<1>5. CASE \E c \in Callers : BookScript(c)
    BY <1>5, BookImplements
<1>6. CASE \E op \in OpIds : ReleaseScript(op)
    BY <1>6, ReleaseImplements
<1>7. CASE \E t \in Recents : CleanupScript(t)
    BY <1>7, CleanupImplements
<1>8. CASE \/ \E k \in IdKeys : ExpireBooking(k)
           \/ \E s \in Sids : ExpireTomb(s)
           \/ ClockTick
    BY <1>8, LapseImplements
<1> QED  BY <1>1, <1>2, <1>3, <1>4, <1>5, <1>6, <1>7, <1>8 DEF RedisNext

\* The Redis store implements the shared state: every script, and every script whose
\* caller read a key one round trip earlier, is one operation of MockBooking at a clock
\* reading no older than Skew, or changes nothing it decides on.
THEOREM Implements == ASSUME RedisAssumption PROVE RedisSpec => StoreSpec
<1>1. RedisInit => Store!Init
    BY InitImplements
<1>2. RedisInv /\ [RedisNext]_redisVars => [Store!Next]_Store!vars
    BY StepImplements
<1> QED  BY <1>1, <1>2, RedisInvariance, PTL DEF RedisSpec, StoreSpec, Store!Spec
=============================================================================
