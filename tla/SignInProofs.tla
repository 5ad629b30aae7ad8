---------------------------- MODULE SignInProofs ----------------------------
(***************************************************************************)
(* Proofs about SignIn for every number of attempts, emails and peers,     *)
(* every limit and window, with the throttles in process or in Redis.      *)
(***************************************************************************)
EXTENDS SignIn, FiniteSetTheorems, TLAPS

Events == [by : Attempts, at : 0..MaxMinute]
Tokens == [key : Keys, at : 0..MaxMinute]
Guessing == {"peer", "slot", "hashing", "cancelled", "failed"}

-----------------------------------------------------------------------------
(* Constants, types and sets                                               *)

LEMMA ConstantFacts ==
    ASSUME SignInAssumption
    PROVE  /\ Window \in Nat /\ Window > 0 /\ Slots \in Nat /\ MaxMinute \in Nat
           /\ Nobody \notin Keys
           /\ \A k \in Keys : Limit(k) \in Nat /\ Limit(k) > 0
           /\ \A a \in Attempts : EmailOf[a] \in Emails /\ EmailOf[a] \in Keys
                                  /\ PeerOf[a] \in Peers \cup {Nobody}
                                  /\ EmailOf[a] # PeerOf[a]
           /\ \A a \in Signups : a \notin Logins
           /\ IsFiniteSet(Attempts)
    BY DEF SignInAssumption, Keys, Limit

LEMMA TypeFacts ==
    ASSUME SignInTypeOK
    PROVE  /\ place \in [Attempts -> Places] /\ events \in [Keys -> SUBSET Events]
           /\ tokens \in [Attempts -> SUBSET Tokens] /\ minute \in Int /\ minute \in 0..MaxMinute
           /\ epoch \in [Emails -> 0..Cardinality(Logins)]
           /\ since \in [Attempts -> 0..Cardinality(Logins)]
    BY DEF SignInTypeOK, Events, Tokens

\* Logins and the attempts in a state are finitely many.
LEMMA Finite ==
    ASSUME SignInAssumption, NEW S \in SUBSET Attempts
    PROVE  IsFiniteSet(S) /\ Cardinality(S) \in Nat
    BY ConstantFacts, FS_Subset, FS_CardinalityType

\* A part of a finite set is no larger.
LEMMA Smaller ==
    ASSUME NEW S, IsFiniteSet(S), NEW T \in SUBSET S
    PROVE  IsFiniteSet(T) /\ Cardinality(T) <= Cardinality(S)
           /\ Cardinality(S) \in Nat /\ Cardinality(T) \in Nat
    BY FS_Subset, FS_CardinalityType

\* As many attempts as a set of reservations is of, at most.
LEMMA Reservers ==
    ASSUME NEW S, IsFiniteSet(S)
    PROVE  /\ IsFiniteSet({ev.by : ev \in S})
           /\ Cardinality({ev.by : ev \in S}) <= Cardinality(S)
           /\ Cardinality({ev.by : ev \in S}) \in Nat /\ Cardinality(S) \in Nat
<1> DEFINE T == {ev.by : ev \in S}
           f == [ev \in S |-> ev.by]
<1>1. f \in Surjection(S, T)
    BY DEF Surjection
<1> HIDE DEF f, T
<1>2. IsFiniteSet(T) /\ Cardinality(T) <= Cardinality(S)
    BY <1>1, FS_Surjection
<1>3. Cardinality(T) \in Nat /\ Cardinality(S) \in Nat
    BY <1>2, FS_CardinalityType
<1> QED  BY <1>2, <1>3 DEF T

-----------------------------------------------------------------------------
(* The windows                                                             *)

\* Windows that lose reservations, or slide, stay within their limits.
LEMMA ShrinkBounded ==
    ASSUME SignInAssumption, ThrottleInv, minute' \in {minute, minute + 1},
           events' \in [Keys -> SUBSET Events], \A k \in Keys : events'[k] \subseteq events[k]
    PROVE  WindowsBounded'
<1> SUFFICES ASSUME NEW k \in Keys
             PROVE  IsFiniteSet(events'[k]) /\ Cardinality(Live(k)') <= Limit(k)
    BY DEF WindowsBounded, Limit
<1>1. /\ SignInTypeOK /\ events \in [Keys -> SUBSET Events] /\ minute \in Int
      /\ IsFiniteSet(events[k]) /\ Cardinality(Live(k)) <= Limit(k)
    BY TypeFacts DEF ThrottleInv, WindowsBounded
<1>2. IsFiniteSet(events'[k])
    BY <1>1, Smaller
<1>3. Live(k) \in SUBSET events[k] /\ Live(k)' \in SUBSET Live(k)
    <2>1. \A ev \in events[k] : ev.at \in Int
        BY <1>1, ConstantFacts DEF Events
    <2> QED  BY <1>1, <2>1, ConstantFacts DEF Live
<1>4. IsFiniteSet(Live(k)) /\ Cardinality(Live(k)) \in Nat
    BY <1>1, <1>3, Smaller
<1>5. Cardinality(Live(k)') <= Cardinality(Live(k)) /\ Cardinality(Live(k)') \in Nat
    BY <1>3, <1>4, Smaller
<1> QED  BY <1>1, <1>2, <1>4, <1>5, ConstantFacts

\* A reservation enters a window that has room.
LEMMA ReserveBounded ==
    ASSUME SignInAssumption, ThrottleInv, NEW a \in Attempts, NEW k \in Keys, ~Full(k),
           events' = Reserved(a, k), minute' = minute
    PROVE  /\ events' \in [Keys -> SUBSET Events] /\ WindowsBounded'
           /\ events'[k] = Live(k) \cup {[by |-> a, at |-> minute]}
           /\ \A j \in Keys : j # k => events'[j] = events[j]
           /\ \A ev \in events[k] : ev.at > minute - Window => ev \in events'[k]
<1> DEFINE new == [by |-> a, at |-> minute]
<1>1. /\ SignInTypeOK /\ events \in [Keys -> SUBSET Events] /\ minute \in Int /\ minute \in 0..MaxMinute
      /\ \A j \in Keys : IsFiniteSet(events[j]) /\ Cardinality(Live(j)) <= Limit(j)
    BY TypeFacts DEF ThrottleInv, WindowsBounded
<1>2. new \in Events
    BY <1>1 DEF Events
<1>3. \A j \in Keys : Live(j) \subseteq events[j]
    BY DEF Live
<1> HIDE DEF new
<1>4. events' = [events EXCEPT ![k] = Live(k) \cup {new}]
    BY DEF Reserved, new
<1>5. /\ events' \in [Keys -> SUBSET Events]
      /\ events'[k] = Live(k) \cup {new} /\ \A j \in Keys : j # k => events'[j] = events[j]
    BY <1>1, <1>2, <1>3, <1>4
<1>6. \A ev \in events[k] : ev.at > minute - Window => ev \in events'[k]
    BY <1>5 DEF Live
<1>7. ASSUME NEW j \in Keys PROVE IsFiniteSet(events'[j]) /\ Cardinality(Live(j)') <= Limit(j)
    <2>1. CASE j # k
        <3>1. events'[j] = events[j] /\ Live(j)' = Live(j)
            BY <1>5, <2>1 DEF Live
        <3> QED  BY <1>1, <3>1
    <2>2. CASE j = k
        <3>1. IsFiniteSet(Live(k)) /\ Cardinality(Live(k)) \in Nat
            BY <1>1, <1>3, Smaller
        <3>2. /\ IsFiniteSet(events'[k]) /\ Cardinality(events'[k]) \in Nat
              /\ Cardinality(events'[k]) <= Cardinality(Live(k)) + 1
            <4>1. IsFiniteSet(Live(k) \cup {new})
                BY <3>1, FS_AddElement
            <4>2. Cardinality(Live(k) \cup {new})
                    = IF new \in Live(k) THEN Cardinality(Live(k)) ELSE Cardinality(Live(k)) + 1
                BY <3>1, FS_AddElement
            <4>3. Cardinality(Live(k) \cup {new}) <= Cardinality(Live(k)) + 1
                BY <3>1, <4>2
            <4> QED  BY <1>5, <4>1, <4>3, FS_CardinalityType
        <3>3. Live(k)' \in SUBSET events'[k]
            BY DEF Live
        <3>4. Cardinality(Live(k)') <= Cardinality(events'[k]) /\ Cardinality(Live(k)') \in Nat
            BY <3>2, <3>3, Smaller
        <3>5. Cardinality(Live(k)) < Limit(k)
            BY <3>1, ConstantFacts DEF Full
        <3> QED  BY <2>2, <3>1, <3>2, <3>4, <3>5, ConstantFacts
    <2> QED  BY <2>1, <2>2
<1>8. WindowsBounded'
    BY <1>7 DEF WindowsBounded, Limit
<1> QED  BY <1>5, <1>6, <1>8 DEF new

-----------------------------------------------------------------------------
(* What a step does to the reservations                                    *)

\* One attempt moves on, and of the reservations at most its own are given back.
LEMMA ShrinkStep ==
    ASSUME SignInAssumption, ThrottleInv, NEW a \in Attempts, NEW l \in Places,
           place' = [place EXCEPT ![a] = l], UNCHANGED <<shared, minute, tokens, epoch, since>>,
           events' \in [Keys -> SUBSET Events],
           \A k \in Keys : events'[k] \subseteq events[k],
           \A k \in Keys : \A ev \in events[k] : ev.by # a => ev \in events'[k],
           l \notin {"email", "absent"}, a \in Signups => l \in SignupPlaces,
           l = "peer" => place[a] = "email", l = "backout" => place[a] = "peer",
           l \in Guessing => \/ a \in Signups
                             \/ events' = events /\ place[a] \in Guessing \cup {"email"},
           ~shared => \A k \in Keys : \A ev \in events'[k] : ev.by = a =>
                         /\ l \notin {"in", "limited", "error"}
                         /\ k = EmailOf[a] => l \notin {"abortpeer", "resetpeer"},
           place[a] \in {"resetpeer", "in"} => l \in {"resetpeer", "in"}
    PROVE  TokensOwn' /\ EventsOwn' /\ WindowsBounded' /\ GuessesReserved' /\ EpochsEarned'
<1>1. /\ SignInTypeOK /\ TokensOwn /\ EventsOwn /\ GuessesReserved /\ EpochsEarned
      /\ place \in [Attempts -> Places] /\ events \in [Keys -> SUBSET Events]
      /\ tokens \in [Attempts -> SUBSET Tokens]
    BY TypeFacts DEF ThrottleInv
<1>2. place'[a] = l /\ \A b \in Attempts : b # a => place'[b] = place[b]
    BY <1>1
<1>3. TokensOwn'
    BY <1>1, <1>2 DEF TokensOwn
<1>4. EventsOwn'
    <2> SUFFICES ASSUME NEW k \in Keys, NEW ev \in events'[k]
                 PROVE  /\ ev.by \in Logins /\ k \in {EmailOf[ev.by], PeerOf[ev.by]}
                        /\ place'[ev.by] \notin {"email", "absent"}
                        /\ k = PeerOf[ev.by] => place'[ev.by] \notin {"peer", "backout"}
                        /\ ~shared' =>
                              /\ HoldsToken(ev.by, k)'
                              /\ place'[ev.by] \notin {"in", "limited", "error"}
                              /\ k = EmailOf[ev.by] => place'[ev.by] \notin {"abortpeer", "resetpeer"}
        BY DEF EventsOwn
    <2>1. /\ ev \in events[k] /\ ev.by \in Logins /\ k \in {EmailOf[ev.by], PeerOf[ev.by]}
          /\ place[ev.by] \notin {"email", "absent"}
          /\ k = PeerOf[ev.by] => place[ev.by] \notin {"peer", "backout"}
          /\ ~shared =>
                /\ HoldsToken(ev.by, k)
                /\ place[ev.by] \notin {"in", "limited", "error"}
                /\ k = EmailOf[ev.by] => place[ev.by] \notin {"abortpeer", "resetpeer"}
        BY <1>1 DEF EventsOwn
    <2>2. HoldsToken(ev.by, k)' <=> HoldsToken(ev.by, k)
        BY DEF HoldsToken
    <2>3. ev.by \in Attempts
        BY <2>1 DEF Attempts
    <2>4. CASE ev.by = a
        BY <1>2, <2>1, <2>2, <2>4
    <2>5. CASE ev.by # a
        BY <1>2, <2>1, <2>2, <2>3, <2>5
    <2> QED  BY <2>4, <2>5
<1>5. WindowsBounded'
    BY ShrinkBounded
<1>6. GuessesReserved'
    <2> SUFFICES ASSUME NEW b \in Attempts, NEW t \in tokens[b], place'[b] \in Guessing,
                        t.at > minute - Window, t.key \in Emails => since[b] = epoch[t.key]
                 PROVE  [by |-> b, at |-> t.at] \in events'[t.key]
        BY DEF GuessesReserved, Guessing
    <2>1. b \in Logins /\ t.key \in Keys /\ b \notin Signups /\ place[b] # "email"
        BY <1>1, ConstantFacts DEF TokensOwn, Tokens
    <2>2. place[b] \in Guessing
        BY <1>2, <2>1
    <2>3. [by |-> b, at |-> t.at] \in events[t.key]
        BY <1>1, <2>2 DEF GuessesReserved, Guessing
    <2> QED  BY <1>2, <2>1, <2>3
<1>7. EpochsEarned'
    <2>1. Successes \subseteq Successes' /\ Successes' \in SUBSET Attempts
        BY <1>1, <1>2 DEF Successes, Attempts
    <2>2. Cardinality(Successes) <= Cardinality(Successes') /\ Cardinality(Successes') \in Nat
          /\ Cardinality(Successes) \in Nat
        BY <2>1, Finite, Smaller
    <2>3. \A e \in Emails : epoch[e] \in Nat
        BY <1>1, TypeFacts, Finite DEF Attempts
    <2> QED  BY <1>1, <2>2, <2>3 DEF EpochsEarned
<1> QED  BY <1>3, <1>4, <1>5, <1>6, <1>7

\* A reservation is stored, with its token; after a Redis error perhaps without.
LEMMA ReserveStep ==
    ASSUME SignInAssumption, ThrottleInv, NEW a \in Attempts, NEW k \in Keys, NEW l \in Places,
           place' = [place EXCEPT ![a] = l], UNCHANGED <<shared, minute, epoch>>,
           \/ place[a] = "email" /\ k = EmailOf[a] /\ l = "peer"
           \/ place[a] = "peer" /\ k = PeerOf[a] /\ l = "slot",
           ~Full(k), events' = Reserved(a, k),
           \/ /\ tokens' = [tokens EXCEPT ![a] = @ \cup {[key |-> k, at |-> minute]}]
              /\ since' = IF k \in Emails THEN [since EXCEPT ![a] = epoch[k]] ELSE since
           \/ shared /\ UNCHANGED <<tokens, since>>
    PROVE  /\ TokensOwn' /\ EventsOwn' /\ WindowsBounded' /\ GuessesReserved' /\ EpochsEarned'
           /\ events' \in [Keys -> SUBSET Events] /\ tokens' \in [Attempts -> SUBSET Tokens]
           /\ since' \in [Attempts -> 0..Cardinality(Logins)]
<1> DEFINE token == [key |-> k, at |-> minute]
           new == [by |-> a, at |-> minute]
<1>1. /\ SignInTypeOK /\ TokensOwn /\ EventsOwn /\ GuessesReserved /\ EpochsEarned
      /\ place \in [Attempts -> Places] /\ events \in [Keys -> SUBSET Events]
      /\ tokens \in [Attempts -> SUBSET Tokens] /\ minute \in Int /\ minute \in 0..MaxMinute
      /\ epoch \in [Emails -> 0..Cardinality(Logins)]
      /\ since \in [Attempts -> 0..Cardinality(Logins)]
    BY TypeFacts DEF ThrottleInv
<1>2. place'[a] = l /\ \A b \in Attempts : b # a => place'[b] = place[b]
    BY <1>1
<1>3. /\ events' \in [Keys -> SUBSET Events] /\ WindowsBounded'
      /\ events'[k] = Live(k) \cup {new} /\ \A j \in Keys : j # k => events'[j] = events[j]
      /\ \A ev \in events[k] : ev.at > minute - Window => ev \in events'[k]
    BY ReserveBounded
<1>4. a \in Logins /\ a \notin Signups
    BY <1>1 DEF TokensOwn, SignupPlaces, Attempts
<1>5. k = EmailOf[a] <=> k \in Emails
    BY ConstantFacts DEF SignInAssumption, Keys
<1>6. token \in Tokens /\ token.key = k /\ token.at = minute
    BY <1>1 DEF Tokens
<1>7. new.by = a /\ new.at = minute
    OBVIOUS
<1> HIDE DEF token
<1>8. /\ \A b \in Attempts : b # a => tokens'[b] = tokens[b] /\ since'[b] = since[b]
      /\ \/ /\ tokens'[a] = tokens[a] \cup {token}
            /\ since'[a] = IF k \in Emails THEN epoch[k] ELSE since[a]
         \/ shared /\ tokens'[a] = tokens[a] /\ since'[a] = since[a]
    BY <1>1 DEF token
<1>9. tokens' \in [Attempts -> SUBSET Tokens]
    BY <1>1, <1>6 DEF token
<1>10. since' \in [Attempts -> 0..Cardinality(Logins)]
    BY <1>1
<1>11. \A t \in tokens[a] : place[a] = "peer" /\ t.key = EmailOf[a]
    BY <1>1 DEF TokensOwn
<1>12. TokensOwn'
    <2> SUFFICES ASSUME NEW b \in Attempts
                 PROVE  /\ b \in Signups => place'[b] \in SignupPlaces
                        /\ \A t \in tokens'[b] :
                              /\ b \in Logins /\ t.key \in {EmailOf[b], PeerOf[b]}
                              /\ place'[b] \notin {"email", "absent"}
                              /\ place'[b] \in {"peer", "backout"} => t.key = EmailOf[b]
                        /\ since'[b] <= epoch[EmailOf[b]]
        BY DEF TokensOwn
    <2>1. CASE b # a
        BY <1>1, <1>2, <1>8, <2>1 DEF TokensOwn
    <2>2. CASE b = a
        <3>1. since[a] <= epoch[EmailOf[a]] /\ epoch[EmailOf[a]] \in Int
            BY <1>1, ConstantFacts DEF TokensOwn
        <3>2. since'[a] <= epoch[EmailOf[a]]
            BY <1>5, <1>8, <3>1
        <3>3. ASSUME NEW t \in tokens'[a]
              PROVE  t.key \in {EmailOf[a], PeerOf[a]} /\ (l = "peer" => t.key = EmailOf[a])
            <4>1. t = token \/ t \in tokens[a]
                BY <1>8
            <4> QED  BY <1>6, <1>11, <4>1
        <3> QED  BY <1>2, <1>4, <2>2, <3>2, <3>3
    <2> QED  BY <2>1, <2>2
<1>13. EventsOwn'
    <2> SUFFICES ASSUME NEW j \in Keys, NEW ev \in events'[j]
                 PROVE  /\ ev.by \in Logins /\ j \in {EmailOf[ev.by], PeerOf[ev.by]}
                        /\ place'[ev.by] \notin {"email", "absent"}
                        /\ j = PeerOf[ev.by] => place'[ev.by] \notin {"peer", "backout"}
                        /\ ~shared' =>
                              /\ HoldsToken(ev.by, j)'
                              /\ place'[ev.by] \notin {"in", "limited", "error"}
                              /\ j = EmailOf[ev.by] => place'[ev.by] \notin {"abortpeer", "resetpeer"}
        BY DEF EventsOwn
    <2>1. CASE ev \in events[j]
        <3>1. /\ ev.by \in Logins /\ j \in {EmailOf[ev.by], PeerOf[ev.by]}
              /\ place[ev.by] \notin {"email", "absent"}
              /\ j = PeerOf[ev.by] => place[ev.by] \notin {"peer", "backout"}
              /\ ~shared =>
                    /\ HoldsToken(ev.by, j)
                    /\ place[ev.by] \notin {"in", "limited", "error"}
                    /\ j = EmailOf[ev.by] => place[ev.by] \notin {"abortpeer", "resetpeer"}
            BY <1>1, <2>1 DEF EventsOwn
        <3>2. ev.by \in Attempts
            BY <3>1 DEF Attempts
        <3>3. HoldsToken(ev.by, j) => HoldsToken(ev.by, j)'
            BY <1>8, <3>2 DEF HoldsToken
        <3>4. CASE ev.by = a
            BY <1>2, <3>1, <3>3, <3>4
        <3>5. CASE ev.by # a
            BY <1>2, <3>1, <3>2, <3>3, <3>5
        <3> QED  BY <3>4, <3>5
    <2>2. CASE ev \notin events[j]
        <3>1. j = k /\ ev = new
            BY <1>3, <2>2 DEF Live
        <3>2. ev.by = a /\ ev.by \in Logins
            BY <1>4, <1>7, <3>1
        <3>3. ~shared => HoldsToken(a, k)'
            BY <1>6, <1>8 DEF HoldsToken
        <3>4. j = PeerOf[a] => l = "slot"
            BY <1>5, <3>1, ConstantFacts
        <3> QED  BY <1>2, <3>1, <3>2, <3>3, <3>4
    <2> QED  BY <2>1, <2>2
<1>14. GuessesReserved'
    <2> SUFFICES ASSUME NEW b \in Attempts, NEW t \in tokens'[b], place'[b] \in Guessing,
                        t.at > minute - Window, t.key \in Emails => since'[b] = epoch[t.key]
                 PROVE  [by |-> b, at |-> t.at] \in events'[t.key]
        BY DEF GuessesReserved, Guessing
    <2>1. CASE b = a /\ t = token
        BY <1>3, <1>6, <2>1
    <2>2. CASE ~(b = a /\ t = token)
        <3>1. t \in tokens[b] /\ t.key \in Keys
            BY <1>1, <1>8, <2>2 DEF Tokens
        <3>2. place[b] \in Guessing
            BY <1>2, <1>11, <3>1 DEF Guessing
        <3>3. t.key \in Emails => since[b] = epoch[t.key]
            <4>1. CASE b # a
                BY <1>8, <4>1
            <4>2. CASE b = a
                <5>1. place[a] = "peer" /\ k \notin Emails
                    BY <1>5, <1>11, <3>1, <4>2, ConstantFacts
                <5> QED  BY <1>8, <4>2, <5>1
            <4> QED  BY <4>1, <4>2
        <3>4. [by |-> b, at |-> t.at] \in events[t.key]
            BY <1>1, <3>1, <3>2, <3>3 DEF GuessesReserved, Guessing
        <3>5. [by |-> b, at |-> t.at].at > minute - Window
            OBVIOUS
        <3> QED  BY <1>3, <3>1, <3>4, <3>5
    <2> QED  BY <2>1, <2>2
<1>15. EpochsEarned'
    <2>1. Successes' = Successes
        BY <1>1, <1>2 DEF Successes, Attempts
    <2> QED  BY <1>1, <2>1 DEF EpochsEarned
<1> QED  BY <1>3, <1>9, <1>10, <1>12, <1>13, <1>14, <1>15

\* A success clears the email's window and begins an epoch of its own.
LEMMA ResetStep ==
    ASSUME SignInAssumption, ThrottleInv, NEW a \in Attempts, place[a] = "reset",
           place' = [place EXCEPT ![a] = "resetpeer"], UNCHANGED <<shared, minute, tokens, since>>,
           events' = [events EXCEPT ![EmailOf[a]] = {}],
           epoch' = [epoch EXCEPT ![EmailOf[a]] = @ + 1]
    PROVE  /\ TokensOwn' /\ EventsOwn' /\ WindowsBounded' /\ GuessesReserved' /\ EpochsEarned'
           /\ events' \in [Keys -> SUBSET Events] /\ epoch' \in [Emails -> Nat]
<1> DEFINE e == EmailOf[a]
<1>1. /\ SignInTypeOK /\ TokensOwn /\ EventsOwn /\ GuessesReserved /\ EpochsEarned
      /\ place \in [Attempts -> Places] /\ events \in [Keys -> SUBSET Events]
      /\ tokens \in [Attempts -> SUBSET Tokens]
      /\ epoch \in [Emails -> 0..Cardinality(Logins)]
      /\ since \in [Attempts -> 0..Cardinality(Logins)]
    BY TypeFacts DEF ThrottleInv
<1>2. place'[a] = "resetpeer" /\ \A b \in Attempts : b # a => place'[b] = place[b]
    BY <1>1
<1>3. e \in Emails /\ e \in Keys
    BY ConstantFacts
<1>4. /\ events' \in [Keys -> SUBSET Events] /\ events'[e] = {}
      /\ \A k \in Keys : k # e => events'[k] = events[k]
    BY <1>1, <1>3
<1>5. \A f \in Emails : epoch[f] \in Nat
    BY <1>1, Finite DEF Attempts
<1>6. /\ epoch'[e] = epoch[e] + 1 /\ epoch' \in [Emails -> Nat]
      /\ \A f \in Emails : f # e => epoch'[f] = epoch[f]
    BY <1>1, <1>3, <1>5
<1>7. a \in Logins /\ a \notin Signups
    BY <1>1 DEF TokensOwn, SignupPlaces, Attempts
<1> HIDE DEF e
<1>8. TokensOwn'
    <2>1. \A b \in Attempts : since[b] \in Int /\ EmailOf[b] \in Emails
        BY <1>1, ConstantFacts, Finite DEF Attempts
    <2>2. \A b \in Attempts : since[b] <= epoch[EmailOf[b]]
        BY <1>1 DEF TokensOwn
    <2>3. \A b \in Attempts : since[b] <= epoch'[EmailOf[b]]
        BY <1>5, <1>6, <2>1, <2>2
    <2> QED  BY <1>1, <1>2, <1>7, <2>3 DEF TokensOwn
<1>9. EventsOwn'
    <2> SUFFICES ASSUME NEW k \in Keys, NEW ev \in events'[k]
                 PROVE  /\ ev.by \in Logins /\ k \in {EmailOf[ev.by], PeerOf[ev.by]}
                        /\ place'[ev.by] \notin {"email", "absent"}
                        /\ k = PeerOf[ev.by] => place'[ev.by] \notin {"peer", "backout"}
                        /\ ~shared' =>
                              /\ HoldsToken(ev.by, k)'
                              /\ place'[ev.by] \notin {"in", "limited", "error"}
                              /\ k = EmailOf[ev.by] => place'[ev.by] \notin {"abortpeer", "resetpeer"}
        BY DEF EventsOwn
    <2>1. k # e /\ ev \in events[k]
        BY <1>4
    <2>2. /\ ev.by \in Logins /\ k \in {EmailOf[ev.by], PeerOf[ev.by]}
          /\ place[ev.by] \notin {"email", "absent"}
          /\ k = PeerOf[ev.by] => place[ev.by] \notin {"peer", "backout"}
          /\ ~shared =>
                /\ HoldsToken(ev.by, k)
                /\ place[ev.by] \notin {"in", "limited", "error"}
                /\ k = EmailOf[ev.by] => place[ev.by] \notin {"abortpeer", "resetpeer"}
        BY <1>1, <2>1 DEF EventsOwn
    <2>3. (HoldsToken(ev.by, k)' <=> HoldsToken(ev.by, k)) /\ ev.by \in Attempts
        BY <2>2 DEF HoldsToken, Attempts
    <2>4. CASE ev.by = a
        BY <1>2, <2>1, <2>2, <2>3, <2>4 DEF e
    <2>5. CASE ev.by # a
        BY <1>2, <2>2, <2>3, <2>5
    <2> QED  BY <2>4, <2>5
<1>10. WindowsBounded'
    <2>1. \A k \in Keys : events'[k] \subseteq events[k]
        BY <1>4
    <2> QED  BY <1>4, <2>1, ShrinkBounded
<1>11. GuessesReserved'
    <2> SUFFICES ASSUME NEW b \in Attempts, NEW t \in tokens[b], place'[b] \in Guessing,
                        t.at > minute - Window, t.key \in Emails => since[b] = epoch'[t.key]
                 PROVE  [by |-> b, at |-> t.at] \in events'[t.key]
        BY DEF GuessesReserved, Guessing
    <2>1. t.key \in Keys /\ t.key \in {EmailOf[b], PeerOf[b]} /\ place[b] \in Guessing
        BY <1>1, <1>2 DEF TokensOwn, Tokens, Guessing
    <2>2. t.key # e
        <3> SUFFICES ASSUME t.key = e PROVE FALSE
            OBVIOUS
        <3>1. EmailOf[b] = e
            BY <1>3, <2>1, ConstantFacts DEF SignInAssumption, Keys
        <3>2. since[b] <= epoch[e] /\ since[b] = epoch[e] + 1
            BY <1>1, <1>3, <1>6, <3>1 DEF TokensOwn
        <3> QED  BY <1>3, <1>5, <3>2
    <2>3. t.key \in Emails => since[b] = epoch[t.key]
        BY <1>6, <2>2
    <2>4. [by |-> b, at |-> t.at] \in events[t.key]
        BY <1>1, <2>1, <2>3 DEF GuessesReserved, Guessing
    <2> QED  BY <1>4, <2>1, <2>2, <2>4
<1>12. EpochsEarned'
    <2>1. Successes' = Successes \cup {a} /\ a \notin Successes /\ Successes \in SUBSET Attempts
        BY <1>1, <1>2, <1>7 DEF Successes, Attempts
    <2>2. IsFiniteSet(Successes) /\ Cardinality(Successes) \in Nat
        BY <2>1, Finite
    <2>3. Cardinality(Successes') = Cardinality(Successes) + 1
        BY <2>1, <2>2, FS_AddElement
    <2>4. \A f \in Emails : epoch[f] <= Cardinality(Successes)
        BY <1>1 DEF EpochsEarned
    <2>5. \A f \in Emails : epoch'[f] <= Cardinality(Successes')
        BY <1>5, <1>6, <2>2, <2>3, <2>4
    <2> QED  BY <2>5 DEF EpochsEarned
<1> QED  BY <1>4, <1>6, <1>8, <1>9, <1>10, <1>11, <1>12

\* Nothing but the clock, or what the throttles do not look at, changes.
LEMMA IdleStep ==
    ASSUME SignInAssumption, ThrottleInv, minute' \in {minute, minute + 1},
           UNCHANGED <<shared, place, events, tokens, epoch, since>>
    PROVE  TokensOwn' /\ EventsOwn' /\ WindowsBounded' /\ GuessesReserved' /\ EpochsEarned'
<1>1. /\ SignInTypeOK /\ TokensOwn /\ EventsOwn /\ GuessesReserved /\ EpochsEarned
      /\ events \in [Keys -> SUBSET Events] /\ tokens \in [Attempts -> SUBSET Tokens]
      /\ minute \in Int
    BY TypeFacts DEF ThrottleInv
<1>2. TokensOwn' /\ EpochsEarned'
    BY <1>1 DEF TokensOwn, EpochsEarned, Successes
<1>3. EventsOwn'
    BY <1>1 DEF EventsOwn, HoldsToken
<1>4. WindowsBounded'
    BY <1>1, ShrinkBounded
<1>5. GuessesReserved'
    <2> SUFFICES ASSUME NEW b \in Attempts, NEW t \in tokens[b], place[b] \in Guessing,
                        t.at > minute' - Window, t.key \in Emails => since[b] = epoch[t.key]
                 PROVE  [by |-> b, at |-> t.at] \in events[t.key]
        BY DEF GuessesReserved, Guessing
    <2>1. t.at \in Int
        BY <1>1, ConstantFacts DEF Tokens
    <2>2. t.at > minute - Window
        BY <1>1, <2>1, ConstantFacts
    <2> QED  BY <1>1, <2>2 DEF GuessesReserved, Guessing
<1> QED  BY <1>2, <1>3, <1>4, <1>5

-----------------------------------------------------------------------------
(* The actions on the windows                                              *)

ThrottleKept ==
    /\ TokensOwn /\ EventsOwn /\ WindowsBounded /\ GuessesReserved /\ EpochsEarned
    /\ place \in [Attempts -> Places] /\ events \in [Keys -> SUBSET Events]
    /\ tokens \in [Attempts -> SUBSET Tokens]
    /\ epoch \in [Emails -> Nat] /\ since \in [Attempts -> Nat]

LEMMA KeptNow ==
    ASSUME SignInAssumption, ThrottleInv
    PROVE  ThrottleKept
<1>1. Cardinality(Logins) \in Nat
    BY Finite DEF Attempts
<1> QED  BY <1>1, TypeFacts DEF ThrottleInv, ThrottleKept

\* An attempt moves on and the windows stay as they are.
LEMMA QuietMove ==
    ASSUME SignInAssumption, ThrottleInv, NEW a \in Attempts, NEW l \in Places, Go(a, l),
           UNCHANGED <<minute, Throttle>>,
           l \notin {"email", "absent", "abortpeer", "resetpeer"},
           a \in Signups => l \in SignupPlaces,
           l = "peer" => place[a] = "email", l = "backout" => place[a] = "peer",
           l \in Guessing => a \in Signups \/ place[a] \in Guessing \cup {"email"},
           l \in {"in", "limited", "error"} =>
              \/ a \in Signups \/ place[a] = "email"
              \/ place[a] \in {"abortpeer", "resetpeer"} /\ PeerOf[a] = Nobody,
           place[a] \in {"resetpeer", "in"} => l = "in"
    PROVE  ThrottleKept'
<1>1. /\ place' = [place EXCEPT ![a] = l] /\ UNCHANGED <<shared, minute, events, tokens, epoch, since>>
    BY DEF Go, Throttle
<1>2. ThrottleKept /\ EventsOwn
    BY KeptNow DEF ThrottleInv
<1>3. ~shared => \A k \in Keys : \A ev \in events[k] : ev.by = a =>
                    l \notin {"in", "limited", "error"}
    <2> SUFFICES ASSUME ~shared, NEW k \in Keys, NEW ev \in events[k], ev.by = a,
                        l \in {"in", "limited", "error"}
                 PROVE  FALSE
        OBVIOUS
    <2>1. /\ a \in Logins /\ k \in {EmailOf[a], PeerOf[a]} /\ place[a] # "email"
          /\ k = EmailOf[a] => place[a] \notin {"abortpeer", "resetpeer"}
        BY <1>2 DEF EventsOwn
    <2> QED  BY <2>1, ConstantFacts
<1>4. TokensOwn' /\ EventsOwn' /\ WindowsBounded' /\ GuessesReserved' /\ EpochsEarned'
    BY <1>1, <1>2, <1>3, ShrinkStep DEF ThrottleKept
<1> QED  BY <1>1, <1>2, <1>4 DEF ThrottleKept

\* An attempt gives one of its reservations back, or Redis loses the call.
LEMMA ReleaseMove ==
    ASSUME SignInAssumption, ThrottleInv, NEW a \in Attempts, NEW k \in Keys, NEW l \in Places,
           Release(a, k, l), minute' = minute,
           \/ place[a] = "backout" /\ k = EmailOf[a] /\ l = "limited"
           \/ place[a] = "abort" /\ k = EmailOf[a] /\ l = "abortpeer"
           \/ place[a] = "abortpeer" /\ k = PeerOf[a] /\ l = "error"
           \/ place[a] = "resetpeer" /\ k = PeerOf[a] /\ l = "in"
    PROVE  ThrottleKept'
<1>1. place' = [place EXCEPT ![a] = l] /\ UNCHANGED <<shared, minute, tokens, epoch, since>>
    BY DEF Release, Go
<1>2. ThrottleKept /\ EventsOwn /\ TokensOwn
    BY KeptNow DEF ThrottleInv
<1>3. a \in Logins /\ a \notin Signups
    BY <1>2 DEF TokensOwn, SignupPlaces, Attempts
<1>4. events \in [Keys -> SUBSET Events]
    BY <1>2 DEF ThrottleKept
<1>5. \/ events' = [events EXCEPT ![k] = {ev \in @ : ev.by # a}]
      \/ events' = events /\ (shared \/ ~HoldsToken(a, k))
    BY DEF Release
<1>6. /\ events' \in [Keys -> SUBSET Events] /\ \A j \in Keys : events'[j] \subseteq events[j]
      /\ \A j \in Keys : \A ev \in events[j] : ev.by # a => ev \in events'[j]
    BY <1>4, <1>5
<1>7. ~shared => \A ev \in events'[k] : ev.by # a
    <2>1. CASE events' = [events EXCEPT ![k] = {ev \in @ : ev.by # a}]
        BY <1>4, <2>1
    <2>2. CASE events' = events /\ (shared \/ ~HoldsToken(a, k))
        BY <1>2, <2>2 DEF EventsOwn
    <2> QED  BY <1>5, <2>1, <2>2
<1>8. ~shared => \A j \in Keys : \A ev \in events'[j] : ev.by = a =>
                    /\ l \notin {"in", "limited", "error"}
                    /\ j = EmailOf[a] => l \notin {"abortpeer", "resetpeer"}
    <2> SUFFICES ASSUME ~shared, NEW j \in Keys, NEW ev \in events'[j], ev.by = a
                 PROVE  /\ l \notin {"in", "limited", "error"}
                        /\ j = EmailOf[a] => l \notin {"abortpeer", "resetpeer"}
        OBVIOUS
    <2>1. j # k /\ ev \in events[j]
        BY <1>6, <1>7
    <2>2. /\ j \in {EmailOf[a], PeerOf[a]} /\ (j = PeerOf[a] => place[a] # "backout")
          /\ j = EmailOf[a] => place[a] \notin {"abortpeer", "resetpeer"}
        BY <1>2, <2>1 DEF EventsOwn
    <2> QED  BY <2>1, <2>2
<1>9. TokensOwn' /\ EventsOwn' /\ WindowsBounded' /\ GuessesReserved' /\ EpochsEarned'
    BY <1>1, <1>3, <1>6, <1>8, ShrinkStep DEF Guessing
<1> QED  BY <1>1, <1>2, <1>6, <1>9 DEF ThrottleKept

\* aconsume: refused, admitted with a reservation, or let through uncounted.
LEMMA ConsumeMove ==
    ASSUME SignInAssumption, ThrottleInv, NEW a \in Attempts, NEW k \in Keys,
           NEW l \in Places, NEW r \in Places, Consume(a, k, l, r), minute' = minute,
           \/ place[a] = "email" /\ k = EmailOf[a] /\ l = "peer" /\ r = "limited"
           \/ place[a] = "peer" /\ k = PeerOf[a] /\ l = "slot" /\ r = "backout"
    PROVE  ThrottleKept'
<1>1. ThrottleKept /\ TokensOwn
    BY KeptNow DEF ThrottleInv
<1>2. a \in Logins /\ a \notin Signups
    BY <1>1 DEF TokensOwn, SignupPlaces, Attempts
<1>3. CASE Full(k) /\ Go(a, r) /\ UNCHANGED Throttle
    BY <1>2, <1>3, QuietMove DEF Guessing
<1>4. CASE Go(a, l) /\ UNCHANGED Throttle
    BY <1>2, <1>4, QuietMove DEF Guessing
<1>5. CASE /\ ~Full(k) /\ Go(a, l) /\ events' = Reserved(a, k) /\ UNCHANGED epoch
           /\ \/ /\ tokens' = [tokens EXCEPT ![a] = @ \cup {[key |-> k, at |-> minute]}]
                 /\ since' = IF k \in Emails THEN [since EXCEPT ![a] = epoch[k]] ELSE since
              \/ shared /\ UNCHANGED <<tokens, since>>
    <2>1. place' = [place EXCEPT ![a] = l] /\ UNCHANGED <<shared, minute, epoch>>
        BY <1>5 DEF Go
    <2>2. /\ TokensOwn' /\ EventsOwn' /\ WindowsBounded' /\ GuessesReserved' /\ EpochsEarned'
          /\ events' \in [Keys -> SUBSET Events] /\ tokens' \in [Attempts -> SUBSET Tokens]
          /\ since' \in [Attempts -> 0..Cardinality(Logins)]
        BY <1>5, <2>1, ReserveStep
    <2>3. since' \in [Attempts -> Nat]
        BY <2>2, Finite DEF Attempts
    <2> QED  BY <1>1, <2>1, <2>2, <2>3 DEF ThrottleKept
<1> QED  BY <1>3, <1>4, <1>5 DEF Consume, Throttle

\* Success clears the window, or Redis loses the call.
LEMMA ResetMove ==
    ASSUME SignInAssumption, ThrottleInv, NEW a \in Attempts, ResetEmail(a)
    PROVE  ThrottleKept'
<1>1. ThrottleKept /\ TokensOwn /\ EventsOwn
    BY KeptNow DEF ThrottleInv
<1>2. a \in Logins /\ a \notin Signups
    BY <1>1 DEF TokensOwn, SignupPlaces, Attempts, ResetEmail
<1>3. /\ place[a] = "reset" /\ place' = [place EXCEPT ![a] = "resetpeer"]
      /\ UNCHANGED <<shared, minute, tokens, since>>
    BY DEF ResetEmail, Go
<1>4. "resetpeer" \in Places
    BY DEF Places
<1>5. CASE shared /\ UNCHANGED <<events, epoch>>
    <2>1. TokensOwn' /\ EventsOwn' /\ WindowsBounded' /\ GuessesReserved' /\ EpochsEarned'
        BY <1>1, <1>2, <1>3, <1>4, <1>5, ShrinkStep DEF ThrottleKept, Guessing
    <2> QED  BY <1>1, <1>3, <1>4, <1>5, <2>1 DEF ThrottleKept
<1>6. CASE /\ events' = [events EXCEPT ![EmailOf[a]] = {}]
           /\ epoch' = [epoch EXCEPT ![EmailOf[a]] = @ + 1]
    <2>1. /\ TokensOwn' /\ EventsOwn' /\ WindowsBounded' /\ GuessesReserved' /\ EpochsEarned'
          /\ events' \in [Keys -> SUBSET Events] /\ epoch' \in [Emails -> Nat]
        BY <1>3, <1>6, ResetStep
    <2> QED  BY <1>1, <1>3, <1>4, <2>1 DEF ThrottleKept
<1> QED  BY <1>5, <1>6 DEF ResetEmail

-----------------------------------------------------------------------------
(* Every step                                                              *)

\* The login route.
LEMMA RouteStep ==
    ASSUME SignInAssumption, ThrottleInv, NEW a \in Attempts,
           \/ ConsumeEmail(a) \/ ConsumePeer(a) \/ BackOut(a)
           \/ AbortEmail(a) \/ AbortPeer(a) \/ ResetEmail(a) \/ ResetPeer(a)
    PROVE  ThrottleKept' /\ minute' = minute /\ UNCHANGED <<shared, Work, Rows>>
<1>1. UNCHANGED <<shared, minute, Work, Rows>>
    BY DEF ConsumeEmail, ConsumePeer, BackOut, AbortEmail, AbortPeer, ResetEmail, ResetPeer,
           Consume, Release, Go
<1>2. /\ EmailOf[a] \in Keys
      /\ PeerOf[a] # Nobody => PeerOf[a] \in Keys
    BY ConstantFacts DEF Keys
<1>3. /\ "peer" \in Places /\ "limited" \in Places /\ "slot" \in Places /\ "backout" \in Places
      /\ "abortpeer" \in Places /\ "error" \in Places /\ "in" \in Places
    BY DEF Places, Answers
<1>4. place[a] \in {"peer", "abortpeer", "resetpeer"} => a \notin Signups
    BY DEF ThrottleInv, TokensOwn, SignupPlaces
<1>5. CASE ConsumeEmail(a)
    BY <1>1, <1>2, <1>3, <1>5, ConsumeMove DEF ConsumeEmail
<1>6. CASE ConsumePeer(a)
    <2>1. CASE PeerOf[a] = Nobody
        BY <1>1, <1>3, <1>4, <1>6, <2>1, QuietMove DEF ConsumePeer, Guessing
    <2>2. CASE PeerOf[a] # Nobody
        BY <1>1, <1>2, <1>3, <1>6, <2>2, ConsumeMove DEF ConsumePeer
    <2> QED  BY <2>1, <2>2
<1>7. CASE BackOut(a)
    BY <1>1, <1>2, <1>3, <1>7, ReleaseMove DEF BackOut
<1>8. CASE AbortEmail(a)
    BY <1>1, <1>2, <1>3, <1>8, ReleaseMove DEF AbortEmail
<1>9. CASE AbortPeer(a)
    <2>1. CASE PeerOf[a] = Nobody
        BY <1>1, <1>3, <1>4, <1>9, <2>1, QuietMove DEF AbortPeer, Guessing
    <2>2. CASE PeerOf[a] # Nobody
        BY <1>1, <1>2, <1>3, <1>9, <2>2, ReleaseMove DEF AbortPeer
    <2> QED  BY <2>1, <2>2
<1>10. CASE ResetEmail(a)
    BY <1>1, <1>10, ResetMove
<1>11. CASE ResetPeer(a)
    <2>1. CASE PeerOf[a] = Nobody
        BY <1>1, <1>3, <1>4, <1>11, <2>1, QuietMove DEF ResetPeer, Guessing
    <2>2. CASE PeerOf[a] # Nobody
        BY <1>1, <1>2, <1>3, <1>11, <2>2, ReleaseMove DEF ResetPeer
    <2> QED  BY <2>1, <2>2
<1> QED  BY <1>1, <1>5, <1>6, <1>7, <1>8, <1>9, <1>10, <1>11

\* AuthService leaves the windows alone.
LEMMA ServiceStep ==
    ASSUME SignInAssumption, ThrottleInv, NEW a \in Attempts,
           \/ TakeSlot(a) \/ Invalid(a) \/ Verify(a) \/ HashReady(a)
           \/ CreateUser(a) \/ IssueSession(a) \/ DatabaseFails(a) \/ CancelAttempt(a) \/ CancelEnds(a)
    PROVE  ThrottleKept' /\ minute' = minute
<1>1. UNCHANGED <<minute, Throttle>>
    BY DEF TakeSlot, Invalid, Verify, HashReady, CreateUser, IssueSession, DatabaseFails,
           CancelAttempt, CancelEnds
<1>2. {"hashing", "abort", "error", "failed", "session", "insert", "taken", "reset", "in",
       "cancelled"} \subseteq Places
    BY DEF Places, Answers
<1>3. a \in Signups \/ a \in Logins
    BY DEF Attempts
<1>4. a \in Signups => a \notin Logins
    BY ConstantFacts
<1>5. CASE TakeSlot(a)
    <2>1. Go(a, "hashing") /\ place[a] = "slot"
        BY <1>5 DEF TakeSlot
    <2> QED  BY <1>1, <1>2, <2>1, QuietMove DEF Guessing, SignupPlaces
<1>6. CASE Invalid(a) \/ DatabaseFails(a) \/ CancelEnds(a)
    <2>1. /\ Go(a, IF a \in Logins THEN "abort" ELSE "error")
          /\ place[a] \in {"slot", "insert", "session", "cancelled"}
        BY <1>6 DEF Invalid, DatabaseFails, CancelEnds
    <2>2. CASE a \in Logins
        BY <1>1, <1>2, <1>4, <2>1, <2>2, QuietMove DEF Guessing, SignupPlaces
    <2>3. CASE a \notin Logins
        BY <1>1, <1>2, <1>3, <2>1, <2>3, QuietMove DEF Guessing, SignupPlaces
    <2> QED  BY <2>2, <2>3
<1>7. CASE Verify(a)
    <2>1. /\ place[a] = "hashing" /\ a \notin Signups
          /\ Go(a, "failed") \/ Go(a, "session")
        BY <1>4, <1>7 DEF Verify
    <2>2. CASE Go(a, "failed")
        BY <1>1, <1>2, <2>1, <2>2, QuietMove DEF Guessing, SignupPlaces
    <2>3. CASE Go(a, "session")
        BY <1>1, <1>2, <2>1, <2>3, QuietMove DEF Guessing, SignupPlaces
    <2> QED  BY <2>1, <2>2, <2>3
<1>8. CASE HashReady(a)
    <2>1. Go(a, "insert") /\ place[a] = "hashing"
        BY <1>8 DEF HashReady
    <2> QED  BY <1>1, <1>2, <2>1, QuietMove DEF Guessing, SignupPlaces
<1>9. CASE CreateUser(a)
    <2>1. place[a] = "insert" /\ (Go(a, "taken") \/ Go(a, "session"))
        BY <1>9 DEF CreateUser
    <2>2. CASE Go(a, "taken")
        BY <1>1, <1>2, <2>1, <2>2, QuietMove DEF Guessing, SignupPlaces
    <2>3. CASE Go(a, "session")
        BY <1>1, <1>2, <2>1, <2>3, QuietMove DEF Guessing, SignupPlaces
    <2> QED  BY <2>1, <2>2, <2>3
<1>10. CASE IssueSession(a)
    <2>1. place[a] = "session" /\ Go(a, IF a \in Logins THEN "reset" ELSE "in")
        BY <1>10 DEF IssueSession
    <2>2. CASE a \in Logins
        BY <1>1, <1>2, <1>4, <2>1, <2>2, QuietMove DEF Guessing, SignupPlaces
    <2>3. CASE a \notin Logins
        BY <1>1, <1>2, <1>3, <2>1, <2>3, QuietMove DEF Guessing, SignupPlaces
    <2> QED  BY <2>2, <2>3
<1>11. CASE CancelAttempt(a)
    <2>1. Go(a, "cancelled") /\ place[a] = "hashing"
        BY <1>11 DEF CancelAttempt
    <2> QED  BY <1>1, <1>2, <2>1, QuietMove DEF Guessing, SignupPlaces
<1> QED  BY <1>1, <1>5, <1>6, <1>7, <1>8, <1>9, <1>10, <1>11

\* Slots, threads and rows have their types.
RowTypes ==
    /\ threads \subseteq Attempts /\ held \subseteq Attempts
    /\ accounts \subseteq [email : Emails, by : Signups \cup {Nobody}]
    /\ sessions \subseteq Attempts
    /\ SignupsInsert

LEMMA RowStep ==
    ASSUME SignInAssumption, ThrottleInv, [SignInNext]_signInVars
    PROVE  RowTypes'
<1>1. RowTypes /\ place \in [Attempts -> Places]
    BY DEF ThrottleInv, SignInTypeOK, RowTypes
<1>2. CASE UNCHANGED <<place, Work, Rows>>
    BY <1>1, <1>2 DEF RowTypes, SignupsInsert, Work, Rows
<1>3. ASSUME NEW a \in Attempts, NEW l, Go(a, l), l # "insert"
      PROVE  SignupsInsert'
    BY <1>1, <1>3 DEF Go, RowTypes, SignupsInsert
<1>4. ASSUME NEW a \in Attempts, UNCHANGED <<Work, Rows>>, NEW l, Go(a, l), l # "insert"
      PROVE  RowTypes'
    BY <1>1, <1>3, <1>4 DEF RowTypes, Work, Rows
<1>5. ASSUME NEW a \in Attempts,
             \/ ConsumeEmail(a) \/ ConsumePeer(a) \/ BackOut(a)
             \/ AbortEmail(a) \/ AbortPeer(a) \/ ResetEmail(a) \/ ResetPeer(a)
      PROVE  RowTypes'
    <2>1. UNCHANGED <<Work, Rows>>
        BY <1>5, RouteStep
    <2>2. \E l : Go(a, l) /\ l # "insert"
        BY <1>5 DEF ConsumeEmail, ConsumePeer, BackOut, AbortEmail, AbortPeer, ResetEmail,
                    ResetPeer, Consume, Release
    <2> QED  BY <1>4, <2>1, <2>2
<1>6. ASSUME NEW a \in Attempts, Invalid(a) \/ DatabaseFails(a) \/ CancelAttempt(a) PROVE RowTypes'
    <2>1. UNCHANGED <<Work, Rows>> /\ \E l : Go(a, l) /\ l # "insert"
        BY <1>6 DEF Invalid, DatabaseFails, CancelAttempt
    <2> QED  BY <1>4, <2>1
<1>7. ASSUME NEW a \in Attempts, TakeSlot(a) \/ Verify(a) \/ CancelEnds(a) PROVE RowTypes'
    <2>1. /\ UNCHANGED Rows /\ \E l : Go(a, l) /\ l # "insert"
          /\ held' \subseteq held \cup {a} /\ threads' \subseteq threads \cup {a}
        BY <1>7 DEF TakeSlot, Verify, CancelEnds
    <2> QED  BY <1>1, <1>3, <2>1 DEF RowTypes, Rows
<1>8. ASSUME NEW a \in Attempts, HashReady(a) PROVE RowTypes'
    <2>1. /\ UNCHANGED Rows /\ place' = [place EXCEPT ![a] = "insert"] /\ a \in Signups
          /\ held' \subseteq held /\ threads' = threads
        BY <1>8 DEF HashReady, Go
    <2> QED  BY <1>1, <2>1 DEF RowTypes, Rows, SignupsInsert
<1>9. ASSUME NEW a \in Attempts, Hashed(a) \/ Logout(a) PROVE RowTypes'
    BY <1>1, <1>9 DEF RowTypes, Rows, Work, SignupsInsert, Hashed, Logout
<1>10. ASSUME NEW a \in Attempts, CreateUser(a) PROVE RowTypes'
    <2>1. a \in Signups /\ EmailOf[a] \in Emails
        BY <1>1, <1>10, ConstantFacts DEF CreateUser, RowTypes, SignupsInsert
    <2>2. /\ UNCHANGED <<Work, sessions>> /\ \E l : Go(a, l) /\ l # "insert"
          /\ accounts' \subseteq accounts \cup {[email |-> EmailOf[a], by |-> a]}
        BY <1>10 DEF CreateUser
    <2>3. [email |-> EmailOf[a], by |-> a] \in [email : Emails, by : Signups \cup {Nobody}]
        BY <2>1
    <2> QED  BY <1>1, <1>3, <2>2, <2>3 DEF RowTypes, Work
<1>11. ASSUME NEW a \in Attempts, IssueSession(a) PROVE RowTypes'
    <2>1. /\ UNCHANGED <<Work, accounts>> /\ \E l : Go(a, l) /\ l # "insert"
          /\ sessions' = sessions \cup {a}
        BY <1>11 DEF IssueSession
    <2> QED  BY <1>1, <1>3, <2>1 DEF RowTypes, Work
<1>12. CASE MinutePasses
    BY <1>2, <1>12 DEF MinutePasses
<1>13. CASE UNCHANGED signInVars
    BY <1>2, <1>13 DEF signInVars, Work, Rows
<1> QED  BY <1>5, <1>6, <1>7, <1>8, <1>9, <1>10, <1>11, <1>12, <1>13 DEF SignInNext

LEMMA ThrottleStep ==
    ASSUME SignInAssumption, ThrottleInv, [SignInNext]_signInVars
    PROVE  ThrottleInv'
<1>1. RowTypes'
    BY RowStep
<1>2. shared \in BOOLEAN /\ minute \in 0..MaxMinute /\ MaxMinute \in Nat /\ ThrottleKept
    BY KeptNow, ConstantFacts DEF ThrottleInv, SignInTypeOK
<1>3. shared' = shared
    BY DEF SignInNext, signInVars, ConsumeEmail, ConsumePeer, BackOut, AbortEmail, AbortPeer, ResetEmail,
           ResetPeer, Consume, Release, Go, TakeSlot, Invalid, Hashed, Verify, HashReady,
           CreateUser, IssueSession, DatabaseFails, CancelAttempt, CancelEnds, Logout, MinutePasses
<1>4. ThrottleKept' /\ minute' \in 0..MaxMinute
    <2>1. ASSUME minute' \in {minute, minute + 1}, minute' \in 0..MaxMinute,
                 UNCHANGED <<shared, place, events, tokens, epoch, since>>
          PROVE  ThrottleKept' /\ minute' \in 0..MaxMinute
        BY <1>2, <2>1, IdleStep DEF ThrottleKept
    <2>2. ASSUME NEW a \in Attempts,
                 \/ ConsumeEmail(a) \/ ConsumePeer(a) \/ BackOut(a)
                 \/ AbortEmail(a) \/ AbortPeer(a) \/ ResetEmail(a) \/ ResetPeer(a)
          PROVE  ThrottleKept' /\ minute' \in 0..MaxMinute
        BY <1>2, <2>2, RouteStep
    <2>3. ASSUME NEW a \in Attempts,
                 \/ TakeSlot(a) \/ Invalid(a) \/ Verify(a) \/ HashReady(a)
                 \/ CreateUser(a) \/ IssueSession(a) \/ DatabaseFails(a)
                 \/ CancelAttempt(a) \/ CancelEnds(a)
          PROVE  ThrottleKept' /\ minute' \in 0..MaxMinute
        BY <1>2, <2>3, ServiceStep
    <2>4. ASSUME NEW a \in Attempts, Hashed(a) \/ Logout(a)
          PROVE  ThrottleKept' /\ minute' \in 0..MaxMinute
        BY <1>2, <2>1, <2>4 DEF Hashed, Logout, Throttle
    <2>5. CASE MinutePasses
        <3>1. UNCHANGED <<shared, place, events, tokens, epoch, since>>
            BY <2>5 DEF MinutePasses, Throttle
        <3>2. minute' = minute + 1 /\ minute' \in 0..MaxMinute
            BY <1>2, <2>5 DEF MinutePasses
        <3> QED  BY <2>1, <3>1, <3>2
    <2>6. CASE UNCHANGED signInVars
        BY <1>2, <2>1, <2>6 DEF signInVars
    <2> QED  BY <2>2, <2>3, <2>4, <2>5, <2>6 DEF SignInNext
<1>5. /\ epoch' \in [Emails -> 0..Cardinality(Logins)]
      /\ since' \in [Attempts -> 0..Cardinality(Logins)]
    <2>1. Successes' \in SUBSET Logins /\ Logins \in SUBSET Attempts
        BY DEF Successes, Attempts
    <2>2. Cardinality(Logins) \in Nat /\ IsFiniteSet(Logins)
        BY <2>1, Finite
    <2>3. Cardinality(Successes') <= Cardinality(Logins) /\ Cardinality(Successes') \in Nat
        BY <2>1, <2>2, Smaller
    <2>4. /\ epoch' \in [Emails -> Nat] /\ since' \in [Attempts -> Nat]
          /\ \A e \in Emails : epoch'[e] <= Cardinality(Successes')
          /\ \A a \in Attempts : since'[a] <= epoch'[EmailOf[a]]
        BY <1>4 DEF ThrottleKept, EpochsEarned, TokensOwn
    <2>5. \A e \in Emails : epoch'[e] \in 0..Cardinality(Logins)
        BY <2>2, <2>3, <2>4
    <2>6. \A a \in Attempts : since'[a] \in 0..Cardinality(Logins)
        BY <2>2, <2>4, <2>5, ConstantFacts
    <2> QED  BY <2>4, <2>5, <2>6
<1>6. SignInTypeOK'
    BY <1>1, <1>2, <1>3, <1>4, <1>5 DEF SignInTypeOK, RowTypes, ThrottleKept, Events, Tokens
<1> QED  BY <1>1, <1>4, <1>6 DEF ThrottleInv, ThrottleKept, RowTypes

-----------------------------------------------------------------------------
(* The throttles are sound                                                 *)

LEMMA InitWindows ==
    ASSUME SignInAssumption, SignInInit
    PROVE  WindowsBounded /\ events \in [Keys -> SUBSET Events]
<1>1. /\ minute = 0 /\ Before \subseteq Attempts /\ MaxMinute \in Nat
      /\ events = [k \in Keys |-> {[by |-> a, at |-> 0] :
                                     a \in {b \in Before : k \in {EmailOf[b], PeerOf[b]}}}]
    BY ConstantFacts DEF SignInInit, SignInAssumption, Attempts
<1>2. \A a \in Before : [by |-> a, at |-> 0] \in Events
    BY <1>1 DEF Events
<1>3. events \in [Keys -> SUBSET Events]
    BY <1>1, <1>2
<1>4. ASSUME NEW k \in Keys PROVE IsFiniteSet(events[k]) /\ Cardinality(Live(k)) <= Limit(k)
    <2> DEFINE S == {b \in Before : k \in {EmailOf[b], PeerOf[b]}}
               f == [b \in S |-> [by |-> b, at |-> 0]]
    <2>1. IsFiniteSet(S) /\ Cardinality(S) \in Nat
        BY <1>1, Finite
    <2>2. Cardinality(S) <= Limit(k)
        BY DEF SignInAssumption
    <2>3. f \in Surjection(S, events[k])
        BY <1>1 DEF Surjection
    <2>4. IsFiniteSet(events[k]) /\ Cardinality(events[k]) <= Cardinality(S)
        <3> HIDE DEF S, f
        <3> QED  BY <2>1, <2>3, FS_Surjection
    <2>5. Live(k) \in SUBSET events[k]
        BY DEF Live
    <2>6. /\ Cardinality(Live(k)) <= Cardinality(events[k])
          /\ Cardinality(Live(k)) \in Nat /\ Cardinality(events[k]) \in Nat
        BY <2>4, <2>5, Smaller
    <2> HIDE DEF S
    <2> QED  BY <2>1, <2>2, <2>4, <2>6, ConstantFacts
<1> QED  BY <1>3, <1>4 DEF WindowsBounded

LEMMA ThrottleInit ==
    ASSUME SignInAssumption, SignInInit
    PROVE  ThrottleInv
<1>1. /\ minute = 0 /\ MaxMinute \in Nat /\ Before \subseteq Logins /\ Cardinality(Logins) \in Nat
    BY ConstantFacts, Finite DEF SignInInit, SignInAssumption, Attempts
<1>2. PICK cast \in Casts :
        place = [a \in Attempts |-> IF a \in Before THEN "failed"
                                 ELSE IF a \notin cast THEN "absent"
                                 ELSE IF a \in Logins THEN "email" ELSE "slot"]
    BY DEF SignInInit
<1>3. /\ events = [k \in Keys |-> {[by |-> a, at |-> 0] :
                                     a \in {b \in Before : k \in {EmailOf[b], PeerOf[b]}}}]
      /\ tokens = [a \in Attempts |->
                    IF a \in Before
                    THEN {[key |-> k, at |-> 0] : k \in {EmailOf[a], PeerOf[a]} \ {Nobody}}
                    ELSE {}]
      /\ epoch = [e \in Emails |-> 0] /\ since = [a \in Attempts |-> 0]
    BY DEF SignInInit
<1>4. place \in [Attempts -> Places]
    BY <1>2 DEF Places, Answers
<1>5. \A a \in Attempts : \A t \in tokens[a] :
         /\ a \in Before /\ t \in Tokens /\ t.at = 0
         /\ t.key \in {EmailOf[a], PeerOf[a]} \ {Nobody}
    BY <1>1, <1>3, ConstantFacts DEF Tokens, Keys
<1>6. tokens \in [Attempts -> SUBSET Tokens]
    BY <1>3, <1>5
<1>7. accounts \subseteq [email : Emails, by : Signups \cup {Nobody}]
    BY DEF SignInInit, SignInAssumption
<1>8. /\ events \in [Keys -> SUBSET Events] /\ WindowsBounded
    BY InitWindows
<1>9. SignInTypeOK
    BY <1>1, <1>3, <1>4, <1>6, <1>7, <1>8 DEF SignInInit, SignInTypeOK, Events, Tokens
<1>10. SignupsInsert
    BY <1>2 DEF SignupsInsert
<1>11. \A a \in Before : place[a] = "failed" /\ a \in Logins
    BY <1>1, <1>2 DEF Attempts
<1>12. TokensOwn
    <2>1. \A a \in Signups : place[a] \in SignupPlaces
        BY <1>1, <1>2, ConstantFacts DEF SignupPlaces, Attempts
    <2>2. \A a \in Attempts : since[a] <= epoch[EmailOf[a]]
        BY <1>3, ConstantFacts
    <2> QED  BY <1>5, <1>11, <2>1, <2>2 DEF TokensOwn
<1>13. EventsOwn
    <2> SUFFICES ASSUME NEW k \in Keys, NEW ev \in events[k]
                 PROVE  /\ ev.by \in Before /\ k \in {EmailOf[ev.by], PeerOf[ev.by]}
                        /\ HoldsToken(ev.by, k)
        BY <1>11 DEF EventsOwn
    <2>1. PICK a \in Before : ev = [by |-> a, at |-> 0] /\ k \in {EmailOf[a], PeerOf[a]}
        BY <1>3
    <2>2. k # Nobody /\ a \in Attempts
        BY <1>1, ConstantFacts DEF Attempts
    <2>3. [key |-> k, at |-> 0] \in tokens[a]
        BY <1>3, <2>1, <2>2
    <2> QED  BY <2>1, <2>3 DEF HoldsToken
<1>14. GuessesReserved
    <2> SUFFICES ASSUME NEW a \in Attempts, NEW t \in tokens[a]
                 PROVE  [by |-> a, at |-> t.at] \in events[t.key]
        BY DEF GuessesReserved
    <2>1. a \in Before /\ t.at = 0 /\ t.key \in Keys /\ t.key \in {EmailOf[a], PeerOf[a]}
        BY <1>5 DEF Tokens
    <2> QED  BY <1>3, <2>1
<1>15. EpochsEarned
    <2>1. Cardinality(Successes) \in Nat
        BY Finite DEF Successes, Attempts
    <2> QED  BY <1>3, <2>1 DEF EpochsEarned
<1> QED  BY <1>8, <1>9, <1>10, <1>12, <1>13, <1>14, <1>15 DEF ThrottleInv

\* Each guess of a key has a reservation of its own in the key's window.
LEMMA GuessesFit ==
    ASSUME SignInAssumption, ThrottleInv
    PROVE  GuessesBounded
<1> SUFFICES ASSUME NEW k \in Keys PROVE Cardinality(Guesses(k)) <= Limit(k)
    BY DEF GuessesBounded
<1> DEFINE T == {ev.by : ev \in Live(k)}
<1>1. /\ IsFiniteSet(events[k]) /\ Cardinality(Live(k)) <= Limit(k)
      /\ Live(k) \in SUBSET events[k]
    BY DEF ThrottleInv, WindowsBounded, Live
<1>2. IsFiniteSet(Live(k))
    BY <1>1, Smaller
<1>3. Guesses(k) \in SUBSET T
    <2> SUFFICES ASSUME NEW a \in Guesses(k) PROVE a \in T
        OBVIOUS
    <2>1. /\ a \in Attempts /\ place[a] \in Guessing
          /\ k \in Emails => since[a] = epoch[k]
        BY DEF Guesses, Attempts, Guessing
    <2>2. PICK t \in tokens[a] : t.key = k /\ t.at > minute - Window
        BY DEF Guesses
    <2>3. [by |-> a, at |-> t.at] \in events[k]
        BY <2>1, <2>2 DEF ThrottleInv, GuessesReserved, Guessing
    <2>4. [by |-> a, at |-> t.at] \in Live(k)
        BY <2>2, <2>3 DEF Live
    <2> QED  BY <2>4
<1>4. /\ IsFiniteSet(T) /\ Cardinality(T) <= Cardinality(Live(k))
      /\ Cardinality(T) \in Nat /\ Cardinality(Live(k)) \in Nat
    BY <1>2, Reservers
<1> HIDE DEF T
<1>5. Cardinality(Guesses(k)) <= Cardinality(T) /\ Cardinality(Guesses(k)) \in Nat
    BY <1>3, <1>4, Smaller
<1> QED  BY <1>1, <1>4, <1>5, ConstantFacts

LEMMA ThrottleInvariance == ASSUME SignInAssumption PROVE SignInSpec => []ThrottleInv
<1>1. SignInInit => ThrottleInv
    BY ThrottleInit
<1>2. ThrottleInv /\ [SignInNext]_signInVars => ThrottleInv'
    BY ThrottleStep
<1> QED  BY <1>1, <1>2, PTL DEF SignInSpec

\* However logins interleave, fail, abort and are cancelled, and whichever calls Redis
\* loses, no email and no peer gets more counted guesses into a window than its limit,
\* and in a process no attempt but a failed one leaves a reservation behind.
THEOREM Throttling == ASSUME SignInAssumption PROVE SignInSpec => []ThrottleSound
<1>1. ThrottleInv => ThrottleSound
    BY GuessesFit DEF ThrottleInv, ThrottleSound, OnlyFailuresCount, EventsOwn
<1> QED  BY <1>1, ThrottleInvariance, PTL

-----------------------------------------------------------------------------
(* Hashing and accounts                                                    *)

\* Slots and threads: a slot is taken below the bound and kept by a running hash.
LEMMA HeldStep ==
    ASSUME SignInAssumption, ~Twice, ThrottleInv, [SignInNext]_signInVars,
           threads \subseteq held, Cardinality(held) <= Slots
    PROVE  threads' \subseteq held' /\ Cardinality(held') <= Slots
<1>1. IsFiniteSet(held) /\ Cardinality(held) \in Nat /\ Slots \in Nat
    BY Finite, ConstantFacts DEF ThrottleInv, SignInTypeOK
<1>2. CASE threads' \subseteq held' /\ held' \subseteq held
    <2>1. Cardinality(held') <= Cardinality(held) /\ Cardinality(held') \in Nat
        BY <1>1, <1>2, Smaller
    <2> QED  BY <1>1, <1>2, <2>1
<1>3. ASSUME NEW a \in Attempts, TakeSlot(a)
      PROVE  threads' \subseteq held' /\ Cardinality(held') <= Slots
    <2>1. /\ held' = held \cup {a} /\ threads' = threads \cup {a} /\ Cardinality(held) < Slots
        BY <1>3 DEF TakeSlot
    <2>2. Cardinality(held') = IF a \in held THEN Cardinality(held) ELSE Cardinality(held) + 1
        BY <1>1, <2>1, FS_AddElement
    <2> QED  BY <1>1, <2>1, <2>2
<1>4. ASSUME NEW a \in Attempts,
             \/ ConsumeEmail(a) \/ ConsumePeer(a) \/ BackOut(a)
             \/ Invalid(a) \/ Hashed(a) \/ Verify(a) \/ HashReady(a)
             \/ CreateUser(a) \/ IssueSession(a) \/ DatabaseFails(a)
             \/ AbortEmail(a) \/ AbortPeer(a) \/ ResetEmail(a) \/ ResetPeer(a)
             \/ CancelAttempt(a) \/ CancelEnds(a) \/ Logout(a)
      PROVE  threads' \subseteq held' /\ held' \subseteq held
    BY <1>4 DEF ConsumeEmail, ConsumePeer, BackOut, Invalid, Hashed, Verify, HashReady,
                CreateUser, IssueSession, DatabaseFails, AbortEmail, AbortPeer, ResetEmail,
                ResetPeer, CancelAttempt, CancelEnds, Logout, Work
<1>5. CASE MinutePasses \/ UNCHANGED signInVars
    BY <1>2, <1>5 DEF MinutePasses, signInVars, Work
<1> QED  BY <1>2, <1>3, <1>4, <1>5 DEF SignInNext

\* Accounts are only added, each for an email that has none.
LEMMA AccountStep ==
    ASSUME SignInAssumption, ThrottleInv, [SignInNext]_signInVars, OneAccount,
           \A a \in Attempts : place[a] = "session" => Known(EmailOf[a])
    PROVE  /\ OneAccount'
           /\ \A a \in Attempts : place'[a] = "session" => Known(EmailOf[a])'
<1>1. /\ place \in [Attempts -> Places] /\ \A u, v \in accounts : u.email = v.email => u = v
      /\ \A a \in sessions : Known(EmailOf[a])
    BY DEF ThrottleInv, SignInTypeOK, OneAccount
<1>2. ASSUME UNCHANGED Rows,
             \A a \in Attempts : place'[a] = "session" => place[a] = "session" \/ Known(EmailOf[a])
      PROVE  /\ OneAccount'
             /\ \A a \in Attempts : place'[a] = "session" => Known(EmailOf[a])'
    BY <1>1, <1>2 DEF OneAccount, Rows, Known
<1>3. ASSUME NEW a \in Attempts, NEW l, Go(a, l), l = "session" => Known(EmailOf[a])
      PROVE  \A b \in Attempts : place'[b] = "session" => place[b] = "session" \/ Known(EmailOf[b])
    BY <1>1, <1>3 DEF Go
<1>4. ASSUME NEW a \in Attempts,
             \/ ConsumeEmail(a) \/ ConsumePeer(a) \/ BackOut(a)
             \/ TakeSlot(a) \/ Invalid(a) \/ Verify(a) \/ HashReady(a) \/ DatabaseFails(a)
             \/ AbortEmail(a) \/ AbortPeer(a) \/ ResetEmail(a) \/ ResetPeer(a)
             \/ CancelAttempt(a) \/ CancelEnds(a)
      PROVE  UNCHANGED Rows /\ \E l : Go(a, l) /\ (l = "session" => Known(EmailOf[a]))
    BY <1>4 DEF ConsumeEmail, ConsumePeer, BackOut, TakeSlot, Invalid, Verify, HashReady,
                DatabaseFails, AbortEmail, AbortPeer, ResetEmail, ResetPeer, CancelAttempt,
                CancelEnds, Consume, Release
<1>5. ASSUME NEW a \in Attempts, CreateUser(a)
      PROVE  /\ OneAccount'
             /\ \A b \in Attempts : place'[b] = "session" => Known(EmailOf[b])'
    <2>1. CASE Known(EmailOf[a])
        <3>1. UNCHANGED Rows /\ Go(a, "taken")
            BY <1>5, <2>1 DEF CreateUser, Rows
        <3> QED  BY <1>2, <1>3, <3>1
    <2>2. CASE ~Known(EmailOf[a])
        <3>1. /\ accounts' = accounts \cup {[email |-> EmailOf[a], by |-> a]}
              /\ sessions' = sessions /\ place' = [place EXCEPT ![a] = "session"]
            BY <1>5, <2>2 DEF CreateUser, Go
        <3>2. \A u \in accounts : u.email # EmailOf[a]
            BY <2>2 DEF Known
        <3>3. \A u, v \in accounts' : u.email = v.email => u = v
            BY <1>1, <3>1, <3>2
        <3>4. \A e : Known(e) => Known(e)'
            BY <3>1 DEF Known
        <3>5. Known(EmailOf[a])'
            <4> DEFINE row == [email |-> EmailOf[a], by |-> a]
            <4>1. row \in accounts' /\ row.email = EmailOf[a]
                BY <3>1
            <4> HIDE DEF row
            <4>2. \E u \in accounts' : u.email = EmailOf[a]
                BY <4>1
            <4> QED  BY <4>2 DEF Known
        <3>6. \A b \in sessions' : Known(EmailOf[b])'
            BY <1>1, <3>1, <3>4
        <3>7. \A b \in Attempts : place'[b] = "session" => Known(EmailOf[b])'
            BY <1>1, <3>1, <3>4, <3>5
        <3> QED  BY <3>3, <3>6, <3>7 DEF OneAccount, Known
    <2> QED  BY <2>1, <2>2
<1>6. ASSUME NEW a \in Attempts, IssueSession(a) \/ Logout(a)
      PROVE  /\ OneAccount'
             /\ \A b \in Attempts : place'[b] = "session" => Known(EmailOf[b])'
    <2>1. /\ accounts' = accounts /\ sessions' \subseteq sessions \cup {a}
          /\ a \in sessions' => Known(EmailOf[a])
          /\ \A b \in Attempts : place'[b] = "session" => place[b] = "session"
        <3>1. /\ accounts' = accounts /\ sessions' \subseteq sessions \cup {a}
              /\ a \in sessions' => place[a] = "session" \/ a \in sessions
            BY <1>6 DEF IssueSession, Logout
        <3>2. a \in sessions' => Known(EmailOf[a])
            BY <1>1, <3>1
        <3>3. \A b \in Attempts : place'[b] = "session" => place[b] = "session"
            <4>1. CASE IssueSession(a)
                BY <1>1, <4>1 DEF IssueSession, Go
            <4>2. CASE Logout(a)
                BY <4>2 DEF Logout
            <4> QED  BY <1>6, <4>1, <4>2
        <3> QED  BY <3>1, <3>2, <3>3
    <2> QED  BY <1>1, <2>1 DEF OneAccount, Known
<1>7. ASSUME NEW a \in Attempts, Hashed(a)
      PROVE  /\ OneAccount'
             /\ \A b \in Attempts : place'[b] = "session" => Known(EmailOf[b])'
    BY <1>2, <1>7 DEF Hashed
<1>8. CASE MinutePasses \/ UNCHANGED signInVars
    BY <1>2, <1>8 DEF MinutePasses, signInVars, Rows
<1> QED  BY <1>2, <1>3, <1>4, <1>5, <1>6, <1>7, <1>8 DEF SignInNext

\* While no attempt is cancelled a second time, at most Slots hashes run, those of
\* cancelled attempts included; of the signups for an email one gets the account, and
\* every session has an account behind it.
THEOREM Accounts == ASSUME SignInAssumption, ~Twice PROVE SignInSpec => []AccountsSound
<1>1. SignInInit => AccountsInv
    <2> SUFFICES ASSUME SignInInit PROVE AccountsInv
        OBVIOUS
    <2>1. threads \subseteq held /\ Cardinality(held) <= Slots
        BY FS_EmptySet, ConstantFacts DEF SignInInit
    <2>2. OneAccount
        BY DEF SignInInit, OneAccount
    <2>3. \A a \in Attempts : place[a] # "session"
        BY DEF SignInInit
    <2> QED  BY <2>1, <2>2, <2>3 DEF AccountsInv
<1>2. ThrottleInv /\ AccountsInv /\ [SignInNext]_signInVars => AccountsInv'
    BY HeldStep, AccountStep DEF AccountsInv
<1>3. ThrottleInv /\ AccountsInv => AccountsSound
    <2> SUFFICES ASSUME ThrottleInv, AccountsInv PROVE AccountsSound
        OBVIOUS
    <2>1. IsFiniteSet(held) /\ Cardinality(held) \in Nat
        BY Finite DEF ThrottleInv, SignInTypeOK
    <2>2. Cardinality(threads) <= Cardinality(held) /\ Cardinality(threads) \in Nat
        BY <2>1, Smaller DEF AccountsInv
    <2>3. HashersBounded
        BY <2>1, <2>2, ConstantFacts DEF HashersBounded, AccountsInv
    <2> QED  BY <2>3 DEF AccountsSound, AccountsInv
<1> QED  BY <1>1, <1>2, <1>3, ThrottleInvariance, PTL DEF SignInSpec
=============================================================================
