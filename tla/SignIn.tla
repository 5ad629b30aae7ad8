------------------------------- MODULE SignIn -------------------------------
(***************************************************************************)
(* Concurrent logins and signups: the two sliding-window throttles of the  *)
(* login route, in process (SlidingWindowThrottle) or shared through Redis *)
(* (RedisSlidingWindowThrottle), the bounded password hashing of           *)
(* AuthService and the accounts and sessions it writes.  An attempt awaits *)
(* something between any two of its actions and may be cancelled while it  *)
(* waits for a slot, its hash or the database.  Left out: a cancellation   *)
(* while it reserves in a throttle (auth.py:125-135) or resets one.        *)
(***************************************************************************)
EXTENDS Integers, FiniteSets

CONSTANTS Logins, Signups,   \* attempts
          Emails, Peers,     \* what the throttles key on
          EmailOf, PeerOf,   \* of an attempt; no peer limit for Nobody
          Registered,        \* emails that have an account from the start
          Nobody,
          MaxEmail, MaxPeer, \* events a window admits per email, per peer
          Window,            \* its length
          Tracked,           \* keys each in-process throttle follows at most
          Slots,             \* concurrent password hashes
          Twice,             \* whether an attempt may be cancelled twice
          Casts,             \* the sets of attempts that may come together
          Before,            \* logins that failed just before
          MaxMinute            \* bound

Attempts == Logins \cup Signups
Keys == Emails \cup Peers
Limit(k) == IF k \in Emails THEN MaxEmail ELSE MaxPeer

\* What failed before was admitted by both windows.
SignInAssumption ==
    /\ Logins \cap Signups = {} /\ Emails \cap Peers = {}
    /\ EmailOf \in [Attempts -> Emails] /\ PeerOf \in [Attempts -> Peers \cup {Nobody}]
    /\ Registered \subseteq Emails /\ Nobody \notin Keys
    /\ {MaxEmail, MaxPeer, Window, Slots} \subseteq Nat \ {0}
    /\ {Tracked, MaxMinute} \subseteq Nat /\ Twice \in BOOLEAN
    /\ Casts \subseteq SUBSET Attempts /\ Before \subseteq Logins
    /\ IsFiniteSet(Attempts)
    /\ \A k \in Keys :
          Cardinality({b \in Before : k \in {EmailOf[b], PeerOf[b]}}) <= Limit(k)

VARIABLES shared,    \* whether the throttles live in Redis
          minute,
          place,        \* where each attempt is
          events,    \* per key, the reservations: attempt and time
          tokens,    \* per attempt, the keys it holds a token for, and since when
          threads,   \* attempts whose hash is running
          held,      \* attempts that hold a password slot
          accounts,  \* the users rows: email and the signup that wrote it
          sessions,  \* the sessions rows, by the attempt that issued them
          epoch,     \* history: resets an email's window has seen
          since      \* history: the epoch in which an attempt was admitted

signInVars == <<shared, minute, place, events, tokens, threads, held, accounts, sessions,
                epoch, since>>
Throttle == <<events, tokens, epoch, since>>
Work == <<threads, held>>
Rows == <<accounts, sessions>>

\* The next place of an attempt; where the throttles live never changes.
Go(a, l) == place' = [place EXCEPT ![a] = l] /\ UNCHANGED shared
Known(e) == \E u \in accounts : u.email = e

SignInInit ==
    /\ shared \in BOOLEAN
    /\ minute = 0
    /\ \E cast \in Casts :
          place = [a \in Attempts |-> IF a \in Before THEN "failed"
                                  ELSE IF a \notin cast THEN "absent"
                                  ELSE IF a \in Logins THEN "email" ELSE "slot"]
    /\ events = [k \in Keys |-> {[by |-> a, at |-> 0] :
                                    a \in {b \in Before : k \in {EmailOf[b], PeerOf[b]}}}]
    /\ tokens = [a \in Attempts |->
                    IF a \in Before
                    THEN {[key |-> k, at |-> 0] : k \in {EmailOf[a], PeerOf[a]} \ {Nobody}}
                    ELSE {}]
    /\ threads = {}
    /\ held = {}
    /\ accounts = {[email |-> e, by |-> Nobody] : e \in Registered}
    /\ sessions = {}
    /\ epoch = [e \in Emails |-> 0]
    /\ since = [a \in Attempts |-> 0]

-----------------------------------------------------------------------------
(* The sliding window                                                      *)

Live(k) == {ev \in events[k] : ev.at > minute - Window}

Full(k) == Cardinality(Live(k)) >= Limit(k)

\* record() that would have to follow one key more than it can fails open, and
\* so does every Redis error: the attempt passes uncounted.
Untracked(k) ==
    IF shared THEN TRUE
    ELSE /\ Live(k) = {}
         /\ LET kind == IF k \in Emails THEN Emails ELSE Peers
            IN  Cardinality({j \in kind : Live(j) # {}}) >= Tracked

Reserved(a, k) == [events EXCEPT ![k] = Live(k) \cup {[by |-> a, at |-> minute]}]

\* aconsume: check and reservation are one step.  A Redis error may strike
\* after the reservation was stored.
Consume(a, k, admitted, refused) ==
    \/ /\ Full(k)
       /\ Go(a, refused)
       /\ UNCHANGED Throttle
    \/ /\ ~Full(k)
       /\ shared \/ ~Untracked(k)
       /\ events' = Reserved(a, k)
       /\ tokens' = [tokens EXCEPT ![a] = @ \cup {[key |-> k, at |-> minute]}]
       /\ since' = IF k \in Emails THEN [since EXCEPT ![a] = epoch[k]] ELSE since
       /\ Go(a, admitted)
       /\ UNCHANGED epoch
    \/ /\ shared \/ ~Full(k)
       /\ Untracked(k)
       /\ Go(a, admitted)
       /\ events' = events \/ (shared /\ ~Full(k) /\ events' = Reserved(a, k))
       /\ UNCHANGED <<tokens, epoch, since>>

HoldsToken(a, k) == \E t \in tokens[a] : t.key = k

\* arelease: only the reservation of this attempt's token; a Redis error is
\* logged.
Release(a, k, l) ==
    /\ \/ events' = IF HoldsToken(a, k)
                    THEN [events EXCEPT ![k] = {ev \in @ : ev.by # a}] ELSE events
       \/ shared /\ events' = events
    /\ Go(a, l)
    /\ UNCHANGED <<tokens, epoch, since>>

-----------------------------------------------------------------------------
(* The login route                                                         *)

ConsumeEmail(a) ==
    /\ place[a] = "email"
    /\ Consume(a, EmailOf[a], "peer", "limited")
    /\ UNCHANGED <<minute, Work, Rows>>

\* The peer limit is skipped for internal addresses; refused, the email's
\* reservation is given back.
ConsumePeer(a) ==
    /\ place[a] = "peer"
    /\ IF PeerOf[a] = Nobody
       THEN Go(a, "slot") /\ UNCHANGED Throttle
       ELSE Consume(a, PeerOf[a], "slot", "backout")
    /\ UNCHANGED <<minute, Work, Rows>>

BackOut(a) ==
    /\ place[a] = "backout"
    /\ Release(a, EmailOf[a], "limited")
    /\ UNCHANGED <<minute, Work, Rows>>

\* Any ending but a verdict gives both reservations back.
AbortEmail(a) ==
    /\ place[a] = "abort"
    /\ Release(a, EmailOf[a], "abortpeer")
    /\ UNCHANGED <<minute, Work, Rows>>

AbortPeer(a) ==
    /\ place[a] = "abortpeer"
    /\ IF PeerOf[a] = Nobody THEN Go(a, "error") /\ UNCHANGED Throttle
                           ELSE Release(a, PeerOf[a], "error")
    /\ UNCHANGED <<minute, Work, Rows>>

\* Success clears the email's window.
ResetEmail(a) ==
    /\ place[a] = "reset"
    /\ \/ /\ events' = [events EXCEPT ![EmailOf[a]] = {}]
          /\ epoch' = [epoch EXCEPT ![EmailOf[a]] = @ + 1]
       \/ shared /\ UNCHANGED <<events, epoch>>
    /\ Go(a, "resetpeer")
    /\ UNCHANGED <<minute, tokens, since, Work, Rows>>

\* Mutation: success clears the peer's window too.
ResetPeerAll(a) ==
    /\ place[a] = "resetpeer"
    /\ events' = IF PeerOf[a] = Nobody THEN events ELSE [events EXCEPT ![PeerOf[a]] = {}]
    /\ Go(a, "in")
    /\ UNCHANGED <<minute, tokens, epoch, since, Work, Rows>>

\* Of the peer's window it gives back its own reservation only.
ResetPeer(a) ==
    /\ place[a] = "resetpeer"
    /\ IF PeerOf[a] = Nobody THEN Go(a, "in") /\ UNCHANGED Throttle
                           ELSE Release(a, PeerOf[a], "in")
    /\ UNCHANGED <<minute, Work, Rows>>

-----------------------------------------------------------------------------
(* AuthService                                                             *)

\* _password_work: a slot, then a thread; a login of an unknown email hashes
\* as well.  A malformed email or weak password raises before.
TakeSlot(a) ==
    /\ place[a] = "slot"
    /\ Cardinality(held) < Slots
    /\ held' = held \cup {a}
    /\ threads' = threads \cup {a}
    /\ Go(a, "hashing")
    /\ UNCHANGED <<minute, Throttle, Rows>>

Invalid(a) ==
    /\ place[a] = "slot"
    /\ Go(a, IF a \in Logins THEN "abort" ELSE "error")
    /\ UNCHANGED <<minute, Throttle, Work, Rows>>

Hashed(a) ==
    /\ a \in threads
    /\ threads' = threads \ {a}
    /\ UNCHANGED <<shared, minute, place, held, Throttle, Rows>>

\* login: wrong password or unknown email, or a session to issue.
Verify(a) ==
    /\ place[a] = "hashing" /\ a \in Logins /\ a \notin threads
    /\ held' = held \ {a}
    /\ \/ Go(a, "failed")
       \/ Known(EmailOf[a]) /\ Go(a, "session")
    /\ UNCHANGED <<minute, threads, Throttle, Rows>>

\* signup: the hash is ready to be inserted.
HashReady(a) ==
    /\ place[a] = "hashing" /\ a \in Signups /\ a \notin threads
    /\ held' = held \ {a}
    /\ Go(a, "insert")
    /\ UNCHANGED <<minute, threads, Throttle, Rows>>

\* create_user: the unique email decides between signups.
CreateUser(a) ==
    /\ place[a] = "insert"
    /\ IF Known(EmailOf[a])
       THEN Go(a, "taken") /\ UNCHANGED accounts
       ELSE /\ accounts' = accounts \cup {[email |-> EmailOf[a], by |-> a]}
            /\ Go(a, "session")
    /\ UNCHANGED <<minute, Throttle, Work, sessions>>

IssueSession(a) ==
    /\ place[a] = "session"
    /\ sessions' = sessions \cup {a}
    /\ Go(a, IF a \in Logins THEN "reset" ELSE "in")
    /\ UNCHANGED <<minute, Throttle, Work, accounts>>

\* The database fails a statement, or the attempt is cancelled at it.
DatabaseFails(a) ==
    /\ place[a] \in {"insert", "session"}
    /\ Go(a, IF a \in Logins THEN "abort" ELSE "error")
    /\ UNCHANGED <<minute, Throttle, Work, Rows>>

\* Mutation: a cancelled attempt gives its slot back at once.
CancelFreesSlot(a) ==
    /\ place[a] = "hashing"
    /\ Go(a, "cancelled")
    /\ held' = held \ {a}
    /\ UNCHANGED <<minute, threads, Throttle, Rows>>

\* Cancelled while its hash runs, an attempt keeps the slot and awaits it.
CancelAttempt(a) ==
    /\ place[a] = "hashing"
    /\ Go(a, "cancelled")
    /\ UNCHANGED <<minute, Throttle, Work, Rows>>

\* The hash ended, or a second cancellation ends the wait, which is not shielded.
CancelEnds(a) ==
    /\ place[a] = "cancelled"
    /\ a \notin threads \/ Twice
    /\ held' = held \ {a}
    /\ Go(a, IF a \in Logins THEN "abort" ELSE "error")
    /\ UNCHANGED <<minute, threads, Throttle, Rows>>

\* logout: the row of the presented token is deleted, if there is one.
Logout(a) ==
    /\ place[a] = "in" /\ a \in sessions
    /\ sessions' = sessions \ {a}
    /\ UNCHANGED <<shared, minute, place, Throttle, Work, accounts>>

MinutePasses ==
    /\ minute < MaxMinute
    /\ minute' = minute + 1
    /\ UNCHANGED <<shared, place, Throttle, Work, Rows>>

SignInNext ==
    \/ \E a \in Attempts :
          \/ ConsumeEmail(a) \/ ConsumePeer(a) \/ BackOut(a)
          \/ TakeSlot(a) \/ Invalid(a) \/ Hashed(a) \/ Verify(a) \/ HashReady(a)
          \/ CreateUser(a) \/ IssueSession(a) \/ DatabaseFails(a)
          \/ AbortEmail(a) \/ AbortPeer(a) \/ ResetEmail(a) \/ ResetPeer(a)
          \/ CancelAttempt(a) \/ CancelEnds(a) \/ Logout(a)
    \/ MinutePasses

SignInSpec == SignInInit /\ [][SignInNext]_signInVars

-----------------------------------------------------------------------------
(* Properties                                                              *)

Answers == {"in", "failed", "limited", "error", "taken"}
Places == Answers \cup {"email", "peer", "backout", "slot", "hashing", "cancelled",
                        "insert", "session", "abort", "abortpeer", "reset", "resetpeer", "absent"}

\* Counters, slots, threads, accounts and the place of every request.
SignInTypeOK ==
    /\ shared \in BOOLEAN
    /\ minute \in 0..MaxMinute
    /\ place \in [Attempts -> Places]
    /\ events \in [Keys -> SUBSET [by : Attempts, at : 0..MaxMinute]]
    /\ tokens \in [Attempts -> SUBSET [key : Keys, at : 0..MaxMinute]]
    /\ threads \subseteq Attempts /\ held \subseteq Attempts
    /\ accounts \subseteq [email : Emails, by : Signups \cup {Nobody}]
    /\ sessions \subseteq Attempts
    /\ epoch \in [Emails -> 0..Cardinality(Logins)]
    /\ since \in [Attempts -> 0..Cardinality(Logins)]

\* Counted attempts of key k in the current window that try a password or
\* failed with one; of an email, since the latest success.
Guesses(k) ==
    {a \in Logins :
        /\ place[a] \in {"slot", "hashing", "cancelled", "failed"}
        /\ \E t \in tokens[a] : t.key = k /\ t.at > minute - Window
        /\ k \in Emails => since[a] = epoch[k]}

\* However attempts interleave, end and release, no email and no peer gets
\* more counted password guesses into one window than its limit; signing in to
\* an account does not renew the peer's allowance.
GuessesBounded == \A k \in Keys : Cardinality(Guesses(k)) <= Limit(k)

\* Only failures count: an attempt with any other answer has left no
\* reservation behind, in either window of a process.  (A Redis error may leave
\* one until the window slides past it.)
OnlyFailuresCount ==
    ~shared => \A k \in Keys : \A ev \in events[k] : place[ev.by] \notin {"in", "limited", "error"}

\* At most Slots hashes run at a time, cancelled attempts included.
HashersBounded == Cardinality(threads) <= Slots

\* One account per email, and no session without an account behind it.
OneAccount ==
    /\ \A u, v \in accounts : u.email = v.email => u = v
    /\ \A a \in sessions : Known(EmailOf[a])

\* The throttles neither let a guess too many pass nor punish what is no guess.
ThrottleSound == SignInTypeOK /\ GuessesBounded /\ OnlyFailuresCount

\* AuthService bounds its hashing threads and keeps emails unique.
AccountsSound == HashersBounded /\ OneAccount

-----------------------------------------------------------------------------
(* The invariants behind ThrottleSound and AccountsSound                   *)

SignupPlaces == {"slot", "hashing", "cancelled", "insert", "session", "in", "taken", "error",
                 "absent"}

\* Only logins are throttled.  A token is of the attempt's own email or peer, taken
\* in that order, and no attempt is admitted in an epoch that has not begun.
TokensOwn ==
    \A a \in Attempts :
        /\ a \in Signups => place[a] \in SignupPlaces
        /\ \A t \in tokens[a] : /\ a \in Logins /\ t.key \in {EmailOf[a], PeerOf[a]}
                                /\ place[a] \notin {"email", "absent"}
                                /\ place[a] \in {"peer", "backout"} => t.key = EmailOf[a]
        /\ since[a] <= epoch[EmailOf[a]]

\* Where an attempt may be when a window still has its reservation.  In a process
\* it has the token to give it back with, and has not given it back yet.
EventsOwn ==
    \A k \in Keys : \A ev \in events[k] :
        /\ ev.by \in Logins /\ k \in {EmailOf[ev.by], PeerOf[ev.by]}
        /\ place[ev.by] \notin {"email", "absent"}
        /\ k = PeerOf[ev.by] => place[ev.by] \notin {"peer", "backout"}
        /\ ~shared =>
              /\ HoldsToken(ev.by, k)
              /\ place[ev.by] \notin {"in", "limited", "error"}
              /\ k = EmailOf[ev.by] => place[ev.by] \notin {"abortpeer", "resetpeer"}

\* No window ever admits more than its limit.
WindowsBounded == \A k \in Keys : IsFiniteSet(events[k]) /\ Cardinality(Live(k)) <= Limit(k)

\* What counts as a guess is still reserved: others' releases, prunings and resets
\* have taken nothing of it.
GuessesReserved ==
    \A a \in Attempts : \A t \in tokens[a] :
        /\ place[a] \in {"peer", "slot", "hashing", "cancelled", "failed"}
        /\ t.at > minute - Window
        /\ t.key \in Emails => since[a] = epoch[t.key]
        => [by |-> a, at |-> t.at] \in events[t.key]

\* Every epoch is the success of a login of its own.
Successes == {a \in Logins : place[a] \in {"resetpeer", "in"}}
EpochsEarned == \A e \in Emails : epoch[e] <= Cardinality(Successes)

\* Only a signup writes an account.
SignupsInsert == \A a \in Attempts : place[a] = "insert" => a \in Signups

ThrottleInv ==
    /\ SignInTypeOK /\ SignupsInsert
    /\ TokensOwn /\ EventsOwn /\ WindowsBounded /\ GuessesReserved /\ EpochsEarned

\* A running hash has its slot, a session about to be issued its account.
AccountsInv ==
    /\ threads \subseteq held /\ Cardinality(held) <= Slots
    /\ OneAccount
    /\ \A a \in Attempts : place[a] = "session" => Known(EmailOf[a])
=============================================================================
