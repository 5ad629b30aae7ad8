------------------------------- MODULE MCEdge -------------------------------
(***************************************************************************)
(* Model-checking instance of the components around the watch protocol:    *)
(* the durable history (WatchHistory), sign-in (SignIn), request times     *)
(* (RequestTimes), the pacing of polls (PollPacing) and the records of     *)
(* earlier releases (LegacyWatch).                                         *)
(*                                                                         *)
(* They share no variable, so an interleaving of two of them shows nothing *)
(* that each does not show alone.  A behaviour is one of its subject's,    *)
(* while the other components stay in an initial state.                    *)
(***************************************************************************)
EXTENDS WatchHistory, SignIn, RequestTimes, PollPacing, LegacyWatch

CONSTANTS a0, a1, a2, a3, a4, n1, n2, e0, e1, e2, p1,   \* attempts, emails, the peer
          w2, r2,  \* the second poller, the second coordinator
          x1, x2   \* the workers of unfenced calls

VARIABLE subject

allVars == <<subject, vars, signInVars, timesVars, pacingVars, legacyVars>>

\* WatchHistory: three upserts under way; two unfenced calls, x1's first.  Where one
\* lands on a write it had not read, a lost upsert is one that stays under way.  Who
\* passes the ownership check, and whether there was one, is explored for the watches
\* of accounts; other watches are read, and so cancelled, anonymously.

\* SignIn: after one failure, three logins from its peer, two of them for one email; or
\* two signups for one email while it logs in from an internal address.  Where every
\* call of Redis may fail, two logins come.
EmailOfEach ==
    [a \in Logins \cup Signups |->
        CASE a = a0 -> e0 [] a \in {a1, a2} -> e1 [] OTHER -> e2]
PeerOfEach ==
    [a \in Logins \cup Signups |-> IF a \in {a0, a1, a2, a4} THEN p1 ELSE Nobody]

\* RequestTimes: nine minutes a day, a boundary every third; opening at a boundary,
\* closing between two or at midnight, printed 00:00.  Every combination of the times,
\* and every combination of the rest.
Asks ==
    [action : {"BOOK"}, venue : {"known"}, party : {TRUE}, date : {"today", "later"},
     preferred : 0..8 \cup {-1}, window : [start : 0..8, end : 0..8] \cup {NoWindow},
     duration : {-1, 4}]
    \cup
    [action : {"none", "BOOK", "CREATE_WATCH"},
     venue : {"none", "unknown", "ambiguous", "known"}, party : BOOLEAN,
     date : {"none", "impossible", "past", "today", "later", "too_far"},
     preferred : {-1, 5}, window : {NoWindow, [start |-> 4, end |-> 7]}, duration : {-1}]
VenuesHere == {[opens |-> 0, closes |-> 7, stay |-> 1], [opens |-> 3, closes |-> 0, stay |-> 1]}

\* PollPacing: schedules with and without jitter, backoff maxima below, at and between
\* powers of the interval, lifetimes that are and are not multiples of the earliest
\* delay, ceilings that do and do not limit the watch; early polls for one maximum.
Plans ==
    {c \in [interval : {2, 5}, jitter : {0, 1, 3}, backoffMax : {2, 8, 11},
            lifetime : {0, 1, 13, 16}, ceiling : {3, 20}, enforce : BOOLEAN] :
        c.jitter < c.interval /\ (c.enforce \/ c.backoffMax = 8)}

\* LegacyWatch: two polls of a watch that books and one coordinator; two coordinators
\* and one poll of a watch that only notifies; or, for both, one of each and a
\* cancellation.
ASSUME SignInAssumption /\ TimesAssumption /\ PacingAssumption
ASSUME LegacyAssumption /\ w2 \in Pollers /\ r2 \in Coordinators

-----------------------------------------------------------------------------
(* One subject at a time                                                   *)

InitAll ==
    /\ subject \in {"history", "door", "times", "pacing", "polls", "passes", "cancels"}
    /\ subject # "history" => pc = "done"
    /\ Init
    /\ SignInInit
    /\ shared => place[a4] = "absent"
    /\ subject # "door" => ~shared /\ place[n1] = "absent" /\ place[a4] = "absent"
    /\ subject # "times" =>
          /\ ask = CHOOSE x \in Extractions : TRUE
          /\ clock = 0
          /\ venue = CHOOSE v \in Venues : TRUE
    /\ TimesInit
    /\ subject # "pacing" => cfg = CHOOSE c \in Settings : TRUE
    /\ PacingInit
    /\ subject \notin {"polls", "passes", "cancels"} => jobs = 0
    /\ LegacyInit
    /\ subject = "polls" => doc.auto
    /\ subject \notin {"polls", "cancels"} => ~doc.auto

NextAll ==
    \/ /\ subject = "history" /\ Next
       /\ Cardinality(sent') <= 3
       /\ overrun' => ~lost'
       /\ calls'[x2] # NoCall => calls'[x1] # NoCall
       /\ creator.user = None => ~unchecked' /\ granted' \subseteq {None}
       /\ UNCHANGED <<subject, signInVars, timesVars, pacingVars, legacyVars>>
    \/ /\ subject = "door" /\ SignInNext
       /\ UNCHANGED <<subject, vars, timesVars, pacingVars, legacyVars>>
    \/ /\ subject = "times" /\ TimesNext
       /\ UNCHANGED <<subject, vars, signInVars, pacingVars, legacyVars>>
    \/ /\ subject = "pacing" /\ PacingNext
       /\ UNCHANGED <<subject, vars, signInVars, timesVars, legacyVars>>
    \/ /\ subject \in {"polls", "passes", "cancels"} /\ LegacyNext
       /\ subject # "passes" => pass'[r2] = pass[r2]
       /\ subject # "polls" => poll'[w2] = poll[w2]
       /\ subject # "cancels" => cancels' = cancels
       /\ UNCHANGED <<subject, vars, signInVars, timesVars, pacingVars>>

SpecAll == InitAll /\ [][NextAll]_allVars
=============================================================================
