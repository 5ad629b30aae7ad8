-------------------------- MODULE MCBookingRequests --------------------------
(***************************************************************************)
(* Model-checking instance of the mock provider: one-shot requests over    *)
(* the store that MockBooking specifies (BookingRequests), and the store   *)
(* of the Redis scripts (MockBookingRedis), shown to implement it.         *)
(*                                                                         *)
(* A behaviour is one of its subject's, while the other stays in its       *)
(* initial state; they share no variable.                                  *)
(***************************************************************************)
EXTENDS BookingRequests, MockBookingRedis, TLC

CONSTANTS r1, r2, r3, r4, s1, s2, k1, k2

VARIABLE subject

\* Two equal requests, one of another owner for the same slots, and a search.
Owners == (r1 :> k1) @@ (r2 :> k1) @@ (r3 :> k2) @@ (r4 :> None)
Queries == (r1 :> <<s1, s2>>) @@ (r2 :> <<s1, s2>>) @@ (r3 :> <<s1>>) @@ (r4 :> <<s2>>)

\* Of MockBookingRedis: two slots compete for one place; two keys, two searches, one
\* caller between its round trips.
ASSUME RedisAssumption

\* Used for safety only: the requests have no symmetry but that of r1 and r2.
Symmetry ==
    Permutations({r1, r2}) \cup Permutations(Sids) \cup Permutations(IdKeys)
        \cup Permutations(OpIds)

InitAll ==
    /\ subject \in {"requests", "redis"}
    /\ RInit
    /\ RedisInit

NextAll ==
    \/ subject = "requests" /\ RNext /\ UNCHANGED <<subject, redisVars>>
    \/ subject = "redis" /\ RedisNext /\ UNCHANGED <<subject, rvars>>

SpecAll == InitAll /\ [][NextAll]_<<subject, rvars, redisVars>>
==============================================================================
