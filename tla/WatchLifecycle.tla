--------------------------- MODULE WatchLifecycle ---------------------------
(***************************************************************************)
(* What a watch promises its owner, without workers, leases, windows or    *)
(* revisions: it is opened once, finishes once, with one outcome, stays as *)
(* it finished until it is deleted, and its outcome is announced at most   *)
(* once and truthfully.  Statuses are those of models/watch.py; module     *)
(* WatchPolling implements this one.                                       *)
(***************************************************************************)
EXTENDS Sequences

VARIABLES status,  \* the public status, "NEW" before and "GONE" after
          owed,    \* the outcome that may be announced, as a set
          heard    \* what the owner was told

vars == <<status, owed, heard>>

\* A cancellation is the owner's own doing and is not announced.
Announced == {"FOUND", "BOOKED", "EXPIRED"}
Finished == Announced \cup {"CANCELLED"}

Init == status = "NEW" /\ owed = {} /\ heard = <<>>

Open ==
    /\ status = "NEW"
    /\ status' = "ACTIVE"
    /\ UNCHANGED <<owed, heard>>

Finish(s) ==
    /\ status = "ACTIVE"
    /\ status' = s
    /\ owed' = {s} \cap Announced
    /\ UNCHANGED heard

Tell ==
    /\ status \in Finished \cup {"GONE"}
    /\ heard = <<>>
    /\ \E s \in owed : heard' = <<s>>
    /\ UNCHANGED <<status, owed>>

Forget ==
    /\ status \in Finished
    /\ status' = "GONE"
    /\ UNCHANGED <<owed, heard>>

Next == Open \/ (\E s \in Finished : Finish(s)) \/ Tell \/ Forget

Spec == Init /\ [][Next]_vars
=============================================================================
