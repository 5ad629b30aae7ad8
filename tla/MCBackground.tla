---------------------------- MODULE MCBackground ----------------------------
(***************************************************************************)
(* Model-checking instance of what runs behind the watch protocol: the in- *)
(* process queue (LocalQueue), the process around it (AppProcess), the     *)
(* sweep over many watches (ScheduleBatch) and the records of earlier      *)
(* releases (LegacyWatch).                                                 *)
(*                                                                         *)
(* They share no variable, so an interleaving of two of them shows nothing *)
(* that each does not show alone.  A behaviour is one of its subject's,    *)
(* while the other components rest where nothing is left for them to do.   *)
(***************************************************************************)
EXTENDS LocalQueue, AppProcess, SequencesExt

CONSTANTS Watches, Zombies, BatchSize, MaxFaults,             \* ScheduleBatch
          Pollers, Coordinators, Cancellers, NoOne, MaxAttempts, MaxSideRev, MaxJobs   \* LegacyWatch

VARIABLES subject,
          line, horizon, job, lease, todo, faults,
          doc, side, marker, owner, listed, booked, over, jobs, poll, pass, cancels

batchVars == <<line, horizon, job, lease, todo, faults>>
recordVars == <<doc, side, marker, owner, listed, booked, over, jobs, poll, pass, cancels>>
allVars == <<subject, vars, processVars, batchVars, recordVars>>

Sweeps == INSTANCE ScheduleBatch
Legacy == INSTANCE LegacyWatch WITH claim <- owner, active <- listed

ASSUME Sweeps!BatchAssumption /\ Legacy!LegacyAssumption

-----------------------------------------------------------------------------
(* One subject at a time                                                   *)

\* A watch that nobody polls.
QueueRests ==
    /\ active = FALSE /\ window = 0 /\ due = TRUE /\ claim = None /\ reading = None
    /\ task = [j \in Tasks |-> NoTask] /\ byWindow = [w \in Windows |-> None]
    /\ loose = {} /\ gate = "open" /\ awaited = {}

\* A process that has stopped.
ProcessRests ==
    /\ pc = "stopped" /\ settings = "ok" /\ open = {}
    /\ app = [repo |-> "memory", mock |-> "local", queue |-> "q1"]
    /\ booking = "local"
    /\ service = [repo |-> "memory", mock |-> "local", queue |-> "q1", history |-> FALSE]
    /\ coord = Unbound
    /\ sweeping = FALSE /\ tasks = FALSE
    /\ ready = [queue |-> "unknown", recovery |-> "unknown", history |-> "unknown",
                wasLeader |-> FALSE]
    /\ seen = [pass |-> "none", broker |-> "none", history |-> "none"]

\* Nothing is due.
SweepsRest ==
    /\ line = SetToSeq(Watches \cup Zombies) /\ horizon = 0
    /\ job = {} /\ lease = {} /\ todo = <<>> /\ faults = 0

\* A record that expired.
LegacyRests ==
    /\ doc = [status |-> "EXPIRED", attempts |-> 0, auto |-> FALSE]
    /\ side = Legacy!NoSide /\ marker = FALSE /\ owner = NoOne /\ listed = FALSE
    /\ booked = FALSE /\ over = TRUE /\ jobs = 0
    /\ poll = [p \in Pollers |-> Legacy!Idle]
    /\ pass = [c \in Coordinators |-> Legacy!Resting]
    /\ cancels = [x \in Cancellers |-> Legacy!NoCancel]

InitAll ==
    /\ subject \in {"queue", "process", "sweeps", "legacy"}
    /\ IF subject = "queue" THEN Init ELSE QueueRests
    /\ IF subject = "process" THEN ProcessInit ELSE ProcessRests
    /\ IF subject = "sweeps" THEN Sweeps!Init ELSE SweepsRest
    /\ IF subject = "legacy" THEN Legacy!LegacyInit ELSE LegacyRests

NextAll ==
    \/ /\ subject = "queue" /\ Next
       /\ UNCHANGED <<subject, processVars, batchVars, recordVars>>
    \/ /\ subject = "process" /\ ProcessNext
       /\ UNCHANGED <<subject, vars, batchVars, recordVars>>
    \/ /\ subject = "sweeps" /\ Sweeps!Next
       /\ UNCHANGED <<subject, vars, processVars, recordVars>>
    \/ /\ subject = "legacy" /\ Legacy!LegacyNext
       /\ UNCHANGED <<subject, vars, processVars, batchVars>>

\* Each module's own; a component that rests has no step that is owed.
FairnessAll ==
    /\ Fairness
    /\ ProcessFairness
    /\ Sweeps!Fairness
    /\ Legacy!Fairness

SpecAll == InitAll /\ [][NextAll]_allVars /\ FairnessAll

-----------------------------------------------------------------------------
(* The properties of the instantiated modules                              *)

\* ScheduleBatch: every due watch is polled in the end.
EveryWatchServed == Sweeps!EveryWatchServed

\* LegacyWatch: no watch stays active in the index for ever.
IndexedSettles == Legacy!IndexedSettles
=============================================================================
