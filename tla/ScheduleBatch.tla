--------------------------- MODULE ScheduleBatch ---------------------------
(***************************************************************************)
(* Many watches and a bounded sweep: a pass of the dispatcher considers the*)
(* batch_size oldest markers inside its horizon only, those published and  *)
(* waiting out their grace period and those of dead windows included       *)
(* (dispatcher.py, due_schedule_markers).  Module WatchDispatch has the    *)
(* protocol of one marker; here it is publication, loss, poll and grace.   *)
(***************************************************************************)
EXTENDS Naturals, Sequences, SequencesExt

CONSTANTS Watches,    \* active watches
          Zombies,    \* markers of watches that ended without losing them
          BatchSize,  \* markers a pass considers
          MaxFaults   \* bound: failed publications and lost jobs

BatchAssumption ==
    /\ Watches \cap Zombies = {}
    /\ BatchSize \in Nat \ {0} /\ MaxFaults \in Nat

VARIABLES line,     \* the schedule index in the order of its scores
          horizon,  \* how many of its first members a pass may publish
          job,      \* watches with a job at the broker
          lease,    \* watches whose dispatch lease is live
          todo,     \* markers the running pass has still to try
          faults    \* failed publications and lost jobs so far

vars == <<line, horizon, job, lease, todo, faults>>

Init ==
    /\ line \in SetToSeqs(Watches \cup Zombies)
    /\ horizon \in 0..Len(line)
    /\ job = {}
    /\ lease = {}
    /\ todo = <<>>
    /\ faults = 0

First(n) == SubSeq(line, 1, IF n < Len(line) THEN n ELSE Len(line))

\* Mutation: the newest of the due markers.
BatchNewest ==
    LET n == IF horizon < BatchSize THEN horizon ELSE BatchSize
    IN SubSeq(line, horizon - n + 1, horizon)

\* due_schedule_markers: ordered by score, cut at the limit.
Batch == First(IF horizon < BatchSize THEN horizon ELSE BatchSize)

Due(w) == \E i \in 1..horizon : line[i] = w

BeginSweep ==
    /\ todo = <<>> /\ horizon > 0
    /\ todo' = Batch
    /\ UNCHANGED <<line, horizon, job, lease, faults>>

Fault == faults < MaxFaults /\ faults' = faults + 1

\* _dispatch_one: STALE and BUSY are passed over; a publication that fails
\* leaves the marker as it is; one that succeeds may still be lost.
DispatchOne ==
    /\ todo # <<>>
    /\ LET w == Head(todo) IN
       \/ w \notin Watches \ lease /\ UNCHANGED <<job, lease, faults>>
       \/ /\ w \in Watches \ lease
          /\ \/ lease' = lease \cup {w} /\ job' = job \cup {w} /\ UNCHANGED faults
             \/ lease' \in {lease, lease \cup {w}} /\ Fault /\ UNCHANGED job
    /\ todo' = Tail(todo)
    /\ UNCHANGED <<line, horizon>>

\* A claim or the grace period of a publication runs out.
Lapse(w) ==
    /\ w \in lease
    /\ lease' = lease \ {w}
    /\ UNCHANGED <<line, horizon, job, todo, faults>>

\* The index with the marker of w moved behind those that are due already.
Successor(w) ==
    LET rest == SelectSeq(line, LAMBDA v : v # w) IN
    {InsertAt(rest, i, w) : i \in horizon..(Len(rest) + 1)}

\* A worker polls the window and commits its successor, whose lease is new.
Poll(w) ==
    /\ w \in job /\ Due(w)
    /\ line' \in Successor(w)
    /\ horizon' = horizon - 1
    /\ job' = job \ {w}
    /\ lease' = lease \ {w}
    /\ UNCHANGED <<todo, faults>>

\* A job whose window has moved on, or a worker that dies with its job.
Drop(w) ==
    /\ w \in job
    /\ IF Due(w) THEN Fault ELSE UNCHANGED faults
    /\ job' = job \ {w}
    /\ UNCHANGED <<line, horizon, lease, todo>>

Tick ==
    /\ horizon < Len(line)
    /\ horizon' = horizon + 1
    /\ UNCHANGED <<line, job, lease, todo, faults>>

Next ==
    \/ BeginSweep \/ DispatchOne \/ Tick
    \/ \E w \in Watches : Lapse(w) \/ Poll(w) \/ Drop(w)

\* Passes follow each other, leases run out, and a worker takes its jobs.
Fairness ==
    /\ WF_vars(BeginSweep) /\ WF_vars(DispatchOne)
    /\ \A w \in Watches : WF_vars(Lapse(w)) /\ WF_vars(Poll(w))

Spec == Init /\ [][Next]_vars /\ Fairness

-----------------------------------------------------------------------------
(* Properties                                                              *)

\* Every due watch is polled in the end, however many others are due before it
\* and however small the batch, while dead markers do not fill it.
EveryWatchServed == \A w \in Watches : Due(w) ~> ~Due(w)
=============================================================================
