----------------------------- MODULE LocalQueue -----------------------------
(***************************************************************************)
(* AsyncioTaskQueue, the in-process queue: one asyncio task per published  *)
(* window, forgotten by a callback that runs after the task has ended, and *)
(* a close() that cancels and awaits what it can see.  Its tasks poll one  *)
(* watch through WatchService.poll_once, which is told no window.          *)
(***************************************************************************)
EXTENDS Naturals, FiniteSets

CONSTANTS Tasks,       \* bound: asyncio tasks alive at a time
          None,        \* no task, no window
          LegacyJobs,  \* whether jobs without window are published too
          MaxWindow    \* bound: cadence windows after window 0

ASSUME LocalQueueAssumption ==
    /\ None \notin Tasks /\ None \notin Nat
    /\ LegacyJobs \in BOOLEAN /\ MaxWindow \in Nat

Windows == 0..MaxWindow

VARIABLES active, window,  \* the watch and its current window
          due,             \* whether the window's scheduled time has come
          claim,           \* the task that holds the poll claim
          reading,         \* a dispatcher's window, claimed and not yet enqueued
          task,            \* each task's window and state
          byWindow,        \* _by_window
          loose,           \* _tasks: tasks without a window
          gate,            \* "open", "closing" or "closed"
          awaited          \* the tasks close() cancelled and awaits

vars == <<active, window, due, claim, reading, task, byWindow, loose, gate, awaited>>
watch == <<active, window, due, claim>>
queue == <<task, byWindow, loose, gate, awaited>>

NoTask == [win |-> None, st |-> "free"]

\* The watch was just created, which published its first window.
Init ==
    /\ active = TRUE /\ window = 0 /\ due = TRUE /\ claim = None
    /\ reading = None
    /\ \E i \in Tasks :
          /\ task = [j \in Tasks |->
                        IF j = i THEN [win |-> 0, st |-> "waiting"] ELSE NoTask]
          /\ byWindow = [w \in Windows |-> IF w = 0 THEN i ELSE None]
    /\ loose = {} /\ gate = "open" /\ awaited = {}

Running(i) == task[i].st \in {"waiting", "polling", "committed"}
Set(i, st) == task' = [task EXCEPT ![i].st = st]

-----------------------------------------------------------------------------
(* enqueue_watch_poll                                                      *)

\* Mutation: a window is scheduled as often as it is published.
ScheduledNever(w) == FALSE

\* The window already has a task in this process.
Scheduled(w) == byWindow[w] # None /\ Running(byWindow[w])

Enqueue(w, st) ==
    IF gate # "open" \/ Scheduled(w)
    THEN task' = st /\ UNCHANGED byWindow
    ELSE \E i \in Tasks :
            /\ task[i] = NoTask
            /\ task' = [st EXCEPT ![i] = [win |-> w, st |-> "waiting"]]
            /\ byWindow' = [byWindow EXCEPT ![w] = i]

\* A recovery pass takes the dispatch lease of the current window, published
\* before by the service or by a pass whose grace is over, ...
ClaimDispatch ==
    /\ active /\ due /\ reading = None
    /\ reading' = window
    /\ UNCHANGED <<watch, queue>>

\* ... and publishes it once the store has answered.
Dispatch ==
    /\ reading # None
    /\ Enqueue(reading, task)
    /\ reading' = None
    /\ UNCHANGED <<watch, loose, gate, awaited>>

\* A job without window, as the legacy path publishes it.
EnqueueLegacy ==
    /\ LegacyJobs /\ active /\ gate = "open"
    /\ \E i \in Tasks :
          /\ task[i] = NoTask
          /\ task' = [task EXCEPT ![i] = [win |-> None, st |-> "waiting"]]
          /\ loose' = loose \cup {i}
    /\ UNCHANGED <<watch, reading, byWindow, gate, awaited>>

-----------------------------------------------------------------------------
(* _run_at                                                                 *)

\* due_at is the scheduled time of the task's window.
DueAt(i) == IF task[i].win = None THEN TRUE ELSE task[i].win < window \/ due

\* poll_once: the current window, whatever window the task was published for,
\* polled as due.
StartPoll(i) ==
    /\ task[i].st = "waiting" /\ i \notin awaited
    /\ DueAt(i)
    /\ active /\ claim = None
    /\ claim' = i
    /\ Set(i, "polling")
    /\ UNCHANGED <<active, window, due, reading, byWindow, loose, gate, awaited>>

\* The poll finds nothing to do (finished, busy, stale), or fails, which
\* is logged.
NothingToDo(i) ==
    /\ task[i].st = "waiting" /\ i \notin awaited
    /\ DueAt(i)
    /\ Set(i, "done")
    /\ UNCHANGED <<watch, reading, byWindow, loose, gate, awaited>>

\* commit_window, shielded from the cancellation of its task: the successor
\* window, or the end of the watch.
Commit(i) ==
    /\ task[i].st = "polling" /\ claim = i
    /\ claim' = None
    /\ \/ /\ window < MaxWindow
          /\ window' = window + 1
          /\ due' = FALSE
          /\ Set(i, "committed")
          /\ UNCHANGED active
       \/ /\ active' = FALSE
          /\ Set(i, "done")
          /\ UNCHANGED <<window, due>>
    /\ UNCHANGED <<reading, byWindow, loose, gate, awaited>>

\* _dispatch of the successor; a cancelled task ends before it.
Successor(i) ==
    /\ task[i].st = "committed" /\ i \notin awaited
    /\ Enqueue(window, [task EXCEPT ![i].st = "done"])
    /\ UNCHANGED <<watch, reading, loose, gate, awaited>>

\* The poll raises before its commit; the claim is left to lapse.
PollFails(i) ==
    /\ task[i].st = "polling"
    /\ Set(i, "done")
    /\ UNCHANGED <<watch, reading, byWindow, loose, gate, awaited>>

LeaseLapses ==
    /\ claim # None
    /\ ~Running(claim) \/ task[claim].st # "polling"
    /\ claim' = None
    /\ UNCHANGED <<active, window, due, reading, queue>>

\* The done callback: forget this task, if the window still has it.
Forget(i) ==
    /\ task[i].st = "done"
    /\ task' = [task EXCEPT ![i] = NoTask]
    /\ byWindow' = [w \in Windows |-> IF byWindow[w] = i THEN None ELSE byWindow[w]]
    /\ loose' = loose \ {i}
    /\ awaited' = awaited \ {i}
    /\ UNCHANGED <<watch, reading, gate>>

-----------------------------------------------------------------------------
(* close                                                                   *)

Seen == loose \cup ({byWindow[w] : w \in Windows} \ {None})

BeginClose ==
    /\ gate = "open"
    /\ gate' = "closing"
    /\ awaited' = Seen
    /\ UNCHANGED <<watch, reading, task, byWindow, loose>>

\* Mutation: a sleeping task swallows its cancellation.
CancelledSwallowed(i) ==
    /\ i \in awaited /\ task[i].st \in {"polling", "committed"}
    /\ Set(i, "done")
    /\ UNCHANGED <<watch, reading, byWindow, loose, gate, awaited>>

\* A cancelled task ends at its next await.
Cancelled(i) ==
    /\ i \in awaited /\ Running(i)
    /\ Set(i, "done")
    /\ UNCHANGED <<watch, reading, byWindow, loose, gate, awaited>>

EndClose ==
    /\ gate = "closing"
    /\ \A i \in awaited : ~Running(i)
    /\ gate' = "closed"
    /\ byWindow' = [w \in Windows |-> None]
    /\ awaited' = {}
    /\ UNCHANGED <<watch, reading, task, loose>>

WindowDue ==
    /\ ~due /\ due' = TRUE
    /\ UNCHANGED <<active, window, claim, reading, queue>>

Next ==
    \/ ClaimDispatch \/ Dispatch \/ EnqueueLegacy \/ LeaseLapses
    \/ BeginClose \/ EndClose \/ WindowDue
    \/ \E i \in Tasks : \/ StartPoll(i) \/ NothingToDo(i) \/ Commit(i)
                        \/ Successor(i) \/ PollFails(i) \/ Cancelled(i) \/ Forget(i)

\* A cancelled task ends, and the event loop runs callbacks.
Fairness ==
    /\ WF_vars(EndClose)
    /\ \A i \in Tasks : WF_vars(Cancelled(i) \/ Forget(i))

Spec == Init /\ [][Next]_vars /\ Fairness

-----------------------------------------------------------------------------
(* Properties                                                              *)

\* The current window, the tasks and the three places that hold them.
TypeOK ==
    /\ active \in BOOLEAN /\ due \in BOOLEAN
    /\ window \in Windows /\ reading \in Windows \cup {None}
    /\ claim \in Tasks \cup {None}
    /\ task \in [Tasks -> [win : Windows \cup {None},
                           st : {"free", "waiting", "polling", "committed", "done"}]]
    /\ byWindow \in [Windows -> Tasks \cup {None}]
    /\ loose \subseteq Tasks /\ awaited \subseteq Tasks
    /\ gate \in {"open", "closing", "closed"}

\* A window has at most one live task in a process, however often it is
\* published and whenever callbacks of ended tasks run.
OneTaskPerWindow ==
    \A i, j \in Tasks :
        Running(i) /\ Running(j) /\ task[i].win = task[j].win /\ task[i].win # None
            => i = j

\* Nothing survives close(): when it returns no task is left that could still
\* use the clients the application closes next.
NothingSurvivesClose == gate = "closed" => \A i \in Tasks : ~Running(i)

\* The queue's book of tasks is right while it is open and empty when it closed.
QueueSound == TypeOK /\ OneTaskPerWindow /\ NothingSurvivesClose

\* close() returns.
CloseReturns == gate = "closing" ~> gate = "closed"

\* Refuted (README, section 6): a job that was published for a
\* window polls only when the window it polls is due.
CadenceKept ==
    [][\A i \in Tasks :
          /\ task[i].win # None
          /\ task[i].st # "polling" /\ task'[i].st = "polling"
          => due]_vars

-----------------------------------------------------------------------------
(* The invariant behind QueueSound                                         *)

\* A live task is the one its window is booked for, or is among the tasks without
\* a window; a close() that has begun awaits it, and none is left once it ended.
TasksKnown ==
    \A i \in Tasks : Running(i) =>
        /\ gate # "closed"
        /\ task[i].win = None => i \in loose
        /\ task[i].win # None => byWindow[task[i].win] = i
        /\ gate = "closing" => i \in awaited
=============================================================================
