-------------------------- MODULE BackgroundProofs --------------------------
(***************************************************************************)
(* Proofs about what runs behind the watch protocol: the in-process queue  *)
(* (LocalQueue), for every number of tasks and windows, and the process    *)
(* around it (AppProcess).                                                 *)
(***************************************************************************)
EXTENDS LocalQueue, AppProcess, TLAPS

-----------------------------------------------------------------------------
(* The queue                                                               *)

TaskStates == [win : Windows \cup {None},
               st : {"free", "waiting", "polling", "committed", "done"}]

\* Task i alone moves, from state to state of one life, which does not begin here.
Moves(i) ==
    /\ \A j \in Tasks : j # i => task'[j] = task[j]
    /\ task'[i].win = task[i].win
    /\ Running(i)' => Running(i)

\* Setting a task's state changes nothing else.
LEMMA SetMoves ==
    ASSUME TypeOK, NEW i \in Tasks, NEW st, Set(i, st)
    PROVE  /\ \A j \in Tasks : j # i => task'[j] = task[j]
           /\ task'[i].win = task[i].win /\ task'[i].st = st
<1>1. task \in [Tasks -> TaskStates]
    BY DEF TypeOK, TaskStates
<1> QED  BY <1>1 DEF Set, TaskStates

\* Setting a task's state keeps the types.
LEMMA SetTypes ==
    ASSUME TypeOK, NEW i \in Tasks,
           NEW st \in {"free", "waiting", "polling", "committed", "done"}, Set(i, st)
    PROVE  task' \in [Tasks -> TaskStates]
<1>1. task \in [Tasks -> TaskStates]
    BY DEF TypeOK, TaskStates
<1> QED  BY <1>1 DEF Set, TaskStates

\* What publishing window w does to the tasks, those given in st first.
Publishes(w, st) ==
    \/ task' = st /\ UNCHANGED byWindow
    \/ /\ gate = "open" /\ ~Scheduled(w)
       /\ \E i \in Tasks :
             /\ task[i] = NoTask
             /\ \A j \in Tasks : j # i => task'[j] = st[j]
             /\ task'[i] = [win |-> w, st |-> "waiting"]
             /\ byWindow'[w] = i
             /\ \A v \in Windows : v # w => byWindow'[v] = byWindow[v]

LEMMA Publication ==
    ASSUME TypeOK, NEW w \in Windows, NEW st \in [Tasks -> TaskStates], Enqueue(w, st)
    PROVE  /\ Publishes(w, st)
           /\ task' \in [Tasks -> TaskStates]
           /\ byWindow' \in [Windows -> Tasks \cup {None}]
<1>1. task \in [Tasks -> TaskStates] /\ byWindow \in [Windows -> Tasks \cup {None}]
    BY DEF TypeOK, TaskStates
<1>2. CASE task' = st /\ UNCHANGED byWindow
    BY <1>1, <1>2 DEF Publishes
<1>3. ASSUME gate = "open", ~Scheduled(w), NEW i \in Tasks, task[i] = NoTask,
             task' = [st EXCEPT ![i] = [win |-> w, st |-> "waiting"]],
             byWindow' = [byWindow EXCEPT ![w] = i]
      PROVE  /\ Publishes(w, st)
             /\ task' \in [Tasks -> TaskStates]
             /\ byWindow' \in [Windows -> Tasks \cup {None}]
    <2>1. [win |-> w, st |-> "waiting"] \in TaskStates
        BY DEF TaskStates
    <2> QED  BY <1>1, <1>3, <2>1 DEF Publishes
<1> QED  BY <1>2, <1>3 DEF Enqueue

\* Publishing keeps live tasks known, whatever st has ended before.
LEMMA PublicationKnown ==
    ASSUME TypeOK, TasksKnown, NEW w \in Windows, NEW st \in [Tasks -> TaskStates],
           Publishes(w, st), UNCHANGED <<loose, gate, awaited>>,
           \A j \in Tasks :
              /\ st[j].win = task[j].win
              /\ st[j].st \in {"waiting", "polling", "committed"} => Running(j)
    PROVE  TasksKnown'
<1>0. None \notin Windows /\ None \notin Tasks
    BY LocalQueueAssumption DEF Windows
<1>1. CASE task' = st /\ UNCHANGED byWindow
    BY <1>1 DEF TasksKnown, Running
<1>2. ASSUME gate = "open", ~Scheduled(w), NEW i \in Tasks, task[i] = NoTask,
             \A j \in Tasks : j # i => task'[j] = st[j],
             task'[i] = [win |-> w, st |-> "waiting"],
             byWindow'[w] = i,
             \A v \in Windows : v # w => byWindow'[v] = byWindow[v]
      PROVE  TasksKnown'
    <2>1. ASSUME NEW j \in Tasks, Running(j)', j # i
          PROVE  /\ gate # "closed"
                 /\ task'[j].win = None => j \in loose
                 /\ task'[j].win # None => byWindow'[task'[j].win] = j
        <3>1. Running(j) /\ task'[j].win = task[j].win
            BY <1>2, <2>1 DEF Running
        <3>2. task[j].win \in Windows \cup {None}
            BY DEF TypeOK
        <3>3. task[j].win # w
            BY <1>0, <1>2, <3>1 DEF TasksKnown, Scheduled, TypeOK
        <3> QED  BY <1>2, <3>1, <3>2, <3>3 DEF TasksKnown
    <2> QED  BY <1>0, <1>2, <2>1 DEF TasksKnown
<1> QED  BY <1>1, <1>2 DEF Publishes

\* A task that only moves stays known.
LEMMA MoveKnown ==
    ASSUME TasksKnown, NEW i \in Tasks, Moves(i),
           UNCHANGED <<byWindow, loose, gate, awaited>>
    PROVE  TasksKnown'
<1> QED  BY DEF TasksKnown, Moves, Running

\* Every step keeps the types and the tasks known.
LEMMA QueueStep ==
    ASSUME TypeOK, TasksKnown, [Next]_vars
    PROVE  (TypeOK /\ TasksKnown)'
<1>0. /\ task \in [Tasks -> TaskStates] /\ byWindow \in [Windows -> Tasks \cup {None}]
      /\ window \in Windows /\ None \notin Windows /\ None \notin Tasks
      /\ MaxWindow \in Nat
    BY LocalQueueAssumption DEF TypeOK, TaskStates, Windows
<1>1. CASE UNCHANGED vars
    BY <1>1 DEF vars, TypeOK, TasksKnown, Running
<1>2. CASE ClaimDispatch \/ WindowDue \/ LeaseLapses
    BY <1>2 DEF ClaimDispatch, WindowDue, LeaseLapses, watch, queue, TypeOK,
                TasksKnown, Running
<1>3. CASE Dispatch
    <2>1. reading \in Windows
        BY <1>3 DEF Dispatch, TypeOK
    <2>2. /\ Publishes(reading, task)
          /\ task' \in [Tasks -> TaskStates]
          /\ byWindow' \in [Windows -> Tasks \cup {None}]
        BY <1>0, <1>3, <2>1, Publication DEF Dispatch
    <2>3. TasksKnown'
        BY <1>0, <1>3, <2>1, <2>2, PublicationKnown DEF Dispatch, Running
    <2>4. TypeOK'
        BY <1>3, <2>2 DEF Dispatch, watch, TypeOK, TaskStates
    <2> QED  BY <2>3, <2>4
<1>4. CASE EnqueueLegacy
    <2>1. PICK i \in Tasks :
              /\ task[i] = NoTask
              /\ task' = [task EXCEPT ![i] = [win |-> None, st |-> "waiting"]]
              /\ loose' = loose \cup {i}
        BY <1>4 DEF EnqueueLegacy
    <2>2. gate = "open" /\ UNCHANGED <<watch, reading, byWindow, gate, awaited>>
        BY <1>4 DEF EnqueueLegacy
    <2>3. /\ task' \in [Tasks -> TaskStates]
          /\ task'[i] = [win |-> None, st |-> "waiting"]
          /\ \A j \in Tasks : j # i => task'[j] = task[j]
        <3>1. [win |-> None, st |-> "waiting"] \in TaskStates
            BY DEF TaskStates
        <3> QED  BY <1>0, <2>1, <3>1
    <2>4. TypeOK'
        BY <2>1, <2>2, <2>3 DEF watch, TypeOK, TaskStates
    <2>5. TasksKnown'
        BY <2>1, <2>2, <2>3 DEF TasksKnown, Running
    <2> QED  BY <2>4, <2>5
<1>5. ASSUME NEW i \in Tasks,
             \/ StartPoll(i) \/ NothingToDo(i) \/ PollFails(i) \/ Cancelled(i)
             \/ Commit(i)
      PROVE  (TypeOK /\ TasksKnown)'
    <2>1. PICK st \in {"polling", "committed", "done"} : Set(i, st)
        BY <1>5 DEF StartPoll, NothingToDo, PollFails, Cancelled, Commit
    <2>2. Running(i) /\ UNCHANGED <<reading, byWindow, loose, gate, awaited>>
        BY <1>5 DEF StartPoll, NothingToDo, PollFails, Cancelled, Commit, Running
    <2>3. Moves(i)
        BY <2>1, <2>2, SetMoves DEF Moves
    <2>4. task' \in [Tasks -> TaskStates]
        BY <2>1, SetTypes
    <2>5. /\ active' \in BOOLEAN /\ due' \in BOOLEAN /\ window' \in Windows
          /\ claim' \in Tasks \cup {None}
        <3>1. CASE StartPoll(i)
            BY <3>1 DEF StartPoll, TypeOK
        <3>2. CASE NothingToDo(i) \/ PollFails(i) \/ Cancelled(i)
            BY <3>2 DEF NothingToDo, PollFails, Cancelled, watch, TypeOK
        <3>3. CASE Commit(i)
            <4>1. window' \in {window, window + 1} /\ (window' # window => window < MaxWindow)
                BY <3>3 DEF Commit
            <4>2. window' \in Windows
                BY <1>0, <4>1 DEF Windows
            <4>3. active' \in BOOLEAN /\ due' \in BOOLEAN /\ claim' = None
                BY <3>3, Zenon DEF Commit, TypeOK
            <4> QED  BY <4>2, <4>3
        <3> QED  BY <1>5, <3>1, <3>2, <3>3
    <2>6. TypeOK'
        BY <2>2, <2>4, <2>5 DEF TypeOK, TaskStates
    <2> QED  BY <2>2, <2>3, <2>6, MoveKnown
<1>6. ASSUME NEW i \in Tasks, Successor(i)
      PROVE  (TypeOK /\ TasksKnown)'
    <2> DEFINE st == [task EXCEPT ![i].st = "done"]
    <2>1. /\ st \in [Tasks -> TaskStates]
          /\ \A j \in Tasks : /\ st[j].win = task[j].win
                              /\ j # i => st[j] = task[j]
          /\ st[i].st = "done"
        BY <1>0 DEF TaskStates
    <2>2. /\ Enqueue(window, st)
          /\ UNCHANGED <<watch, reading, loose, gate, awaited>>
        BY <1>6 DEF Successor
    <2> HIDE DEF st
    <2>3. /\ Publishes(window, st)
          /\ task' \in [Tasks -> TaskStates]
          /\ byWindow' \in [Windows -> Tasks \cup {None}]
        BY <1>0, <2>1, <2>2, Publication
    <2>4. \A j \in Tasks : st[j].st \in {"waiting", "polling", "committed"} => Running(j)
        BY <2>1 DEF Running
    <2>5. TasksKnown'
        BY <1>0, <2>1, <2>2, <2>3, <2>4, PublicationKnown
    <2>6. TypeOK'
        BY <2>2, <2>3 DEF watch, TypeOK, TaskStates
    <2> QED  BY <2>5, <2>6
<1>7. ASSUME NEW i \in Tasks, Forget(i)
      PROVE  (TypeOK /\ TasksKnown)'
    <2>1. /\ task' \in [Tasks -> TaskStates]
          /\ task'[i] = NoTask
          /\ \A j \in Tasks : j # i => task'[j] = task[j]
        <3>1. NoTask \in TaskStates
            BY DEF NoTask, TaskStates
        <3> QED  BY <1>0, <1>7, <3>1 DEF Forget
    <2>2. /\ byWindow' \in [Windows -> Tasks \cup {None}]
          /\ \A w \in Windows : byWindow[w] # i => byWindow'[w] = byWindow[w]
          /\ loose' = loose \ {i} /\ awaited' = awaited \ {i}
          /\ UNCHANGED <<watch, reading, gate>>
        BY <1>0, <1>7 DEF Forget
    <2>3. TypeOK'
        BY <2>1, <2>2 DEF watch, TypeOK, TaskStates
    <2>4. TasksKnown'
        <3>1. ASSUME NEW j \in Tasks, Running(j)'
              PROVE  Running(j) /\ j # i /\ task'[j] = task[j]
            BY <2>1, <3>1 DEF Running, NoTask
        <3>2. \A j \in Tasks : task[j].win \in Windows \cup {None}
            BY DEF TypeOK
        <3> QED  BY <2>2, <3>1, <3>2 DEF TasksKnown
    <2> QED  BY <2>3, <2>4
<1>8. CASE BeginClose
    <2>1. /\ gate = "open" /\ gate' = "closing" /\ awaited' = Seen
          /\ UNCHANGED <<watch, reading, task, byWindow, loose>>
        BY <1>8 DEF BeginClose
    <2>2. Seen \subseteq Tasks
        BY <1>0 DEF Seen, TypeOK
    <2>3. \A i \in Tasks : Running(i) => i \in Seen
        <3> SUFFICES ASSUME NEW i \in Tasks, Running(i) PROVE i \in Seen
            OBVIOUS
        <3>1. task[i].win \in Windows \cup {None}
            BY DEF TypeOK
        <3> QED  BY <1>0, <3>1 DEF TasksKnown, Seen
    <2>4. TypeOK'
        BY <2>1, <2>2 DEF watch, TypeOK
    <2>5. TasksKnown'
        BY <2>1, <2>3 DEF TasksKnown, Running
    <2> QED  BY <2>4, <2>5
<1>9. CASE EndClose
    <2>1. \A i \in Tasks : ~Running(i)
        BY <1>9 DEF EndClose, TasksKnown
    <2>2. TypeOK'
        BY <1>9 DEF EndClose, watch, TypeOK
    <2>3. TasksKnown'
        BY <1>9, <2>1 DEF EndClose, TasksKnown, Running
    <2> QED  BY <2>2, <2>3
<1> QED  BY <1>1, <1>2, <1>3, <1>4, <1>5, <1>6, <1>7, <1>8, <1>9 DEF Next

\* However windows are published again, tasks end, callbacks run late and
\* close() comes in between, a window has at most one live task, and none
\* survives close().
THEOREM Queueing == Spec => []QueueSound
<1>1. Init => TypeOK /\ TasksKnown
    <2> SUFFICES ASSUME Init PROVE TypeOK /\ TasksKnown
        OBVIOUS
    <2>0. 0 \in Windows /\ None \notin Windows
        BY LocalQueueAssumption DEF Windows
    <2>1. PICK i \in Tasks :
            /\ task = [j \in Tasks |->
                          IF j = i THEN [win |-> 0, st |-> "waiting"] ELSE NoTask]
            /\ byWindow = [w \in Windows |-> IF w = 0 THEN i ELSE None]
        BY DEF Init
    <2>2. task \in [Tasks -> TaskStates]
        BY <2>0, <2>1 DEF NoTask, TaskStates
    <2>3. TypeOK
        BY <2>0, <2>1, <2>2 DEF Init, TypeOK, TaskStates
    <2>4. TasksKnown
        BY <2>0, <2>1 DEF Init, TasksKnown, Running, NoTask
    <2> QED  BY <2>3, <2>4
<1>2. TypeOK /\ TasksKnown /\ [Next]_vars => (TypeOK /\ TasksKnown)'
    BY QueueStep
<1>3. TypeOK /\ TasksKnown => QueueSound
    BY DEF TasksKnown, QueueSound, OneTaskPerWindow, NothingSurvivesClose
<1> QED  BY <1>1, <1>2, <1>3, PTL DEF Spec

-----------------------------------------------------------------------------
(* The process                                                             *)

\* What a pass may do: it binds and opens nothing, it may leave polls with an
\* in-process queue, and what it reports ready it has seen.
LEMMA PassEffect ==
    ASSUME ProcessTypeOK, Evidence, Pass
    PROVE  /\ Evidence'
           /\ ready' \in [queue : Levels, recovery : Levels,
                          history : Levels, wasLeader : BOOLEAN]
           /\ seen' \in [pass : {"none", "clean", "unclean"},
                         broker : {"none", "ok", "failed"},
                         history : {"none", "ok", "failed"}]
           /\ tasks' \in BOOLEAN
<1>1. PICK o \in Outcomes :
        /\ Possible(o)
        /\ ready' = AfterPass(o)
        /\ seen' = [seen EXCEPT
                       !.pass = IF o.leader /\ ~o.failed /\ ~o.backlog
                                THEN "clean" ELSE "unclean",
                       !.broker = IF o.broker = "idle" THEN @ ELSE o.broker]
        /\ tasks' = (tasks \/ (o.broker = "ok" /\ app.queue # "celery"))
    BY DEF Pass
<1>2. /\ ready \in [queue : Levels, recovery : Levels,
                    history : Levels, wasLeader : BOOLEAN]
      /\ seen \in [pass : {"none", "clean", "unclean"}, broker : {"none", "ok", "failed"},
                   history : {"none", "ok", "failed"}]
      /\ o.leader \in BOOLEAN /\ o.failed \in BOOLEAN /\ o.backlog \in BOOLEAN
      /\ o.broker \in {"idle", "ok", "failed"}
    BY DEF ProcessTypeOK, Outcomes
<1>3. /\ ready'.recovery = IF o.leader
                           THEN IF o.failed \/ o.backlog THEN "degraded" ELSE "ready"
                           ELSE IF o.failed \/ ready.wasLeader THEN "degraded"
                           ELSE ready.recovery
      /\ ready'.wasLeader = (ready.wasLeader \/ o.leader)
      /\ ready'.queue = CASE o.broker = "failed" -> "degraded"
                          [] o.broker = "ok" -> "ready"
                          [] OTHER -> ready.queue
      /\ ready'.history = ready.history
    BY <1>1, <1>2 DEF AfterPass
<1>4. /\ seen'.pass = IF o.leader /\ ~o.failed /\ ~o.backlog THEN "clean" ELSE "unclean"
      /\ seen'.broker = IF o.broker = "idle" THEN seen.broker ELSE o.broker
      /\ seen'.history = seen.history
    BY <1>1, <1>2
<1>5. Evidence'
    BY <1>2, <1>3, <1>4 DEF Evidence
<1>6. ready' \in [queue : Levels, recovery : Levels,
                  history : Levels, wasLeader : BOOLEAN]
    BY <1>1, <1>2 DEF AfterPass, Levels
<1>7. seen' \in [pass : {"none", "clean", "unclean"}, broker : {"none", "ok", "failed"},
                 history : {"none", "ok", "failed"}]
    BY <1>1, <1>2
<1>8. tasks' \in BOOLEAN
    BY <1>1
<1> QED  BY <1>5, <1>6, <1>7, <1>8

\* Evidence is kept by every step.
LEMMA EvidenceStep ==
    ASSUME ProcessTypeOK, Evidence, [ProcessNext]_processVars
    PROVE  Evidence'
<1>1. CASE UNCHANGED <<ready, seen>>
    BY <1>1 DEF Evidence
<1>2. CASE Pass
    BY <1>2, PassEffect
<1>3. CASE HistoryWrite
    <2>1. PICK r \in {"ok", "failed"} :
            /\ ready' = [ready EXCEPT !.history = IF r = "ok" THEN "ready" ELSE "degraded"]
            /\ seen' = [seen EXCEPT !.history = r]
        BY <1>3 DEF HistoryWrite
    <2> QED  BY <2>1 DEF ProcessTypeOK, Evidence
<1> QED
    BY <1>1, <1>2, <1>3
    DEF ProcessNext, processVars, health, LoadSettings,
        AttachPostgres, BindLocal, Connect, Upgrade,
        StartRecovery, Sweep, EnqueuePoll, PollsEnd,
        BuildEngine, StopRecovery, CloseQueue,
        CloseClients

\* Every step keeps the types.
LEMMA ProcessTypes ==
    ASSUME ProcessTypeOK, Evidence, [ProcessNext]_processVars
    PROVE  ProcessTypeOK'
<1>1. CASE UNCHANGED processVars
    BY <1>1 DEF processVars, ProcessTypeOK
<1>2. CASE \/ LoadSettings \/ AttachPostgres \/ Connect
           \/ CloseQueue \/ CloseClients
    BY <1>2
    DEF LoadSettings, AttachPostgres, Connect,
        CloseQueue, CloseClients, CloseEngine,
        bound, health, ProcessTypeOK, Resources
<1>3. CASE BindLocal
    <2>1. CASE settings = "bad"
        BY <1>3, <2>1 DEF BindLocal, health, ProcessTypeOK
    <2>2. CASE settings # "bad"
        <3>1. /\ app' = [repo |-> "memory", mock |-> "local", queue |-> "q1"]
              /\ service' = [repo |-> "memory", mock |-> "local", queue |-> "q1",
                             history |-> "pool" \in open]
              /\ open' = (open \ {"q0"}) \cup {"q1"}
              /\ booking' = "local" /\ pc' = "connect"
              /\ UNCHANGED <<settings, coord, sweeping, tasks, ready, seen>>
            BY <1>3, <2>2 DEF BindLocal, Build, health
        <3>2. /\ app' \in [repo : Repos, mock : Mocks,
                           queue : Queues]
              /\ booking' \in Mocks
            BY <3>1 DEF Repos, Mocks, Queues
        <3>3. service' \in [repo : Repos, mock : Mocks,
                            queue : Queues, history : BOOLEAN]
            BY <3>1 DEF Repos, Mocks, Queues
        <3>4. open' \subseteq Resources
            BY <3>1 DEF ProcessTypeOK, Resources
        <3> QED  BY <3>1, <3>2, <3>3, <3>4 DEF ProcessTypeOK
    <2> QED  BY <2>1, <2>2
<1>4. CASE Upgrade
    BY <1>4
    DEF Upgrade, Build, health, ProcessTypeOK,
        Repos, Mocks, Queues, Resources
<1>5. CASE StartRecovery \/ Sweep
    BY <1>5, PassEffect
    DEF StartRecovery, Sweep, bound, ProcessTypeOK
<1>6. CASE HistoryWrite
    <2>1. PICK r \in {"ok", "failed"} :
            /\ ready' = [ready EXCEPT !.history = IF r = "ok" THEN "ready" ELSE "degraded"]
            /\ seen' = [seen EXCEPT !.history = r]
        BY <1>6 DEF HistoryWrite
    <2> QED  BY <1>6, <2>1
            DEF HistoryWrite, bound, ProcessTypeOK, Levels
<1>7. CASE \/ EnqueuePoll \/ PollsEnd \/ BuildEngine
           \/ StopRecovery
    BY <1>7
    DEF EnqueuePoll, PollsEnd, BuildEngine, StopRecovery,
        bound, health, ProcessTypeOK, Resources
<1> QED  BY <1>1, <1>2, <1>3, <1>4, <1>5, <1>6, <1>7 DEF ProcessNext

\* What the invariant says of the composition, kept step by step.
InOrder == Composed /\ Staged /\ Drained /\ AllReleased

\* A step that only records a pass or a write, or moves polls on, while the
\* composition is in use.
LEMMA ServingInOrder ==
    ASSUME ProcessTypeOK, InOrder, UNCHANGED <<pc, settings, open, app, booking, service,
                                             coord, sweeping>>,
           tasks' => tasks \/ pc \in {"serving", "queue"}
    PROVE  InOrder'
<1> QED
    BY DEF InOrder, Composed, Staged, Drained,
           AllReleased, Needed, Building

\* Every step keeps the composition together.
LEMMA InOrderStep ==
    ASSUME ProcessTypeOK, InOrder, [ProcessNext]_processVars
    PROVE  InOrder'
<1> USE DEF Building
<1>1. CASE \/ UNCHANGED processVars \/ Sweep \/ HistoryWrite
           \/ EnqueuePoll \/ PollsEnd
    <2>1. /\ UNCHANGED <<pc, settings, open, app, booking, service, coord, sweeping>>
          /\ tasks' => tasks \/ pc \in {"serving", "queue"}
        <3>1. CASE UNCHANGED processVars
            BY <3>1 DEF processVars
        <3>2. CASE Sweep
            BY <3>2 DEF Sweep, bound
        <3>3. CASE HistoryWrite \/ EnqueuePoll \/ PollsEnd
            BY <3>3 DEF HistoryWrite, EnqueuePoll, PollsEnd,
                        bound
        <3> QED  BY <1>1, <3>1, <3>2, <3>3
    <2> QED  BY <2>1, ServingInOrder
<1>2. CASE LoadSettings
    BY <1>2
    DEF LoadSettings, bound, InOrder, Composed, Staged,
        Drained, AllReleased, Needed
<1>3. CASE AttachPostgres
    BY <1>3
    DEF AttachPostgres, bound, InOrder, Composed, Staged,
        Drained, AllReleased, Needed
<1>4. CASE BindLocal
    <2>1. CASE settings = "bad"
        BY <1>4, <2>1
        DEF BindLocal, InOrder, Composed, Staged,
            Drained, AllReleased, Needed
    <2>2. CASE settings # "bad"
        <3>1. /\ pc = "local" /\ pc' = "connect"
              /\ app' = [repo |-> "memory", mock |-> "local", queue |-> "q1"]
              /\ service' = [repo |-> "memory", mock |-> "local", queue |-> "q1",
                             history |-> "pool" \in open]
              /\ open' = (open \ {"q0"}) \cup {"q1"}
              /\ booking' = "local"
              /\ UNCHANGED <<settings, coord, sweeping, tasks>>
            BY <1>4, <2>2 DEF BindLocal, Build
        <3>2. /\ app'.repo = "memory" /\ app'.mock = "local" /\ app'.queue = "q1"
              /\ service'.repo = "memory" /\ service'.mock = "local"
              /\ service'.queue = "q1" /\ service'.history = ("pool" \in open)
            BY <3>1
        <3>3. app.queue = "q0" /\ app.repo = "memory" /\ settings = "ok"
            BY <2>2, <3>1 DEF InOrder, Staged, ProcessTypeOK
        <3>4. open \ {"pool", "engine"} = {"q0"}
            BY <3>1, <3>3 DEF InOrder, Composed, Needed
        <3>5. open' \ {"pool", "engine"} = {"q1"}
            BY <3>1, <3>4
        <3>6. "pool" \in open' <=> "pool" \in open
            BY <3>1
        <3>7. Composed'
            BY <3>1, <3>2, <3>5, <3>6 DEF Composed, Needed
        <3>8. Staged'
            BY <3>1, <3>2, <3>3, <3>6 DEF InOrder, Staged
        <3>9. Drained' /\ AllReleased'
            BY <3>1 DEF InOrder, Drained, AllReleased
        <3> QED  BY <3>7, <3>8, <3>9 DEF InOrder
    <2> QED  BY <2>1, <2>2
<1>5. CASE Connect
    BY <1>5
    DEF Connect, bound, InOrder, Composed, Staged,
        Drained, AllReleased, Needed
<1>6. CASE Upgrade
    <2>1. Composed'
        BY <1>6
        DEF Upgrade, Build, InOrder, Composed, Staged,
            Needed
    <2> QED  BY <1>6, <2>1
            DEF Upgrade, Build, InOrder, Staged,
                Drained, AllReleased
<1>7. CASE StartRecovery
    BY <1>7
    DEF StartRecovery, InOrder, Composed, Staged,
        Drained, AllReleased, Needed
<1>8. CASE BuildEngine
    BY <1>8
    DEF BuildEngine, bound, InOrder, Composed, Staged,
        Drained, AllReleased, Needed
<1>9. CASE StopRecovery
    BY <1>9
    DEF StopRecovery, InOrder, Composed, Staged,
        Drained, AllReleased, Needed
<1>10. CASE CloseQueue
    BY <1>10
    DEF CloseQueue, bound, InOrder, Composed, Staged,
        Drained, AllReleased, Needed
<1>11. CASE CloseClients
    BY <1>11
    DEF CloseClients, CloseEngine, Held, bound, InOrder,
        Composed, Staged, Drained, AllReleased
<1> QED  BY <1>1, <1>2, <1>3, <1>4, <1>5, <1>6, <1>7, <1>8, <1>9, <1>10, <1>11
        DEF ProcessNext

\* The invariant of the process holds throughout its life.
LEMMA ProcessInvariance == ProcessSpec => []ProcessInv
<1>1. ProcessInit => ProcessInv
    <2> SUFFICES ASSUME ProcessInit PROVE ProcessInv
        OBVIOUS
    <2>1. ProcessTypeOK
        BY DEF ProcessInit, ProcessTypeOK, Resources, Repos,
               Mocks, Queues, Levels
    <2>2. Composed
        BY DEF ProcessInit, Composed, Needed
    <2>3. /\ Staged /\ Drained /\ AllReleased
          /\ Evidence
        BY DEF ProcessInit, Staged, Drained, AllReleased,
               Evidence
    <2> QED  BY <2>1, <2>2, <2>3 DEF ProcessInv
<1>2. ProcessInv /\ [ProcessNext]_processVars => ProcessInv'
    BY EvidenceStep, ProcessTypes, InOrderStep DEF ProcessInv, InOrder
<1> QED  BY <1>1, <1>2, PTL DEF ProcessSpec

\* Whatever branch the start-up takes and wherever the shutdown comes, requests,
\* polls and recovery share one open composition, and a process that stopped has
\* closed everything.
THEOREM Composition == ProcessSpec => []ProcessSound
<1>1. ProcessInv => ProcessSound
    <2> SUFFICES ASSUME ProcessInv PROVE ProcessSound
        OBVIOUS
    <2>1. OneComposition
        BY DEF ProcessInv, ProcessTypeOK, Composed, Staged,
               OneComposition, Building
    <2>2. UsesOpenClients
        BY DEF ProcessInv, ProcessTypeOK, Composed, Drained,
               UsesOpenClients, Building, Needed
    <2> QED  BY <2>1, <2>2 DEF ProcessInv, ProcessSound
<1> QED  BY <1>1, ProcessInvariance, PTL

\* /health says ready on the latest evidence only, whoever leads and whatever
\* fails.
THEOREM Readiness == ProcessSpec => []ReadyHasEvidence
<1>1. ProcessInv => ReadyHasEvidence
    BY DEF ProcessInv, Evidence, ReadyHasEvidence,
           QueueReadiness
<1> QED  BY <1>1, ProcessInvariance, PTL
=============================================================================
