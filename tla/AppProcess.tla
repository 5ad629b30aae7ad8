----------------------------- MODULE AppProcess -----------------------------
(***************************************************************************)
(* One API process from create_app to the end of its lifespan: which       *)
(* repository, mock state and queue each part is bound to after every      *)
(* start-up branch, what is open when something uses it, the order of the  *)
(* shutdown, and the readiness that /health derives from passes and writes.*)
(* The queue of close() is module LocalQueue, a pass is WatchDispatch's.   *)
(***************************************************************************)
EXTENDS Naturals

VARIABLES pc,        \* where the lifespan is
          settings,  \* watch settings: "unread", "ok" or "bad"
          open,      \* clients, pools, queues and engine that are open
          app,       \* app.state: repo, mock, queue
          booking,   \* the mock state BookingService is bound to
          service,   \* what WatchService is bound to, history included
          coord,     \* what the recovery coordinator is bound to, or Unbound
          sweeping,  \* the follow-up loop runs
          tasks,     \* the in-process queue has polls under way
          ready,     \* ReadinessTracker
          seen       \* history: the latest pass, broker call and history write

processVars == <<pc, settings, open, app, booking, service, coord, sweeping, tasks,
          ready, seen>>
bound == <<app, booking, service, coord>>
health == <<ready, seen>>

Unbound == [repo |-> "none", mock |-> "none", queue |-> "none"]
Repos == {"memory", "redis"}
Mocks == {"default", "local", "redis"}
Queues == {"q0", "q1", "q2", "celery"}
Resources == {"pool", "redis", "engine", "q0", "q1", "q2"}
Levels == {"unknown", "ready", "degraded"}

\* What one recovery pass reports.
Outcomes == [leader : BOOLEAN, failed : BOOLEAN, backlog : BOOLEAN,
             broker : {"idle", "ok", "failed"}]

\* RecoveryCoordinator: a pass without leadership does nothing more.
Possible(o) ==
    /\ o.failed => o.backlog
    /\ ~o.leader => o.broker = "idle" /\ o.backlog = o.failed
    /\ o.broker = "failed" => o.backlog

\* create_app: process memory, default bounds, no client.
ProcessInit ==
    /\ pc = "boot"
    /\ settings = "unread"
    /\ open = {"q0"}
    /\ app = [repo |-> "memory", mock |-> "default", queue |-> "q0"]
    /\ booking = "default"
    /\ service = [repo |-> "memory", mock |-> "default", queue |-> "q0",
                  history |-> FALSE]
    /\ coord = Unbound
    /\ sweeping = FALSE
    /\ tasks = FALSE
    /\ ready = [queue |-> "unknown", recovery |-> "unknown", history |-> "unknown",
                wasLeader |-> FALSE]
    /\ seen = [pass |-> "none", broker |-> "none", history |-> "none"]

-----------------------------------------------------------------------------
(* Start-up                                                                *)

LoadSettings ==
    /\ pc = "boot"
    /\ settings' \in {"ok", "bad"}
    /\ pc' = "postgres"
    /\ UNCHANGED <<open, bound, sweeping, tasks, health>>

\* _attach_postgres: disabled, misconfigured or unreachable leaves history off;
\* an error of a migration is not a ConfigurationError and ends the start-up.
AttachPostgres ==
    /\ pc = "postgres"
    /\ \/ pc' = "local" /\ UNCHANGED open
       \/ pc' = "local" /\ open' = open \cup {"pool"}
       \/ pc' = "crashed" /\ open' = open \cup {"pool"}
    /\ UNCHANGED <<settings, bound, sweeping, tasks, health>>

\* _build_watch_service over the repository and the adapter bound by now.
Build(repo, mock, q) ==
    service' = [repo |-> repo, mock |-> mock, queue |-> q,
                history |-> "pool" \in open]

\* _attach_redis, first half: configured bounds in process memory.  Without
\* watch settings nothing is rebound and no recovery runs.
BindLocal ==
    /\ pc = "local"
    /\ IF settings = "bad"
       THEN pc' = "serving" /\ UNCHANGED <<open, app, booking, service>>
       ELSE /\ app' = [repo |-> "memory", mock |-> "local", queue |-> "q1"]
            /\ booking' = "local"
            /\ Build("memory", "local", "q1")
            /\ open' = (open \ {"q0"}) \cup {"q1"}
            /\ pc' = "connect"
    /\ UNCHANGED <<settings, coord, sweeping, tasks, health>>

\* No redis package; an unreachable or clustered server, whose client is
\* closed again; or a server to upgrade to.
Connect ==
    /\ pc = "connect"
    /\ \/ pc' = "recover" /\ UNCHANGED open
       \/ pc' = "upgrade" /\ open' = open \cup {"redis"}
    /\ UNCHANGED <<settings, bound, sweeping, tasks, health>>

\* _attach_redis, second half: repository and mock state in Redis; Celery, or
\* a new in-process queue where it is not installed.
Upgrade ==
    /\ pc = "upgrade"
    /\ \E q \in {"celery", "q2"} :
          /\ app' = [repo |-> "redis", mock |-> "redis", queue |-> q]
          /\ booking' = "redis"
          /\ Build("redis", "redis", q)
          /\ open' = (open \ {"q1"}) \cup ({q} \ {"celery"})
    /\ pc' = "recover"
    /\ UNCHANGED <<settings, coord, sweeping, tasks, health>>

-----------------------------------------------------------------------------
(* Readiness                                                               *)

\* Mutation: a lost lease is a benign hand-off.
AfterPassForgiving(o) ==
    [ready EXCEPT
        !.recovery = IF o.leader
                     THEN IF o.failed \/ o.backlog THEN "degraded" ELSE "ready"
                     ELSE IF o.failed THEN "degraded" ELSE @,
        !.wasLeader = @ \/ o.leader,
        !.queue = CASE o.broker = "failed" -> "degraded" [] o.broker = "ok" -> "ready"
                    [] OTHER -> @]

\* record_recovery_outcome and record_dispatch_outcome
AfterPass(o) ==
    [ready EXCEPT
        !.recovery = IF o.leader
                     THEN IF o.failed \/ o.backlog THEN "degraded" ELSE "ready"
                     ELSE IF o.failed \/ ready.wasLeader THEN "degraded" ELSE @,
        !.wasLeader = @ \/ o.leader,
        !.queue = CASE o.broker = "failed" -> "degraded" [] o.broker = "ok" -> "ready"
                    [] OTHER -> @]

\* reconcile_once and the recording of its outcome.  In process memory the
\* coordinator always leads.
Pass ==
    \E o \in Outcomes :
        /\ Possible(o)
        /\ app.repo = "memory" => o.leader
        /\ ready' = AfterPass(o)
        /\ seen' = [seen EXCEPT
                       !.pass = IF o.leader /\ ~o.failed /\ ~o.backlog
                                THEN "clean" ELSE "unclean",
                       !.broker = IF o.broker = "idle" THEN @ ELSE o.broker]
        /\ tasks' = (tasks \/ (o.broker = "ok" /\ app.queue # "celery"))

\* _start_recovery: coordinator, first pass, follow-up loop.
StartRecovery ==
    /\ pc = "recover"
    /\ coord' = app
    /\ Pass
    /\ sweeping' = TRUE
    /\ pc' = "serving"
    /\ UNCHANGED <<settings, open, app, booking, service>>

\* _recovery_sweep_loop
Sweep ==
    /\ sweeping
    /\ pc = "serving"
    /\ Pass
    /\ UNCHANGED <<pc, settings, open, bound, sweeping>>

\* _queue_readiness: of an in-process queue whether it is open right now.
QueueReadiness ==
    IF app.queue = "celery" THEN ready.queue
    ELSE IF app.queue \in open THEN "ready" ELSE "degraded"

-----------------------------------------------------------------------------
(* Serving                                                                 *)

\* TrackingHistoryRecorder reports every write of the service.
HistoryWrite ==
    /\ pc = "serving" /\ settings = "ok" /\ service.history
    /\ \E r \in {"ok", "failed"} :
          /\ ready' = [ready EXCEPT !.history = IF r = "ok" THEN "ready" ELSE "degraded"]
          /\ seen' = [seen EXCEPT !.history = r]
    /\ UNCHANGED <<pc, settings, open, bound, sweeping, tasks>>

\* A request publishes a poll to the in-process queue; polls end.
EnqueuePoll ==
    /\ pc = "serving" /\ settings = "ok"
    /\ service.queue # "celery" /\ ~tasks
    /\ tasks' = TRUE
    /\ UNCHANGED <<pc, settings, open, bound, sweeping, health>>

PollsEnd ==
    /\ tasks
    /\ tasks' = FALSE
    /\ UNCHANGED <<pc, settings, open, bound, sweeping, health>>

\* get_orchestrator builds its engine on first use, once, under a lock.
BuildEngine ==
    /\ pc = "serving" /\ "engine" \notin open
    /\ open' = open \cup {"engine"}
    /\ UNCHANGED <<pc, settings, bound, sweeping, tasks, health>>

-----------------------------------------------------------------------------
(* Shutdown                                                                *)

\* Mutation: shutdown leaves the follow-up loop to the end of the process.
StopRecoveryLazily ==
    /\ pc = "serving"
    /\ coord' = Unbound
    /\ pc' = "queue"
    /\ UNCHANGED <<settings, open, app, booking, service, sweeping, tasks, health>>

\* _stop_recovery: the loop is cancelled and awaited, leadership released.
StopRecovery ==
    /\ pc = "serving"
    /\ sweeping' = FALSE
    /\ coord' = Unbound
    /\ pc' = "queue"
    /\ UNCHANGED <<settings, open, app, booking, service, tasks, health>>

\* The queue's close() returns once its polls have ended (LocalQueue).
CloseQueue ==
    /\ pc = "queue"
    /\ ~tasks
    /\ open' = open \ {app.queue}
    /\ pc' = "clients"
    /\ UNCHANGED <<settings, bound, sweeping, tasks, health>>

\* app.state.redis and app.state.postgres_pool
Held == open \cap ({"pool"} \cup (IF app.repo = "redis" THEN {"redis"} ELSE {}))

\* Mutation: the shutdown waits for an engine that was never built.
CloseEngineBuilt ==
    /\ Held = {} /\ "engine" \in open
    /\ open' = open \ {"engine"} /\ pc' = "stopped"

\* The language model's client goes last, where there is one.
CloseEngine ==
    /\ Held = {}
    /\ open' = open \ {"engine"} /\ pc' = "stopped"

\* The rest of lifespan: Redis, then PostgreSQL, then the engine.
CloseClients ==
    /\ pc = "clients"
    /\ \/ "redis" \in Held /\ open' = open \ {"redis"} /\ UNCHANGED pc
       \/ Held = {"pool"} /\ open' = open \ {"pool"} /\ UNCHANGED pc
       \/ CloseEngine
    /\ UNCHANGED <<settings, bound, sweeping, tasks, health>>

ProcessNext ==
    \/ LoadSettings \/ AttachPostgres \/ BindLocal \/ Connect \/ Upgrade
    \/ StartRecovery \/ Sweep \/ HistoryWrite \/ EnqueuePoll \/ PollsEnd \/ BuildEngine
    \/ StopRecovery \/ CloseQueue \/ CloseClients

\* Polls end, and the shutdown's awaits return.
ProcessFairness ==
    WF_processVars(PollsEnd) /\ WF_processVars(CloseQueue) /\ WF_processVars(CloseClients)

ProcessSpec == ProcessInit /\ [][ProcessNext]_processVars /\ ProcessFairness

-----------------------------------------------------------------------------
(* Properties                                                              *)

\* What is open, bound and observed, at every stage of the process.
ProcessTypeOK ==
    /\ pc \in {"boot", "postgres", "local", "connect", "upgrade", "recover", "serving",
               "queue", "clients", "stopped", "crashed"}
    /\ settings \in {"unread", "ok", "bad"}
    /\ open \subseteq Resources
    /\ app \in [repo : Repos, mock : Mocks, queue : Queues]
    /\ booking \in Mocks
    /\ service \in [repo : Repos, mock : Mocks, queue : Queues, history : BOOLEAN]
    /\ coord \in [repo : Repos, mock : Mocks, queue : Queues] \cup {Unbound}
    /\ sweeping \in BOOLEAN /\ tasks \in BOOLEAN
    /\ ready \in [queue : Levels, recovery : Levels, history : Levels,
                  wasLeader : BOOLEAN]
    /\ seen \in [pass : {"none", "clean", "unclean"}, broker : {"none", "ok", "failed"},
                 history : {"none", "ok", "failed"}]

\* Whatever branch the start-up took, requests, polls and recovery work on one
\* repository, one mock state and one queue, none of which a later branch
\* replaced.
OneComposition ==
    pc = "serving" =>
        /\ [repo |-> service.repo, mock |-> service.mock, queue |-> service.queue] = app
        /\ booking = app.mock
        /\ settings = "ok" => coord = app
        /\ service.history = ("pool" \in open) \/ settings = "bad"

\* Polls and sweeps never meet a closed queue, Redis client or pool.
UsesOpenClients ==
    tasks \/ sweeping \/ (pc = "serving" /\ settings = "ok") =>
        /\ service.repo = "redis" => "redis" \in open
        /\ service.history => "pool" \in open
        /\ service.queue # "celery" => service.queue \in open

\* A process that stopped has closed everything it opened.
AllReleased == pc = "stopped" => open = {}

\* One composition, open while it is used, released in the end.
ProcessSound == ProcessTypeOK /\ OneComposition /\ UsesOpenClients /\ AllReleased

\* /health says ready only on the evidence of the latest observation: a clean
\* pass this process led, a broker call that succeeded, a write that landed.
ReadyHasEvidence ==
    /\ ready.recovery = "ready" => seen.pass = "clean"
    /\ QueueReadiness = "ready" => app.queue \in open \/ seen.broker = "ok"
    /\ ready.history = "ready" => seen.history = "ok"

\* A shutdown that began ends.
Stops == pc = "queue" ~> pc = "stopped"

\* Refuted (README, section 6): no failure of the optional
\* database keeps the process from starting.
StartsWithoutPostgres == pc # "crashed"

-----------------------------------------------------------------------------
(* The invariant behind ProcessSound and ReadyHasEvidence                  *)

Building == {"boot", "postgres", "local", "connect", "upgrade", "recover"}

\* What the composition needs open besides the pool and the engine.
Needed == ({app.queue} \ {"celery"})
          \cup (IF app.repo = "redis" \/ pc = "upgrade" THEN {"redis"} ELSE {})

\* From create_app until the queue is closed the parts agree with app.state, and
\* open is what they need, no more.
Composed ==
    pc \in Building \cup {"serving", "queue"} =>
        /\ service.repo = app.repo /\ service.mock = app.mock
        /\ service.queue = app.queue /\ booking = app.mock
        /\ open \ {"pool", "engine"} = Needed
        /\ service.history => "pool" \in open

\* How far the start-up has come, stage by stage.
Staged ==
    /\ pc # "boot" => settings # "unread"
    /\ pc \in {"boot", "postgres", "local"} => app.repo = "memory" /\ app.queue = "q0"
    /\ pc \in {"connect", "upgrade"} => app.repo = "memory" /\ app.queue = "q1"
    /\ pc \in {"connect", "upgrade", "recover"} => settings = "ok"
    /\ pc \in {"connect", "upgrade", "recover", "serving"} =>
          service.history = ("pool" \in open) \/ settings = "bad"
    /\ pc = "serving" /\ settings = "ok" => coord = app
    /\ pc \in Building => "engine" \notin open

\* Nothing is left to use a client once it may be closed.
Drained ==
    /\ tasks => pc \in {"serving", "queue"}
    /\ sweeping => pc = "serving"
    /\ pc = "clients" => open \subseteq {"pool", "engine"} \cup
                                        (IF app.repo = "redis" THEN {"redis"} ELSE {})

\* Only a leader's pass makes recovery ready, only a broker call that
\* succeeded the queue.
Evidence ==
    /\ ready.recovery = "ready" => ready.wasLeader /\ seen.pass = "clean"
    /\ ready.queue = "ready" => seen.broker = "ok"
    /\ ready.history = "ready" => seen.history = "ok"

ProcessInv == ProcessTypeOK /\ Composed /\ Staged /\ Drained /\ AllReleased /\ Evidence
=============================================================================
