----------------------------- MODULE PollPacing -----------------------------
(***************************************************************************)
(* When a watch is polled and how many checks it is granted: the derived   *)
(* attempt budget (AvailabilityPolicyFactory), the jittered cadence        *)
(* (PollSchedule) and the capped exponential backoff of provider outages   *)
(* (WatchService._commit_miss, _commit_outage).  Two ticks are             *)
(* MIN_DELAY_SECONDS; the random draws are choices.                        *)
(*                                                                         *)
(* A job that names its window runs when the window is due, or later:      *)
(* claim_window answers EARLY before.  One that names only the watch, as   *)
(* every job of the in-process queue does, is polled whenever it comes     *)
(* (poll_once passes enforce_due=False), early or late.                    *)
(***************************************************************************)
EXTENDS Integers

CONSTANTS Settings,   \* [interval, jitter, backoffMax, lifetime, ceiling, enforce] to try
          MaxLate,    \* bound: ticks a delivery runs after its window is due
          MaxStreak   \* bound: consecutive outages that are counted apart

MinDelay == 2

\* Config: the interval is well above the floor, the jitter below the interval.
PacingAssumption ==
    /\ \A c \in Settings :
          /\ c.interval \in Nat /\ c.interval >= MinDelay /\ c.jitter \in 0..(c.interval - 1)
          /\ c.backoffMax \in Nat /\ c.lifetime \in Nat
          /\ c.ceiling \in Nat \ {0} /\ c.enforce \in BOOLEAN
    /\ MaxLate \in Nat /\ MaxStreak \in Nat \ {0}

VARIABLES cfg,       \* the settings of this watch, chosen once; enforce: its jobs name
                     \* their window
          state,    \* "ACTIVE" or "EXPIRED"
          attempts, outages,
          at,        \* next_check_at; the watch was created at 0
          last,      \* when the latest poll ran; before the first, long enough ago
          streak     \* history: outages since the latest miss

pacingVars == <<cfg, state, attempts, outages, at, last, streak>>

Smaller(a, b) == IF a <= b THEN a ELSE b
Larger(a, b) == IF a >= b THEN a ELSE b
Pow2[n \in Nat] == IF n = 0 THEN 1 ELSE 2 * Pow2[n - 1]

\* PollSchedule
EarliestDelay(c) == Larger(MinDelay, c.interval - c.jitter)
NextDelays(c) == {Larger(MinDelay, c.interval + u) : u \in (0 - c.jitter)..c.jitter}

CeilDiv(a, b) == 0 - ((0 - a) \div b)

\* Mutation: the immediate first check is forgotten.
RequiredAttemptsOfIntervals(c, remaining) ==
    Larger(1, CeilDiv(Larger(0, remaining), EarliestDelay(c)))

\* One immediate check and one per earliest interval up to the deadline.
RequiredAttempts(c, remaining) ==
    CeilDiv(Larger(0, remaining), EarliestDelay(c)) + 1

\* AvailabilityPolicyFactory.derive
Derive(c, remaining, ceiling) ==
    LET required == RequiredAttempts(c, remaining)
        effective == Smaller(required, ceiling)
    IN  [required |-> required, effective |-> effective,
         deadline |-> effective = required]

Policy(c) == Derive(c, c.lifetime, c.ceiling)

\* The service's backoff maximum is at least the interval.
Maximum(c) == Larger(c.backoffMax, c.interval)

\* _exponent_limit, the loop as the least k it stops at
ExponentLimit(c) ==
    CHOOSE k \in 0..Maximum(c) :
        /\ c.interval * Pow2[k] >= Maximum(c)
        /\ \A j \in 0..(k - 1) : c.interval * Pow2[j] < Maximum(c)

SaturatingOutages(c, n) == Smaller(n, ExponentLimit(c) + 1)

BackoffBase(c, n) ==
    IF n - 1 >= ExponentLimit(c) THEN Maximum(c) ELSE c.interval * Pow2[n - 1]

\* _outage_delay before the deadline clips it, one for each jitter
Backoffs(c, n) ==
    {Smaller(Larger(BackoffBase(c, n) + u, MinDelay), Maximum(c)) :
        u \in (0 - c.jitter)..c.jitter}

-----------------------------------------------------------------------------
PacingInit ==
    /\ cfg \in Settings
    /\ state = "ACTIVE"
    /\ attempts = 0 /\ outages = 0
    /\ at = 0 /\ last = 0 - MinDelay /\ streak = 0

\* The current window is claimed once it is due, or at any time after the latest poll
\* if enforce_due is off.
Arrivals ==
    {t \in (IF cfg.enforce THEN at ELSE Larger(last, 0))..(at + MaxLate) : state = "ACTIVE"}
Remaining(t) == cfg.lifetime - t
ExpireAt(t) == state' = "EXPIRED" /\ last' = t /\ UNCHANGED <<cfg, outages, at, streak>>

\* Past the deadline or out of attempts the watch ends without a provider call.
Finished(t) ==
    /\ t >= cfg.lifetime \/ attempts >= Policy(cfg).effective
    /\ ExpireAt(t) /\ UNCHANGED attempts

Polls(t) == t < cfg.lifetime /\ attempts < Policy(cfg).effective

\* Mutation: a miss close to the deadline still schedules a successor.
MissTooLate(t) ==
    /\ Polls(t)
    /\ attempts' = Smaller(attempts + 1, Policy(cfg).effective)
    /\ \E d \in NextDelays(cfg) :
          IF attempts' >= Policy(cfg).effective
          THEN ExpireAt(t)
          ELSE /\ at' = t + Smaller(d, Remaining(t)) /\ last' = t
               /\ outages' = 0 /\ streak' = 0
               /\ UNCHANGED <<cfg, state>>

\* _commit_miss
Miss(t) ==
    /\ Polls(t)
    /\ attempts' = Smaller(attempts + 1, Policy(cfg).effective)
    /\ \E d \in NextDelays(cfg) :
          LET delay == Smaller(d, Remaining(t))
          IN  IF attempts' >= Policy(cfg).effective \/ delay < MinDelay
              THEN ExpireAt(t)
              ELSE /\ at' = t + delay /\ last' = t
                   /\ outages' = 0 /\ streak' = 0
                   /\ UNCHANGED <<cfg, state>>

\* _commit_outage: no attempt is consumed.
Outage(t) ==
    /\ Polls(t)
    /\ UNCHANGED attempts
    /\ IF Remaining(t) < MinDelay
       THEN ExpireAt(t)
       ELSE /\ outages' = SaturatingOutages(cfg, outages + 1)
            /\ \E d \in Backoffs(cfg, outages') : at' = t + Smaller(d, Remaining(t))
            /\ last' = t /\ streak' = Smaller(streak + 1, MaxStreak)
            /\ UNCHANGED <<cfg, state>>

PacingNext == \E t \in Arrivals : Finished(t) \/ Miss(t) \/ Outage(t)

PacingSpec == PacingInit /\ [][PacingNext]_pacingVars

-----------------------------------------------------------------------------
(* Properties                                                              *)

\* A deadline-capable watch whose jobs name their windows is monitored until its
\* deadline: the budget of checks runs out no earlier, however late polls run and
\* whatever mixture of misses and outages comes, because every poll is an earliest
\* interval apart.
DeadlineReached ==
    cfg.enforce /\ Policy(cfg).deadline /\ state = "EXPIRED" => cfg.lifetime - last < MinDelay

\* The anti-hot-poll floor: no poll is scheduled closer to the one before it, the
\* one clipped to the deadline included, nor past the deadline; and no two polls of
\* a watch run closer together if its jobs name their windows.
NeverHotPolls ==
    [][/\ state' = "ACTIVE" => at' - last' >= MinDelay /\ at' <= cfg.lifetime
       /\ cfg.enforce => last' - last >= MinDelay]_pacingVars

\* The saturated counter gives the delays that the true number of consecutive
\* outages would: interval * 2^(n-1) capped at the maximum.
BackoffAsCounted ==
    streak > 0 /\ streak < MaxStreak =>
        BackoffBase(cfg, outages) = Smaller(cfg.interval * Pow2[streak - 1], Maximum(cfg))

\* describe_policy recovers the policy of the creation from the stored budget.
PolicyRecovered ==
    Derive(cfg, cfg.lifetime, Policy(cfg).effective) = Policy(cfg)

\* The budget, the backoff and the recovered policy agree with the deadline.
PacingSound == DeadlineReached /\ BackoffAsCounted /\ PolicyRecovered

\* Refuted (README, section 6): the budget reaches the deadline whatever jobs the
\* watch is polled by.
DeadlineAlwaysReached ==
    Policy(cfg).deadline /\ state = "EXPIRED" => cfg.lifetime - last < MinDelay

-----------------------------------------------------------------------------
(* The invariant behind PacingSound                                        *)

\* The types; an active watch has checks left and its next poll the floor ahead, and
\* if windows are kept that poll is an earliest interval per check after the start, or
\* at the deadline, however the polls were spent; the stored counter is that of the
\* consecutive outages, saturated.
PacingInv ==
    /\ cfg \in Settings /\ state \in {"ACTIVE", "EXPIRED"}
    /\ attempts \in Nat /\ outages \in Nat /\ at \in Nat /\ last \in Int
    /\ streak \in 0..MaxStreak
    /\ state = "ACTIVE" =>
          /\ attempts < Policy(cfg).effective
          /\ at - last >= MinDelay
          /\ cfg.enforce => at >= attempts * EarliestDelay(cfg) \/ at >= cfg.lifetime
    /\ streak < MaxStreak => outages = Smaller(streak, ExponentLimit(cfg) + 1)
    /\ DeadlineReached
=============================================================================
