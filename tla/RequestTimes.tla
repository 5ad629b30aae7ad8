---------------------------- MODULE RequestTimes ----------------------------
(***************************************************************************)
(* What becomes of the times of a request: the validator's routing of an   *)
(* untrusted extraction (orchestrator/validator.py) and the mock adapter's *)
(* candidate slots for the query that comes out of it.                     *)
(*                                                                         *)
(* A day has Day minutes and a slot boundary every Interval minutes.  A    *)
(* venue is its opening hours on the day, its stay and its table sizes; a  *)
(* date is where it lies from today.                                       *)
(***************************************************************************)
EXTENDS Integers, Sequences

CONSTANTS Day,          \* minutes per day
          Interval,     \* SLOT_INTERVAL_MINUTES
          MaxSlots,     \* MAX_GENERATED_SLOTS
          Extractions,  \* what the language model may return
          Venues        \* profiles: [opens, closes, stay]

NoTime == -1
NoWindow == [start |-> NoTime, end |-> NoTime]

Minutes == 0..(Day - 1)
Windows == [start : Minutes \cup {NoTime}, end : Minutes \cup {NoTime}]

\* A boundary every 15 minutes of the day; the catalogue's venues open at one and close
\* on the same day or at its midnight, printed 00:00.
TimesAssumption ==
    /\ Day \in Nat \ {0} /\ MaxSlots \in Nat \ {0}
    /\ Interval \in Nat /\ Interval > 2 /\ Day % Interval = 0
    /\ \A x \in Extractions :
          /\ x.preferred \in Minutes \cup {NoTime}
          /\ x.window \in [start : Minutes, end : Minutes] \cup {NoWindow}
          /\ x.duration \in (Nat \ {0}) \cup {NoTime}
    /\ \A v \in Venues :
          /\ v.opens \in Minutes /\ v.opens % Interval = 0
          /\ v.closes \in Minutes /\ (v.closes > v.opens \/ v.closes = 0)
          /\ v.stay \in Nat \ {0}

VARIABLES stage, ask, clock, venue, intent, offers

timesVars == <<stage, ask, clock, venue, intent, offers>>

NoIntent == [status |-> "none", route |-> "none", missing |-> {}, preferred |-> NoTime,
             window |-> NoWindow]

TimesInit ==
    /\ stage = "asked"
    /\ ask \in Extractions
    /\ clock \in Minutes
    /\ venue \in Venues
    /\ intent = NoIntent
    /\ offers = <<>>

-----------------------------------------------------------------------------
(* Validation                                                              *)

\* _next_slot_boundary: up to the next boundary, the last minute at midnight.
NextSlotBoundary(t) ==
    LET rounded == t + ((Interval - (t % Interval)) % Interval) IN
    IF rounded >= Day THEN Day - 1 ELSE rounded

\* _resolve_date: only today and the coming year are usable.
ResolveDate == IF ask.date \in {"today", "later"} THEN ask.date ELSE "none"

Times(p, w, problem) == [preferred |-> p, window |-> w, problem |-> problem]

\* _resolve_time
ResolveTime ==
    LET p == ask.preferred
        w == ask.window
        earliest == NextSlotBoundary(clock)
    IN
    CASE w.start > w.end -> Times(p, NoWindow, "invalid_window")
      [] w.start <= w.end /\ w # NoWindow /\ p # NoTime /\ p \notin w.start..w.end ->
            Times(p, w, "conflicting")
      [] OTHER ->
            IF ResolveDate # "today" THEN Times(p, w, "none")
            ELSE IF \/ p # NoTime /\ p < earliest
                    \/ w # NoWindow /\ w.end < earliest
                 THEN Times(NoTime, NoWindow, "past_time")
            ELSE Times(p, IF w # NoWindow /\ w.start < earliest
                          THEN [w EXCEPT !.start = earliest] ELSE w, "none")

HasTime(t) ==
    /\ t.preferred # NoTime \/ t.window # NoWindow
    /\ t.problem # "conflicting"

MissingFields(t) ==
    {f \in {"action", "venue", "party", "date", "time"} :
        CASE f = "action" -> ask.action = "none"
          [] f = "venue" -> ask.venue \in {"none", "ambiguous"}
          [] f = "party" -> ~ask.party
          [] f = "date" -> ResolveDate = "none"
          [] f = "time" -> ~HasTime(t)}

\* validate: a clarification while anything is missing, else the route.
Validate ==
    LET t == ResolveTime IN
    /\ stage = "asked"
    /\ intent' = [status |-> IF MissingFields(t) = {} THEN "READY" ELSE "NEEDS_CLARIFICATION",
                  route |-> IF MissingFields(t) # {} THEN "clarification"
                            ELSE IF ask.action = "CREATE_WATCH" THEN "watch" ELSE "booking",
                  missing |-> MissingFields(t),
                  preferred |-> t.preferred, window |-> t.window]
    /\ stage' = "validated"
    /\ UNCHANGED <<ask, clock, venue, offers>>

-----------------------------------------------------------------------------
(* Slots                                                                   *)

\* _snap_to_grid: the nearest boundary, the earlier one of two.
SnapToGrid(t) ==
    LET offset == t % Interval IN
    IF 2 * offset <= Interval THEN t - offset ELSE t - offset + Interval

Closes == IF venue.closes <= venue.opens THEN venue.closes + Day ELSE venue.closes

LatestStart == Closes - (IF ask.duration = NoTime THEN venue.stay ELSE ask.duration)

\* The boundaries of range(first, last + 1, Interval), in order.
Boundaries(first, last) ==
    IF last < first THEN <<>>
    ELSE [i \in 1..((last - first) \div Interval + 1) |-> first + (i - 1) * Interval]

Cut(times) == SubSeq(times, 1, IF Len(times) < MaxSlots THEN Len(times) ELSE MaxSlots)

\* candidates.remove, candidates.insert(0): the time moves to the front of a list that
\* holds it once.
MoveFirst(times, t) ==
    LET k == CHOOSE i \in 1..Len(times) : times[i] = t IN
    [i \in 1..Len(times) |->
        IF i = 1 THEN t ELSE IF i <= k THEN times[i - 1] ELSE times[i]]

Holds(times, t) == \E i \in 1..Len(times) : times[i] = t

\* Mutation: the list is cut before the preferred time moves to its front.
PreferFirstCut(times) ==
    LET cut == Cut(times) IN
    IF Holds(cut, intent.preferred) THEN MoveFirst(cut, intent.preferred) ELSE cut

\* The preferred time comes first, then the list is cut.
PreferFirst(times) ==
    Cut(IF Holds(times, intent.preferred) THEN MoveFirst(times, intent.preferred)
        ELSE times)

\* _candidate_times
CandidateTimes ==
    IF LatestStart < venue.opens THEN <<>>
    ELSE IF intent.window = NoWindow
         THEN LET exact == SnapToGrid(intent.preferred) IN
              IF exact \in venue.opens..LatestStart THEN <<exact>> ELSE <<>>
    ELSE LET snapped == SnapToGrid(intent.window.start)
             first == IF snapped > venue.opens THEN snapped ELSE venue.opens
             last == IF LatestStart < intent.window.end THEN LatestStart
                     ELSE intent.window.end
         IN PreferFirst(Boundaries(first, last))

\* _end_time
EndTime(start) == IF ask.duration = NoTime THEN NoTime ELSE (start + ask.duration) % Day

\* Some of the times, in their order.
Thinned(times) ==
    UNION {{[i \in 1..n |-> times[f[i]]] :
              f \in {g \in [1..n -> 1..Len(times)] :
                       \A i, j \in 1..n : i < j => g[i] < g[j]}} : n \in 0..Len(times)}

\* _generate: the table of a start is a hash of venue, date and time; those too
\* small for the party are left out.
Generate ==
    /\ stage = "validated" /\ intent.status = "READY"
    /\ offers' \in Thinned(CandidateTimes)
    /\ stage' = "searched"
    /\ UNCHANGED <<ask, clock, venue, intent>>

\* A sold-out or closed day, a party too large for the venue.
GenerateNothing ==
    /\ stage = "validated" /\ intent.status = "READY"
    /\ offers' = <<>>
    /\ stage' = "searched"
    /\ UNCHANGED <<ask, clock, venue, intent>>

TimesNext == Validate \/ Generate \/ GenerateNothing

TimesSpec == TimesInit /\ [][TimesNext]_timesVars

-----------------------------------------------------------------------------
(* Properties                                                              *)

\* The request, its validated form and the times searched for it.
TimesTypeOK ==
    /\ stage \in {"asked", "validated", "searched"}
    /\ intent.preferred \in Minutes \cup {NoTime}
    /\ intent.window \in Windows
    /\ \A i \in 1..Len(offers) : offers[i] \in Minutes

\* Whatever the model extracted, an intent that is ready makes a query whose
\* own validators accept it: there is a time, and the preferred one lies in the
\* window even after the window was clipped to the clock.
ReadyMakesQuery ==
    intent.status = "READY" =>
        /\ intent.preferred # NoTime \/ intent.window # NoWindow
        /\ intent.preferred # NoTime /\ intent.window # NoWindow =>
              intent.preferred \in intent.window.start..intent.window.end

\* Every slot is a start at which the venue is open and the stay ends by
\* closing; the end printed for it is that end on the clock.
InsideHours ==
    \A i \in 1..Len(offers) :
        /\ offers[i] >= venue.opens
        /\ offers[i] + (IF ask.duration = NoTime THEN venue.stay ELSE ask.duration) <= Closes
        /\ ask.duration # NoTime => EndTime(offers[i]) \in {offers[i] + ask.duration,
                                                           offers[i] + ask.duration - Day}

\* The preferred time is offered first wherever it is a boundary with a table,
\* however many earlier ones the window holds.
PreferredComesFirst ==
    stage = "validated" /\ intent.status = "READY" =>
        LET bookable == /\ intent.preferred # NoTime
                        /\ intent.preferred % Interval = 0
                        /\ intent.preferred \in venue.opens..LatestStart
        IN bookable => CandidateTimes # <<>> /\ Head(CandidateTimes) = intent.preferred

\* Nothing is offered for a time of today that has passed, as long as the
\* window the model extracted was not reversed.
OffersAhead ==
    ask.date = "today" /\ ask.window.start <= ask.window.end =>
        \A i \in 1..Len(offers) : offers[i] >= clock

\* What is ready can be searched, and what is offered can be booked.
OffersSound ==
    TimesTypeOK /\ ReadyMakesQuery /\ InsideHours /\ PreferredComesFirst /\ OffersAhead

\* Refuted (README, section 6): a time that has passed today is
\* not bookable, whatever else was extracted.
PastNotBookable ==
    ask.date = "today" => \A i \in 1..Len(offers) : offers[i] >= clock

\* Refuted (README, section 6): no slot starts before the earliest
\* time the request accepts.
NotBeforeWindow ==
    intent.window # NoWindow =>
        \A i \in 1..Len(offers) : offers[i] >= intent.window.start

-----------------------------------------------------------------------------
(* The invariant behind OffersSound                                        *)

\* A ready request of today asks for nothing before the next boundary, unless its
\* window was dropped for being reversed.
AsksAhead ==
    intent.status = "READY" /\ ask.date = "today" /\ ask.window.start <= ask.window.end =>
        /\ intent.preferred # NoTime => intent.preferred >= NextSlotBoundary(clock)
        /\ intent.window # NoWindow => intent.window.start >= NextSlotBoundary(clock)

\* The request is one of those assumed and keeps to its steps; a window that is there
\* has both ends.
TimesInv ==
    /\ ask \in Extractions /\ clock \in Minutes /\ venue \in Venues
    /\ stage \in {"asked", "validated", "searched"}
    /\ stage = "asked" => intent = NoIntent
    /\ stage # "searched" => offers = <<>>
    /\ intent.preferred \in Minutes \cup {NoTime}
    /\ intent.window \in [start : Minutes, end : Minutes] \cup {NoWindow}
    /\ \A i \in 1..Len(offers) : offers[i] \in Minutes
    /\ ReadyMakesQuery /\ AsksAhead /\ InsideHours /\ OffersAhead
=============================================================================
