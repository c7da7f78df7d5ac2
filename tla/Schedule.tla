------------------------------ MODULE Schedule ------------------------------
(***************************************************************************)
(* When a backup is due.  The daemon looks at its plan once a tick and     *)
(* sets about a backup when a slot of the schedule has passed since the    *)
(* last one began, however long the machine was asleep, held back or set   *)
(* back.  Between the decision and the row of the run in the table lies    *)
(* the preparation, during which the daemon goes on looking.               *)
(*                                                                         *)
(* A slot is a time of day moved later by a hash of the machine's name and *)
(* the slot, the same however often it is asked.  Time is a cycle of       *)
(* NumDays days: the hash repeats after them, and what happened longer ago *)
(* than the search for a slot looks back is only "long ago".               *)
(***************************************************************************)
EXTENDS Integers, FiniteSets, FiniteSetsExt

CONSTANTS
    DayLength,      \* ticks in a day
    NumDays,        \* days until the hash repeats
    Times,          \* the times of day of the schedule
    Jitter,         \* the most a slot is moved
    MinInterval,    \* the least time between two starts
    LookBackDays,   \* how many days before today are searched
    StepBack,       \* how far the clock may be set back
    MaxStepsBack,   \* bound: how often that happens
    MaxAttempts,    \* bound: how many backups it has in preparation at a time
    None

ASSUME ScheduleAssumption ==
    /\ DayLength \in Nat \ {0} /\ NumDays \in Nat \ {0} /\ LookBackDays \in Nat \ {0}
    /\ Times # {} /\ Times \subseteq 0 .. DayLength - 1
    /\ Jitter \in Nat /\ MinInterval \in Nat
    /\ StepBack \in Nat /\ MaxStepsBack \in Nat /\ MaxAttempts \in Nat
    /\ None \notin Int

VARIABLES
    jitter,         \* the hash of each slot
    now,            \* the tick, within the cycle
    last,           \* how long ago the newest row of the run table was begun
    attempts,       \* how many backups the scheduler has in preparation
    running,        \* whether a run holds the guard
    awake,          \* the machine is on and its daemon has looked in this tick, or not yet
    held,           \* why the scheduler may not start anything: "no", "metered", "paused"
    stepsBack       \* how often the clock was set back

vars == <<jitter, now, last, attempts, running, awake, held, stepsBack>>

Period == NumDays * DayLength
LongAgo == (LookBackDays + 1) * DayLength + Jitter

TypeOK ==
    /\ jitter \in [0 .. NumDays - 1 -> [Times -> 0 .. Jitter]]
    /\ now \in 0 .. Period - 1
    /\ last \in {None} \cup -(StepBack * MaxStepsBack) .. LongAgo
    /\ attempts \in 0 .. MaxAttempts /\ running \in BOOLEAN
    /\ awake \in {"asleep", "fresh", "looked"}
    /\ held \in {"no", "metered", "paused"}
    /\ stepsBack \in 0 .. MaxStepsBack

-----------------------------------------------------------------------------
(* The arithmetic of the schedule, on instants that may lie before the start *)
(* of the cycle.                                                             *)

DayOf(t) == t \div DayLength

SlotsOn(day) == {day * DayLength + t + jitter[day % NumDays][t] : t \in Times}

\* Mutant: today's slots only.
LastSlotToday(t) ==
    LET past == {s \in SlotsOn(DayOf(t)) : s <= t}
    IN  IF past = {} THEN None ELSE Max(past)

\* The search goes backwards a day at a time and stops at the first day with a
\* slot that has passed.
LastSlotAtOrBefore(t) ==
    LET Past(back) == {s \in SlotsOn(DayOf(t) - back) : s <= t}
        found == {back \in 0 .. LookBackDays : Past(back) # {}}
    IN  IF found = {} THEN None ELSE Max(Past(Min(found)))

\* Mutant: the run of this very tick counts as one before the slot.
DueAgain(t, lastRun) ==
    \/ lastRun = None
    \/ /\ t - lastRun >= MinInterval
       /\ LastSlotAtOrBefore(t) # None
       /\ lastRun <= LastSlotAtOrBefore(t)

Due(t, lastRun) ==
    \/ lastRun = None
    \/ /\ t - lastRun >= MinInterval
       /\ LastSlotAtOrBefore(t) # None
       /\ lastRun < LastSlotAtOrBefore(t)

\* Mutant: only the rest of today is looked at.
SlotsAheadToday(t) == {s \in SlotsOn(DayOf(t)) : s > t}

\* Those of today still to come, or else tomorrow's.
SlotsAhead(t) ==
    LET Ahead(day) == {s \in SlotsOn(day) : s > t}
    IN  IF Ahead(DayOf(t)) # {} THEN Ahead(DayOf(t)) ELSE Ahead(DayOf(t) + 1)

NextSlot(t) == IF SlotsAhead(t) = {} THEN None ELSE Min(SlotsAhead(t))

-----------------------------------------------------------------------------
Init ==
    /\ jitter \in [0 .. NumDays - 1 -> [Times -> 0 .. Jitter]]
    /\ now = 0
    /\ last = None
    /\ attempts = 0 /\ running = FALSE
    /\ awake = "fresh"
    /\ held = "no"
    /\ stepsBack = 0

LastRun == IF last = None THEN None ELSE now - last

\* A goroutine sets about it.  The scheduler asks what is running and what is in
\* the table, and not what is in preparation.
MaybeRun ==
    /\ awake = "fresh"
    /\ awake' = "looked"
    /\ IF ~running /\ held = "no" /\ Due(now, LastRun) /\ attempts < MaxAttempts
       THEN attempts' = attempts + 1
       ELSE UNCHANGED attempts
    /\ UNCHANGED <<jitter, now, last, running, held, stepsBack>>

Over ==
    /\ awake # "asleep" /\ attempts > 0
    /\ attempts' = attempts - 1
    /\ UNCHANGED <<jitter, now, awake, held, stepsBack>>

\* The preparation is done, and Runner.Run takes the guard and writes its row.
Claims == Over /\ ~running /\ running' = TRUE /\ last' = 0

\* A preparation that fails leaves a closed row, beside a run in progress too.
FailsToStart == Over /\ last' = 0 /\ UNCHANGED running

\* The guard is taken, or the row cannot be written: nothing is left behind.
ComesToNothing == Over /\ UNCHANGED <<last, running>>

\* A backup somebody asked for, of the page or by the command, asks neither the
\* schedule nor the network.  Its preparation is nothing to the scheduler; its row
\* is, and the command's run, whose guard is its own, is not.
StartRun ==
    /\ awake # "asleep"
    /\ last' = 0
    /\ running' \in {running, TRUE}
    /\ UNCHANGED <<jitter, now, attempts, awake, held, stepsBack>>

RunEnds ==
    /\ awake # "asleep" /\ running
    /\ running' = FALSE
    /\ UNCHANGED <<jitter, now, last, attempts, awake, held, stepsBack>>

\* A tick passes.  A daemon that is up has looked before the next one comes.
Tick ==
    /\ awake # "fresh"
    /\ now' = (now + 1) % Period
    /\ last' = IF last = None THEN None ELSE Min({last + 1, LongAgo})
    /\ awake' = IF awake = "looked" THEN "fresh" ELSE awake
    /\ UNCHANGED <<jitter, attempts, running, held, stepsBack>>

Sleep ==
    /\ awake = "looked"
    /\ awake' = "asleep"
    /\ UNCHANGED <<jitter, now, last, attempts, running, held, stepsBack>>

\* The ticker that was waiting fires at once.
Wake ==
    /\ awake = "asleep"
    /\ awake' = "fresh"
    /\ UNCHANGED <<jitter, now, last, attempts, running, held, stepsBack>>

\* A new daemon knows the table only, and looks at once.
Restart ==
    /\ attempts' = 0 /\ running' = FALSE
    /\ awake' = IF awake = "asleep" THEN awake ELSE "fresh"
    /\ UNCHANGED <<jitter, now, last, held, stepsBack>>

ConnectionChanges ==
    /\ held # "paused"
    /\ held' = IF held = "no" THEN "metered" ELSE "no"
    /\ UNCHANGED <<jitter, now, last, attempts, running, awake, stepsBack>>

PausePressed ==
    /\ awake # "asleep"
    /\ held' = IF held = "paused" THEN "no" ELSE "paused"
    /\ UNCHANGED <<jitter, now, last, attempts, running, awake, stepsBack>>

\* The clock was ahead, and is put right: the last run is in the future.
ClockSetBack ==
    /\ stepsBack < MaxStepsBack
    /\ stepsBack' = stepsBack + 1
    /\ now' = (now - StepBack) % Period
    /\ last' = IF last = None THEN None ELSE last - StepBack
    /\ UNCHANGED <<jitter, attempts, running, awake, held>>

Next ==
    \/ MaybeRun \/ Claims \/ FailsToStart \/ ComesToNothing \/ StartRun \/ RunEnds
    \/ Tick \/ Sleep \/ Wake \/ Restart
    \/ ConnectionChanges \/ PausePressed \/ ClockSetBack

\* Time passes, and every run ends.  People open their machines, and the daemon looks
\* again and again over a connection that is not metered.  Not every preparation
\* comes to nothing.  Nobody has to press a button.
Fairness ==
    /\ []<><<Tick>>_vars /\ []<>~running
    /\ []<><<MaybeRun /\ held # "metered">>_vars
    /\ SF_vars(Claims \/ FailsToStart)

Spec == Init /\ [][Next]_vars /\ Fairness

-----------------------------------------------------------------------------
(* The reference: a slot is an instant, whichever day it was listed for, and *)
(* however far the hash moved it.                                            *)

RefSlots(from, to) == {s \in UNION {SlotsOn(d) : d \in DayOf(from - Jitter) .. DayOf(to)} :
                          from < s /\ s <= to}

SlotMissed == last # None /\ RefSlots(LastRun, now) # {}

\* The scheduler decides on another backup only when a slot has passed since the
\* newest row, and never sooner than the minimum interval after it: not for a slot
\* that has a row, whatever the order of the day's slots, and not for one that a
\* clock set back brings round again.  So whatever runs for a slot a second time
\* was in preparation when the slot was served; that much the code does allow.
DecidesForMissedSlots ==
    [][ (MaybeRun /\ last # None /\ attempts' # attempts) =>
            SlotMissed /\ last >= MinInterval ]_vars

\* No slot is served a second time by the scheduler.  It is not so: what was in
\* preparation when the slot was served, by another backup of the scheduler's that
\* was longer than a tick in preparation or by one that somebody asked for, runs
\* when that one is over.
SlotsRunOnce ==
    [][ (Claims /\ last # None) => SlotMissed ]_vars

\* A slot that passes unserved, because the machine was off or held back, because a
\* run was in progress, or because a daemon ended with a backup in preparation, is
\* caught up, unless somebody pauses the machine: within the search's few days, and
\* after any wrong clock.
MissedIsCaughtUp ==
    SlotMissed ~> (~SlotMissed \/ held = "paused")

\* The status page's "next run" is the next instant that a machine with nothing
\* missed starts one, as long as no slot is moved past midnight.
NoneCrossesMidnight ==
    \A d \in 0 .. NumDays - 1, t \in Times : t + jitter[d][t] < DayLength

NextIsTheNextSlot ==
    NoneCrossesMidnight =>
        /\ NextSlot(now) # None
        /\ RefSlots(now, NextSlot(now)) = {NextSlot(now)}
=============================================================================
