--------------------------- MODULE ScheduleProofs ---------------------------
(***************************************************************************)
(* Theorems about Schedule, for any schedule, length of a day, jitter and  *)
(* minimum interval: no backup is decided on without a slot that has       *)
(* passed since the newest row, and the next run the status page names is  *)
(* the next one there is.                                                  *)
(***************************************************************************)
EXTENDS Schedule, TLAPS, NaturalsInduction, WellFoundedInduction

(***************************************************************************)
(* Days.                                                                   *)
(***************************************************************************)
LEMMA DayContains ==
    ASSUME NEW t \in Int
    PROVE  /\ DayOf(t) \in Int
           /\ DayOf(t) * DayLength <= t
           /\ t < DayOf(t) * DayLength + DayLength
  <1>1. DayLength \in Nat \ {0}
    BY ScheduleAssumption
  <1>2. t \div DayLength \in Int
    BY <1>1
  <1>3. (t \div DayLength) * DayLength <= t
    BY <1>1
  <1>4. t < (t \div DayLength) * DayLength + DayLength
    BY <1>1
  <1> QED
    BY <1>2, <1>3, <1>4 DEF DayOf

\* A day begins before an instant that its successor begins after.
LEMMA DaysAreOrdered ==
    ASSUME NEW d \in Int, NEW e \in Int, d * DayLength < e * DayLength
    PROVE  d < e
  <1>1. DayLength \in Nat \ {0}
    BY ScheduleAssumption
  <1> SUFFICES ASSUME e <= d PROVE FALSE
    OBVIOUS
  <1>2. d - e \in Nat /\ (d - e) * DayLength \in Nat
    BY <1>1
  <1>3. (d - e) * DayLength = d * DayLength - e * DayLength
    BY <1>1
  <1>4. d * DayLength \in Int /\ e * DayLength \in Int
    BY <1>1
  <1> QED
    BY <1>2, <1>3, <1>4

\* The day of an instant is the last one that does not begin after it.
LEMMA DayIsLast ==
    ASSUME NEW d \in Int, NEW t \in Int, d * DayLength <= t
    PROVE  d <= DayOf(t)
  <1>1. PICK e \in Int : e = DayOf(t)
    BY DayContains
  <1>2. t < e * DayLength + DayLength
    BY <1>1, DayContains
  <1>3. DayLength \in Nat \ {0}
    BY ScheduleAssumption
  <1>4. (e + 1) * DayLength = e * DayLength + DayLength
    BY <1>3
  <1>5. d * DayLength \in Int /\ e * DayLength \in Int
    BY <1>3
  <1>6. d * DayLength < (e + 1) * DayLength
    BY <1>2, <1>3, <1>4, <1>5
  <1>7. d < e + 1
    BY <1>6, DaysAreOrdered
  <1> QED
    BY <1>1, <1>7

(***************************************************************************)
(* Slots, and the first and last of some instants.                         *)
(***************************************************************************)
Hashed == jitter \in [0 .. NumDays - 1 -> [Times -> 0 .. Jitter]]

LEMMA SlotLies ==
    ASSUME Hashed, NEW d \in Int, NEW s \in SlotsOn(d)
    PROVE  /\ s \in Int
           /\ d * DayLength <= s
           /\ s < d * DayLength + DayLength + Jitter
           /\ NoneCrossesMidnight => s < d * DayLength + DayLength
  <1>1. /\ DayLength \in Nat \ {0} /\ NumDays \in Nat \ {0} /\ Jitter \in Nat
        /\ Times \subseteq 0 .. DayLength - 1
    BY ScheduleAssumption
  <1>2. PICK t \in Times : s = d * DayLength + t + jitter[d % NumDays][t]
    BY DEF SlotsOn
  <1>3. d % NumDays \in 0 .. NumDays - 1
    BY <1>1
  <1>4. PICK e, j : e = d % NumDays /\ j = jitter[e][t]
    OBVIOUS
  <1>5. j \in 0 .. Jitter
    BY <1>3, <1>4 DEF Hashed
  <1>6. NoneCrossesMidnight => t + j < DayLength
    BY <1>3, <1>4 DEF NoneCrossesMidnight
  <1>7. d * DayLength \in Int /\ t \in 0 .. DayLength - 1
    BY <1>1
  <1>8. s = d * DayLength + t + j
    BY <1>2, <1>4
  <1> QED
    BY <1>1, <1>5, <1>6, <1>7, <1>8

LEMMA SlotsAreThere ==
    ASSUME Hashed, NEW d \in Int
    PROVE  SlotsOn(d) # {}
  BY ScheduleAssumption DEF SlotsOn

LEMMA MinIsIn ==
    ASSUME NEW S \in SUBSET Int, S # {}, NEW b \in Int, \A s \in S : b <= s
    PROVE  /\ Min(S) \in S
           /\ \A s \in S : Min(S) <= s
  <1> DEFINE D == {n \in Nat : b + n \in S}
  <1>1. PICK s \in S : TRUE
    OBVIOUS
  <1>2. s - b \in D
    <2>1. s - b \in Nat /\ b + (s - b) = s
      OBVIOUS
    <2> QED
      BY <2>1
  <1>3. D \in SUBSET Nat /\ D # {}
    BY <1>2
  <1>4. PICK m \in D : \A y \in D : ~ (<<y, m>> \in OpToRel(<, Nat))
    BY <1>3, WFMin, NatLessThanWellFounded, Zenon
  <1>5. \A y \in D : ~ (y < m)
    BY <1>3, <1>4, Zenon DEF OpToRel
  <1>6. b + m \in S /\ m \in Nat
    OBVIOUS
  <1>7. \A y \in S : b + m <= y
    <2> SUFFICES ASSUME NEW y \in S PROVE b + m <= y
      OBVIOUS
    <2>1. y - b \in Nat /\ b + (y - b) = y
      OBVIOUS
    <2>2. ~ (y - b < m)
      BY <1>5, <2>1
    <2> QED
      BY <1>6, <2>1, <2>2
  <1> QED
    BY <1>6, <1>7 DEF Min

LEMMA MaxIsIn ==
    ASSUME NEW S \in SUBSET Int, S # {}, NEW b \in Int, \A s \in S : s <= b
    PROVE  Max(S) \in S
  <1> DEFINE D == {n \in Nat : b - n \in S}
  <1>1. PICK s \in S : TRUE
    OBVIOUS
  <1>2. b - s \in D
    <2>1. b - s \in Nat /\ b - (b - s) = s
      OBVIOUS
    <2> QED
      BY <2>1
  <1>3. D \in SUBSET Nat /\ D # {}
    BY <1>2
  <1>4. PICK m \in D : \A y \in D : ~ (<<y, m>> \in OpToRel(<, Nat))
    BY <1>3, WFMin, NatLessThanWellFounded, Zenon
  <1>5. \A y \in D : ~ (y < m)
    BY <1>3, <1>4, Zenon DEF OpToRel
  <1>6. b - m \in S /\ m \in Nat
    OBVIOUS
  <1>7. \A y \in S : y <= b - m
    <2> SUFFICES ASSUME NEW y \in S PROVE y <= b - m
      OBVIOUS
    <2>1. b - y \in Nat /\ b - (b - y) = y
      OBVIOUS
    <2>2. ~ (b - y < m)
      BY <1>5, <2>1
    <2> QED
      BY <1>6, <2>1, <2>2
  <1> QED
    BY <1>6, <1>7 DEF Max

(***************************************************************************)
(* The search for the last slot finds one, of a day that is not ahead.     *)
(***************************************************************************)
LEMMA LastSlotIsASlot ==
    ASSUME Hashed, NEW t \in Int, LastSlotAtOrBefore(t) # None
    PROVE  /\ LastSlotAtOrBefore(t) <= t
           /\ \E d \in Int : d <= DayOf(t) /\ LastSlotAtOrBefore(t) \in SlotsOn(d)
  <1> DEFINE Past(back) == {s \in SlotsOn(DayOf(t) - back) : s <= t}
             found == {back \in 0 .. LookBackDays : Past(back) # {}}
  <1>1. found # {} /\ LastSlotAtOrBefore(t) = Max(Past(Min(found)))
    BY DEF LastSlotAtOrBefore
  <1>2. found \in SUBSET Int /\ \A back \in found : 0 <= back
    BY ScheduleAssumption
  <1>3. PICK back : back = Min(found)
    OBVIOUS
  <1>4. back \in found
    BY <1>1, <1>2, <1>3, MinIsIn
  <1>5. DayOf(t) \in Int /\ back \in Nat
    BY <1>4, DayContains, ScheduleAssumption
  <1>6. PICK d \in Int : d = DayOf(t) - back
    BY <1>5
  <1>7. PICK past : past = Past(back)
    OBVIOUS
  <1>8. past = {s \in SlotsOn(d) : s <= t} /\ past # {}
    BY <1>4, <1>6, <1>7
  <1>9. past \in SUBSET Int
    BY <1>6, <1>8, SlotLies
  <1>10. Max(past) \in past
    BY <1>8, <1>9, MaxIsIn
  <1>11. LastSlotAtOrBefore(t) = Max(past)
    BY <1>1, <1>3, <1>7
  <1>12. Max(past) <= t /\ Max(past) \in SlotsOn(d)
    BY <1>8, <1>10
  <1>13. d <= DayOf(t)
    BY <1>5, <1>6
  <1> QED
    BY <1>11, <1>12, <1>13

\* A slot between two instants is one of the reference's, whichever day listed it.
LEMMA SlotIsOfReference ==
    ASSUME Hashed, NEW from \in Int, NEW to \in Int, NEW d \in Int, d <= DayOf(to),
           NEW s \in SlotsOn(d), from < s, s <= to
    PROVE  s \in RefSlots(from, to)
  <1>1. DayLength \in Nat \ {0} /\ Jitter \in Nat
    BY ScheduleAssumption
  <1>2. s \in Int /\ s < d * DayLength + DayLength + Jitter
    BY SlotLies
  <1>3. PICK e \in Int : e = DayOf(from - Jitter)
    BY <1>1, DayContains
  <1>4. e * DayLength <= from - Jitter
    BY <1>1, <1>3, DayContains
  <1>5. (d + 1) * DayLength = d * DayLength + DayLength
    BY <1>1
  <1>6. d * DayLength \in Int /\ e * DayLength \in Int
    BY <1>1
  <1>7. e * DayLength < (d + 1) * DayLength
    BY <1>1, <1>2, <1>4, <1>5, <1>6
  <1>8. e < d + 1
    BY <1>7, DaysAreOrdered
  <1>9. DayOf(to) \in Int
    BY DayContains
  <1>10. d \in DayOf(from - Jitter) .. DayOf(to)
    BY <1>3, <1>8, <1>9
  <1> QED
    BY <1>10 DEF RefSlots

(***************************************************************************)
(* Type correctness: how long ago the last run was, and how far ahead a    *)
(* clock that was wrong may have put it.                                   *)
(***************************************************************************)
TypeInv ==
    /\ TypeOK
    /\ last # None => -(StepBack * stepsBack) <= last

LEMMA PeriodIsLong == Period \in Nat \ {0} /\ LongAgo \in Nat
  <1>1. /\ DayLength \in Nat \ {0} /\ NumDays \in Nat \ {0} /\ LookBackDays \in Nat
        /\ Jitter \in Nat
    BY ScheduleAssumption
  <1>2. NumDays * DayLength \in Nat \ {0}
    BY <1>1
  <1>3. (LookBackDays + 1) * DayLength \in Nat
    BY <1>1
  <1> QED
    BY <1>1, <1>2, <1>3 DEF Period, LongAgo

LEMMA StepsBackBounded ==
    ASSUME NEW n \in 0 .. MaxStepsBack
    PROVE  /\ StepBack * n \in Nat /\ StepBack * MaxStepsBack \in Nat
           /\ StepBack * n <= StepBack * MaxStepsBack
  <1>1. StepBack \in Nat /\ MaxStepsBack \in Nat /\ n \in Nat
    BY ScheduleAssumption
  <1>2. MaxStepsBack - n \in Nat /\ StepBack * (MaxStepsBack - n) \in Nat
    BY <1>1
  <1>3. StepBack * (MaxStepsBack - n) = StepBack * MaxStepsBack - StepBack * n
    BY <1>1
  <1>4. StepBack * n \in Nat /\ StepBack * MaxStepsBack \in Nat
    BY <1>1
  <1> QED
    BY <1>2, <1>3, <1>4

LEMMA InitTyped == Init => TypeInv
  <1> SUFFICES ASSUME Init PROVE TypeInv
    OBVIOUS
  <1>1. 0 \in 0 .. Period - 1 /\ 0 \in 0 .. MaxStepsBack /\ 0 \in 0 .. MaxAttempts
    BY PeriodIsLong, ScheduleAssumption
  <1> QED
    BY <1>1 DEF Init, TypeInv, TypeOK

\* A row of the run table as it may be after some steps back.
LEMMA RowTyped ==
    ASSUME NEW n \in 0 .. MaxStepsBack, NEW ago \in Int,
           -(StepBack * n) <= ago, ago <= LongAgo
    PROVE  ago \in -(StepBack * MaxStepsBack) .. LongAgo
  <1>1. LongAgo \in Int
    BY PeriodIsLong
  <1>2. /\ StepBack * n \in Nat /\ StepBack * MaxStepsBack \in Nat
        /\ StepBack * n <= StepBack * MaxStepsBack
    BY StepsBackBounded
  <1> QED
    BY <1>1, <1>2

LEMMA StepTyped == TypeInv /\ [Next]_vars => TypeInv'
  <1> SUFFICES ASSUME TypeInv, [Next]_vars PROVE TypeInv'
    OBVIOUS
  <1>a. /\ now \in Int /\ stepsBack \in 0 .. MaxStepsBack
        /\ last # None => last \in Int /\ -(StepBack * stepsBack) <= last /\ last <= LongAgo
    <2>1. -(StepBack * MaxStepsBack) \in Int /\ LongAgo \in Int
      <3>1. MaxStepsBack \in 0 .. MaxStepsBack
        BY ScheduleAssumption
      <3> QED
        BY <3>1, StepsBackBounded, PeriodIsLong
    <2> QED
      BY <2>1, PeriodIsLong DEF TypeInv, TypeOK
  <1>b. StepBack * stepsBack \in Nat
    BY <1>a, StepsBackBounded
  <1>c. ASSUME NEW ago \in Int, last' = ago, stepsBack' = stepsBack,
               -(StepBack * stepsBack) <= ago, ago <= LongAgo
        PROVE  /\ last' \in {None} \cup -(StepBack * MaxStepsBack) .. LongAgo
               /\ last' # None => -(StepBack * stepsBack') <= last'
    BY <1>a, <1>c, RowTyped
  <1>0. -(StepBack * stepsBack) <= 0 /\ 0 <= LongAgo
    BY <1>b, PeriodIsLong
  <1>n. ASSUME NEW x \in Int PROVE x % Period \in 0 .. Period - 1
    BY PeriodIsLong
  <1>d. ASSUME \/ attempts' = attempts \/ attempts' = 0
               \/ attempts < MaxAttempts /\ attempts' = attempts + 1
               \/ attempts > 0 /\ attempts' = attempts - 1
        PROVE  attempts' \in 0 .. MaxAttempts
    <2>1. attempts \in 0 .. MaxAttempts /\ MaxAttempts \in Nat
      BY ScheduleAssumption DEF TypeInv, TypeOK
    <2> QED
      BY <1>d, <2>1
  <1>1. CASE UNCHANGED <<last, stepsBack, now, jitter>>
    <2>1. attempts' \in 0 .. MaxAttempts
      <3>1. \/ attempts' = attempts \/ attempts' = 0
            \/ attempts < MaxAttempts /\ attempts' = attempts + 1
            \/ attempts > 0 /\ attempts' = attempts - 1
        BY DEF Next, MaybeRun, Over, Claims, FailsToStart, ComesToNothing, StartRun, RunEnds, Tick,
               Sleep, Wake, Restart, ConnectionChanges, PausePressed, ClockSetBack, vars
      <3> QED
        BY <1>d, <3>1
    <2>2. running' \in BOOLEAN
      BY <1>1
         DEF Next, MaybeRun, Over, Claims, FailsToStart, ComesToNothing, StartRun, RunEnds, Tick,
             Sleep, Wake, Restart, ConnectionChanges, PausePressed, ClockSetBack, vars,
             TypeInv, TypeOK
    <2>3. awake' \in {"asleep", "fresh", "looked"} /\ held' \in {"no", "metered", "paused"}
      BY <1>1
         DEF Next, MaybeRun, Over, Claims, FailsToStart, ComesToNothing, StartRun, RunEnds, Tick,
             Sleep, Wake, Restart, ConnectionChanges, PausePressed, ClockSetBack, vars,
             TypeInv, TypeOK
    <2> QED
      BY <1>1, <2>1, <2>2, <2>3 DEF TypeInv, TypeOK
  <1>2. CASE Claims \/ FailsToStart \/ StartRun
    <2>1. /\ last' = 0 /\ running' \in BOOLEAN
          /\ UNCHANGED <<jitter, now, awake, held, stepsBack>>
      BY <1>2 DEF Claims, FailsToStart, Over, StartRun, TypeInv, TypeOK
    <2>2. attempts' \in 0 .. MaxAttempts
      <3>1. attempts' = attempts \/ (attempts > 0 /\ attempts' = attempts - 1)
        BY <1>2 DEF Claims, FailsToStart, Over, StartRun
      <3> QED
        BY <1>d, <3>1
    <2> QED
      BY <1>0, <1>c, <2>1, <2>2 DEF TypeInv, TypeOK
  <1>5. CASE Tick
    <2>1. /\ now' = (now + 1) % Period
          /\ awake' \in {"asleep", "fresh", "looked"}
          /\ UNCHANGED <<jitter, attempts, running, held, stepsBack>>
      BY <1>5 DEF Tick, TypeInv, TypeOK
    <2>2. now' \in 0 .. Period - 1
      BY <1>a, <1>n, <2>1
    <2>3. CASE last = None
      <3>1. last' = None
        BY <1>5, <2>3 DEF Tick
      <3> QED
        BY <2>1, <2>2, <2>3, <3>1 DEF TypeInv, TypeOK
    <2>4. CASE last # None
      <3>1. last' = Min({last + 1, LongAgo})
        BY <1>5, <2>4 DEF Tick
      <3>2. PICK ago : ago = Min({last + 1, LongAgo})
        OBVIOUS
      <3>3. ago \in {last + 1, LongAgo} /\ ago <= LongAgo
        <4>1. {last + 1, LongAgo} \in SUBSET Int
          BY <1>a, <2>4, PeriodIsLong
        <4>2. PICK b \in Int : b <= last + 1 /\ b <= LongAgo
          <5>1. last <= last + 1 /\ last <= LongAgo /\ last \in Int
            BY <1>a, <2>4
          <5> QED
            BY <5>1
        <4> QED
          BY <3>2, <4>1, <4>2, MinIsIn
      <3>4. ago \in Int /\ -(StepBack * stepsBack) <= ago
        BY <1>a, <1>b, <2>4, <3>3, PeriodIsLong
      <3> QED
        BY <1>c, <2>1, <2>2, <3>1, <3>2, <3>3, <3>4 DEF TypeInv, TypeOK
    <2> QED
      BY <2>3, <2>4
  <1>6. CASE ClockSetBack
    <2>1. /\ now' = (now - StepBack) % Period /\ stepsBack' = stepsBack + 1
          /\ stepsBack < MaxStepsBack /\ UNCHANGED <<jitter, attempts, running, awake, held>>
      BY <1>6 DEF ClockSetBack
    <2>2. now' \in 0 .. Period - 1 /\ stepsBack' \in 0 .. MaxStepsBack
      BY <1>a, <1>n, <2>1, ScheduleAssumption
    <2>3. CASE last = None
      <3>1. last' = None
        BY <1>6, <2>3 DEF ClockSetBack
      <3> QED
        BY <2>1, <2>2, <2>3, <3>1 DEF TypeInv, TypeOK
    <2>4. CASE last # None
      <3>1. last' = last - StepBack
        BY <1>6, <2>4 DEF ClockSetBack
      <3>2. StepBack * (stepsBack + 1) = StepBack * stepsBack + StepBack
        BY <1>a, ScheduleAssumption
      <3>3. /\ last - StepBack \in Int /\ last - StepBack <= LongAgo
            /\ -(StepBack * stepsBack') <= last - StepBack
        BY <1>a, <1>b, <2>1, <2>4, <3>2, PeriodIsLong, ScheduleAssumption
      <3>4. last' \in -(StepBack * MaxStepsBack) .. LongAgo
        BY <2>2, <3>1, <3>3, RowTyped
      <3> QED
        BY <2>1, <2>2, <3>1, <3>3, <3>4 DEF TypeInv, TypeOK
    <2> QED
      BY <2>3, <2>4
  <1>7. CASE ~ (Claims \/ FailsToStart \/ StartRun) /\ ~Tick /\ ~ClockSetBack
    <2>1. UNCHANGED <<last, stepsBack, now, jitter>>
      BY <1>7 DEF Next, MaybeRun, Over, ComesToNothing, RunEnds, Sleep, Wake, Restart,
                  ConnectionChanges, PausePressed, vars
    <2> QED
      BY <1>1, <2>1
  <1> QED
    BY <1>2, <1>5, <1>6, <1>7

(* The run table and the clock hold what they may: the newest row is at    *)
(* most LongAgo old, and no further ahead than the clock was ever wrong.   *)
THEOREM TypeCorrect == Spec => []TypeOK
  <1>1. TypeInv => TypeOK
    BY DEF TypeInv
  <1> QED
    BY <1>1, InitTyped, StepTyped, PTL DEF Spec

(***************************************************************************)
(* What the scheduler decides on answers a slot that has passed since the   *)
(* newest row (Due, lastSlotAtOrBefore), and not sooner than the minimum   *)
(* interval after it: in any order of the day's slots, however far the     *)
(* hash moves them, with the last run in the future, and whatever else is  *)
(* in preparation or in progress.                                          *)
(***************************************************************************)
LEMMA DecisionAnswersASlot ==
    ASSUME TypeInv, MaybeRun, last # None, attempts' # attempts
    PROVE  SlotMissed /\ last >= MinInterval
  <1>1. Due(now, LastRun)
    BY DEF MaybeRun
  <1>2. /\ last \in Int /\ now \in Int /\ LastRun = now - last /\ LastRun \in Int
        /\ LastRun # None
    <2>1. -(StepBack * MaxStepsBack) \in Int /\ LongAgo \in Int
      <3>1. MaxStepsBack \in 0 .. MaxStepsBack
        BY ScheduleAssumption
      <3> QED
        BY <3>1, StepsBackBounded, PeriodIsLong
    <2>2. last \in Int /\ now \in Int
      BY <2>1, PeriodIsLong DEF TypeInv, TypeOK
    <2> QED
      BY <2>2, ScheduleAssumption DEF LastRun
  <1>3. /\ now - LastRun >= MinInterval
        /\ LastSlotAtOrBefore(now) # None /\ LastRun < LastSlotAtOrBefore(now)
    BY <1>1, <1>2 DEF Due
  <1>4. last >= MinInterval
    BY <1>2, <1>3
  <1>5. Hashed
    BY DEF TypeInv, TypeOK, Hashed
  <1>6. LastSlotAtOrBefore(now) \in RefSlots(LastRun, now)
    BY <1>2, <1>3, <1>5, LastSlotIsASlot, SlotIsOfReference
  <1> QED
    BY <1>4, <1>6 DEF SlotMissed

THEOREM DecisionsAnswerMissedSlots == Spec => DecidesForMissedSlots
  <1>1. TypeInv /\ [Next]_vars =>
            [(MaybeRun /\ last # None /\ attempts' # attempts) =>
                SlotMissed /\ last >= MinInterval]_vars
    BY DecisionAnswersASlot
  <1> QED
    BY <1>1, InitTyped, StepTyped, PTL DEF Spec, DecidesForMissedSlots

(***************************************************************************)
(* The status page's next run is the next slot there is (nextSlot): none   *)
(* lies between, as long as the hash moves no slot past midnight.          *)
(***************************************************************************)
LEMMA NextSlotIsNext ==
    ASSUME Hashed, NEW t \in Int, NoneCrossesMidnight
    PROVE  NextSlot(t) # None /\ RefSlots(t, NextSlot(t)) = {NextSlot(t)}
  <1>1. DayLength \in Nat \ {0} /\ Jitter \in Nat /\ None \notin Int
    BY ScheduleAssumption
  <1>2. PICK today \in Int : today = DayOf(t)
    BY DayContains
  <1>3. /\ today * DayLength <= t /\ t < today * DayLength + DayLength
        /\ today * DayLength \in Int
        /\ (today + 1) * DayLength = today * DayLength + DayLength
    BY <1>1, <1>2, DayContains
  <1> DEFINE Ahead(day) == {s \in SlotsOn(day) : s > t}
  <1>4. PICK ahead : ahead = SlotsAhead(t)
    OBVIOUS
  <1>5. ahead = IF Ahead(today) # {} THEN Ahead(today) ELSE Ahead(today + 1)
    BY <1>2, <1>4 DEF SlotsAhead
  <1>6. ahead \in SUBSET Int
    BY <1>2, <1>5, SlotLies
  <1>7. ahead # {}
    <2>1. PICK s \in SlotsOn(today + 1) : TRUE
      BY <1>2, SlotsAreThere
    <2>2. s \in Int /\ (today + 1) * DayLength <= s
      BY <1>2, <2>1, SlotLies
    <2>3. s > t
      BY <1>1, <1>3, <2>2
    <2> QED
      BY <1>5, <2>1, <2>3
  <1>8. PICK n : n = NextSlot(t)
    OBVIOUS
  <1>9. n = Min(ahead)
    BY <1>4, <1>7, <1>8 DEF NextSlot
  <1>10. n \in ahead /\ \A s \in Ahead(today) \cup Ahead(today + 1) : n <= s
    <2>1. \A s \in ahead : t <= s
      BY <1>5, <1>6
    <2>2. n \in ahead /\ \A s \in ahead : n <= s
      BY <1>6, <1>7, <1>9, <2>1, MinIsIn
    <2>3. ASSUME NEW s \in Ahead(today + 1), Ahead(today) # {}
          PROVE  n <= s
      <3>1. n \in SlotsOn(today)
        BY <1>5, <2>2, <2>3
      <3>2. n \in Int /\ n < today * DayLength + DayLength
        BY <1>2, <3>1, SlotLies
      <3>3. s \in Int /\ (today + 1) * DayLength <= s
        BY <1>2, <2>3, SlotLies
      <3> QED
        BY <1>1, <1>3, <3>2, <3>3
    <2> QED
      BY <1>5, <2>2, <2>3
  <1>11. PICK d \in {today, today + 1} : n \in SlotsOn(d)
    BY <1>5, <1>10
  <1>12. n \in Int /\ n > t /\ d \in Int
    BY <1>5, <1>6, <1>10, <1>11
  <1>13. d <= DayOf(n)
    BY <1>11, <1>12, SlotLies, DayIsLast
  <1>14. n \in RefSlots(t, n)
    BY <1>11, <1>12, <1>13, SlotIsOfReference
  <1>15. ASSUME NEW s \in RefSlots(t, n) PROVE s = n
    <2>1. PICK e \in DayOf(t - Jitter) .. DayOf(n) : s \in SlotsOn(e)
      BY DEF RefSlots
    <2>2. e \in Int
      BY <1>1, <1>12, <2>1, DayContains
    <2>3. /\ s \in Int /\ e * DayLength <= s /\ s < e * DayLength + DayLength
          /\ e * DayLength \in Int /\ (e + 1) * DayLength = e * DayLength + DayLength
      BY <1>1, <2>1, <2>2, SlotLies
    <2>4. t < s /\ s <= n
      BY DEF RefSlots
    <2>5. today * DayLength < (e + 1) * DayLength
      BY <1>1, <1>3, <2>3, <2>4
    <2>6. today < e + 1
      BY <2>2, <2>5, DaysAreOrdered
    <2>7. n < (today + 2) * DayLength
      <3>1. n < d * DayLength + DayLength /\ d * DayLength \in Int
        BY <1>1, <1>11, <1>12, SlotLies
      <3>2. (today + 2) * DayLength = (today + 1) * DayLength + DayLength
        BY <1>1
      <3>3. d * DayLength <= (today + 1) * DayLength
        <4>1. CASE d = today
          BY <1>1, <1>3, <4>1
        <4>2. CASE d = today + 1
          BY <1>1, <1>3, <4>2
        <4> QED
          BY <1>11, <4>1, <4>2
      <3> QED
        BY <1>1, <1>3, <1>12, <3>1, <3>2, <3>3
    <2>8. e * DayLength < (today + 2) * DayLength
      BY <1>1, <1>12, <2>3, <2>4, <2>7
    <2>9. e < today + 2
      BY <2>2, <2>8, DaysAreOrdered
    <2>10. e \in {today, today + 1}
      BY <2>2, <2>6, <2>9
    <2>11. s \in Ahead(today) \cup Ahead(today + 1)
      BY <2>1, <2>3, <2>4, <2>10
    <2> QED
      BY <1>10, <1>12, <2>3, <2>4, <2>11
  <1> QED
    BY <1>1, <1>8, <1>12, <1>14, <1>15

THEOREM NextRunIsNext == Spec => []NextIsTheNextSlot
  <1>1. TypeInv => NextIsTheNextSlot
    <2> SUFFICES ASSUME TypeInv, NoneCrossesMidnight
                 PROVE  NextSlot(now) # None /\ RefSlots(now, NextSlot(now)) = {NextSlot(now)}
      BY DEF NextIsTheNextSlot
    <2>1. Hashed /\ now \in Int
      BY PeriodIsLong DEF TypeInv, TypeOK, Hashed
    <2> QED
      BY <2>1, NextSlotIsNext
  <1> QED
    BY <1>1, InitTyped, StepTyped, PTL DEF Spec
=============================================================================
