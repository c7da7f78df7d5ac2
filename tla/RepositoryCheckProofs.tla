------------------------ MODULE RepositoryCheckProofs ------------------------
(***************************************************************************)
(* Theorems about RepositoryCheck, for any number of processes, buckets    *)
(* and faults: its state stays well-formed, and no lock is called damage.  *)
(***************************************************************************)
EXTENDS RepositoryCheck, TLAPS

(***************************************************************************)
(* Type correctness.                                                       *)
(***************************************************************************)
LockRow == [by : Proc \cup {Dead, Elsewhere}, kind : {Shared, Exclusive}]
Where == {"idle", "backup", "decide", "check", "reading", "unlock", "recheck", "rereading"}

(* Every way in which a step touches the locks of a bucket.                *)
LEMMA LocksTyped ==
    ASSUME TypeOK,
           NEW r \in Repository, NEW p \in Proc \cup {Elsewhere},
           \/ \E kind \in {Shared, Exclusive} : Lock(p, r, kind)
           \/ Unlock(p, r)
           \/ Orphan(p)
           \/ ClearStale(r)
    PROVE  locks' \in [Repository -> SUBSET LockRow]
  <1>1. locks \in [Repository -> SUBSET LockRow]
    BY DEF TypeOK, LockRow
  <1>2. ASSUME NEW kind \in {Shared, Exclusive}, Lock(p, r, kind)
        PROVE  locks' \in [Repository -> SUBSET LockRow]
    <2>1. [by |-> p, kind |-> kind] \in LockRow
      BY DEF LockRow
    <2> QED
      BY <1>1, <1>2, <2>1 DEF Lock
  <1>3. CASE Unlock(p, r)
    BY <1>1, <1>3 DEF Unlock
  <1>4. CASE Orphan(p)
    <2>1. \A l \in LockRow : [l EXCEPT !.by = Dead] \in LockRow
      BY DEF LockRow
    <2> QED
      BY <1>1, <1>4, <2>1 DEF Orphan
  <1>5. CASE ClearStale(r)
    BY <1>1, <1>5 DEF ClearStale
  <1> QED
    BY <1>2, <1>3, <1>4, <1>5

(* A process goes on to another place with the bucket it had.              *)
LEMMA GotoTyped ==
    ASSUME TypeOK, NEW p \in Proc, NEW where \in Where, Goto(p, where)
    PROVE  proc' \in [Proc -> [at : Where, repo : Repository]]
  <1>1. proc \in [Proc -> [at : Where, repo : Repository]]
    BY DEF TypeOK, Where
  <1>2. Idle \in [at : Where, repo : Repository]
    BY CheckAssumption DEF Idle, Where
  <1>3. [proc[p] EXCEPT !.at = where] \in [at : Where, repo : Repository]
    BY <1>1
  <1> QED
    BY <1>1, <1>2, <1>3 DEF Goto

LEMMA TypeInit == Init => TypeOK
  <1> SUFFICES ASSUME Init PROVE TypeOK
    OBVIOUS
  <1>1. proc \in [Proc -> [at : Where, repo : Repository]]
    BY CheckAssumption DEF Init, Idle, Where
  <1>2. integrity \in [repo : Repository \cup {None}, fresh : BOOLEAN,
                       verdict : {"none", "ok", "failed", "skipped"}]
    BY DEF Init, NeverChecked
  <1> QED
    BY <1>1, <1>2, CheckAssumption DEF Init, TypeOK, Where

(* What a step of a process may do to each variable.                       *)
LEMMA StepTyped ==
    ASSUME TypeOK, NEW p \in Proc,
           Step(p) \/ GoesWrong(p)
    PROVE  TypeOK'
  <1> DEFINE AllLocks == [Repository -> SUBSET LockRow]
             AllProcs == [Proc -> [at : Where, repo : Repository]]
             Verdict == [repo : Repository \cup {None}, fresh : BOOLEAN,
                         verdict : {"none", "ok", "failed", "skipped"}]
  <1>t. /\ plan \in Repository /\ locks \in AllLocks /\ damaged \in SUBSET Repository
        /\ proc \in AllProcs /\ integrity \in Verdict
        /\ reports \in SUBSET Repository /\ cutOff \in SUBSET Repository
        /\ faults \in 0 .. MaxFaults
    BY DEF TypeOK, LockRow, Where
  <1>r. proc[p].repo \in Repository
    BY <1>t
  <1>s. plan' = plan /\ damaged' = damaged
    BY DEF Step, GoesWrong, BackupStarts, BackupLocked, BackupSucceeds, BackupFails, Decide,
           Metered, CheckStarts, CheckLocked, Unlocks, UnlockFails, StillLocked, Passes,
           CheckPasses, CheckMisses, CheckFinds, CheckCutOff, Dies
  <1>f. faults' \in 0 .. MaxFaults
    <2>1. faults' = faults \/ Fault
      BY DEF Step, GoesWrong, BackupStarts, BackupLocked, BackupSucceeds, BackupFails, Decide,
             Metered, CheckStarts, CheckLocked, Unlocks, UnlockFails, StillLocked, Passes,
             CheckPasses, CheckMisses, CheckFinds, CheckCutOff, Dies, Chosen
    <2> QED
      BY <1>t, <2>1, CheckAssumption DEF Fault
  <1>v. integrity' \in Verdict
    <2>1. \/ integrity' = integrity
          \/ \E v \in {"ok", "failed", "skipped"} : Record(p, v)
      BY DEF Step, GoesWrong, BackupStarts, BackupLocked, BackupSucceeds, BackupFails, Decide,
             Metered, CheckStarts, CheckLocked, Unlocks, UnlockFails, StillLocked, Passes,
             CheckPasses, CheckMisses, CheckFinds, CheckCutOff, Dies
    <2>2. CASE integrity' = integrity
      BY <1>t, <2>2
    <2>3. ASSUME NEW v \in {"ok", "failed", "skipped"}, Record(p, v)
          PROVE  integrity' \in Verdict
      BY <1>r, <2>3 DEF Record
    <2> QED
      BY <2>1, <2>2, <2>3
  <1>c. cutOff' \in SUBSET Repository /\ reports' \in SUBSET Repository
    <2>1. /\ cutOff' \in {cutOff, cutOff \cup {proc[p].repo}}
          /\ reports' \in {reports, reports \cup {proc[p].repo}}
      BY DEF Step, GoesWrong, BackupStarts, BackupLocked, BackupSucceeds, BackupFails, Decide,
             Metered, CheckStarts, CheckLocked, Unlocks, UnlockFails, StillLocked, Passes,
             CheckPasses, CheckMisses, CheckFinds, CheckCutOff, Dies
    <2> QED
      BY <1>t, <1>r, <2>1
  <1>l. locks' \in AllLocks
    <2>1. \/ locks' = locks
          \/ \E r \in {plan, proc[p].repo} :
                \/ \E kind \in {Shared, Exclusive} : Lock(p, r, kind)
                \/ Unlock(p, r) \/ ClearStale(r)
          \/ Orphan(p)
      BY DEF Step, GoesWrong, BackupStarts, BackupLocked, BackupSucceeds, BackupFails, Decide,
             Metered, CheckStarts, CheckLocked, Unlocks, UnlockFails, StillLocked, Passes,
             CheckPasses, CheckMisses, CheckFinds, CheckCutOff, Dies
    <2>2. CASE locks' = locks
      BY <1>t, <2>2
    <2>3. CASE Orphan(p)
      BY <1>t, <2>3, LocksTyped
    <2>4. ASSUME NEW r \in {plan, proc[p].repo},
                 (\E kind \in {Shared, Exclusive} : Lock(p, r, kind)) \/ Unlock(p, r) \/ ClearStale(r)
          PROVE  locks' \in AllLocks
      <3>1. r \in Repository
        BY <1>t, <1>r
      <3> QED
        BY <2>4, <3>1, LocksTyped
    <2> QED
      BY <2>1, <2>2, <2>3, <2>4
  <1>p. proc' \in AllProcs
    <2>1. \/ proc' = proc
          \/ proc' = [proc EXCEPT ![p] = [at |-> "backup", repo |-> plan]]
          \/ \E where \in Where : Goto(p, where)
      BY DEF Step, GoesWrong, BackupStarts, BackupLocked, BackupSucceeds, BackupFails, Decide,
             Metered, CheckStarts, CheckLocked, Unlocks, UnlockFails, StillLocked, Passes,
             CheckPasses, CheckMisses, CheckFinds, CheckCutOff, Dies, Where
    <2>2. CASE proc' = [proc EXCEPT ![p] = [at |-> "backup", repo |-> plan]]
      <3>1. [at |-> "backup", repo |-> plan] \in [at : Where, repo : Repository]
        BY <1>t DEF Where
      <3> QED
        BY <1>t, <2>2, <3>1
    <2> QED
      BY <1>t, <2>1, <2>2, GotoTyped
  <1> QED
    BY <1>s, <1>t, <1>f, <1>v, <1>c, <1>l, <1>p DEF TypeOK, LockRow, Where

LEMMA EnvironmentTyped ==
    ASSUME TypeOK, Environment
    PROVE  TypeOK'
  <1>1. CASE RestoreElsewhere
    <2>1. locks' \in [Repository -> SUBSET LockRow]
      <3>1. plan \in Repository /\ Elsewhere \in Proc \cup {Elsewhere}
        BY DEF TypeOK
      <3>2. \E kind \in {Shared, Exclusive} : Lock(Elsewhere, plan, kind)
        BY <1>1 DEF RestoreElsewhere
      <3> QED
        BY <3>1, <3>2, LocksTyped
    <2>2. faults' \in 0 .. MaxFaults
      BY <1>1, CheckAssumption DEF RestoreElsewhere, Fault, TypeOK
    <2> QED
      BY <1>1, <2>1, <2>2 DEF RestoreElsewhere, TypeOK, LockRow
  <1>2. CASE RestoreEnds
    <2>1. PICK r \in Repository : Unlock(Elsewhere, r)
      BY <1>2 DEF RestoreEnds
    <2>2. locks' \in [Repository -> SUBSET LockRow]
      BY <2>1, LocksTyped
    <2> QED
      BY <1>2, <2>2 DEF RestoreEnds, TypeOK, LockRow
  <1>3. CASE Rots
    BY <1>3 DEF Rots, TypeOK
  <1>4. CASE WeekPasses
    BY <1>4 DEF WeekPasses, TypeOK
  <1>5. CASE Moves
    BY <1>5 DEF Moves, TypeOK
  <1> QED
    BY <1>1, <1>2, <1>3, <1>4, <1>5 DEF Environment

LEMMA TypeStep == TypeOK /\ [Next]_vars => TypeOK'
  <1> SUFFICES ASSUME TypeOK, [Next]_vars PROVE TypeOK'
    OBVIOUS
  <1>1. CASE UNCHANGED vars
    BY <1>1 DEF vars, TypeOK
  <1>2. CASE Next
    BY <1>2, StepTyped, EnvironmentTyped DEF Next
  <1> QED
    BY <1>1, <1>2

(* The state of RepositoryCheck is well-formed, for any constants.         *)
THEOREM TypeCorrect == Spec => []TypeOK
  BY TypeInit, TypeStep, PTL DEF Spec

(***************************************************************************)
(* No lock is called damage.                                               *)
(***************************************************************************)
(* The verdict of a step is "failed" only where the bucket is damaged or   *)
(* the check was cut off; that these two never shrink does the rest.       *)
LEMMA LockStep == TypeOK /\ LockIsNotDamage /\ [Next]_vars => LockIsNotDamage'
  <1> SUFFICES ASSUME TypeOK, LockIsNotDamage, [Next]_vars PROVE LockIsNotDamage'
    OBVIOUS
  <1>1. damaged \subseteq damaged' /\ cutOff \subseteq cutOff'
    BY DEF Next, vars, Environment, RestoreElsewhere, RestoreEnds, Rots, WeekPasses, Moves, Step,
           GoesWrong, BackupStarts, BackupLocked, BackupSucceeds, BackupFails, Decide, Metered,
           CheckStarts, CheckLocked, Unlocks, UnlockFails, StillLocked, Passes, CheckPasses,
           CheckMisses, CheckFinds, CheckCutOff, Dies
  <1>2. CASE reports' = reports /\ (integrity' = integrity \/ WeekPasses)
    <2>1. integrity'.verdict = integrity.verdict /\ integrity'.repo = integrity.repo
      BY <1>2 DEF WeekPasses, TypeOK
    <2> QED
      BY <1>1, <1>2, <2>1 DEF LockIsNotDamage
  <1>3. ASSUME NEW p \in Proc, CheckFinds(p) \/ CheckCutOff(p)
        PROVE  LockIsNotDamage'
    <2>1. proc[p].repo \in damaged' \cup cutOff'
      BY <1>3 DEF CheckFinds, CheckCutOff
    <2>2. reports' = reports \cup {proc[p].repo}
      BY <1>3 DEF CheckFinds, CheckCutOff
    <2>3. integrity' = integrity \/ integrity'.repo = proc[p].repo
      BY <1>3 DEF CheckFinds, CheckCutOff, Record
    <2> QED
      BY <1>1, <2>1, <2>2, <2>3 DEF LockIsNotDamage
  <1>4. ASSUME NEW p \in Proc, NEW v \in {"ok", "skipped"}, Record(p, v), reports' = reports
        PROVE  LockIsNotDamage'
    BY <1>1, <1>4 DEF LockIsNotDamage, Record
  <1>5. \/ reports' = reports /\ (integrity' = integrity \/ WeekPasses)
        \/ \E p \in Proc : CheckFinds(p) \/ CheckCutOff(p)
        \/ reports' = reports /\ \E p \in Proc, v \in {"ok", "skipped"} : Record(p, v)
    BY DEF Next, vars, Environment, RestoreElsewhere, RestoreEnds, Rots, WeekPasses, Moves, Step,
           GoesWrong, BackupStarts, BackupLocked, BackupSucceeds, BackupFails, Decide, Metered,
           CheckStarts, CheckLocked, Unlocks, UnlockFails, StillLocked, Passes, CheckPasses,
           CheckMisses, Dies
  <1> QED
    BY <1>2, <1>3, <1>4, <1>5

(* Whoever holds a lock, and whoever left one behind, only a bucket that   *)
(* is damaged or whose check was cut off is ever called damaged.           *)
THEOREM NoLockIsDamage == Spec => []LockIsNotDamage
  <1>1. Init => LockIsNotDamage
    BY DEF Init, NeverChecked, LockIsNotDamage
  <1> QED
    BY <1>1, TypeInit, TypeStep, LockStep, PTL DEF Spec
=============================================================================
