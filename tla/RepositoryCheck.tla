-------------------------- MODULE RepositoryCheck --------------------------
(***************************************************************************)
(* What a machine knows about its bucket: whether it can be read back.     *)
(*                                                                         *)
(* A run that wrote a snapshot reads a slice of the bucket back, once a    *)
(* week.  Reading back needs the bucket to itself, so any lock makes it    *)
(* fail: one that a suspended or killed restic left behind, one of the     *)
(* daemon's twin `sion-backup run`, or one of a restore on another         *)
(* machine.  What is recorded is read by the rotation policy, where one    *)
(* verdict is the loudest thing the program says.                          *)
(***************************************************************************)
EXTENDS Naturals, FiniteSets

CONSTANTS
    Proc,           \* the daemon and `sion-backup run`
    Daemon,         \* the first of them
    Repository,     \* the buckets, in the order the machine is moved
    Home,           \* the first of them
    MaxFaults,      \* bound: everything that goes wrong or comes between, together
    None

ASSUME CheckAssumption ==
    /\ Home \in Repository /\ Daemon \in Proc
    /\ MaxFaults \in Nat
    /\ None \notin Repository

VARIABLES
    plan,           \* the repository the plan names
    locks,          \* the locks in each bucket: whose, and whether exclusive
    damaged,        \* the buckets whose data has rotted
    proc,           \* where each process is, and the bucket its run writes to
    integrity,      \* the stored verdict, its bucket, and whether it is a week old
    reports,        \* the buckets the dashboard was told are damaged
    cutOff,         \* history: buckets a check of which was cut off
    faults          \* how much has gone wrong so far

vars == <<plan, locks, damaged, proc, integrity, reports, cutOff, faults>>

Shared == "shared"
Exclusive == "exclusive"
Dead == "dead"              \* the owner of a lock whose process is gone
Elsewhere == "elsewhere"    \* the owner of a lock on another machine

Idle == [at |-> "idle", repo |-> Home]
NeverChecked == [repo |-> None, verdict |-> "none", fresh |-> FALSE]

TypeOK ==
    /\ plan \in Repository
    /\ locks \in [Repository ->
            SUBSET [by : Proc \cup {Dead, Elsewhere}, kind : {Shared, Exclusive}]]
    /\ damaged \in SUBSET Repository
    /\ proc \in [Proc -> [at : {"idle", "backup", "decide", "check", "reading",
                                "unlock", "recheck", "rereading"}, repo : Repository]]
    /\ integrity \in [repo : Repository \cup {None}, fresh : BOOLEAN,
                      verdict : {"none", "ok", "failed", "skipped"}]
    /\ reports \in SUBSET Repository
    /\ cutOff \in SUBSET Repository
    /\ faults \in 0 .. MaxFaults

-----------------------------------------------------------------------------
(* The stored verdict.                                                       *)

\* A verdict on another bucket is none.
Integrity(repo) == IF integrity.repo = repo THEN integrity ELSE NeverChecked

\* Mutant: what has failed needs no second look.
DueUnlessFailed(repo) == integrity.repo # repo \/ (~integrity.fresh /\ integrity.verdict # "failed")

Due(repo) == integrity.repo # repo \/ ~integrity.fresh

Failed(repo) == Integrity(repo).verdict = "failed"

-----------------------------------------------------------------------------
Init ==
    /\ plan = Home
    /\ locks = [r \in Repository |-> {}]
    /\ damaged = {} /\ reports = {} /\ cutOff = {}
    /\ proc = [p \in Proc |-> Idle]
    /\ integrity = NeverChecked
    /\ faults = 0

\* Something goes wrong.
Fault == faults < MaxFaults /\ faults' = faults + 1

\* The schedule starts the daemon's runs; a person starts the others.
Chosen(p) == IF p = Daemon THEN UNCHANGED faults ELSE Fault

At(p, where) == proc[p].at = where
Goto(p, where) ==
    proc' = [proc EXCEPT ![p] = IF where = "idle" THEN Idle ELSE [@ EXCEPT !.at = where]]

Lock(p, r, kind) == locks' = [locks EXCEPT ![r] = @ \cup {[by |-> p, kind |-> kind]}]
Unlock(p, r) == locks' = [locks EXCEPT ![r] = {l \in @ : l.by # p}]

\* restic is killed, and its locks stay.
Orphan(p) ==
    locks' = [r \in Repository |->
        {IF l.by = p THEN [l EXCEPT !.by = Dead] ELSE l : l \in locks[r]}]

\* restic calls a lock stale when its process is gone, and removes no other.
ClearStale(r) == locks' = [locks EXCEPT ![r] = {l \in @ : l.by # Dead}]

LockedFor(r, kind) ==
    \E l \in locks[r] : kind = Exclusive \/ l.kind = Exclusive

\* A backup shares its bucket.  Finding it locked, it clears what is stale and
\* leaves the backup to the next run.
BackupStarts(p) ==
    /\ At(p, "idle")
    /\ ~LockedFor(plan, Shared)
    /\ Chosen(p)
    /\ Lock(p, plan, Shared)
    /\ proc' = [proc EXCEPT ![p] = [at |-> "backup", repo |-> plan]]
    /\ UNCHANGED <<plan, damaged, integrity, reports, cutOff>>

BackupLocked(p) ==
    /\ At(p, "idle")
    /\ LockedFor(plan, Shared)
    /\ Chosen(p)
    /\ ClearStale(plan)
    /\ UNCHANGED <<plan, damaged, proc, integrity, reports, cutOff>>

BackupSucceeds(p) ==
    /\ At(p, "backup")
    /\ Unlock(p, proc[p].repo) /\ Goto(p, "decide")
    /\ UNCHANGED <<plan, damaged, integrity, reports, cutOff, faults>>

BackupFails(p) ==
    /\ At(p, "backup")
    /\ Fault
    /\ Unlock(p, proc[p].repo) /\ Goto(p, "idle")
    /\ UNCHANGED <<plan, damaged, integrity, reports, cutOff>>

Record(p, verdict) ==
    integrity' = [repo |-> proc[p].repo, verdict |-> verdict, fresh |-> TRUE]

\* Once a week, and not over a connection somebody pays for.
Decide(p) ==
    /\ At(p, "decide")
    /\ Goto(p, IF Due(proc[p].repo) THEN "check" ELSE "idle")
    /\ UNCHANGED <<plan, locks, damaged, integrity, reports, cutOff, faults>>

Metered(p) ==
    /\ At(p, "decide") /\ Due(proc[p].repo)
    /\ Fault
    /\ Record(p, "skipped") /\ Goto(p, "idle")
    /\ UNCHANGED <<plan, locks, damaged, reports, cutOff>>

CheckStarts(p) ==
    /\ At(p, "check") \/ At(p, "recheck")
    /\ ~LockedFor(proc[p].repo, Exclusive)
    /\ Lock(p, proc[p].repo, Exclusive)
    /\ Goto(p, IF At(p, "check") THEN "reading" ELSE "rereading")
    /\ UNCHANGED <<plan, damaged, integrity, reports, cutOff, faults>>

CheckLocked(p) ==
    /\ At(p, "check")
    /\ LockedFor(proc[p].repo, Exclusive)
    /\ Goto(p, "unlock")
    /\ UNCHANGED <<plan, locks, damaged, integrity, reports, cutOff, faults>>

\* Mutant: the lock is only waited for.
UnlocksNothing(p) ==
    /\ At(p, "unlock")
    /\ Goto(p, "recheck")
    /\ UNCHANGED <<plan, locks, damaged, integrity, reports, cutOff, faults>>

Unlocks(p) ==
    /\ At(p, "unlock")
    /\ ClearStale(proc[p].repo)
    /\ Goto(p, "recheck")
    /\ UNCHANGED <<plan, damaged, integrity, reports, cutOff, faults>>

UnlockFails(p) ==
    /\ At(p, "unlock")
    /\ Fault
    /\ Record(p, "skipped") /\ Goto(p, "idle")
    /\ UNCHANGED <<plan, locks, damaged, reports, cutOff>>

\* Mutant: a bucket still locked is a bucket that could not be read.
StillLockedIsDamage(p) ==
    /\ At(p, "recheck")
    /\ LockedFor(proc[p].repo, Exclusive)
    /\ Record(p, "failed") /\ Goto(p, "idle")
    /\ reports' = reports \cup {proc[p].repo}
    /\ UNCHANGED <<plan, locks, damaged, cutOff, faults>>

\* Somebody is working in there: check another time.
StillLocked(p) ==
    /\ At(p, "recheck")
    /\ LockedFor(proc[p].repo, Exclusive)
    /\ Record(p, "skipped") /\ Goto(p, "idle")
    /\ UNCHANGED <<plan, locks, damaged, reports, cutOff, faults>>

Reading(p) == At(p, "reading") \/ At(p, "rereading")

Passes(p) ==
    /\ Reading(p)
    /\ Unlock(p, proc[p].repo)
    /\ Record(p, "ok") /\ Goto(p, "idle")
    /\ UNCHANGED <<plan, damaged, reports, cutOff>>

CheckPasses(p) ==
    /\ proc[p].repo \notin damaged
    /\ Passes(p)
    /\ UNCHANGED faults

\* This week's slice was not one of those that have rotted.
CheckMisses(p) ==
    /\ proc[p].repo \in damaged
    /\ Fault
    /\ Passes(p)

CheckFinds(p) ==
    /\ Reading(p)
    /\ proc[p].repo \in damaged
    /\ Unlock(p, proc[p].repo)
    /\ Record(p, "failed") /\ Goto(p, "idle")
    /\ reports' = reports \cup {proc[p].repo}
    /\ UNCHANGED <<plan, damaged, cutOff, faults>>

\* restic ends for a reason of its own: the network goes, or the daemon is being
\* stopped and its context kills it.  Anything that is not a lock is recorded as
\* damage; under a cancelled context the report is made and the record is not.
CheckCutOff(p) ==
    /\ At(p, "check") \/ At(p, "recheck") \/ Reading(p)
    /\ Fault
    /\ cutOff' = cutOff \cup {proc[p].repo}
    /\ Unlock(p, proc[p].repo) \/ Orphan(p)
    /\ Record(p, "failed") \/ UNCHANGED integrity
    /\ reports' = reports \cup {proc[p].repo}
    /\ Goto(p, "idle")
    /\ UNCHANGED <<plan, damaged>>

-----------------------------------------------------------------------------
\* A process is killed, or its machine loses power; restic's lock stays.
Dies(p) ==
    /\ ~At(p, "idle")
    /\ Fault
    /\ Orphan(p) /\ Goto(p, "idle")
    /\ UNCHANGED <<plan, damaged, integrity, reports, cutOff>>

RestoreElsewhere ==
    /\ ~LockedFor(plan, Shared)
    /\ Fault
    /\ Lock(Elsewhere, plan, Shared)
    /\ UNCHANGED <<plan, damaged, proc, integrity, reports, cutOff>>

RestoreEnds ==
    /\ \E r \in Repository :
          /\ \E l \in locks[r] : l.by = Elsewhere
          /\ Unlock(Elsewhere, r)
    /\ UNCHANGED <<plan, damaged, proc, integrity, reports, cutOff, faults>>

Rots ==
    /\ damaged' = damaged \cup {plan}
    /\ damaged' # damaged
    /\ UNCHANGED <<plan, locks, proc, integrity, reports, cutOff, faults>>

WeekPasses ==
    /\ integrity' = [integrity EXCEPT !.fresh = FALSE]
    /\ UNCHANGED <<plan, locks, damaged, proc, reports, cutOff, faults>>

\* The machine is moved to a fresh bucket, beside runs that began before.
Moves ==
    /\ plan = Home
    /\ plan' \in Repository \ {Home}
    /\ UNCHANGED <<locks, damaged, proc, integrity, reports, cutOff, faults>>

Step(p) ==
    \/ BackupStarts(p) \/ BackupLocked(p) \/ BackupSucceeds(p)
    \/ Decide(p)
    \/ CheckStarts(p) \/ CheckLocked(p) \/ Unlocks(p) \/ StillLocked(p)
    \/ CheckPasses(p) \/ CheckFinds(p)

GoesWrong(p) ==
    BackupFails(p) \/ Metered(p) \/ UnlockFails(p) \/ CheckMisses(p) \/ CheckCutOff(p) \/ Dies(p)

Environment == RestoreElsewhere \/ RestoreEnds \/ Rots \/ WeekPasses \/ Moves

Next ==
    \/ \E p \in Proc : Step(p) \/ GoesWrong(p)
    \/ Environment

\* The daemon keeps taking backups, what was started comes to an end, restores end
\* and the weeks pass.
Fairness ==
    /\ WF_vars(WeekPasses) /\ WF_vars(RestoreEnds)
    /\ \A p \in Proc : WF_vars(Step(p))

Spec == Init /\ [][Next]_vars /\ Fairness

-----------------------------------------------------------------------------
\* A lock is not damage: whoever holds it, whoever left it behind, and however
\* often the bucket changed hands meanwhile, nothing is called damaged but a bucket
\* that is, and one whose check was cut off.
LockIsNotDamage ==
    /\ reports \subseteq damaged \cup cutOff
    /\ integrity.verdict = "failed" => integrity.repo \in damaged \cup cutOff

\* Integrity.Failed is "the narrow case: restic read the repository back and could
\* not put it together".
DamageIsReal ==
    /\ reports \subseteq damaged
    /\ integrity.verdict = "failed" => integrity.repo \in damaged

\* Rot in the bucket in use is found, and found again after a slice that missed
\* it, whatever locks are left behind.
RotIsFound ==
    \A r \in Repository : <>[](plan = r /\ r \in damaged) => []<>Failed(r)

\* An alarm over a sound bucket, raised by a check that was cut off, does not last:
\* a later week's check takes it back.
FalseAlarmPasses ==
    \A r \in Repository : <>[](plan = r /\ r \notin damaged) => <>[]~Failed(r)
=============================================================================
