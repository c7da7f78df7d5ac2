----------------------------- MODULE BackupRuns -----------------------------
(***************************************************************************)
(* The life of a backup in the daemon (cmd/sion-backup/daemon.go): how an  *)
(* attempt is started by the scheduler or by the status page, the single-  *)
(* flight guard and the Cancel button of backupbus.Runner, the row each    *)
(* attempt leaves in the run history, and the two ways the fleet dashboard *)
(* is told about it: by the goroutine that took the backup, and by the     *)
(* flusher.  The process may be shut down, crash, and be started again at  *)
(* any point; a write to the local database may fail.                      *)
(*                                                                         *)
(* A worker is a goroutine running deps.backup.  An attempt is one call of *)
(* it, and its number stands for the run UUID once one has been minted.    *)
(*                                                                         *)
(* Left out here and modelled elsewhere, or listed as not modelled in the  *)
(* README: what a plan says and whether it permits a scheduled run (a tick *)
(* it forbids changes nothing), the credentials, and the maintenance done  *)
(* after a report (measure, checkRepository, releaseOldBucket, selfUpdate) *)
(***************************************************************************)
EXTENDS Integers, FiniteSets, Sequences

CONSTANTS
    Worker,         \* goroutines that may be inside deps.backup at one time
    MaxRuns,        \* bound: attempts in a behaviour
    MaxFaults,      \* bound: crashes, shutdowns and failed database writes
    FlushLimit,     \* how many rows one flush reads (50 in daemon.go)
    BackupResult,   \* what restic backup may come back with
    Readback        \* what an undisturbed verification may find

ASSUME RunsAssumption ==
    /\ MaxRuns \in Nat \ {0}
    /\ MaxFaults \in Nat
    /\ FlushLimit \in Nat \ {0}
    /\ BackupResult \subseteq {"scratch", "failed", "incomplete", "complete", "fellback"}
    /\ "failed" \in BackupResult
    /\ Readback \subseteq BOOLEAN /\ Readback # {}

VARIABLES
    mode,           \* the process: "up", "stopping" (its context is cancelled), "down"
    due,            \* a slot of the schedule is later than the newest row
    pc,             \* pc[w]: where worker w is in deps.backup
    job,            \* job[w]: the attempt w works on
    lastAttempt,    \* attempts so far
    running,        \* Runner.running, the single-flight guard
    cancelPtr,      \* Runner.cancel: the attempt it would stop, 0 for nil
    cancelled,      \* attempts whose context was cancelled by Cancel
    run,            \* the run table, in order of row id
    queue,          \* rows the flusher has read and not yet dealt with
    flushing,       \* the flusher's next step: "send" or "mark"
    started,        \* attempts whose start the dashboard has
    heard,          \* finished events in the order the dashboard took them
    faults          \* faults so far

process == <<mode, faults>>
workers == <<pc, job, lastAttempt>>
runner  == <<running, cancelPtr, cancelled>>
flusher == <<queue, flushing>>
fleet   == <<started, heard>>
vars    == <<mode, due, pc, job, lastAttempt, running, cancelPtr, cancelled,
             run, queue, flushing, started, heard, faults>>

Attempt == 1..MaxRuns

Outcome == {"success", "degraded", "incomplete", "unverified", "failed", "cancelled"}

PC == {"idle", "prepare", "announce", "claim", "arm", "create", "backup", "verify",
       "finish", "disarm", "release", "report", "mark", "failCreate", "failFinish"}

Job == [attempt : 0..MaxRuns,   \* 0: none
        named   : BOOLEAN,      \* a run UUID has been minted
        row     : Nat,          \* the row written for it, 0: none
        outcome : Outcome]

Row == [status   : {"open", "closed"},
        attempt  : Attempt,
        named    : BOOLEAN,
        outcome  : Outcome,
        reported : BOOLEAN]

History == Seq(Row)

\* The server knows five outcomes; "cancelled" is not one of them.
Heard == [attempt : Attempt, outcome : Outcome \ {"cancelled"}]

Events == Seq(Heard)

NoJob == [attempt |-> 0, named |-> FALSE, row |-> 0, outcome |-> "failed"]

TypeOK ==
    /\ mode \in {"up", "stopping", "down"}
    /\ due \in BOOLEAN
    /\ pc \in [Worker -> PC]
    /\ job \in [Worker -> Job]
    /\ lastAttempt \in 0..MaxRuns
    /\ running \in BOOLEAN
    /\ cancelPtr \in 0..MaxRuns
    /\ cancelled \subseteq Attempt
    /\ run \in History
    /\ queue \subseteq DOMAIN run
    /\ flushing \in {"send", "mark"}
    /\ started \subseteq Attempt
    /\ heard \in Events
    /\ faults \in 0..MaxFaults

Init ==
    /\ mode = "up"
    /\ due = FALSE
    /\ pc = [w \in Worker |-> "idle"]
    /\ job = [w \in Worker |-> NoJob]
    /\ lastAttempt = 0
    /\ running = FALSE
    /\ cancelPtr = 0
    /\ cancelled = {}
    /\ run = <<>>
    /\ queue = {}
    /\ flushing = "send"
    /\ started = {}
    /\ heard = <<>>
    /\ faults = 0

-----------------------------------------------------------------------------
(* Helpers.                                                                *)

\* A worker takes its next step in deps.backup.
Moves(w, from, to) == pc[w] = from /\ pc' = [pc EXCEPT ![w] = to]

\* deps.backup returns, and its goroutine with it.
Returns(w) == pc' = [pc EXCEPT ![w] = "idle"] /\ job' = [job EXCEPT ![w] = NoJob]

\* A call under the daemon's context, or a database write, that does not succeed:
\* free once the context is cancelled, otherwise one of the bounded faults.
ContextOrDatabaseFails ==
    \/ mode = "stopping" /\ UNCHANGED faults
    \/ mode = "up" /\ faults < MaxFaults /\ faults' = faults + 1

\* Two mistaken variants, for the mutated specifications described below: a
\* cancelled run told as a sixth outcome, and rows told before they have one.
ReportedAsIs(o) == o
UnreportedOrOpen == {i \in DOMAIN run : ~run[i].reported}

\* The outcome as the dashboard is told it: a cancelled run is a failed one.
Reported(o) == IF o = "cancelled" THEN "failed" ELSE o

\* The rows the dashboard should still be told about.
Unreported == {i \in DOMAIN run : run[i].status = "closed" /\ ~run[i].reported}

\* One flush reads the oldest of them.
OldestUnreported ==
    {i \in Unreported : Cardinality({j \in Unreported : j < i}) < FlushLimit}

Oldest(S) == CHOOSE i \in S : \A j \in S : i <= j

\* The dashboard takes a finished event; a repeat of one it has changes nothing.
TakeFinished(i) ==
    IF \E k \in 1..Len(heard) : heard[k].attempt = run[i].attempt
    THEN heard
    ELSE Append(heard, [attempt |-> run[i].attempt, outcome |-> Reported(run[i].outcome)])

\* The run table's INSERT.  The row starts out as a failure.
OpenRow(w) ==
    /\ run' = Append(run, [status |-> "open", attempt |-> job[w].attempt,
                           named |-> job[w].named, outcome |-> "failed",
                           reported |-> FALSE])
    /\ job' = [job EXCEPT ![w].row = Len(run')]
    /\ due' = FALSE

\* The run table's UPDATE with an outcome.
CloseRow(w) ==
    run' = [run EXCEPT ![job[w].row].status = "closed",
                       ![job[w].row].outcome = job[w].outcome]

SetReported(i) == run' = [run EXCEPT ![i].reported = TRUE]

-----------------------------------------------------------------------------
(* Mistakes this code could plausibly have made.  No specification uses    *)
(* them: each stands for one definition below in a mutated specification,  *)
(* and shows that the properties would notice.                             *)

\* The guard is set, but was not looked at in the same instruction.
ClaimWithoutLooking(w) ==
    /\ Moves(w, "claim", "arm")
    /\ running' = TRUE
    /\ UNCHANGED <<process, due, job, lastAttempt, cancelPtr, cancelled, run, flusher, fleet>>

\* The run's context is never stored where Cancel looks.
ArmForgotten(w) ==
    /\ Moves(w, "arm", "create")
    /\ UNCHANGED <<process, due, job, lastAttempt, runner, run, flusher, fleet>>

\* A cancelled run returns without being finished.
BackupReturnsEarly(w) ==
    /\ pc[w] = "backup"
    /\ pc' = [pc EXCEPT ![w] =
                 IF job[w].attempt \in cancelled THEN "disarm" ELSE "finish"]
    /\ UNCHANGED <<process, due, job, lastAttempt, runner, run, flusher, fleet>>

\* A run whose outcome could not be written is recorded as a failed start too.
ReleaseRecordsAgain(w) ==
    /\ pc[w] = "release"
    /\ running' = FALSE
    /\ pc' = [pc EXCEPT ![w] = IF job[w].row = 0 THEN "failCreate" ELSE "report"]
    /\ UNCHANGED <<process, due, job, lastAttempt, cancelPtr, cancelled, run, flusher, fleet>>

\* The guard is released on the path that recorded a run, and on no other.
ReleaseIfRecorded(w) ==
    /\ pc[w] = "release"
    /\ IF job[w].row = 0
       THEN Returns(w) /\ UNCHANGED running
       ELSE pc' = [pc EXCEPT ![w] = "report"] /\ running' = FALSE /\ UNCHANGED job
    /\ UNCHANGED <<process, due, lastAttempt, cancelPtr, cancelled, run, flusher, fleet>>

\* The row is marked whether or not the report went through.
ReportUnheard(w) ==
    /\ pc[w] = "report"
    /\ pc' = [pc EXCEPT ![w] = "mark"]
    /\ UNCHANGED <<process, due, job, lastAttempt, runner, run, flusher, fleet>>

\* A flush marks what it could not send and carries on.
FlushSkips ==
    /\ mode # "down" /\ queue # {} /\ flushing = "send"
    /\ flushing' = "mark"
    /\ UNCHANGED <<process, due, workers, runner, run, queue, fleet>>

\* A rejection is a failure like any other: the row stays at the head.
FlushDeliversNamed ==
    /\ mode = "up" /\ queue # {} /\ flushing = "send"
    /\ run[Oldest(queue)].named
    /\ heard' = TakeFinished(Oldest(queue))
    /\ flushing' = "mark"
    /\ UNCHANGED <<process, due, workers, runner, run, queue, started>>

-----------------------------------------------------------------------------
(* Starting an attempt.                                                    *)

\* Time reaches a slot of the schedule.
SlotArrives ==
    /\ ~due
    /\ due' = TRUE
    /\ UNCHANGED <<process, workers, runner, run, flusher, fleet>>

Spawn(w) ==
    /\ ~running
    /\ lastAttempt < MaxRuns
    /\ Moves(w, "idle", "prepare")
    /\ lastAttempt' = lastAttempt + 1
    /\ job' = [job EXCEPT ![w].attempt = lastAttempt + 1]
    /\ UNCHANGED <<process, due, runner, run, flusher, fleet>>

\* A tick of the scheduler that finds a run due.  The guard it reads is not
\* the one Claim takes: everything in between happens in a new goroutine.
MaybeRun(w) == mode = "up" /\ due /\ Spawn(w)

\* "Back up now".  Its plan is read under the request's context, so it still
\* spawns in the moments between the shutdown and the exit.
StartRun(w) == mode \in {"up", "stopping"} /\ Spawn(w)

\* Runnable, ensureRestic and the credential fetch fail before a UUID exists;
\* openRepository fails after.  Either way there is no backup, and backup()
\* records the failed start.
PrepareFails(w) ==
    /\ Moves(w, "prepare", "failCreate")
    /\ \E minted \in BOOLEAN : job' = [job EXCEPT ![w].named = minted]
    /\ UNCHANGED <<process, due, lastAttempt, runner, run, flusher, fleet>>

PrepareSucceeds(w) ==
    /\ mode = "up"
    /\ Moves(w, "prepare", "announce")
    /\ job' = [job EXCEPT ![w].named = TRUE]
    /\ UNCHANGED <<process, due, lastAttempt, runner, run, flusher, fleet>>

\* RecordFailedStart: two writes, neither of them shielded from a shutdown.
FailedStartCreate(w) ==
    /\ pc[w] = "failCreate"
    /\ \/ mode = "up" /\ OpenRow(w) /\ pc' = [pc EXCEPT ![w] = "failFinish"] /\ UNCHANGED faults
       \/ ContextOrDatabaseFails /\ Returns(w) /\ UNCHANGED <<run, due>>
    /\ UNCHANGED <<mode, lastAttempt, runner, flusher, fleet>>

FailedStartFinish(w) ==
    /\ pc[w] = "failFinish"
    /\ \/ mode = "up" /\ CloseRow(w) /\ UNCHANGED faults
       \/ ContextOrDatabaseFails /\ UNCHANGED run
    /\ Returns(w)
    /\ UNCHANGED <<mode, due, lastAttempt, runner, flusher, fleet>>

\* The dashboard is told of the start before the start, and whether it heard
\* is not looked at.
Announce(w) ==
    /\ Moves(w, "announce", "claim")
    /\ \/ mode = "up" /\ started' = started \cup {job[w].attempt}
       \/ UNCHANGED started
    /\ UNCHANGED <<process, due, job, lastAttempt, runner, run, flusher, heard>>

-----------------------------------------------------------------------------
(* backupbus.Runner.Run.                                                   *)

\* The compare-and-swap.
ClaimRefused(w) ==
    /\ pc[w] = "claim" /\ running
    /\ Returns(w)
    /\ UNCHANGED <<process, due, lastAttempt, runner, run, flusher, fleet>>

Claim(w) ==
    /\ ~running
    /\ Moves(w, "claim", "arm")
    /\ running' = TRUE
    /\ UNCHANGED <<process, due, job, lastAttempt, cancelPtr, cancelled, run, flusher, fleet>>

\* The run's own context is stored where Cancel finds it.
Arm(w) ==
    /\ Moves(w, "arm", "create")
    /\ cancelPtr' = job[w].attempt
    /\ UNCHANGED <<process, due, job, lastAttempt, running, cancelled, run, flusher, fleet>>

Create(w) ==
    /\ pc[w] = "create"
    /\ \/ /\ mode = "up"
          /\ OpenRow(w)
          /\ pc' = [pc EXCEPT ![w] = "backup"]
          /\ UNCHANGED faults
       \/ /\ ContextOrDatabaseFails
          /\ pc' = [pc EXCEPT ![w] = "disarm"]
          /\ UNCHANGED <<job, run, due>>
    /\ UNCHANGED <<mode, lastAttempt, runner, flusher, fleet>>

\* The outcome execute settles on before verification.  The look at the cause
\* of the context comes after restic returns and before its result is read,
\* except that a scratch directory that cannot be prepared ends it first.  A
\* repository found locked is one of the failures: its lock is cleared, and the
\* run still failed.
OutcomeOf(w, r) ==
    CASE r = "scratch" -> "failed"
      [] r # "scratch" /\ job[w].attempt \in cancelled -> "cancelled"
      [] OTHER -> CASE r = "complete" -> "success"
                    [] r = "fellback" -> "degraded"
                    [] r = "incomplete" -> "incomplete"
                    [] OTHER -> "failed"

Snapshotted == {"success", "degraded", "incomplete"}

Backup(w) ==
    /\ pc[w] = "backup"
    /\ \E r \in BackupResult :
          /\ job' = [job EXCEPT ![w].outcome = OutcomeOf(w, r)]
          /\ pc' = [pc EXCEPT ![w] =
                       IF OutcomeOf(w, r) \in Snapshotted THEN "verify" ELSE "finish"]
    /\ UNCHANGED <<process, due, lastAttempt, runner, run, flusher, fleet>>

\* The restore runs under the run's context, so a Cancel or a shutdown that
\* arrives now can make it fail; the cause is not looked at again.
Verify(w) ==
    /\ Moves(w, "verify", "finish")
    /\ \/ TRUE \in Readback /\ UNCHANGED job
       \/ /\ FALSE \in Readback \/ job[w].attempt \in cancelled \/ mode = "stopping"
          /\ job' = [job EXCEPT ![w].outcome = "unverified"]
    /\ UNCHANGED <<process, due, lastAttempt, runner, run, flusher, fleet>>

\* The write that ends a run is shielded from the shutdown (WithoutCancel),
\* not from a database that will not take it.
Finish(w) ==
    /\ Moves(w, "finish", "disarm")
    /\ \/ CloseRow(w) /\ UNCHANGED <<job, faults>>
       \/ /\ faults < MaxFaults /\ faults' = faults + 1
          /\ job' = [job EXCEPT ![w].row = 0]
          /\ UNCHANGED run
    /\ UNCHANGED <<mode, due, lastAttempt, runner, flusher, fleet>>

\* The deferred calls, last registered first: the pointer, then the guard.
Disarm(w) ==
    /\ Moves(w, "disarm", "release")
    /\ cancelPtr' = 0
    /\ UNCHANGED <<process, due, job, lastAttempt, running, cancelled, run, flusher, fleet>>

Release(w) ==
    /\ pc[w] = "release"
    /\ running' = FALSE
    /\ IF job[w].row = 0
       THEN Returns(w)
       ELSE pc' = [pc EXCEPT ![w] = "report"] /\ UNCHANGED job
    /\ UNCHANGED <<process, due, lastAttempt, cancelPtr, cancelled, run, flusher, fleet>>

\* Runner.Cancel.  On a daemon that is stopping it changes nothing: the first
\* cause a context is cancelled with is the one it keeps.
Cancel ==
    /\ mode = "up"
    /\ cancelPtr # 0
    /\ cancelled' = cancelled \cup {cancelPtr}
    /\ UNCHANGED <<process, due, workers, running, cancelPtr, run, flusher, fleet>>

-----------------------------------------------------------------------------
(* Telling the fleet.                                                      *)

\* The worker reports its own run as soon as it is over, whatever older rows
\* are still waiting.  The event may land without the machine hearing so.
Report(w) ==
    /\ pc[w] = "report"
    /\ \/ /\ mode = "up"
          /\ heard' = TakeFinished(job[w].row)
          /\ \/ pc' = [pc EXCEPT ![w] = "mark"] /\ UNCHANGED job
             \/ Returns(w)
       \/ Returns(w) /\ UNCHANGED heard
    /\ UNCHANGED <<process, due, lastAttempt, runner, run, flusher, started>>

Mark(w) ==
    /\ pc[w] = "mark"
    /\ \/ mode = "up" /\ SetReported(job[w].row) /\ UNCHANGED faults
       \/ ContextOrDatabaseFails /\ UNCHANGED run
    /\ Returns(w)
    /\ UNCHANGED <<mode, due, lastAttempt, runner, flusher, fleet>>

FlushRead ==
    /\ mode = "up"
    /\ queue = {} /\ Unreported # {}
    /\ queue' = OldestUnreported
    /\ flushing' = "send"
    /\ UNCHANGED <<process, due, workers, runner, run, fleet>>

\* An event of a row with no UUID is one the server cannot parse: it says so,
\* and Flush treats the row as dealt with.
FlushDelivers ==
    /\ mode = "up" /\ queue # {} /\ flushing = "send"
    /\ heard' = IF run[Oldest(queue)].named THEN TakeFinished(Oldest(queue)) ELSE heard
    /\ flushing' = "mark"
    /\ UNCHANGED <<process, due, workers, runner, run, queue, started>>

\* Flush stops at the first failure, which may be a lost acknowledgement.
FlushFails ==
    /\ mode # "down" /\ queue # {} /\ flushing = "send"
    /\ \/ mode = "up" /\ run[Oldest(queue)].named /\ heard' = TakeFinished(Oldest(queue))
       \/ UNCHANGED heard
    /\ queue' = {}
    /\ UNCHANGED <<process, due, workers, runner, run, flushing, started>>

FlushMark ==
    /\ mode # "down" /\ queue # {} /\ flushing = "mark"
    /\ flushing' = "send"
    /\ \/ /\ mode = "up"
          /\ SetReported(Oldest(queue))
          /\ queue' = queue \ {Oldest(queue)}
          /\ UNCHANGED faults
       \/ ContextOrDatabaseFails /\ queue' = {} /\ UNCHANGED run
    /\ UNCHANGED <<mode, due, workers, runner, fleet>>

-----------------------------------------------------------------------------
(* The process.                                                            *)

\* What a process that is gone leaves behind: the database and the server.
ProcessEnds ==
    /\ mode' = "down"
    /\ pc' = [w \in Worker |-> "idle"]
    /\ job' = [w \in Worker |-> NoJob]
    /\ running' = FALSE
    /\ cancelPtr' = 0
    /\ queue' = {}
    /\ flushing' = "send"
    /\ UNCHANGED <<due, lastAttempt, cancelled, run, fleet>>

\* A signal: the daemon's context is cancelled.
Shutdown ==
    /\ mode = "up" /\ faults < MaxFaults
    /\ mode' = "stopping"
    /\ faults' = faults + 1
    /\ UNCHANGED <<due, workers, runner, run, flusher, fleet>>

\* daemonCmd returns without waiting for its goroutines.
Exit == mode = "stopping" /\ ProcessEnds /\ UNCHANGED faults

\* Power loss, a panic (supervise exits the process), or the exit that starts
\* an updated program.
Crash ==
    /\ mode # "down" /\ faults < MaxFaults
    /\ faults' = faults + 1
    /\ ProcessEnds

\* The service manager starts it again.
Restart ==
    /\ mode = "down"
    /\ mode' = "up"
    /\ UNCHANGED <<faults, due, workers, runner, run, flusher, fleet>>

\* Every attempt the bound allows has been made and told: nothing is left.
Quiescent ==
    /\ mode = "up" /\ lastAttempt = MaxRuns
    /\ \A w \in Worker : pc[w] = "idle"
    /\ Unreported = {} /\ queue = {}
    /\ UNCHANGED vars

-----------------------------------------------------------------------------
WorkerStep(w) ==
    \/ PrepareFails(w) \/ PrepareSucceeds(w)
    \/ FailedStartCreate(w) \/ FailedStartFinish(w)
    \/ Announce(w)
    \/ ClaimRefused(w) \/ Claim(w) \/ Arm(w) \/ Create(w)
    \/ Backup(w) \/ Verify(w) \/ Finish(w) \/ Disarm(w) \/ Release(w)
    \/ Report(w) \/ Mark(w)

Next ==
    \/ SlotArrives
    \/ \E w \in Worker : MaybeRun(w) \/ StartRun(w) \/ WorkerStep(w)
    \/ Cancel
    \/ FlushRead \/ FlushDelivers \/ FlushFails \/ FlushMark
    \/ Shutdown \/ Exit \/ Crash \/ Restart
    \/ Quiescent

\* Goroutines run, the service manager restarts the daemon, a daemon told to
\* stop does, the flusher's ticker ticks, and a network that is tried for ever
\* is not down for ever.  Nothing makes a user or a fault act.
Fairness ==
    /\ \A w \in Worker : WF_vars(WorkerStep(w))
    /\ WF_vars(Exit) /\ WF_vars(Restart)
    /\ WF_vars(FlushRead) /\ WF_vars(FlushMark)
    /\ SF_vars(FlushDelivers)

Spec     == Init /\ [][Next]_vars
LiveSpec == Spec /\ Fairness

-----------------------------------------------------------------------------
(* Properties.                                                             *)

\* The workers between Runner.Run's compare-and-swap and its last deferred call.
InRun(w) == pc[w] \in {"arm", "create", "backup", "verify", "finish", "disarm", "release"}

Owns(w, i) == pc[w] \in {"backup", "verify", "finish", "failFinish"} /\ job[w].row = i

\* Two goroutines that both saw no backup running never both take one, however
\* their checks, claims and deferred releases interleave, and the guard is never
\* left set by a run that is over (Runner.running, Run's CompareAndSwap).
SingleFlight ==
    /\ \A v, w \in Worker : InRun(v) /\ InRun(w) => v = w
    /\ running <=> \E w \in Worker : InRun(w)

\* The Cancel button always reaches the backup that is working, never one that
\* is over: the pointer is the running attempt's from before its row is written
\* until after it is closed, and a finishing run cannot wipe its successor's.
CancelReachesTheRun ==
    \A w \in Worker : pc[w] \in {"create", "backup", "verify", "finish"} =>
                          cancelPtr = job[w].attempt

\* With no crash, shutdown or database failure, no path through Run or
\* RecordFailedStart leaves an open row behind: somebody is still working on it.
OpenRowsAreOwned ==
    faults = 0 => \A i \in DOMAIN run : run[i].status = "open" =>
                                            \E w \in Worker : Owns(w, i)

\* One attempt leaves at most one row, whichever of the runner and
\* RecordFailedStart wrote it: the `started` flag of runBackup.
OneRowPerAttempt ==
    \A i, j \in DOMAIN run : run[i].attempt = run[j].attempt => i = j

\* The dashboard is never told anything but the final outcome of a run: not
\* the "failed" a row holds while the backup runs, not an outcome rewritten
\* after it was sent, not a cancelled run as anything but a failed one.
HeardIsFinal ==
    \A k \in 1..Len(heard) : \E i \in DOMAIN run :
        /\ run[i].status = "closed"
        /\ run[i].attempt = heard[k].attempt
        /\ heard[k].outcome = Reported(run[i].outcome)

\* A row is marked reported only if the dashboard has it, or can never take it.
ReportedWasHeard ==
    \A i \in DOMAIN run : run[i].reported /\ run[i].named =>
        \E k \in 1..Len(heard) : heard[k].attempt = run[i].attempt

\* Every row that gets an outcome is eventually marked reported, through lost
\* acknowledgements, restarts, and an event the server will never accept at the
\* head of the queue (Flush, Unreported).
EventuallyReported ==
    \A i \in 1..MaxRuns : (i \in DOMAIN run /\ run[i].status = "closed")
                             ~> (i \in DOMAIN run /\ run[i].reported)

\* A run always lets go of the single-flight guard.
EventuallyReleased == running ~> ~running

\* What the dashboard is promised, as an abstract specification.
RowOf(a) == {i \in DOMAIN run : run[i].attempt = a /\ run[i].status = "closed"}

EndOf(a) ==
    IF RowOf(a) = {} THEN "open"
    ELSE LET i == CHOOSE i \in RowOf(a) : TRUE
         IN IF run[i].named THEN run[i].outcome ELSE "nameless"

Ends    == [a \in Attempt |-> EndOf(a)]
Known   == {heard[k].attempt : k \in 1..Len(heard)}
Settled == {a \in Attempt : \E i \in RowOf(a) : run[i].reported}

Ledger == INSTANCE FleetLedger WITH
    Verdict <- Outcome, Open <- "open", Nameless <- "nameless",
    ended <- Ends, known <- Known, settled <- Settled

\* The run, the two reporters and the server implement the ledger.
ImplementsLedger == Ledger!Spec

-----------------------------------------------------------------------------
(* What the code's own comments and docs say, and the code does not do.    *)

\* daemon.go, "a machine that dies mid-backup leaves a start with no end", and
\* docs/eumaeus-api.md, "A started with no finished ... is a machine that died
\* mid-backup": on a machine where nothing failed and nothing is under way,
\* every start the dashboard has belongs to a run in the history.
StartsWithoutEndsAreDeaths ==
    faults = 0 /\ (\A w \in Worker : pc[w] = "idle") =>
        \A a \in started : \E i \in DOMAIN run : run[i].attempt = a

\* backupbus.go on cancelled(): asking a cancelled run for a verification would
\* put "the backup could not be read back" on a run stopped on purpose.  With a
\* bucket that always gives the bytes back, no cancelled run says that.
CancelledIsNotUnverified ==
    \A i \in DOMAIN run : run[i].attempt \in cancelled => run[i].outcome # "unverified"

\* fleetbus.go: "every finished run is reported, exactly once, eventually".
\* Whatever is marked reported, the dashboard has.
EveryReportedRunWasHeard ==
    \A i \in DOMAIN run : run[i].reported =>
        \E k \in 1..Len(heard) : heard[k].attempt = run[i].attempt
=============================================================================
