# sion-backup in TLA+

sion-backup is a daemon that backs a machine up with restic, once or more a
day, into a bucket that a server named Eumaeus hands out, and tells that server
how it went. It runs unattended on laptops that lose power, lose the network
and are years away from anybody who would log in. This directory holds TLA+
models of the parts of it where that is hard, the TLC configurations that check
them, and TLAPS proofs about all of them.

    tlc -config BackupRuns.cfg MCBackupRuns.tla
    tlapm BackupRunsProofs.tla

The parts that were hardest to be sure of come first: the backup and what the
fleet is told of it, the update of the program by itself, and the move to
another bucket. The others follow in the order in which a machine meets them.

Paths below are relative to the repository, without the leading `src/`.

## 1. The system

| Component | State it keeps | Operations | Interacts with |
|---|---|---|---|
| Backup runs (`business/domain/backup`) | `running`, `cancel`, `progress` in memory; the `run` table | `Run`, `Cancel`, `RecordFailedStart`, `Unreported`, `MarkReported` | called by the daemon's goroutines, the flusher and the status page at once |
| Daemon (`cmd/sion-backup/daemon.go`) | goroutines: scheduler, flusher, poller, HTTP, one per backup | `maybeRun`, `startRun`, `runBackup`, `flush`, `measure`, `checkRepository` | everything |
| Fleet reporting (`business/domain/fleet`) | none; `reported_at` in the run table | `Report`, `Flush` | the server, over a network that loses answers |
| Self-update (`foundation/selfupdate`, `update.go`, `restart.go`) | four files beside the binary, `.probation`, `.refused` | `Apply`, `Start`, `Settle`, `rollBack` | the service manager, the release feed; several processes |
| Plan, schedule, rotation advice (`business/domain/plan/planbus`) | one plan row, the last measurement, integrity check and server answer | `Put`, `Confirm`, `Seed`, `Due`, `Next`, `Consider` | scheduler, status page, every run |
| Moving to a new bucket (`rotate.go`, `machinebus`) | the server's rows of repositories; the last answer polled | `pollState`, `openRepository`, `releaseOldBucket`, the page's accept | the server; credentials |
| The owner's restore card (`card.go`) | none; the server's record that one was printed | `buildCard`, `cardPrinted`, `confirmCardPrinted` | a printer, and a person |
| Credentials (`business/domain/credential`) | nothing on disk; one set per run | `ForRun`, `Wipe` | the server |
| restic (`foundation/restic`) | the repository and its locks; the pinned binary and its `.old` | `Backup`, `Restore`, `Check`, `Unlock`, `Ensure`; `EnsurePinned` | a child process of several processes |
| Repository check (`daemon.go`, `planbus/integrity.go`) | the last verdict and its bucket | `checkRepository`, `Due`, `Failed` | restic's locks; the dashboard; the rotation advice |
| Diagnostics (`business/domain/diag`) | a directory of at most twenty reports | `Record`, `Flush`, `trim` | written and sent by any process |
| Disclosure log (`business/domain/disclosure`) | the heads of the server's log it was shown | `Read`, `Check`, `Remember` | the server; one page per request |
| Status page (`app/domain/statusapp`) | none of its own | one handler per button | runs in the daemon process |
| Survey (`business/domain/survey`) | the sizes counted, and under which settings | `Measure`, `Remeasure`, `Probe` | the set-up page, a walk of the disk |
| Enrolment (`enroll.go`), legacy adoption (`recon.go`, `adopt.go`, `legacyscan`) | token, plan; the server's row and its codes | `recon`, `adopt-enroll`, `enroll` | an administrator, a person at a prompt |
| Doctor, handoff, foundations | none | print, start the service, plumbing | a person at a prompt |

What makes it hard:

- **Goroutines and processes.** The scheduler, the status page and the flusher
  share the run table and the runner; `sion-backup run` and
  `sion-backup update` are processes of their own that share files with the
  daemon.
- **Two systems, no transaction.** Whether the dashboard was told is written in
  SQLite after the fact; whether a new binary is watched is written after it is
  in place.
- **Crashes.** Between any two writes, renames or requests.
- **Answers that come late.** A cancel during a verification, a settle timer
  after another update, a plan written back after it was edited.

What makes each component correct, and where that is stated:

| Component | Correct when | Stated as |
|---|---|---|
| Backup runs | one backup at a time; one row per attempt; Cancel stops the run one sees; no row left open without a crash | `SingleFlight`, `OneRowPerAttempt`, `CancelReachesTheRun`, `OpenRowsAreOwned` |
| Fleet reporting | everything with an outcome is told, and only its final outcome | `HeardIsFinal`, `ReportedWasHeard`, `EventuallyReported`, `ImplementsLedger` |
| Self-update | a bad release leaves and is not tried twice, a good one arrives, there is always a program and a way back | `DaemonHasAWayBack`, `HasABinary`, `DaemonTriesTheBadOnce`, `DaemonTriesFairly`, `DaemonLeavesTheBad`, `DaemonKeepsUp` |
| Plan | what a person chose stays; nothing runs that nobody confirmed; an enrolled machine has a plan | `EditsKept`, `GateHolds`, `EnrolledHasAPlan` |
| Schedule | a backup is decided on only for a slot without a run; a missed slot is caught up; the page's "next" is when it will run | `DecidesForMissedSlots`, `MissedIsCaughtUp`, `NextIsTheNextSlot` |
| Moving buckets | no repository is created where none is expected; the old bucket is let go only after the new one gave a file back; a move ends | `CreatedOnlyWhereSent`, `NothingMovesUnasked`, `Protected`, `ImplementsHandover`, `MoveCompletes` |
| Restore card | what is said of the paper is true of the bucket it opens | `IssuedIsOnPaper` |
| Repository check | a lock is not damage; damage is found; a false alarm is taken back | `LockIsNotDamage`, `RotIsFound`, `FalseAlarmPasses` |
| Diagnostics | bounded without losing the newest; a malformed report holds nothing up | `NothingIsLost`, `Drains` |
| Disclosure log | "unchanged since" is true; no alarm without a cause | `Vouched`, `AlarmsHaveACause` |
| Adoption, enrolment | the old history is continued; a code is not wasted | `HistoryIsContinued`, `CodesAreNotWasted` |
| Survey | figures that will not change any more are of the settings they are shown under | `StillPageIsRight` |
| restic's copy | installing never costs a machine the restic it had | `ResticIsKept` |

## 2. Modules

### BackupRuns

One *worker* is a goroutine inside `deps.backup`; `pc[w]` says which statement
it is at. The statements are those after which another goroutine, the server or
the database could see a difference:

| `pc` | Code | Action |
|---|---|---|
| `idle` | scheduler tick, "Back up now" | `MaybeRun`, `StartRun` (both `Spawn`) |
| `prepare` | `Runnable`, `ensureRestic`, `ForRun`, `openRepository` | `PrepareFails`, `PrepareSucceeds` |
| `failCreate`, `failFinish` | `RecordFailedStart`'s two writes | `FailedStartCreate`, `FailedStartFinish` |
| `announce` | the started event | `Announce` |
| `claim` ... `release` | `Runner.Run`, from the compare-and-swap to the last deferred call | `Claim`, `ClaimRefused`, `Arm`, `Create`, `Backup`, `Verify`, `Finish`, `Disarm`, `Release` |
| `report`, `mark` | telling the dashboard, and writing down that it has been told | `Report`, `Mark` |

`run` is the run table in the order of its row ids; `status = "open"` is
`finished_at IS NULL`. `queue` is the list one flush has read, and
`FlushRead`, `FlushDelivers`, `FlushFails`, `FlushMark` are the flusher.
`started` and `heard` are what the server has; it is idempotent, as
docs/eumaeus-api.md says it must be, so a repeat changes nothing. A request
may land and its answer be lost (`Report`, `FlushFails`). `mode` is the
process: `Shutdown` cancels the daemon's context, under which database writes
and requests fail, except the one write that `WithoutCancel` shields (`Finish`);
`Exit` does not wait for the goroutines; `Crash` may come at any time; `Restart`
is the service manager.

Abstracted: the plan and whether it permits a scheduled run (a tick that it
forbids changes nothing), credentials, file counts and messages, progress. What
restic answers is the constant `BackupResult`, and what an undisturbed
read-back finds is `Readback`. A locked repository is among the failures: its
lock is cleared and the run has failed all the same.

### FleetLedger

What the package comment of `fleetbus` promises, as a state machine over
attempts: `Close` (it got an outcome), `Hear` (the dashboard has it), `Settle`
(the machine will not speak of it again), and `Drop`, the exception the code
makes for an event the server can never accept. `BackupRuns!ImplementsLedger`
is the refinement, with fairness: everything closed is heard and settled.

### SelfUpdate

`disk` maps the four names (`exe`, `.old`, `.new`, `.back`) to a version. Three
actors call `Apply`: the daemon after a backup, which exits into the new version;
the page's button, in the same process, which does not; and `sion-backup run`, a
process of its own, which settles afterwards. `step[a]` is the actor's place in
`Apply` and `swap`: `Check`, `Download`, `Smoke`, `Clear`, `Aside`, `Place`,
`Begin`, `RecordTrial`, `Tidy`. `daemon` is the place in the daemon's start:
`ServiceStarts`, then `StartNothing`, or `StartOnProbation` with the count that is
written back (`CountOpens`, `CountWrites`), or `StartGivesUp` with the version that
is written down as refused (`RefuseWrites`) and the three renames of `rollBack`,
then `WireSucceeds` or `WireFails`. `Settle` is the timer. A *bad* version is the
kind probation exists for: it answers `version`, so the smoke test passes, and its
`wire()` fails.

`os.WriteFile` empties a file and then writes it, and that is two steps of all three
of its uses here. In between the probation file is one that `read` takes for no
probation; what is about to be written is `target`, `tally` or `verdict`. A power
loss there, or a write that fails after the file was opened, ends a probation:
`forgotten` records the first. The refused list loses what it said too, but the
probation is still there then, and the next start refuses the same version again.

A rename that fails and the rename that is to undo it are one step (`Undone`),
which may also fail as a whole; power loss between them leaves what power loss
before them leaves. `Reboot` may come between any two steps and records in
`torn` whether it fell between the renames of a swap or a rollback, or between
them and the probation file; so does a timer of an earlier update that goes off
there (`Settle` removes `.old`). `believed` and `installs` are history variables.
`MCSelfUpdate` fixes one updater per behaviour, since the promises differ: the
names that begin with `Daemon` are those of a machine that is updated by its
daemon.

Abstracted: hashes and platforms, the hour between the daemon's checks, the
rule that no check is made during a backup (a check may come at any time, which
allows more), `Writable`'s probe, `--forget`.

### BucketHandover

What the owner is promised: buckets on offer or in use, those let go of, those he
agreed to, those read back, those the machine is finished with, and the one it
writes to. `Accept` needs his word for that very bucket and no move under way;
`Free` and `LetGo` need the new bucket to have been read back.

### Rotation

The server is the one in `scripts/backup-e2e/eumaeusstub`, which implements the
specification of the real one, and its rows (`rows`, oldest first) are records
as there. What it reads from them are operators on the rows (`Current`,
`Offered`, `PreviousTo`, `ExpectEmpty`, `CardState`), and what each call does to
them are operators from rows to rows (`CutOver`, `OldBucket`, `CardIssued`,
`NoteRun`); a refusal is a call that leaves them as they were. `content[b]` is
what restic would find in bucket `b`: no repository, one with nothing in it,
snapshots, or snapshots of which one was read back.

A run is a record of its own: the URL, the state and the permission of its
fetch, which it keeps while everything around it changes. `Fetch`, `Open`,
`Create`, `ReadBack`, `Backup`, `Verify`, `Report`, `ReleaseOldBucket` are the
calls it makes, one action each; `GiveUp` is a run that fails or dies at any of
them. `outbox` holds the rows not yet marked reported: `Flush` delivers any of
them at any time, again if the acknowledgement was lost. `shown` is the offer on
the page, which `PollState` refreshes and `Accept` sends. Cards: `paper` is what
the owner has printed, `onPage` the card on the screen.

`Retire` carries one guard the code does not have, `released`: the person at
the fleet pages waits for the machine to say it is finished. `Protected` is
about what the machine and the server owe that person. `Empty` is a bucket
somebody emptied.

Abstracted: dates (only whether they are set), the measured sizes, the wording
of refusals, the copy of the state in the plan database beyond the offer. The
URLs of offers are new: re-offering a URL that is already in the table would
meet `find`, which takes the first row.

### Plan

The plan is one row. Seven parts of the program write it. Four read it, change some
of it and write all of it back: the settings page (`SaveSettings`, `Store`), the
set-up page (`SaveSetup`, `Store`, `ConfirmReads`, `Approve`), a run whose
credentials name another bucket (`RunFetches`) and `enroll` (`EnrolReads`,
`EnrolPuts`). Three write a plan of their own: the configuration file (`SeedReads`,
`SeedPuts`, `SeedMarks`), `recoverPlan` (`RecoverReads`, `RecoverPuts`) and
`adopt-enroll` (`AdoptReads`, `AdoptPuts`, `AdoptMarks`), whose `Seed` asks for the
marker and not for a plan. A read and its write are two steps. The daemon's start is
the order of `daemon`; `AddColumn` and `FillColumn` are the migration that brings in
`confirmed_at`. `Crash` stops the daemon at any statement; `enroll` and
`adopt-enroll` are processes of their own. `Init` is a new machine or one that was
upgraded.

`wanted` is what somebody last said on the page; `WriteBack` gives it up when
the write it stands for was computed from a row that has changed since
(`Overtakes`), and `AdoptPuts` whenever it writes, because no statement of the code
guards against either.
`approved` says whether anybody has ever said yes.

### Schedule

`Due`, `Next`, the slots and their jitter are operators on instants, written like
the code: `LastSlotAtOrBefore` walks back a day at a time and stops at the first
with a slot that has passed, `SlotsAhead` looks at tomorrow only if today has none
left. The reference, `RefSlots`, looks for instants in an interval, on every day
whose slots the jitter could have moved there. The hash is any function from days
and slots to 0 .. `Jitter` (all of them are initial states), and time is a cycle of
`NumDays` days, so that a finite state graph holds an unbounded life; `last` is how
long ago the newest row began.

`MaybeRun` is one look of the scheduler, and all it does is to decide: the goroutine
it spawns is one more of `attempts`, and its row comes when the preparation is over
(`Claims`, which takes the guard; `FailsToStart`, a closed row; `ComesToNothing`, a
guard that was taken or a row that could not be written), with any number of ticks
in between, at each of which the scheduler looks again at the guard and at the newest
row. `StartRun` is a backup somebody asked for, of the page or by `sion-backup run`:
its preparation touches nothing the scheduler asks about, so that all there is of it
is the step that writes its row. `Restart` is a new daemon, which knows nothing of
what was in preparation. `Sleep`, `Wake`, `ConnectionChanges`, `PausePressed` and
`ClockSetBack` are the world.

### RepositoryCheck

A run that wrote a snapshot decides whether a check is due (`Decide`,
`Metered`), reads a slice (`CheckStarts` ... `CheckPasses`, `CheckFinds`), and
meets a lock (`CheckLocked`, `Unlocks`, `CheckStarts` again or `StillLocked`).
Locks are records in a bucket with an owner: a process, `Dead` (restic was
killed) or `Elsewhere` (a restore on another machine); `ClearStale` is
`restic unlock`, which removes only those of the dead. `CheckCutOff` is any
other end of restic. `integrity` is the stored verdict, `reports` what the
dashboard was told. `cutOff` is history.

### Diagnostics

Every file operation of every process is a step: the rename into place, the listing
and each removal of a trim, the listing, each read, each request and each removal of
a flush. A report is its moment. `spoilt` says what is wrong with a file: it does
not parse (it is deleted), it cannot be read (the listing ends and the flush with
it), or the server takes it never and says so with something else than 400
(`Forbidden`: the flush ends and the report stays at the head). A trim without a
listing and a removal that fails in one are passed over (`TrimFails`), and counted
in `untrimmed`. Lost answers, failed file operations, spoilt files and deaths are
counted in `faults`.

### Disclosure

A hash is the sequence of the bodies it covers, so two hashes are equal exactly
when nothing below differs. Each access page is `List`, `Judge`, `Remember`, and
several run at once, while the server discloses, loses, rewrites or patches.
`Check` is the code's pass over the kept heads, oldest first. `shown` is the
history of heads written down.

### Adoption

`Recon` and `AdoptEnrol` look at places an account may or may not enter;
`AdoptEnrol` and `EnrolCmd` then go through their writes in order, one step
each, and may be killed between any two. The server is its row and its newest
code, and the administrator may provision, adopt, issue and change at any time.
`repo` is what restic finds at three URLs: the old history, a place beside it in
the same bucket, and a fresh one.

### Survey

`Measures` is `Business.Measure`, whose part under the lock is one step; a walk
finishes one choice after another in the page's order (`WalkFinishes`), and is over
a moment before it says so (`WalkEnds`). `tab` is a request for the set-up page:
what it read of the plan, and the page it became. Until somebody answers the page
its box for the junk is ticked whatever the plan says (`Asked`), while "Count again"
counts the plan (`AsItStands`). `Refused` is the page that answers a save which
could not be used or stored: what was chosen (`Folded`), beside whatever figures
there are, with no count and no reload (`problem`). `overtaken` is history.

### ResticInstall

`EnsurePinned` by several processes at once, one system call at a time: clear
`.old`, move the binary aside, put the new one in place, put the old one back
if that fails, tidy up. A file is what it answers when it is run. `past` is
history: what went wrong so far.

### MCBackupRuns, MCPlan, MCSelfUpdate, MCParts

They give constants their values. `MCParts` puts five parts that share no state
in one state space; a behaviour is about one of them, so that their states add
and do not multiply.

## 3. Runs

| Run | Instance | Distinct states | Shows |
|---|---|---|---|
| `backup_runs` | 2 goroutines, 2 attempts, 1 fault, all five answers of restic; symmetric in the goroutines | 2.6 million | the safety properties of runs and reporting |
| `backup_runs_live` | 1 goroutine, 2 attempts, 1 fault, flush of 1 row | 143 thousand | `EventuallyReported`, `EventuallyReleased`, refinement of FleetLedger |
| `self_update` | 4 versions: one to start from, two bad ones, a good one; 4 reboots and 2 failures of the machine updated by its daemon, 2 and 1 of the one updated by foreground runs | 434 thousand | all of self-update's promises, liveness included |
| `rotation` | 3 buckets, one adopted, one emptied; the daemon's runs; two offers at a time | 1.7 million | safety of moves |
| `rotation_cards` | 2 buckets, one offer, every way to record a card | 206 thousand | a card is recorded for what it opens; moves end; refinement of BucketHandover |
| `plan` | 2 buckets, 1 list of folders beside the empty one, 1 request beside a run and an `enroll` or `adopt-enroll`; no configuration file, or an unconfirmed one; a script with folders | 630 thousand | edits, the gate, recovery |
| `schedule` | 2 days of 4 ticks, slots at 0 and 3, jitter up to 1, floor of 3, 2 backups in preparation, one clock set back by 2 | 270 thousand | decisions for missed slots only, catching up, the page's "next" |
| `repository_check` | 2 processes, 2 buckets, 3 faults | 209 thousand | locks, rot and false alarms |
| `parts` | 2 processes, 3 reports of which 1 is kept, 1 fault; 2 pages, chains up to 3, answers of 2, 2 readings, 1 tampering; 2 places, 2 codes, 1 mishap; 2 pages, 1 change of settings; 2 installs, 2 failures | 970 thousand | the five parts of MCParts |
| `cancel_during_verify` | 2 goroutines, no faults | stops at the violation | a cancelled run recorded as unreadable |
| `damage_is_real` | as `repository_check`, 1 fault | stops at the violation | a check that was cut off reported as damage |
| `settled_untried` | one foreground run, nothing fails | stops at the violation | a release is believed before it was started |

**Why the bounds are enough.** Two goroutines are what the races of the runner
need: the guard, the pointer and the row are each shared by a pair. (The proofs
do away with the bound.) Two attempts give an older row that waits while a newer
one is reported, and a crash between them; the liveness run reads one row per
flush, so that the second waits behind the first. One fault is enough for each
kind of loss, and losing an acknowledgement is not counted as one, so it may
happen every time.

In SelfUpdate, four reboots are one more than the three starts a version gets,
so that a version that works can be given up on; two failures are one more than
the single failure `AlwaysABinary` tolerates; four versions give two rollbacks
in a row and a good release after them, and `MaxRefused = 1` makes the list
overflow. (A good release between the bad ones, whose timer runs while the next
one arrives, is in `SettledMidSwap` and `RefusedUntried` below, and in the proofs.) The second machine's two processes mix at every step, so it gets two
reboots and one failure (`MaxRunReboots`, `MaxRunFailures`).

In Rotation three buckets give two moves in a row, the second overtaking the
first (a run that began before the move before last still reports and releases),
or a corrected offer; no counter bounds the runs, the losses or the crashes.
Cards are checked apart from the third bucket because they multiply the states
by a hundred and touch nothing else. The refinement of BucketHandover is checked
beside the cards; `Handover.cfg` checks it without them over two moves, one after
the other, and the proof for any number.

Plan has no bound but its sets: two buckets make a run's write-back differ from what
it read; every crash, enrolment and change may happen again and again. A file that
says it is confirmed would make `approved` true at the outset, and leave the gate
nothing to keep; the proofs have it. In Schedule two backups in preparation
(`MaxAttempts`) are one that serves a slot and one that was decided on meanwhile;
the jitter of the evening's slot can cross midnight, the floor is longer than the
distance between two slots, and the look-back of three days is the code's; the cycle
is longer than the floor and shorter than the look-back, so that a slot is searched
for around the end of the cycle too. In RepositoryCheck three faults are what the
longest story needs: restic killed and its lock left, a restore elsewhere that keeps
the bucket locked through the unlock, and a check that is cut off. In `parts`: two
trims on two listings that overlap with a flush over a third report, Keep = 1 so
that one more is too many; chains one longer than an answer reaches; the second code
after one was lost; two walks; two installs whose `.old` is one file, and both their
renames failing.

**Fairness.** BackupRuns: weak fairness of each worker's own steps (goroutines are
scheduled), of `Exit` and `Restart` (the context is cancelled, the service manager
restarts), of `FlushRead` and `FlushMark` (a ticker), and strong fairness of
`FlushDelivers`: each flush may fail, and a network that is tried every five minutes
for ever is not down every time. No fairness for users, slots, cancels or faults.
SelfUpdate: the processes run and the service manager keeps starting the daemon;
`Check` of the daemon is strongly fair because it follows every backup and a daemon
that runs keeps taking them. Rotation: weak fairness of each process's runs, and
nothing else; that failures, crashes and lost calls stop at some moment is a premise
of `MoveCompletes` itself, and nobody has to do anything for a move to end. Plan:
the statements of a start are executed, and machines are restarted now and then
(weak fairness of `Starting` and of `Crash`); the power does not go during every
start (the daemon is up again and again), nor is the network down at all of the
starts that ask the server for the plan (strong fairness of `RecoverPuts`).
Schedule: time passes and every run ends; again and again the scheduler looks, on a
machine that is open, over a connection that is not metered; and not every
preparation comes to nothing (strong fairness of `Claims` or `FailsToStart`). Nobody
has to press a button, and a machine somebody paused is excepted by
`MissedIsCaughtUp` itself. RepositoryCheck: each process's regular steps, the weeks,
and the end of a restore; its faults are bounded. Diagnostics: a process that runs
goes on, and there is always another flush; its faults are bounded.

Deadlock is looked for in every run but `parts`: `Quiescent` and `Rests` stand
for the states in which the bounds of BackupRuns and SelfUpdate leave nothing to
do, and the others never stop. The five parts of `parts` may: nobody need open a
page or run a command again.

### What the code does that its words do not say

Three runs find a disagreement between the code and its own documentation; each
is quoted in PROJECT.json under `findings`.

1. *Cancel during the read-back says the bucket cannot be read*
   (`cancel_during_verify`).
2. *A check that was cut off is reported as damage* (`damage_is_real`).
   `LockIsNotDamage` is stated with this exception (`cutOff`), and
   `FalseAlarmPasses` says how long it lasts.
3. *A foreground run settles what it has just installed* (`settled_untried`).
   `BadDoesNotStay` is stated with this exception (`believed`), which the
   daemon alone can meet too: an old timer that goes off between `Begin` and
   the exit.

Others can be shown with a configuration that is here, `tlc -config X.cfg M`:

| Configuration | Module | Property violated | What happens |
|---|---|---|---|
| `PhantomStart` | MCBackupRuns | `StartsWithoutEndsAreDeaths` | a start with no end on a healthy machine |
| `UpdateTwice` | SelfUpdate | `WayBack` | pressing the update button twice installs the same release over itself, and the file that would have been gone back to is the one that goes |
| `SettledMidSwap` | MCSelfUpdate | `PutBack` | the timer of one update goes off half-way through the swap of the next and removes `.old`; if the second rename then fails, there is nothing to put back. `AlwaysABinary` and `WayBack` have this exception (`torn`) |
| `RefusedUntried` | MCSelfUpdate | `FairTrial` | a good release between two bad ones, installed by foreground runs: the daemon goes back from the first bad one while the good one is being put in its place, so the good one's probation stays behind, a power loss keeps it there, and the starts of the second bad one are charged to it. It is refused and was never started. Two interruptions are enough, and TLC finds one is not |
| `CardVouched` | Rotation | `CardNamesItsBucket` | `card --printed` after a move records the old bucket's card for the new one; `IssuedIsOnPaper` has this exception (`vouched`) |
| `HandedBack` | Rotation | `NotHandedBack` | two buckets on offer at once, the older accepted last: the row moved off is then a newer one (`previousTo` says "older than the one it is moving onto" and does not look), another row the machine has said it is finished with stays in use, and when the move is over it is the newest that is active: the machine is sent there. With one on offer at a time it cannot happen, as `NeverHandedBack` proves |
| `SupersededTooSoon` | Rotation | `SupersededPaperIsDead` | on a second move the owner is told to destroy the card he needs. This is the test server; the client acts on the word as it arrives |
| `ShrunkIsEvidence` | Disclosure | `ShrunkIsEvidence` | the page lists the log and reads the kept heads afterwards (`disclosurebus.go`, `Read`); with two pages open the older answer is judged by the newer head, and a log that only grew is called shrunk |
| `NeverCalledNew` | Adoption | `NeverCalledNew` | a script that can be seen and not read is a note and does not count as blocked, and recon calls the machine new ("The one thing this report must never do") |
| `TornCount` | MCSelfUpdate | `BadDoesNotStayForgotten` | the power fails while a start on probation is being counted: the file is empty, the next start takes that for no probation and removes `.old`, and a bad version stays. `BadDoesNotStay` and `KeepsUp` have this exception (`forgotten`) |
| `ScriptOverPlan` | MCPlan | `ScriptIsNotPutOverAChoice` | a machine enrolled without `config.toml` has no marker, so `adopt-enroll` writes the plan of an old script over the one somebody chose, which `adopt.go:642` says it does not. `EditsKept` has this exception |
| `SlotsRunOnce` | Schedule | `SlotsRunOnce` | while a backup is in preparation (a download of restic, say) the next tick sees neither a run nor a newer row and decides again; when the first is over the second runs, for the same slot and inside the floor |
| `RefusedSave` | MCParts | `BoxAndFigureAgree` | the page that answers a refused save shows the box as it was ticked beside the figure of before, and stays so: "answering with the old number would make the checkbox look broken" (`setup.go`, `effectiveExcludes`). `StillPageIsRight` is about the other pages |
| `ResticIsThere` | ResticInstall | `ResticIsThere` | restic vanishes for a moment under a run that has just made sure of it, when another process installs |

And some that no configuration is spent on:

- *Runs.* A start that failed before it had a run UUID is recorded, sent,
  rejected and marked reported: the dashboard never hears of it. FleetLedger has
  it as `Drop`, `ReportedWasHeard` is stated for the rows that do have a UUID,
  and `EveryReportedRunWasHeard` in BackupRuns is violated in a few steps.
- *Self-update.* With foreground runs TLC finds `AlwaysABinary` violated by a
  single failing rename: a daemon that starts while a foreground run is in the
  middle of a swap sees no probation and removes `.old`, and the swap's put-back
  has nothing to put back. With one more version a foreground run may also
  install a bad release twice.
- *Moves.* The permission to create a repository does not end "the moment the
  seeding run lands" (`credentialbus.go:120`, `rotate.go:184`) but when the
  server hears of it, as docs/eumaeus-api.md says; a bucket emptied in between is
  created again. `CreatedOnlyWhereSent` is stated accordingly (`heard`). An
  offer accepted during a move leaves two rows cutting over; the machine goes on
  with the first although the page has said "Accepted" of the second.
- *`Protected` has a limit.* It holds, and is proved, with at most two buckets on
  offer or being moved to at once, the run's bound. With three it is false: a row
  released early, as the previous one of a bucket that has since been left, may be
  retired by a current bucket that has not been verified, until only an unproven
  bucket is left. TLC needs eight buckets and 26 steps for it, on the rows alone.
  The code limits nothing here; it takes an administrator who opens three offers
  at once.
- *Plan.* A `config.toml` that appears on an upgraded machine is seeded over its
  plan (`planbus.go:319`). A run writes back the plan it began with
  (`daemon.go:584`). A crash between the two statements of the migration leaves a
  working machine unconfirmed (`plandb.go:66-93`). `enroll --force` on a machine
  whose folders were emptied on purpose fills them from the file. `EditsKept`
  names the second and the third as its exceptions.
- *Schedule.* A slot that jitter moves past midnight is missing from the page's
  "next" after midnight (`schedule.go:221`); `NextIsTheNextSlot` is stated for a
  hash that moves none (`NoneCrossesMidnight`), `DecidesForMissedSlots` and
  `MissedIsCaughtUp` for all. A last run in the future, after a clock is put right, holds `Due` back
  until it is past.
- *restic's copy.* Two overlapping installs share one `.old`: one failing rename
  can then leave no restic, and a put-back can overwrite the other's. The words at
  `manage.go:31-32` keep the previous copy until the next install; `swap` removes
  it at once.
- *Adoption.* `legacybus` does not expand the repository's URL, the verification
  compares URLs exactly while the server trims slashes, and a server that does
  not say "adopted" is taken to permit creation.
- *Diagnostics.* A file that cannot be read ends every listing, wherever it is in the
  queue (`diagfile.go:101-107`), until twenty newer ones have pushed it out; and a
  report the server refuses for good with something else than 400 (401, 403, 413, 422)
  stays at the head until it is a month old, with everything behind it waiting
  (`eumaeusdiag.go:48-55`). `Drains` excepts both (`Blocked`). A report whose file
  does not parse is deleted and counted nowhere.
- *Survey.* Between a walk's last size and the moment it says it is over, a page
  under changed settings shows the old figures and stops reloading; and on a machine
  nobody has answered for, "Count again" counts other excludes than the page shows:
  the exception `overtaken` of `StillPageIsRight`.

## 4. Proofs

TLAPS proves, for every value of the constants that the modules' assumptions
allow (any number of goroutines, processes, buckets, faults and so on):

| Module | Theorem | Property |
|---|---|---|
| BackupRunsProofs | `TypeCorrect` | `TypeOK` |
| | `OneBackupAtATime` | `SingleFlight` |
| | `CancelFindsTheRun` | `CancelReachesTheRun` |
| | `OneRowEach` | `OneRowPerAttempt` |
| | `HeardForGood` | `HeardIsFinal` |
| | `ReportedOnlyIfHeard` | `ReportedWasHeard` |
| | `NoOrphanRows` | `OpenRowsAreOwned` |
| | `ImplementsTheLedger` | the safety half of `ImplementsLedger` (`Ledger!Safety`) |
| SelfUpdateProofs | `Types` | `TypeOK` |
| | `WayBackHolds` | `DaemonHasAWayBack` |
| | `BinaryHolds` | `HasABinary` |
| | `BadOnceHolds` | `DaemonTriesTheBadOnce` |
| | `FairTrialHolds` | `DaemonTriesFairly` |
| RotationProofs | `TypeCorrect` | `TypeOK` |
| | `OnlyWhereAsked` | `NothingMovesUnasked` |
| | `RequestsEnd` | `RequestsGetAnswered` |
| | `OnlyPaperCounts` | `IssuedIsOnPaper` |
| | `CreatedWhereSent` | `CreatedOnlyWhereSent` |
| | `OldBucketIsKept` | `Protected`, assuming `MaxWaiting <= 2` |
| | `HandsOver` | `ImplementsHandover`, assuming `MaxWaiting <= 1` |
| | `NeverHandedBack` | `NotHandedBack`, assuming `MaxWaiting <= 1` |
| PlanProofs | `TypeCorrect` | `TypeOK` |
| | `NothingRunsUnasked` | `GateHolds` |
| | `ChoicesAreKept` | `EditsKept` |
| ScheduleProofs | `TypeCorrect` | `TypeOK` |
| | `DecisionsAnswerMissedSlots` | `DecidesForMissedSlots` |
| | `NextRunIsNext` | `NextIsTheNextSlot` |
| RepositoryCheckProofs | `TypeCorrect` | `TypeOK` |
| | `NoLockIsDamage` | `LockIsNotDamage` |
| DisclosureProofs | `NoFalseAlarm` | `AlarmsHaveACause` |
| | `VouchedHolds` | `Vouched` |
| PartsProofs | `NoReportIsLost` | `NothingIsLost` |
| | `StillPagesAreRight` | `StillPageIsRight` |
| | `InstallingKeepsRestic` | `ResticIsKept` |
| | `OldHistoryIsContinued` | `HistoryIsContinued` |
| | `NoCodeIsWasted` | `CodesAreNotWasted` |

So every invariant a passing run checks is a theorem, with the two limits the
table names. Apart from type correctness hardly any of them is inductive alone;
each is drawn from a stronger invariant, proved with one case per action.

**BackupRuns.** A chain of invariants, each proved with the ones before it:

- `TypeInv`: `TypeOK` and `JobShape`, which says what a worker at each place
  has in hand (an attempt number, a row that exists).
- `FlightInv`: exactly one worker is inside `Run` when the guard is set, and
  the pointer is its attempt. `SingleFlight` and `CancelReachesTheRun` follow.
- `RowInv`: attempt numbers of rows and workers are distinct and not greater
  than `lastAttempt`; a worker that has not written a row has none in the
  table. This is what makes `RecordFailedStart` safe.
- `HeardInv`: what was heard is the outcome of a closed row; the rows in the
  flusher's queue, and those a worker is reporting, are closed; rows are closed
  once.
- `OpenInv`: while no fault has happened, every open row is owned.
- `NamedInv`: a run has its UUID from its preparation to its report, and so has
  its row; a row that was marked is closed.

Steps are first sorted by what they may touch (`WorkerFlight`, `WorkerWrites`,
`RowsAfterAStep`, `WhatIsTold`, `WhoMarks`, `WhatTheFlusherHolds`), so that
each invariant has one case per kind of step. The refinement reads the same
sorting: closing a row is the ledger's `Close`, delivering it is `Hear`, marking it
`Settle`, or `Drop` if it has no UUID, and everything else a stutter. The ledger's
fairness is left to TLC.

**SelfUpdate.** `DaemonInv` says at every step of a swap and of a rollback what is
at each of the four paths (`WhatIsWhere`), which is what `WayBack` and
`AlwaysABinary` come down to. A probation that is being counted is in the daemon's
hands and not in its file, and so is a list of refused versions that is being
written; the invariants speak of the one that counts (`Held`, `InHand`). Around it:
what is being installed is newer than what runs and than all that was given up on
(`TheTarget`, `OnTrial`); a version still being tried has not been gone back from
(`StillTried`); every start a version was charged with was paid for by an
interruption or a failure (`NobodyIsBlamed`, of which `FairTrial` is the end), with
the one case it does not hold in, a probation counted up under a bad version that it
is not of; and while no file operation failed a rollback is of what is on probation,
which is refused by then (`RollbackIsTheRightOne`, `InstalledBefore`). `HasABinary`
is also of the machine that foreground runs update: while no file operation fails,
only who is between two renames can have left the path empty (`NothingIsMissing`),
however a run's swap, a starting daemon and its rollback interleave.

**Rotation.** The module finds rows by the smallest or largest index of a kind;
the first lemmas say what those are, with well-founded induction over the
naturals. `Inv` says that some row is in use, that a row being moved to was
accepted and one not on offer was accepted or is the first, that a card counts
only for a row whose paper exists or was vouched for, that an open request has
nothing being moved to, and (`MayCreate`) that a run which may create was sent
to an accepted bucket, not adopted, of which no snapshot was known. Lemmas about
what each call does to the rows carry it through the server's steps.

`Protected` has an invariant of its own, `ProtectedInv`. `Truthful`: what a row, a
report on its way or a run says was read back, was; so a late or repeated report
marks nothing that is not so. `Kept`: one proven bucket is in use that nobody has
released, which `Retire` therefore cannot take; `old-bucket` moves it on to the
current bucket, which is verified. The trouble is a bucket that is current, hence
kept, and was released before: `LetGo` says that one which is being moved to and
was released is the last of those in use, with an older one before it, so that it
is the next to be retired and never current again. This is where three offers
break it, and why `NoThree` is part of the invariant and `MaxWaiting <= 2` the
theorem's assumption. The lemmas `CutOverHolds`, `RetireHolds`, `OldBucketHolds`
and `OfferHolds` say it of rows alone.

With one bucket on offer at a time the whole module implements BucketHandover,
which has no rows, no reports and no stale pages. `OneAtATime` is the invariant:
URLs name rows uniquely, at most one row waits and at most one is settled in, and
a row that was released is retired or is what a verified successor moves off. So
during a move there are two rows in use (`MovingIsBetweenTwo`), `previousTo` is
the one moved off, and what each call does to the rows is one step of the abstract
module (`OfferIsOffer`, `CutOverIsAccept`, `NoteRunIsProve`, `OldBucketIsFree`,
`RetireIsLetGo`) or none of its business; a run's own steps, the page and the cards
are stutters. The assumption is what an administrator keeps to; the code does not
enforce it, and `HandedBack` shows what comes of two.

**Plan.** `GateInv`: every copy of a plan, in a request, a run or an enrolment, that
is confirmed stands for somebody's approval; so whoever writes back last cannot
bring in a confirmation nobody gave. `EditsInv`: what each writer that writes back
holds differs from what it read only in what it has a say in (`FormsChange`,
`EnrolChanges`); while the configuration file has still to be read or is being
stored nobody has seen a page (`FileFirst`); a plan is looked for only where none is
wanted (`NothingLost`); a row of an older build is what people want but for the
column it lacks (`OldRow`). `EditsKept` follows write by write, a write that
overtook a choice having given it up.

**Schedule.** Days are multiplication and division by a length that is any positive
number, so the first lemmas say what day an instant is on and that days are in
order. `LastSlotAtOrBefore` and `NextSlot` are then shown to be what the reference
says: a slot that has passed since the last run, and the earliest one ahead; that
the scheduler decides only for a slot that was missed is the first of these.
`TypeInv` says how far ahead of a clock that was set back the last run may lie. What
was decided runs later, and may run for nothing: no theorem says otherwise.

**RepositoryCheck.** `damaged` and `cutOff` only grow, and what is called damaged
is in one of them; the rest is type correctness, of the locks above all.

**Disclosure.** As long as nobody tampered, the chain is well-linked, and every
answer, kept head and head on its way to being kept is the hash of some length
of it (`ChainInv`, `KeptInv`, `ShownInv`, `Untouched`); a verdict of "broken" or
"rewritten" would need two hashes for one length. For `Vouched` anything may
happen to the chain: `Damaged` says that a row's hash still covers as many entries
as lie below it and its link all but the last, in the chain and in each answer;
that what is kept of a length is the head shown first; and that a report which
says "agrees" was right about the heads shown before it was written. A head that
some row's links lead to lies below it (`LinkedLiesBelow`), by induction over the
rows of an answer.

**Diagnostics.** `Accounted`: a report that is gone, or that a trim is about to
remove, may go. `Room`: whichever set of the trims under way one takes as finished,
what they leave is `Keep` reports, one for each process still to list or to
remove, and one for each trim that died or had no listing and each removal that
failed. Said of the trims together alone it is
not inductive: one that ends leaves what the others have yet to remove.

**Survey.** While a walk goes on, every choice of the settings it is for has that
shape (`WalkIsFor`); a page that is being served and was not overtaken has its
choices counted under what it read, and a walk under way is for just that
(`ServedIsRight`).

**ResticInstall.** `Mixed`: as long as no rename failed, where there is no restic
somebody is about to put one there. `Alone`: if no two installs overlapped, one
process swaps at a time, and between its renames `.old` is a restic that runs.

**Adoption.** What a command past the claim holds: restic is there, the bucket it
was given is the one the machine named if it named any, and only a fresh
bucket may be created; a code that is good has a row, and one that is spent has a
machine or a loss to show for it.

Only model-checked: the liveness properties (`EventuallyReported`,
`EventuallyReleased`, `DaemonLeavesTheBad`, `DaemonKeepsUp`, `MoveCompletes`,
`EnrolledHasAPlan`, `MissedIsCaughtUp`, `RotIsFound`, `FalseAlarmPasses`, `Drains`)
and the fairness of the ledger, which are out of the prover's reach, as is ENABLED;
`FairTrial` for the machine updated by foreground runs, and `Protected`,
`ImplementsHandover` and `NotHandedBack` beyond their assumptions, are false.

## 5. What is not modelled

- `Prune` and `measure`: what they delete and count starts nothing here.
- The rotation advice (`Consider`): a pure function of readings whose answer is a
  sentence. The one reading it treats as urgent is `Failed` of RepositoryCheck.
- `sion-backup update` and `--forget`: a person's command, a variation of the
  foreground run of SelfUpdate.
- Two processes in the scratch directory (`run.go:72`): a foreground run and the
  daemon share it, the verification's file and "latest"; the plain globals of
  `restart.go:128`, whose race the Go memory model leaves open.
- restic's output, environment and exit codes beside those told apart; what a
  size or a script comes to; rendering, wording and forms.
- Doctor, handoff and the foundations: they read and print, or are plumbing.

PROJECT.json names each part with its reason, and lists every hazard of the code
with the properties that cover it, or why none does.

## 6. Plan

What is left, in this order:

1. **Proofs**: that a machine updated by foreground runs refuses no good release
   before two interruptions, which TLC finds of small instances.
2. **TwoProcesses**: the scratch directory, the verification file and "latest"
   shared by a daemon and a foreground run.
3. **BucketHandover** with two buckets on offer: what is promised then.
4. **Advice**: `Consider` as an operator against a reference over all readings.
