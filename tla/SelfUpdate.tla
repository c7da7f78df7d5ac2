----------------------------- MODULE SelfUpdate -----------------------------
(***************************************************************************)
(* How the program replaces itself (foundation/selfupdate), and how a      *)
(* version that will not stay running is given up on: the swap of the      *)
(* binary on the disk, the probation file beside it, what the daemon does  *)
(* about it at the top of every start, and the rollback.                   *)
(*                                                                         *)
(* Three things call Apply: the daemon after a backup, which then exits    *)
(* into the new version; the "Check now" button of the status page, in the *)
(* same process, which does not; and `sion-backup run`, a process of its   *)
(* own.  The machine may lose power between any two steps, and a file      *)
(* operation may fail.  A file that is written is emptied first, and what  *)
(* is read between the two, or after a power loss between them, is no      *)
(* probation and no refused version.                                       *)
(*                                                                         *)
(* Hashes, platforms and the text of versions are left out: a version is   *)
(* a number, later versions are greater, and a download that arrives is    *)
(* what was asked for.  So is the hour between two checks of the daemon,   *)
(* and the rule that none is made during a backup: a check may come at any *)
(* time.                                                                   *)
(***************************************************************************)
EXTENDS Integers, Sequences

CONSTANTS
    Newest,           \* bound: versions there will ever be
    Bad,              \* those that answer `version`, and whose daemon will not start
    Actor,            \* who may call Apply: "daemon", "page", "run"
    ProbationStarts,  \* starts a version on probation gets (3)
    MaxRefused,       \* how many versions given up on are remembered (10)
    MaxReboots,       \* bound: power losses and restarts
    MaxFailures       \* bound: file operations and starts that fail for no fault of the version

Version == 1..Newest

ASSUME UpdateAssumption ==
    /\ Newest \in Nat \ {0}
    /\ Bad \subseteq Version \ {1}
    /\ Actor \subseteq {"daemon", "page", "run"}
    /\ ProbationStarts \in Nat \ {0} /\ MaxRefused \in Nat \ {0}
    /\ MaxReboots \in Nat /\ MaxFailures \in Nat

VARIABLES
    released,       \* the newest release there is
    disk,           \* the version at the program's path, and at .old, .new and .back
    probation,      \* the probation file; installed = 0: there is none
    refused,        \* the versions given up on, oldest first
    daemon,         \* where the daemon is in its start, or "up" or "off"
    image,          \* the version the daemon process runs, 0: none
    tally,          \* the probation a start has read and counted, to be written back
    verdict,        \* the refused versions a rollback is about to write
    watched,        \* the timer that settles a probation is armed
    step,           \* step[a]: where actor a is in Apply
    current,        \* current[a]: the version whose code a runs
    target,         \* target[a]: the version a installs
    believed,       \* history: versions a Settle has kept
    installs,       \* history: installs[v]: how often v was put in place
    torn,           \* history: the power failed half-way through a swap or a rollback,
                    \* or the timer removed the way back half-way through a swap
    forgotten,      \* history: the power failed while the probation file was written
    reboots, failures

files   == <<disk, probation, refused>>
process == <<daemon, image, watched, tally, verdict>>
apply   == <<step, current, target>>
history == <<believed, installs, torn, forgotten>>
vars    == <<released, disk, probation, refused, daemon, image, watched, tally, verdict, step,
             current, target, believed, installs, torn, forgotten, reboots, failures>>

None == 0
NoProbation == [installed |-> None, previous |-> None, starts |-> 0]

Step == {"idle", "download", "smoke", "clear", "aside", "place", "begin", "record",
         "tidy", "done", "exit", "settle"}

TypeOK ==
    /\ released \in Version
    /\ disk \in [{"exe", "old", "new", "back"} -> Version \cup {None}]
    /\ probation \in [installed : Version \cup {None}, previous : Version \cup {None},
                      starts : 0..ProbationStarts]
    /\ refused \in Seq(Version) /\ Len(refused) <= MaxRefused
    /\ daemon \in {"off", "start", "count", "record", "refuse", "stage", "aside", "place",
                    "stuck", "back", "wire", "up"}
    /\ image \in Version \cup {None}
    /\ tally \in [installed : Version \cup {None}, previous : Version \cup {None},
                  starts : 0..ProbationStarts]
    /\ verdict \in Seq(Version) /\ Len(verdict) <= MaxRefused
    /\ watched \in BOOLEAN
    /\ step \in [Actor -> Step]
    /\ current \in [Actor -> Version \cup {None}]
    /\ target \in [Actor -> Version \cup {None}]
    /\ believed \subseteq Version
    /\ installs \in [Version -> Nat]
    /\ torn \in BOOLEAN /\ forgotten \in BOOLEAN
    /\ reboots \in 0..MaxReboots
    /\ failures \in 0..MaxFailures

Init ==
    /\ released = 1
    /\ disk = [exe |-> 1, old |-> None, new |-> None, back |-> None]
    /\ probation = NoProbation
    /\ refused = <<>>
    /\ daemon = "off" /\ image = None /\ watched = FALSE
    /\ tally = NoProbation /\ verdict = <<>>
    /\ step = [a \in Actor |-> "idle"]
    /\ current = [a \in Actor |-> None]
    /\ target = [a \in Actor |-> None]
    /\ believed = {} /\ installs = [v \in Version |-> 0]
    /\ torn = FALSE /\ forgotten = FALSE
    /\ reboots = 0 /\ failures = 0

-----------------------------------------------------------------------------
(* Helpers.                                                                *)

\* A file operation, or a start, that fails.
Fails == failures < MaxFailures /\ failures' = failures + 1

\* The disk after os.Rename, which needs a file to rename, and after os.Remove.
Renamed(d, from, to) ==
    IF d[from] = None THEN d ELSE [d EXCEPT ![to] = d[from], ![from] = None]
Removed(d, slot) == [d EXCEPT ![slot] = None]

Refused == {refused[i] : i \in DOMAIN refused}

Goes(a, from, to) == step[a] = from /\ step' = [step EXCEPT ![a] = to]

\* Between the renames of a swap or of a rollback, or before what they leave
\* behind has been written down.
Swapping    == \E a \in Actor : step[a] \in {"aside", "place", "begin"}
RollingBack == daemon \in {"stage", "aside", "place", "stuck", "back"}

\* The probation file is empty, and something is about to be written to it.
WritingProbation == daemon = "record" \/ \E a \in Actor : step[a] = "record"

-----------------------------------------------------------------------------
(* Mistakes this code could plausibly have made.  No specification uses    *)
(* them: each stands for one definition below in a mutated specification.  *)

\* The list is never cut.
RefusedUncut(v) == IF v \in Refused THEN refused ELSE Append(refused, v)

\* A rename that fails is reported, and what it left is not undone.
UndoneNot(from, to) == UNCHANGED disk /\ Fails

\* What was given up on is not looked up.
MayInstallAnything(v, cur) == v > cur

\* A machine that gave up on one release waits for somebody to clear the list.
MayInstallUnlessRefusing(v, cur) == v > cur /\ refused = <<>>

\* The new version is put on probation under what the last update replaced.
TrialKeepsPrevious(a) ==
    [installed |-> target[a], previous |-> probation.previous, starts |-> 0]

\* One start too few.
TriesLeftOneLess == probation.starts + 2 <= ProbationStarts

\* The count of starts is not written back.
ReadUncounted == probation

-----------------------------------------------------------------------------
(* More helpers.                                                           *)

\* The refused versions with one more, cut to the newest few.
RefusedWith(v) ==
    IF v \in Refused THEN refused
    ELSE LET all == Append(refused, v)
         IN SubSeq(all, Len(all) - (IF Len(all) < MaxRefused THEN Len(all) ELSE MaxRefused) + 1,
                   Len(all))

\* What a failed rename leaves after the rename that is to undo the one before
\* it, which may fail as well.
Undone(from, to) ==
    \/ disk' = Renamed(disk, from, to) /\ Fails
    \/ failures + 2 <= MaxFailures /\ failures' = failures + 2 /\ UNCHANGED disk

\* The same of a rename that finds nothing to rename: that is no failure of the disk.
UndoneWithout(slot, from, to) ==
    disk[slot] = None /\ disk' = Renamed(disk, from, to) /\ UNCHANGED failures

\* The smoke test of the version to go back to.
RunsAsPrevious == disk["old"] # None /\ disk["old"] = probation.previous

-----------------------------------------------------------------------------
(* Apply.                                                                  *)

\* Newer, and refuses.
MayInstall(v, cur) == v > cur /\ v \notin Refused

\* The daemon's own check comes after a backup; the button is the same process.
\* `sion-backup run` is a new one, and runs if what is on the disk does.
CodeOf(a) == IF a = "run" THEN disk["exe"] ELSE image

Check(a) ==
    /\ IF a = "run" THEN disk["exe"] \notin Bad \cup {None} ELSE daemon = "up"
    /\ MayInstall(released, CodeOf(a))
    /\ Goes(a, "idle", "download")
    /\ current' = [current EXCEPT ![a] = CodeOf(a)]
    /\ target' = [target EXCEPT ![a] = released]
    /\ UNCHANGED <<released, files, process, history, reboots, failures>>

\* A foreground backup that installed nothing: there was nothing newer, or the
\* asking failed.
RunWithoutUpdate ==
    /\ "run" \in Actor
    /\ disk["exe"] \notin Bad \cup {None}
    /\ Goes("run", "idle", "settle")
    /\ UNCHANGED <<released, files, process, current, target, history, reboots, failures>>

Download(a) ==
    /\ step[a] = "download"
    /\ \/ disk' = [disk EXCEPT !["new"] = target[a]] /\ Goes(a, "download", "smoke")
          /\ UNCHANGED failures
       \/ disk' = Removed(disk, "new") /\ Goes(a, "download", "tidy") /\ Fails
    /\ UNCHANGED <<released, probation, refused, process, current, target, history, reboots>>

Smoke(a) ==
    /\ step[a] = "smoke"
    /\ \/ disk["new"] = target[a] /\ Goes(a, "smoke", "clear") /\ UNCHANGED failures
       \/ disk["new"] # target[a] /\ Goes(a, "smoke", "tidy") /\ UNCHANGED failures
       \/ Goes(a, "smoke", "tidy") /\ Fails
    /\ UNCHANGED <<released, files, process, current, target, history, reboots>>

\* swap(): the previous .old goes, the binary moves aside, the new one takes
\* its place, or the old one goes back.
Clear(a) ==
    /\ Goes(a, "clear", "aside")
    /\ disk' = Removed(disk, "old")
    /\ UNCHANGED <<released, probation, refused, process, current, target, history,
                   reboots, failures>>

Aside(a) ==
    /\ step[a] = "aside"
    /\ \/ disk["exe"] # None /\ disk' = Renamed(disk, "exe", "old")
          /\ Goes(a, "aside", "place") /\ UNCHANGED failures
       \/ disk["exe"] = None /\ Goes(a, "aside", "tidy") /\ UNCHANGED <<disk, failures>>
       \/ Goes(a, "aside", "tidy") /\ UNCHANGED disk /\ Fails
    /\ UNCHANGED <<released, probation, refused, process, current, target, history, reboots>>

Place(a) ==
    /\ step[a] = "place"
    /\ \/ disk["new"] # None /\ disk' = Renamed(disk, "new", "exe")
          /\ Goes(a, "place", "begin")
          /\ installs' = [installs EXCEPT ![disk["new"]] = @ + 1]
          /\ UNCHANGED failures
       \/ disk["new"] = None /\ disk' = Renamed(disk, "old", "exe")
          /\ Goes(a, "place", "tidy") /\ UNCHANGED <<installs, failures>>
       \/ Undone("old", "exe") /\ Goes(a, "place", "tidy") /\ UNCHANGED installs
    /\ UNCHANGED <<released, probation, refused, process, current, target, believed, torn,
                   forgotten, reboots>>

\* begin(): the probation file is emptied and then written.  If either fails, that
\* is logged: the swap has happened.
Begin(a) ==
    /\ step[a] = "begin"
    /\ \/ Goes(a, "begin", "record") /\ probation' = NoProbation /\ UNCHANGED failures
       \/ Goes(a, "begin", "done") /\ UNCHANGED probation /\ Fails
    /\ UNCHANGED <<released, disk, refused, process, current, target, history, reboots>>

\* What is put on probation.
Trial(a) == [installed |-> target[a], previous |-> current[a], starts |-> 0]

RecordTrial(a) ==
    /\ Goes(a, "record", "done")
    /\ \/ probation' = Trial(a) /\ UNCHANGED failures
       \/ UNCHANGED probation /\ Fails
    /\ UNCHANGED <<released, disk, refused, process, current, target, history, reboots>>

\* Apply's deferred Remove, and what its caller does then.  Only the daemon's
\* own check ends the process; a foreground run settles, updated or not.
Tidy(a) ==
    /\ step[a] \in {"tidy", "done"}
    /\ disk' = Removed(disk, "new")
    /\ step' = [step EXCEPT ![a] = CASE a = "run" -> "settle"
                                     [] a = "daemon" /\ step[a] = "done" -> "exit"
                                     [] OTHER -> "idle"]
    /\ UNCHANGED <<released, probation, refused, process, current, target, history,
                   reboots, failures>>

\* The daemon process is gone, and what ran in it.
DaemonStops ==
    /\ daemon' = "off" /\ image' = None /\ watched' = FALSE
    /\ tally' = NoProbation /\ verdict' = <<>>

InDaemon == Actor \cap {"daemon", "page"}

Exit ==
    /\ "daemon" \in Actor
    /\ step["daemon"] = "exit"
    /\ DaemonStops
    /\ step' = [a \in Actor |-> IF a \in InDaemon THEN "idle" ELSE step[a]]
    /\ torn' = (torn \/ \E a \in InDaemon : step[a] \in {"aside", "place", "begin"})
    /\ forgotten' = (forgotten \/ \E a \in InDaemon : step[a] = "record")
    /\ UNCHANGED <<released, files, current, target, believed, installs, reboots, failures>>

-----------------------------------------------------------------------------
(* Probation.                                                              *)

\* Settle: the probation goes, then the way back.  It does not look at which
\* version is on probation, nor whether a swap is under way: .old may be the only
\* copy of the program there is.
Keep ==
    \/ /\ probation.installed = None
       /\ UNCHANGED <<disk, probation, believed, torn, failures>>
    \/ /\ probation.installed # None
       /\ probation' = NoProbation
       /\ disk' = Removed(disk, "old")
       /\ believed' = believed \cup {probation.installed}
       /\ torn' = (torn \/ Swapping)
       /\ UNCHANGED failures
    \/ /\ probation.installed # None /\ Fails
       /\ UNCHANGED <<disk, probation, believed, torn>>

\* The timer of a daemon that has stayed up.
Settle ==
    /\ daemon = "up" /\ watched
    /\ watched' = FALSE
    /\ Keep
    /\ UNCHANGED <<released, refused, daemon, image, tally, verdict, apply, installs,
                   forgotten, reboots>>

RunSettles ==
    /\ "run" \in Actor
    /\ Goes("run", "settle", "idle")
    /\ Keep
    /\ UNCHANGED <<released, refused, process, current, target, installs, forgotten, reboots>>

\* The service manager starts what is at the program's path.
ServiceStarts ==
    /\ daemon = "off" /\ disk["exe"] # None
    /\ daemon' = "start" /\ image' = disk["exe"]
    /\ UNCHANGED <<released, files, watched, tally, verdict, apply, history, reboots,
                   failures>>

\* Start, at the top of the daemon: nothing is on probation, and the previous
\* binary is no longer needed.
StartNothing ==
    /\ daemon = "start" /\ probation.installed = None
    /\ disk' = Removed(disk, "old")
    /\ daemon' = "wire"
    /\ UNCHANGED <<released, probation, refused, image, watched, tally, verdict, apply,
                   history, reboots, failures>>

TriesLeft == probation.starts + 1 <= ProbationStarts

\* This start is counted.
Counted == [probation EXCEPT !.starts = @ + 1]

StartOnProbation ==
    /\ daemon = "start" /\ probation.installed # None
    /\ TriesLeft
    /\ tally' = Counted
    /\ daemon' = "count"
    /\ UNCHANGED <<released, files, image, watched, verdict, apply, history, reboots,
                   failures>>

\* The file is emptied to be written again, if it can be opened.
CountOpens ==
    /\ daemon = "count"
    /\ \/ /\ probation' = NoProbation /\ daemon' = "record"
          /\ UNCHANGED <<watched, tally, failures>>
       \/ /\ UNCHANGED probation /\ Fails
          /\ daemon' = "wire" /\ watched' = TRUE /\ tally' = NoProbation
    /\ UNCHANGED <<released, disk, refused, image, verdict, apply, history, reboots>>

\* A count that cannot be written is lost, and the probation with it.
CountWrites ==
    /\ daemon = "record"
    /\ \/ probation' = tally /\ UNCHANGED failures
       \/ UNCHANGED probation /\ Fails
    /\ daemon' = "wire" /\ watched' = TRUE /\ tally' = NoProbation
    /\ UNCHANGED <<released, disk, refused, image, verdict, apply, history, reboots>>

\* Out of attempts.  Without a previous binary that runs nothing is touched;
\* with one the version is refused before the first rename, unless it has been
\* before.  That file too is emptied and then written, if it can be opened.
StartGivesUp ==
    /\ daemon = "start" /\ probation.installed # None
    /\ ~TriesLeft
    /\ \/ /\ RunsAsPrevious /\ probation.installed \notin Refused
          /\ refused' = <<>> /\ verdict' = RefusedWith(probation.installed)
          /\ daemon' = "refuse" /\ UNCHANGED failures
       \/ /\ RunsAsPrevious /\ daemon' = "stage"
          /\ IF probation.installed \in Refused THEN UNCHANGED failures ELSE Fails
          /\ UNCHANGED <<refused, verdict>>
       \/ /\ ~RunsAsPrevious /\ daemon' = "stuck"
          /\ UNCHANGED <<refused, verdict, failures>>
       \/ /\ RunsAsPrevious /\ daemon' = "stuck" /\ Fails
          /\ UNCHANGED <<refused, verdict>>
    /\ UNCHANGED <<released, disk, probation, image, watched, tally, apply, history, reboots>>

RefuseWrites ==
    /\ daemon = "refuse"
    /\ \/ refused' = verdict /\ UNCHANGED failures
       \/ UNCHANGED refused /\ Fails
    /\ daemon' = "stage" /\ verdict' = <<>>
    /\ UNCHANGED <<released, disk, probation, image, watched, tally, apply, history, reboots>>

\* rollBack's three renames; one that fails is undone and leaves it stuck.  A
\* foreground run's swap may have taken what is to be renamed.
Rollback(from, slot, to, next) ==
    /\ daemon = from /\ disk[slot] # None
    /\ disk' = Renamed(disk, slot, to)
    /\ daemon' = next
    /\ UNCHANGED <<released, probation, refused, image, watched, tally, verdict, apply,
                   history, reboots, failures>>

RollbackFails ==
    /\ \/ /\ daemon = "stage" /\ UNCHANGED disk
          /\ IF disk["old"] = None THEN UNCHANGED failures ELSE Fails
       \/ daemon = "aside" /\ (UndoneWithout("exe", "back", "old") \/ Undone("back", "old"))
       \/ daemon = "place" /\ (UndoneWithout("back", "old", "exe") \/ Undone("old", "exe"))
    /\ daemon' = "stuck"
    /\ UNCHANGED <<released, probation, refused, image, watched, tally, verdict, apply,
                   history, reboots>>

RollingBackStep ==
    \/ Rollback("stage", "old", "back", "aside")
    \/ Rollback("aside", "exe", "old", "place")
    \/ Rollback("place", "back", "exe", "back")

\* Either way probation is over, if its file can be removed.
ClearProbation ==
    \/ probation' = NoProbation /\ UNCHANGED failures
    \/ UNCHANGED probation /\ Fails

\* Stuck: reported, and carried on with.
GotStuck ==
    /\ daemon = "stuck"
    /\ ClearProbation
    /\ daemon' = "wire"
    /\ UNCHANGED <<released, disk, refused, image, watched, tally, verdict, apply, history,
                   reboots>>

\* Rolled back: exiting is how the previous version starts.
WentBack ==
    /\ daemon = "back"
    /\ ClearProbation
    /\ DaemonStops
    /\ UNCHANGED <<released, disk, refused, apply, history, reboots>>

\* The rest of the start: config, database, restic, the port.
WireSucceeds ==
    /\ daemon = "wire" /\ image \notin Bad
    /\ daemon' = "up"
    /\ UNCHANGED <<released, files, image, watched, tally, verdict, apply, history, reboots,
                   failures>>

WireFails ==
    /\ daemon = "wire"
    /\ IF image \in Bad THEN UNCHANGED failures ELSE Fails
    /\ DaemonStops
    /\ UNCHANGED <<released, files, apply, history, reboots>>

-----------------------------------------------------------------------------
(* The world.                                                              *)

Release ==
    /\ released < Newest
    /\ released' = released + 1
    /\ UNCHANGED <<files, process, apply, history, reboots, failures>>

\* Power loss, or a shutdown.  What is on the disk stays as it is.
Reboot ==
    /\ daemon # "off" \/ \E a \in Actor : step[a] # "idle"
    /\ reboots < MaxReboots /\ reboots' = reboots + 1
    /\ DaemonStops
    /\ step' = [a \in Actor |-> "idle"]
    /\ torn' = (torn \/ Swapping \/ RollingBack)
    /\ forgotten' = (forgotten \/ WritingProbation)
    /\ UNCHANGED <<released, files, current, target, believed, installs, failures>>

\* Every release is out and nothing more has to happen; or there is no program.
Rests ==
    /\ \/ daemon = "up" /\ released = Newest /\ ~watched
       \/ daemon = "off" /\ disk["exe"] = None
    /\ \A a \in Actor : step[a] = "idle"
    /\ UNCHANGED vars

-----------------------------------------------------------------------------
ApplyStep(a) ==
    Download(a) \/ Smoke(a) \/ Clear(a) \/ Aside(a) \/ Place(a) \/ Begin(a) \/ RecordTrial(a)
        \/ Tidy(a)

DaemonStep ==
    \/ ServiceStarts \/ StartNothing \/ StartOnProbation \/ CountOpens \/ CountWrites
    \/ StartGivesUp \/ RefuseWrites
    \/ RollingBackStep \/ RollbackFails \/ GotStuck \/ WentBack
    \/ WireSucceeds \/ WireFails \/ Settle \/ Exit

Next ==
    \/ \E a \in Actor : Check(a) \/ ApplyStep(a)
    \/ DaemonStep
    \/ RunWithoutUpdate \/ RunSettles
    \/ Release \/ Reboot
    \/ Rests

\* The processes run, the service manager keeps starting the daemon, and a
\* machine that is backed up keeps checking for updates afterwards.
Fairness ==
    /\ WF_vars(DaemonStep)
    /\ \A a \in Actor : WF_vars(ApplyStep(a))
    /\ \A a \in Actor \cap {"daemon"} : SF_vars(Check(a))

Spec == Init /\ [][Next]_vars /\ Fairness

-----------------------------------------------------------------------------
(* Properties.                                                             *)

\* A version on probation can be gone back from: the program's path holds the
\* version the probation file names, and .old the one it replaced
\* (probation.Previous: "what it replaced, and what .old should report").
WayBack ==
    probation.installed # None /\ ~Swapping /\ ~RollingBack /\ ~torn /\ failures = 0 =>
        /\ disk["exe"] = probation.installed
        /\ disk["old"] = probation.previous

\* "A machine with no binary at all is a machine that stops backing up" (swap):
\* no single file operation that fails, in a swap or in a rollback, leaves the
\* program's path empty, unless the timer of an earlier update removes .old
\* half-way through the swap.
AlwaysABinary ==
    ~Swapping /\ ~RollingBack /\ ~torn /\ failures <= 1 => disk["exe"] # None

\* A bad release is installed once, and after it was given up on never again,
\* though the power may fail at any step of the swap or of the rollback
\* (refuse is called before the first rename for this).
BadIsInstalledOnce == failures = 0 => \A v \in Bad : installs[v] <= 1

\* Bad luck is not held against a version: one that works is given up on only
\* after as many interrupted starts as probation allows (probationStarts).
FairTrial ==
    \A v \in Refused \ Bad : reboots + failures >= ProbationStarts

\* A bad version does not stay (probation's whole purpose), unless it was
\* settled before it was tried, a file operation failed, or the power did
\* half-way through a swap or while the probation file was being written, as
\* it is at every start on probation.
Excused == failures > 0 \/ torn \/ forgotten \/ believed \cap Bad # {}

BadDoesNotStay == disk["exe"] \in Bad ~> (disk["exe"] \notin Bad \/ Excused)

\* Giving up on one release does not cost the machine the next: a newest
\* release that works is what it ends up running.
KeepsUp ==
    (released = Newest /\ Newest \notin Bad) ~>
        (image = Newest \/ Newest \in Refused \/ Excused)

\* Settle "records that the version on probation works": no version that does
\* not start is ever kept for good.
BelievedVersionsWork == believed \cap Bad = {}

\* The same comment of swap, taken at its word: with the power on and one rename
\* that fails there is a binary, whatever timer fires in between.
PutBack ==
    ~Swapping /\ ~RollingBack /\ reboots = 0 /\ failures <= 1 => disk["exe"] # None

\* "The new version starts on probation, and if it cannot stay running, the
\* previous one is put back" (probation.go), taken at its word: a power loss
\* while a start is being counted is no reason for it to stay.
BadDoesNotStayForgotten ==
    disk["exe"] \in Bad ~>
        (disk["exe"] \notin Bad \/ failures > 0 \/ torn \/ believed \cap Bad # {})
=============================================================================
