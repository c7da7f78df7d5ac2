---------------------------- MODULE MCSelfUpdate ----------------------------
(***************************************************************************)
(* Small instances of SelfUpdate for TLC: of the machine that is updated   *)
(* by its daemon, and of the machine that is updated by foreground runs    *)
(* while its daemon comes and goes.                                        *)
(***************************************************************************)
EXTENDS SelfUpdate

VARIABLE updater    \* the one who calls Apply in this behaviour

MCInit == updater \in Actor /\ Init

\* Bounds: interruptions and failures of the second machine, whose two processes mix.
MaxRunReboots == 2
MaxRunFailures == 1

MCNext ==
    /\ Next
    /\ \A a \in Actor \ {updater} : step'[a] = "idle"
    /\ updater = "run" => reboots' <= MaxRunReboots /\ failures' <= MaxRunFailures
    /\ UNCHANGED updater

\* What must happen eventually is asked of the first machine only.
MCSpec == MCInit /\ [][MCNext]_<<vars, updater>> /\ Fairness

-----------------------------------------------------------------------------
\* Under a daemon that updates itself every version on probation can be gone
\* back from.  A foreground run settles what it has just installed.
DaemonHasAWayBack == updater = "daemon" => WayBack

\* So has it always a binary, though one file operation fails.  Where a foreground
\* run updates, every one may have to work: the run's swap may meet a daemon that is
\* starting, which removes the .old the swap needs to undo a failure.
HasABinary == updater = "daemon" \/ failures = 0 => AlwaysABinary

\* Nor does it try a bad release twice.  A foreground run may: its process is still
\* the version from before the release it has installed.
DaemonTriesTheBadOnce == updater = "daemon" => BadIsInstalledOnce

\* And it gives up on a good release only after as many interruptions as a release
\* has starts.  A foreground run's release may start on what the probation of the
\* one before has left.
DaemonTriesFairly == updater = "daemon" => FairTrial

\* A bad version leaves, and the next good one is reached.
DaemonLeavesTheBad == updater = "daemon" => BadDoesNotStay
DaemonKeepsUp == updater = "daemon" => KeepsUp
=============================================================================
