----------------------------- MODULE ResticInstall -----------------------------
(***************************************************************************)
(* The copy of restic this program keeps for itself, and the processes     *)
(* that make sure of it: every backup of the daemon, every foreground run, *)
(* every enrolment, and "sion-backup restic".  Nothing keeps two of them   *)
(* from installing at once.  A file is what it answers when it is run:     *)
(* "pinned" and "old" are versions, "broken" does not run.                 *)
(*                                                                         *)
(* A restic that an operator named is used as it is; that is left out.     *)
(***************************************************************************)
EXTENDS Naturals

CONSTANTS Installer,    \* the processes
          MaxFailures     \* bound: renames that fail, and processes killed

ASSUME InstallAssumption == MaxFailures \in Nat

VARIABLES binary,       \* what is at the managed path
          spare,        \* what is beside it, as ".old"
          step,         \* Installer -> what it does next
          staged,       \* Installer -> what it has downloaded
          failures,
          past          \* for the properties: what has happened to the machine

installVars == <<binary, spare, step, staged, failures, past>>

Runs(file) == file \in {"old", "pinned"}

InstallInit ==
    /\ binary \in {"none", "broken", "old", "pinned"}
    /\ spare \in {"none", "old"}
    /\ step = [p \in Installer |-> "idle"]
    /\ staged = [p \in Installer |-> "nothing"]
    /\ failures = 0
    /\ past = IF Runs(binary) THEN {} ELSE {"had none"}

Then(p, next) == step' = [step EXCEPT ![p] = next]
Failure == failures < MaxFailures /\ failures' = failures + 1

(* "sion-backup restic --force" takes away what is there, and then asks. *)
ForceInstall(p) ==
    /\ step[p] = "idle"
    /\ binary' = "none" /\ past' = past \cup {"forced"}
    /\ Then(p, "ask")
    /\ UNCHANGED <<staged, spare, failures>>

(* The binary is asked; whatever is not the pinned version is replaced. *)
EnsurePinned(p) ==
    /\ step[p] \in {"idle", "ask"}
    /\ Then(p, IF binary = "pinned" THEN "ready" ELSE "fetch")
    /\ UNCHANGED <<staged, binary, spare, failures, past>>

(* The hash, and then the smoke test. *)
Passes(got) == got = "pinned"

(* Done in a directory of its own that is removed in every case; an error  *)
(* is reported, and nothing has been touched.                              *)
Fetch(p) ==
    /\ step[p] = "fetch"
    /\ \E got \in {"nothing", "corrupt", "broken", "pinned"} :
          IF Passes(got)
          THEN staged' = [staged EXCEPT ![p] = got] /\ Then(p, "clear")
          ELSE Then(p, "idle") /\ UNCHANGED staged
    /\ UNCHANGED <<binary, spare, failures, past>>

(***************************************************************************)
(* swap, one system call at a time.                                        *)
(***************************************************************************)
Swaps(p) == step[p] \in {"aside", "place", "back", "tidy"}

Clear(p) ==
    /\ step[p] = "clear"
    /\ spare' = "none"
    /\ past' = IF \E q \in Installer \ {p} : Swaps(q) THEN past \cup {"overlap"} ELSE past
    /\ Then(p, "aside")
    /\ UNCHANGED <<staged, binary, failures>>

MoveAside(p) ==
    /\ step[p] = "aside"
    /\ \/ /\ binary # "none"
          /\ spare' = binary /\ binary' = "none"
          /\ Then(p, "place")
          /\ UNCHANGED failures
       \/ /\ binary = "none"
          /\ Then(p, "place")
          /\ UNCHANGED <<binary, spare, failures>>
       \/ /\ binary # "none"
          /\ Failure
          /\ Then(p, "idle")
          /\ UNCHANGED <<binary, spare>>
    /\ UNCHANGED <<staged, past>>

PutInPlace(p) ==
    /\ step[p] = "place"
    /\ \/ /\ binary' = staged[p]
          /\ Then(p, "tidy")
          /\ UNCHANGED <<failures, past>>
       \/ /\ Failure
          /\ past' = past \cup {"failed"}
          /\ Then(p, "back")
          /\ UNCHANGED binary
    /\ UNCHANGED <<staged, spare>>

(* A mutant: the old one is left where it is. *)
LeftAside == UNCHANGED <<binary, spare>>

Returned ==
    IF spare # "none" THEN binary' = spare /\ spare' = "none" ELSE UNCHANGED <<binary, spare>>

PutBack(p) ==
    /\ step[p] = "back"
    /\ \/ Returned /\ UNCHANGED <<failures, past>>
       \/ Failure /\ past' = past \cup {"stuck"} /\ UNCHANGED <<binary, spare>>
    /\ Then(p, "idle")
    /\ UNCHANGED staged

Tidy(p) ==
    /\ step[p] = "tidy"
    /\ spare' \in {spare, "none"}
    /\ Then(p, "confirm")
    /\ UNCHANGED <<staged, binary, failures, past>>

(* Asked again.  Any version will do. *)
Confirm(p) ==
    /\ step[p] = "confirm"
    /\ Then(p, IF Runs(binary) THEN "ready" ELSE "idle")
    /\ UNCHANGED <<staged, binary, spare, failures, past>>

(* What restic was for is over. *)
Done(p) ==
    /\ step[p] = "ready"
    /\ Then(p, "idle")
    /\ UNCHANGED <<staged, binary, spare, failures, past>>

(* Between the two renames of a swap, a kill leaves only the old one. *)
KilledInstalling(p) ==
    /\ step[p] \notin {"idle", "ready"}
    /\ Failure
    /\ Then(p, "idle")
    /\ past' = IF Runs(binary) THEN past ELSE past \cup {"killed"}
    /\ UNCHANGED <<staged, binary, spare>>

InstallNext ==
    \E p \in Installer :
        \/ ForceInstall(p) \/ EnsurePinned(p) \/ Fetch(p)
        \/ Clear(p) \/ MoveAside(p) \/ PutInPlace(p)
        \/ PutBack(p) \/ Tidy(p) \/ Confirm(p) \/ Done(p)
        \/ KilledInstalling(p)

InstallSpec == InstallInit /\ [][InstallNext]_installVars

(***************************************************************************)
(* Properties.                                                             *)
(***************************************************************************)
Settled == \A p \in Installer : ~Swaps(p)

(* Installing never costs a machine the restic it had, whatever downloads  *)
(* fail or turn out not to run, whichever of the two renames fails, and    *)
(* however two of them mix: when nobody is swapping, there is one that     *)
(* runs.  What may leave it without is a kill between the two renames,     *)
(* --force, a put-back that fails as well, or both at once: a rename that  *)
(* fails in one of two installs that overlapped, whose ".old" is the same. *)
ResticIsKept ==
    Settled /\ (past \subseteq {"overlap"} \/ past \subseteq {"failed"}) => Runs(binary)

(* What has made sure of restic finds it there when it runs it, as a       *)
(* backup does several times, unless somebody has asked for a removal.     *)
ResticIsThere ==
    \A p \in Installer : step[p] = "ready" /\ past \subseteq {"overlap"} => Runs(binary)
===============================================================================
