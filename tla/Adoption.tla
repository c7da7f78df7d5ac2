------------------------------- MODULE Adoption -------------------------------
(***************************************************************************)
(* Taking over the backup that already runs on a machine: what recon       *)
(* reports, adopt-enroll and enroll, the code they claim, and the server's *)
(* refusal of a code for another bucket than the one the machine says it   *)
(* writes to.  Every write of a command is a step: a command may be killed *)
(* between any two of them, and the administrator at the server acts at    *)
(* any time.                                                               *)
(*                                                                         *)
(* What a script says is reduced to where it writes.  The history sits at  *)
(* Legacy; Beside is another place in the same bucket, which is what an    *)
(* administrator who overlooks a prefix adopts; Fresh is a new bucket.     *)
(***************************************************************************)
EXTENDS Integers, FiniteSets, FiniteSetsExt

CONSTANTS NumPlaces,            \* directories a legacy install may be in
          Legacy, Beside, Fresh,
          None,
          MaxCodes,             \* bound: enrolment codes issued
          MaxMishaps            \* bound: lost answers, failures and deaths

ASSUME AdoptionAssumption ==
    /\ NumPlaces \in Nat \ {0} /\ MaxCodes \in Nat /\ MaxMishaps \in Nat
    /\ Beside # Legacy /\ Fresh \notin {Legacy, Beside}
    /\ None \notin {Legacy, Beside, Fresh}
    /\ None \notin [url : {Legacy, Beside, Fresh}, adopted : BOOLEAN]

VARIABLES disk,         \* place -> what is there
          script,       \* where the install writes, as far as can be read
          row,          \* the server's: the repository this machine is to use
          code,         \* the newest enrolment code
          issued,       \* how many codes there were
          repo,         \* URL -> what restic finds there
          token,        \* whether the machine holds one
          restic,       \* whether the pinned restic is here
          cmd,          \* the command somebody is running
          advice,       \* what the last report said to do next
          mishaps

(* For the properties: where the machine was enrolled, and whether a claim *)
(* the server granted was lost on its way to the machine's disk.           *)
VARIABLES joined, lost

atServer == <<row, code, issued>>
onDisk == <<disk, script, token, restic>>
adoptVars == <<disk, script, row, code, issued, repo, token, restic, cmd,
               advice, mishaps, joined, lost>>

Place == 1..NumPlaces
Repository == {Legacy, Beside, Fresh}
NoCommand == [at |-> "idle"]

(* "sealed" is a script that can be seen and not read; a home that cannot  *)
(* be entered is "closed", and may or may not have an install inside.      *)
Contents == {"nothing", "script", "sealed", "closed", "closed script"}
Holds(place) == disk[place] \in {"script", "sealed", "closed script"}

AdoptInit ==
    /\ disk \in [Place -> Contents]
    /\ Cardinality({p \in Place : Holds(p)}) <= 1
    /\ script \in {Legacy, None}
    /\ row = None /\ code = "none" /\ issued = 0
    /\ repo = [u \in Repository |-> IF u = Legacy THEN "history" ELSE "absent"]
    /\ token = FALSE /\ restic \in BOOLEAN
    /\ cmd = NoCommand /\ advice = "none" /\ mishaps = 0
    /\ joined = None /\ lost = FALSE

Mishap == mishaps < MaxMishaps /\ mishaps' = mishaps + 1

(***************************************************************************)
(* legacyscan.Find, and what recon and adopt-enroll make of it.            *)
(***************************************************************************)
(* What an account finds in a place: root enters and reads everything. *)
Finds(place, root) ==
    CASE Holds(place) /\ (root \/ disk[place] = "script")            -> "script"
      [] disk[place] \in {"closed", "closed script"} /\ ~root        -> "blocked"
      [] disk[place] = "sealed" /\ ~root                             -> "unread"
      [] OTHER                                                       -> "nothing"

(* The first script that can be read, and whether a place was blocked.  A  *)
(* script that is there and cannot be read is a note and nothing else.     *)
Find(root) ==
    LET readable == {p \in Place : Finds(p, root) = "script"} IN
    [install |-> IF readable = {} THEN None ELSE Min(readable),
     blocked |-> \E p \in Place : Finds(p, root) = "blocked"]

Advice(found) ==
    IF found.install # None THEN "adopt"
    ELSE IF found.blocked THEN "look again" ELSE "new"

Recon(root) ==
    /\ cmd = NoCommand
    /\ advice' = Advice(Find(root))
    /\ UNCHANGED <<atServer, onDisk, repo, cmd, mishaps, joined, lost>>

(***************************************************************************)
(* The administrator.                                                      *)
(***************************************************************************)
Provision ==
    /\ row' = [url |-> Fresh, adopted |-> FALSE]
    /\ UNCHANGED <<code, issued, onDisk, repo, cmd, advice, mishaps, joined, lost>>

Adopt ==
    /\ \E u \in {Legacy, Beside} : row' = [url |-> u, adopted |-> TRUE]
    /\ UNCHANGED <<code, issued, onDisk, repo, cmd, advice, mishaps, joined, lost>>

IssueCode ==
    /\ row # None
    /\ issued < MaxCodes
    /\ issued' = issued + 1
    /\ code' = "good"
    /\ UNCHANGED <<row, onDisk, repo, cmd, advice, mishaps, joined, lost>>

CodeExpires ==
    /\ code = "good"
    /\ code' = "expired"
    /\ UNCHANGED <<row, issued, onDisk, repo, cmd, advice, mishaps, joined, lost>>

(***************************************************************************)
(* The commands.  "names" is what the claim says of the old install.       *)
(***************************************************************************)
Goto(state) == cmd' = state
Continue(where) == cmd' = [cmd EXCEPT !.at = where]
Stop == cmd' = NoCommand

(* A machine that holds a token is not enrolled again by accident. *)
MayEnrol(force) == token => force

(* What the script says, as the claim repeats it. *)
Assembled(withCode) ==
    [at |-> "seed", names |-> script, adopting |-> TRUE, claim |-> withCode]

AdoptEnrol(root, withCode, force) ==
    /\ cmd = NoCommand
    /\ MayEnrol(force)
    /\ LET found == Find(root) IN
          IF found.install = None
          THEN advice' = Advice(found) /\ UNCHANGED cmd
          ELSE Goto(Assembled(withCode)) /\ UNCHANGED advice
    /\ UNCHANGED <<atServer, onDisk, repo, mishaps, joined, lost>>

(* Silence at the prompt is a no. *)
Declined ==
    /\ cmd.at = "seed"
    /\ Stop
    /\ UNCHANGED <<atServer, onDisk, repo, advice, mishaps, joined, lost>>

(* The plan the script amounts to is seeded before anything is claimed.    *)
(* What that does to the plan of the machine is in module Plan.            *)
SeedAdoptedPlan ==
    /\ cmd.at = "seed"
    /\ Continue("measure")
    /\ UNCHANGED <<atServer, onDisk, repo, advice, mishaps, joined, lost>>

(* The old repository is opened and counted, if it can be: with restic, so *)
(* that is fetched, and with the script's keys.  Nothing depends on it.    *)
Measure ==
    /\ cmd.at = "measure"
    /\ restic' \in {restic, TRUE}
    /\ Continue(IF cmd.claim THEN "fetch" ELSE "steps")
    /\ UNCHANGED <<atServer, disk, script, token, repo, advice, mishaps, joined, lost>>

(* Without a code it stops at what is to be done at the server. *)
ServerSteps ==
    /\ cmd.at = "steps"
    /\ advice' = "have it adopted"
    /\ Stop
    /\ UNCHANGED <<atServer, onDisk, repo, mishaps, joined, lost>>

EnrolCmd(force) ==
    /\ cmd = NoCommand
    /\ MayEnrol(force)
    /\ Goto([at |-> "fetch", names |-> None, adopting |-> FALSE, claim |-> TRUE])
    /\ UNCHANGED <<atServer, onDisk, repo, advice, mishaps, joined, lost>>

(* restic is here before the code is spent. *)
FetchRestic ==
    /\ cmd.at = "fetch"
    /\ \/ /\ restic' = TRUE
          /\ Continue("claim")
          /\ UNCHANGED mishaps
       \/ /\ ~restic
          /\ Mishap
          /\ Stop
          /\ UNCHANGED restic
    /\ UNCHANGED <<atServer, disk, script, token, repo, advice, joined, lost>>

(* A mutant: a bucket is as good as another. *)
NeverMismatched(names) == FALSE

(* The machine writes elsewhere, and says so. *)
Mismatched(names) == row # None /\ names # None /\ names # row.url

(* A mutant: the code is taken before the buckets are compared. *)
SpentByRefusal == IF code = "good" THEN "spent" ELSE code

(* A refusal leaves the code good for the next attempt. *)
AfterRefusal == code

ClaimRefused ==
    /\ cmd.at = "claim"
    /\ code # "good" \/ Mismatched(cmd.names)
    /\ code' = AfterRefusal
    /\ Stop
    /\ UNCHANGED <<row, issued, onDisk, repo, advice, mishaps, joined, lost>>

ClaimAccepted ==
    /\ cmd.at = "claim"
    /\ code = "good" /\ ~Mismatched(cmd.names)
    /\ code' = "spent"
    /\ \/ /\ Goto([at |-> "save", names |-> cmd.names, adopting |-> cmd.adopting,
                   url |-> row.url, mayCreate |-> ~row.adopted])
          /\ UNCHANGED <<mishaps, lost>>
       \/ Stop /\ Mishap /\ lost' = TRUE       \* the answer is lost
    /\ UNCHANGED <<row, issued, onDisk, repo, advice, joined>>

SaveToken ==
    /\ cmd.at = "save"
    /\ token' = TRUE
    /\ joined' = [url |-> cmd.url, names |-> cmd.names]
    /\ Continue("store")
    /\ UNCHANGED <<atServer, disk, script, restic, repo, advice, mishaps, lost>>

(* Again a write to the plan table. *)
StorePlan ==
    /\ cmd.at = "store"
    /\ Continue("ensure")
    /\ UNCHANGED <<atServer, onDisk, repo, advice, mishaps, joined, lost>>

(* A mutant: the permission is not looked at. *)
CreatedWherever(url, mayCreate) ==
    IF repo[url] = "absent" THEN [repo EXCEPT ![url] = "created"] ELSE repo

(* Created only where there is none, and only with the server's leave. *)
Created(url, mayCreate) ==
    IF repo[url] = "absent" /\ mayCreate THEN [repo EXCEPT ![url] = "created"] ELSE repo

(* What goes wrong here is a warning: the machine is enrolled by now. *)
EnsureRepository ==
    /\ cmd.at = "ensure"
    /\ \/ repo' = Created(cmd.url, cmd.mayCreate) /\ UNCHANGED mishaps
       \/ UNCHANGED repo /\ Mishap
    /\ IF cmd.adopting THEN Continue("verify") ELSE Stop
    /\ UNCHANGED <<atServer, onDisk, advice, joined, lost>>

(* What adopt-enroll tells the person standing there. *)
Verified(url) ==
    IF url # script THEN "not the legacy repository"
    ELSE IF repo[url] = "history" THEN "it opens the old history"
    ELSE "the repository is empty"

Verify ==
    /\ cmd.at = "verify"
    /\ advice' = Verified(cmd.url)
    /\ Stop
    /\ UNCHANGED <<atServer, onDisk, repo, mishaps, joined, lost>>

(* Killed, or the power goes, or a write fails: each ends the command. *)
Killed ==
    /\ cmd # NoCommand
    /\ Mishap
    /\ Stop
    /\ lost' = (lost \/ cmd.at = "save")
    /\ UNCHANGED <<atServer, onDisk, repo, advice, joined>>

Enrols ==
    \/ SeedAdoptedPlan \/ Measure \/ ServerSteps \/ FetchRestic \/ ClaimRefused \/ ClaimAccepted
    \/ SaveToken \/ StorePlan \/ EnsureRepository \/ Verify

AdoptNext ==
    \/ \E root \in BOOLEAN : Recon(root)
    \/ \E root, withCode, force \in BOOLEAN : AdoptEnrol(root, withCode, force)
    \/ \E force \in BOOLEAN : EnrolCmd(force)
    \/ Declined
    \/ Enrols
    \/ Killed
    \/ Provision \/ Adopt \/ IssueCode \/ CodeExpires

AdoptSpec == AdoptInit /\ [][AdoptNext]_adoptVars

(***************************************************************************)
(* Properties.                                                             *)
(***************************************************************************)
(* A machine that said where it has been writing is enrolled there and     *)
(* nowhere else, whatever the administrator provisioned, adopted or        *)
(* changed between issuing the code and its being presented, and nothing   *)
(* this program does ever creates a repository over the old history or     *)
(* beside it in the bucket that was adopted.                               *)
HistoryIsContinued ==
    /\ joined # None => joined.names \in {None, joined.url}
    /\ repo[Legacy] = "history" /\ repo[Beside] = "absent"

(* A code is good for one claim and fifteen minutes, with somebody         *)
(* standing there.  It is spent only on a machine that can back up with    *)
(* what it gets, restic being here already, and that holds the token or is *)
(* about to, unless the answer or the process was lost in between: neither *)
(* a failed download nor a refusal costs one.                              *)
CodesAreNotWasted ==
    code = "spent" => restic /\ (token \/ cmd.at = "save" \/ lost)

(* "The one thing this report must never do is call a machine new when it  *)
(* was not allowed to look at the place the old install lives."            *)
NeverCalledNew ==
    advice = "new" => \A p \in Place : ~Holds(p)
===============================================================================
