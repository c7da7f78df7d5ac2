-------------------------------- MODULE Plan --------------------------------
(***************************************************************************)
(* The plan of one machine: the single row that says what is backed up and *)
(* whether somebody at the machine has said yes to it.                     *)
(*                                                                         *)
(* Seven parts of the program write that row.  Four read it, change some   *)
(* of it and write all of it back, with no transaction around the two: the *)
(* settings page, the set-up page, a backup that was told its bucket has   *)
(* moved, and the enrol command.  Three write a whole plan of their own:   *)
(* the configuration file, the recovery of a lost plan, and adopt-enroll,  *)
(* which has one from the script of an older backup.  The daemon is a      *)
(* process that can die between any two of these statements; enrol and     *)
(* adopt-enroll are a process of their own.                                *)
(***************************************************************************)
EXTENDS Naturals, FiniteSets

CONSTANTS
    Repository,     \* the buckets the server may name
    Home,           \* the first of them
    Folders,        \* the lists of folders a person may choose
    NoFolders,      \* the empty list
    Request,        \* requests the status page may serve at once
    Config,         \* the plans config.toml may hold, with None among them
    Script,         \* the plans that may be read out of an older backup's script
    None

NoPlan == None
NoConfig == None
Targets == Folders \cup {NoFolders}
PlanRow == [repository : Repository, targets : Targets, paused : BOOLEAN, confirmed : BOOLEAN]

ASSUME PlanAssumption ==
    /\ NoFolders \notin Folders
    /\ None \notin PlanRow
    /\ Home \in Repository
    /\ Config \subseteq {c \in PlanRow : c.targets # NoFolders /\ ~c.paused} \cup {NoConfig}
    /\ Script \subseteq {c \in PlanRow : c.targets # NoFolders /\ ~c.paused /\ ~c.confirmed}

VARIABLES
    row,            \* the plan table, one row or none
    column,         \* confirmed_at: "missing" in a table of an older build, "empty", "filled"
    seeded,         \* the marker that config.toml, or a script, has been consumed
    config,         \* what config.toml holds
    token,          \* the machine token is on the disk
    server,         \* the repository the server has for this machine
    daemon,         \* where the daemon is
    request,        \* what each request of the page holds
    run,            \* the backup in progress and the plan it was started with
    enrolment,      \* the enrol or adopt-enroll command, and the plan it is about to store
    wanted,         \* history: what people last said on the page and nothing has overtaken
    approved        \* history: somebody has said yes, here or in config.toml

disk == <<row, column, seeded, config, token>>
world == <<server, config, token>>
history == <<wanted, approved>>
vars == <<disk, server, daemon, request, run, enrolment, history>>

Idle == [at |-> "idle"]

Runnable(plan) == plan.targets # NoFolders

\* The part of a plan that is a person's to decide.
PersonPart(plan) == [targets |-> plan.targets, paused |-> plan.paused, confirmed |-> plan.confirmed]
Choices == [targets : Targets, paused : BOOLEAN, confirmed : BOOLEAN]

TypeOK ==
    /\ row \in PlanRow \cup {NoPlan}
    /\ column \in {"missing", "empty", "filled"}
    /\ seeded \in BOOLEAN /\ token \in BOOLEAN
    /\ config \in Config
    /\ server \in Repository
    /\ daemon \in {"down", "migrate", "fill", "seed", "putSeed", "mark", "recover", "ask", "up"}
    /\ request \in [Request -> {Idle} \cup
            [at : {"store", "approve"}, read : PlanRow, plan : PlanRow, confirm : BOOLEAN]
            \cup [at : {"confirm"}]]
    /\ run \in {Idle} \cup [at : {"fetch"}, plan : PlanRow, scheduled : BOOLEAN]
    /\ enrolment \in {Idle} \cup [at : {"read", "seed", "mark"}]
            \cup [at : {"put"}, read : PlanRow \cup {NoPlan}, plan : PlanRow]
    /\ wanted \in Choices \cup {None}
    /\ approved \in BOOLEAN

-----------------------------------------------------------------------------
\* A machine nobody has set up, with or without a file left by the installer.
NewMachine ==
    /\ row = NoPlan /\ column = "filled"
    /\ seeded = FALSE /\ token = FALSE
    /\ wanted = None /\ approved = FALSE

\* A machine that has been backing up under a build without confirmed_at.  Its
\* plan was chosen by somebody and is running; that it has not been confirmed is
\* only what the new column will say.
OldMachine ==
    /\ row \in {p \in PlanRow : p.repository = Home /\ Runnable(p) /\ ~p.confirmed /\ ~p.paused}
    /\ column = "missing"
    /\ seeded = (config # NoConfig) /\ token = TRUE
    /\ wanted = [PersonPart(row) EXCEPT !.confirmed = TRUE]
    /\ approved = TRUE

Init ==
    /\ config \in Config
    /\ server = Home
    /\ NewMachine \/ OldMachine
    /\ daemon = "down"
    /\ request = [h \in Request |-> Idle]
    /\ run = Idle /\ enrolment = Idle

\* A write that was computed from what the row said before.  When the row has
\* changed since, the write loses that change, and what people want is no longer
\* what is stored: the history gives it up until they say something new.
Overtakes(read) == row # NoPlan /\ (read = NoPlan \/ PersonPart(read) # PersonPart(row))

WriteBack(read, plan, said) ==
    /\ row' = plan
    /\ wanted' = IF Overtakes(read) THEN None ELSE said

-----------------------------------------------------------------------------
\* The daemon starts: migrations, then the configuration file, then the server.
ServiceStarts ==
    /\ daemon = "down"
    /\ daemon' = IF column = "missing" THEN "migrate" ELSE "seed"
    /\ UNCHANGED <<disk, server, request, run, enrolment, history>>

AddColumn ==
    /\ daemon = "migrate"
    /\ column' = "empty"
    /\ daemon' = "fill"
    /\ UNCHANGED <<row, seeded, world, request, run, enrolment, history>>

FillColumn ==
    /\ daemon = "fill"
    /\ column' = "filled"
    /\ row' = IF row = NoPlan THEN row ELSE [row EXCEPT !.confirmed = TRUE]
    /\ daemon' = "seed"
    /\ UNCHANGED <<seeded, world, request, run, enrolment, history>>

\* Mutant: the marker is not asked.
SeedReadsAlways ==
    /\ daemon = "seed"
    /\ daemon' = IF config = NoConfig THEN "recover" ELSE "putSeed"
    /\ UNCHANGED <<disk, server, request, run, enrolment, history>>

SeedReads ==
    /\ daemon = "seed"
    /\ daemon' = IF config = NoConfig \/ seeded THEN "recover" ELSE "putSeed"
    /\ UNCHANGED <<disk, server, request, run, enrolment, history>>

SeedPuts ==
    /\ daemon = "putSeed"
    /\ row' = config
    /\ approved' = (approved \/ config.confirmed)
    /\ daemon' = "mark"
    /\ UNCHANGED <<column, seeded, world, request, run, enrolment, wanted>>

SeedMarks ==
    /\ daemon = "mark"
    /\ seeded' = TRUE
    /\ daemon' = "recover"
    /\ UNCHANGED <<row, column, world, request, run, enrolment, history>>

\* Mutant: only a machine with a configuration file is looked after.
RecoverReadsWithFile ==
    /\ daemon = "recover"
    /\ daemon' = IF token /\ row = NoPlan /\ config # NoConfig THEN "ask" ELSE "up"
    /\ UNCHANGED <<disk, server, request, run, enrolment, history>>

RecoverReads ==
    /\ daemon = "recover"
    /\ daemon' = IF token /\ row = NoPlan THEN "ask" ELSE "up"
    /\ UNCHANGED <<disk, server, request, run, enrolment, history>>

\* Mutant: what the server knows of is taken as confirmed.
RecoveredConfirmed ==
    [repository |-> server, targets |-> NoFolders, paused |-> FALSE, confirmed |-> TRUE]

RecoveredPlan ==
    [repository |-> server, targets |-> NoFolders, paused |-> FALSE, confirmed |-> FALSE]

RecoverPuts ==
    /\ daemon = "ask"
    /\ row' = RecoveredPlan
    /\ daemon' = "up"
    /\ UNCHANGED <<column, seeded, world, request, run, enrolment, history>>

\* The server cannot be reached, or has no repository for this machine.
RecoverFails ==
    /\ daemon = "ask"
    /\ daemon' = "up"
    /\ UNCHANGED <<disk, server, request, run, enrolment, history>>

-----------------------------------------------------------------------------
\* The settings page.  The form holds the folders and the pause; the rest of
\* the plan is what the handler read.
SaveSettings(h) ==
    /\ daemon = "up" /\ request[h] = Idle
    /\ row # NoPlan
    /\ \E folders \in Targets, paused \in BOOLEAN :
          request' = [request EXCEPT ![h] =
              [at |-> "store", read |-> row, confirm |-> FALSE,
               plan |-> [row EXCEPT !.targets = folders, !.paused = paused]]]
    /\ UNCHANGED <<disk, server, daemon, run, enrolment, history>>

\* The set-up page refuses an empty list, and is not shown before enrolment.
SaveSetup(h) ==
    /\ daemon = "up" /\ request[h] = Idle
    /\ row # NoPlan
    /\ \E folders \in Folders, confirm \in BOOLEAN :
          request' = [request EXCEPT ![h] =
              [at |-> "store", read |-> row, confirm |-> confirm,
               plan |-> [row EXCEPT !.targets = folders]]]
    /\ UNCHANGED <<disk, server, daemon, run, enrolment, history>>

\* What somebody has said, counting this form as the last word on what it holds.
Said(plan) ==
    IF wanted = None THEN PersonPart(plan)
    ELSE [wanted EXCEPT !.targets = plan.targets, !.paused = plan.paused]

Store(h) ==
    /\ request[h].at = "store"
    /\ WriteBack(request[h].read, request[h].plan, Said(request[h].plan))
    /\ request' = [request EXCEPT ![h] = IF request[h].confirm THEN [at |-> "confirm"] ELSE Idle]
    /\ UNCHANGED <<column, seeded, world, daemon, run, enrolment, approved>>

\* Confirm reads the row again, and approves whatever is in it by then.
ConfirmReads(h) ==
    /\ request[h].at = "confirm"
    /\ request' = [request EXCEPT ![h] =
          IF row # NoPlan /\ Runnable(row)
          THEN [at |-> "approve", read |-> row, confirm |-> TRUE,
                plan |-> [row EXCEPT !.confirmed = TRUE]]
          ELSE Idle]
    /\ UNCHANGED <<disk, server, daemon, run, enrolment, history>>

\* The button also starts a backup, unless one is running.
Approve(h) ==
    /\ request[h].at = "approve"
    /\ WriteBack(request[h].read, request[h].plan,
                 [Said(request[h].plan) EXCEPT !.confirmed = TRUE])
    /\ approved' = TRUE
    /\ run' = IF run = Idle THEN [at |-> "fetch", plan |-> request[h].plan, scheduled |-> FALSE]
              ELSE run
    /\ request' = [request EXCEPT ![h] = Idle]
    /\ UNCHANGED <<column, seeded, world, daemon, enrolment>>

-----------------------------------------------------------------------------
\* A backup is started with the plan as it is now.  The scheduler asks whether
\* it is confirmed; the button "Back up now" does not.
MaybeRun ==
    /\ daemon = "up" /\ run = Idle
    /\ row # NoPlan /\ row.confirmed /\ ~row.paused
    /\ run' = [at |-> "fetch", plan |-> row, scheduled |-> TRUE]
    /\ UNCHANGED <<disk, server, daemon, request, enrolment, history>>

StartRun ==
    /\ daemon = "up" /\ run = Idle
    /\ row # NoPlan
    /\ run' = [at |-> "fetch", plan |-> row, scheduled |-> FALSE]
    /\ UNCHANGED <<disk, server, daemon, request, enrolment, history>>

\* The plan is not runnable, restic is missing, or the credentials do not come.
RunFails ==
    /\ run # Idle
    /\ run' = Idle
    /\ UNCHANGED <<disk, server, daemon, request, enrolment, history>>

\* The credentials arrive with the repository the server has for this machine.
\* When that is news, the whole plan is written back as the run remembers it.
RunFetches ==
    /\ run # Idle
    /\ Runnable(run.plan) /\ token
    /\ IF server = run.plan.repository
       THEN UNCHANGED <<row, wanted>>
       ELSE WriteBack(run.plan, [run.plan EXCEPT !.repository = server], wanted)
    /\ run' = Idle
    /\ UNCHANGED <<column, seeded, world, daemon, request, enrolment, approved>>

-----------------------------------------------------------------------------
\* The enrol command: the token first, then the plan.  With --force it may be
\* run on a machine that has been set up for years.
EnrolClaims ==
    /\ enrolment = Idle
    /\ column = "filled"
    /\ token' = TRUE
    /\ enrolment' = [at |-> "read"]
    /\ UNCHANGED <<row, column, seeded, config, server, daemon, request, run, history>>

Enrolled ==
    LET kept == IF row = NoPlan
                THEN [repository |-> server, targets |-> NoFolders, paused |-> FALSE, confirmed |-> FALSE]
                ELSE [row EXCEPT !.repository = server]
    IN  IF kept.targets = NoFolders /\ config # NoConfig
        THEN [kept EXCEPT !.targets = config.targets]
        ELSE kept

EnrolReads ==
    /\ enrolment.at = "read"
    /\ enrolment' = [at |-> "put", read |-> row, plan |-> Enrolled]
    /\ UNCHANGED <<disk, server, daemon, request, run, history>>

EnrolPuts ==
    /\ enrolment.at = "put"
    /\ WriteBack(enrolment.read, enrolment.plan, wanted)
    /\ enrolment' = Idle
    /\ UNCHANGED <<column, seeded, world, daemon, request, run, approved>>

\* adopt-enroll first seeds the plan it has read out of the script, asking only for
\* the marker: whatever plan the machine has is gone.  Without a code it ends there.
AdoptReads ==
    /\ enrolment = Idle
    /\ column = "filled" /\ ~seeded
    /\ enrolment' = [at |-> "seed"]
    /\ UNCHANGED <<disk, server, daemon, request, run, history>>

AdoptPuts ==
    /\ enrolment.at = "seed"
    /\ row' \in Script
    /\ wanted' = None
    /\ enrolment' = [at |-> "mark"]
    /\ UNCHANGED <<column, seeded, world, daemon, request, run, approved>>

AdoptMarks ==
    /\ enrolment.at = "mark"
    /\ seeded' = TRUE
    /\ enrolment' = Idle
    /\ UNCHANGED <<row, column, world, daemon, request, run, history>>

EnrolDies ==
    /\ enrolment # Idle
    /\ enrolment' = Idle
    /\ UNCHANGED <<disk, server, daemon, request, run, history>>

-----------------------------------------------------------------------------
\* The daemon stops, at any statement.
Crash ==
    /\ daemon # "down"
    /\ daemon' = "down"
    /\ request' = [h \in Request |-> Idle]
    /\ run' = Idle
    /\ wanted' = IF daemon = "fill" THEN None ELSE wanted
    /\ UNCHANGED <<disk, server, enrolment, approved>>

\* An offer is accepted.  A bucket that has been left is not offered again.
ServerMoves ==
    /\ server = Home
    /\ server' \in Repository \ {Home}
    /\ UNCHANGED <<disk, daemon, request, run, enrolment, history>>

Starting == ServiceStarts \/ AddColumn \/ FillColumn \/ SeedReads \/ SeedPuts \/ SeedMarks
                \/ RecoverReads \/ RecoverPuts \/ RecoverFails
Page(h) == SaveSettings(h) \/ SaveSetup(h) \/ Store(h) \/ ConfirmReads(h) \/ Approve(h)
Backup == MaybeRun \/ StartRun \/ RunFails \/ RunFetches
Enrol == EnrolClaims \/ EnrolReads \/ EnrolPuts
            \/ AdoptReads \/ AdoptPuts \/ AdoptMarks \/ EnrolDies

Next ==
    \/ Starting
    \/ \E h \in Request : Page(h)
    \/ Backup
    \/ Enrol
    \/ Crash \/ ServerMoves

\* The service manager starts the daemon, which runs.  Machines are restarted now
\* and then; the power does not go during every start, nor is the network down at
\* all of those that ask the server.
Fairness ==
    /\ WF_vars(Starting) /\ WF_vars(Crash)
    /\ []<>(daemon = "up") /\ SF_vars(RecoverPuts)

Spec == Init /\ [][Next]_vars /\ Fairness

-----------------------------------------------------------------------------
\* What somebody said on the page is what the row says, through restarts, a
\* second enrolment, a move to another bucket, a configuration file that is read
\* again after a crash, a lost plan that is recovered, and the upgrade that adds
\* the confirmation.  The exceptions are a write that began before the choice was
\* stored, an upgrade cut short, and adopt-enroll on a machine that has consumed no
\* file: no statement of this program guards against those three.  An empty list of
\* folders is no choice; enrol fills it from the file.
EditsKept ==
    (wanted # None /\ column = "filled") =>
        /\ row # NoPlan
        /\ row.paused = wanted.paused /\ row.confirmed = wanted.confirmed
        /\ wanted.targets \in {NoFolders, row.targets}

\* The scheduler's gate.  Nothing is confirmed, and nothing the scheduler started
\* is in progress, unless somebody said yes: on the set-up page, in config.toml, or
\* by having run an older build.  Enrolment, recovery and a run that writes the
\* plan back never say it for them.
GateHolds ==
    /\ row # NoPlan /\ row.confirmed => approved
    /\ run # Idle /\ run.scheduled => approved

\* A machine that holds a token does not stay without a plan: what a crash of the
\* enrol command lost is asked for again at a later start.
EnrolledHasAPlan == token ~> row # NoPlan

\* seedAdoptedPlan "writes the assembled plan, and only on a machine that has none",
\* taken at its word: it is not written over one that somebody has chosen.
ScriptIsNotPutOverAChoice == [][AdoptPuts => wanted = None]_vars
=============================================================================
