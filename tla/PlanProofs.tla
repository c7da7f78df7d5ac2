------------------------------ MODULE PlanProofs ------------------------------
(***************************************************************************)
(* Theorems about Plan, for any set of buckets, lists of folders, requests *)
(* of the page and configuration files: the plan table, and everything a   *)
(* request, a run or an enrolment holds of it, stay well-formed; the       *)
(* scheduler starts nothing that nobody has said yes to; and what somebody *)
(* chose is not written over by those who write the row back.              *)
(***************************************************************************)
EXTENDS Plan, TLAPS

(***************************************************************************)
(* Type correctness.                                                       *)
(***************************************************************************)
(* The daemon seeds the plan from a file only if there is one.             *)
TypeInv == TypeOK /\ (daemon = "putSeed" => config # NoConfig)

(* A write that goes through WriteBack stores a plan, and what is wanted   *)
(* afterwards is a choice or nothing.                                      *)
LEMMA WriteBackTyped ==
    ASSUME NEW read, NEW plan \in PlanRow, NEW said \in Choices \cup {None},
           WriteBack(read, plan, said)
    PROVE  row' \in PlanRow \cup {NoPlan} /\ wanted' \in Choices \cup {None}
  BY DEF WriteBack

(* What somebody is taken to have said is a choice. *)
LEMMA SaidTyped ==
    ASSUME NEW plan \in PlanRow, wanted \in Choices \cup {None}
    PROVE  Said(plan) \in Choices
  BY DEF Said, PersonPart, Choices, PlanRow

(* A file that is there holds a plan. *)
LEMMA ConfigTyped == ASSUME TypeOK, config # NoConfig PROVE config \in PlanRow
  BY PlanAssumption DEF TypeOK

(* What is read out of an older backup's script is a plan, and says yes to nothing. *)
LEMMA ScriptTyped ==
    ASSUME NEW plan \in Script
    PROVE  plan \in PlanRow /\ plan # NoPlan /\ ~plan.confirmed
  BY PlanAssumption DEF NoPlan

(* The machines a behaviour starts from. *)
LEMMA InitTyped == Init => TypeInv
  <1> SUFFICES ASSUME Init PROVE TypeInv
    OBVIOUS
  <1>1. row \in PlanRow \cup {NoPlan} /\ wanted \in Choices \cup {None}
    <2>1. CASE NewMachine
      BY <2>1 DEF NewMachine
    <2>2. CASE OldMachine
      BY <2>2 DEF OldMachine, PersonPart, Choices, PlanRow
    <2> QED
      BY <2>1, <2>2 DEF Init
  <1>2. column \in {"missing", "empty", "filled"} /\ seeded \in BOOLEAN /\ token \in BOOLEAN
          /\ approved \in BOOLEAN
    BY DEF Init, NewMachine, OldMachine
  <1>3. config \in Config /\ server \in Repository /\ daemon = "down"
          /\ run = Idle /\ enrolment = Idle /\ request \in [Request -> {Idle}]
    BY PlanAssumption DEF Init
  <1> QED
    BY <1>1, <1>2, <1>3 DEF TypeOK, TypeInv

(* The daemon's start. *)
LEMMA StartingTyped == TypeInv /\ Starting => TypeInv'
  <1> SUFFICES ASSUME TypeInv, Starting PROVE TypeInv'
    OBVIOUS
  <1> USE DEF TypeInv, TypeOK, disk, world, history
  <1>1. CASE ServiceStarts
    BY <1>1 DEF ServiceStarts
  <1>2. CASE AddColumn
    BY <1>2 DEF AddColumn
  <1>3. CASE FillColumn
    <2>1. row # NoPlan => row \in PlanRow /\ [row EXCEPT !.confirmed = TRUE] \in PlanRow
      BY DEF PlanRow
    <2> QED
      BY <1>3, <2>1 DEF FillColumn
  <1>4. CASE SeedReads
    BY <1>4 DEF SeedReads
  <1>5. CASE SeedPuts
    <2>1. config \in PlanRow /\ config.confirmed \in BOOLEAN
      BY <1>5, ConfigTyped DEF SeedPuts, PlanRow
    <2>2. approved' \in BOOLEAN
      BY <1>5, <2>1 DEF SeedPuts
    <2> QED
      BY <1>5, <2>1, <2>2 DEF SeedPuts
  <1>6. CASE SeedMarks
    BY <1>6 DEF SeedMarks
  <1>7. CASE RecoverReads
    BY <1>7 DEF RecoverReads
  <1>8. CASE RecoverPuts
    BY <1>8 DEF RecoverPuts, RecoveredPlan, PlanRow, Targets
  <1>9. CASE RecoverFails
    BY <1>9 DEF RecoverFails
  <1> QED
    BY <1>1, <1>2, <1>3, <1>4, <1>5, <1>6, <1>7, <1>8, <1>9 DEF Starting

(* The two forms, and the two writes behind them. *)
LEMMA PageTyped == ASSUME NEW h \in Request PROVE TypeInv /\ Page(h) => TypeInv'
  <1> SUFFICES ASSUME TypeInv, Page(h) PROVE TypeInv'
    OBVIOUS
  <1> USE DEF TypeInv, TypeOK, disk, world, history
  <1>1. CASE SaveSettings(h)
    <2>1. PICK folders \in Targets, paused \in BOOLEAN :
            request' = [request EXCEPT ![h] =
                [at |-> "store", read |-> row, confirm |-> FALSE,
                 plan |-> [row EXCEPT !.targets = folders, !.paused = paused]]]
      BY <1>1 DEF SaveSettings
    <2>2. row \in PlanRow
      BY <1>1 DEF SaveSettings
    <2>3. [row EXCEPT !.targets = folders, !.paused = paused] \in PlanRow
      BY <2>2 DEF PlanRow
    <2> QED
      BY <1>1, <2>1, <2>2, <2>3 DEF SaveSettings
  <1>2. CASE SaveSetup(h)
    BY <1>2 DEF SaveSetup, PlanRow, Targets
  <1>3. CASE Store(h)
    <2>1. request[h].plan \in PlanRow
      BY <1>3 DEF Store, Idle
    <2>2. row' \in PlanRow \cup {NoPlan} /\ wanted' \in Choices \cup {None}
      BY <1>3, <2>1, SaidTyped, WriteBackTyped DEF Store
    <2> QED
      BY <1>3, <2>2 DEF Store
  <1>4. CASE ConfirmReads(h)
    <2>1. row # NoPlan => row \in PlanRow /\ [row EXCEPT !.confirmed = TRUE] \in PlanRow
      BY DEF PlanRow
    <2> QED
      BY <1>4, <2>1 DEF ConfirmReads
  <1>5. CASE Approve(h)
    <2>1. request[h].plan \in PlanRow
      BY <1>5 DEF Approve, Idle
    <2>2. [Said(request[h].plan) EXCEPT !.confirmed = TRUE] \in Choices
      BY <2>1, SaidTyped DEF Choices
    <2>3. row' \in PlanRow \cup {NoPlan} /\ wanted' \in Choices \cup {None}
      BY <1>5, <2>1, <2>2, WriteBackTyped DEF Approve
    <2> QED
      BY <1>5, <2>1, <2>3 DEF Approve
  <1> QED
    BY <1>1, <1>2, <1>3, <1>4, <1>5 DEF Page

(* The runs. *)
LEMMA BackupTyped == TypeInv /\ Backup => TypeInv'
  <1> SUFFICES ASSUME TypeInv, Backup PROVE TypeInv'
    OBVIOUS
  <1> USE DEF TypeInv, TypeOK, disk, world, history
  <1>1. CASE MaybeRun
    BY <1>1 DEF MaybeRun
  <1>2. CASE StartRun
    BY <1>2 DEF StartRun
  <1>3. CASE RunFails
    BY <1>3 DEF RunFails
  <1>4. CASE RunFetches
    <2>1. [run.plan EXCEPT !.repository = server] \in PlanRow
      BY <1>4 DEF RunFetches, PlanRow
    <2>2. row' \in PlanRow \cup {NoPlan} /\ wanted' \in Choices \cup {None}
      BY <1>4, <2>1, WriteBackTyped DEF RunFetches
    <2> QED
      BY <1>4, <2>2 DEF RunFetches
  <1> QED
    BY <1>1, <1>2, <1>3, <1>4 DEF Backup

(* The enrol command. *)
LEMMA EnrolledTyped == ASSUME TypeInv PROVE Enrolled \in PlanRow
  BY ConfigTyped DEF Enrolled, TypeInv, TypeOK, PlanRow, Targets

LEMMA EnrolTyped == TypeInv /\ Enrol => TypeInv'
  <1> SUFFICES ASSUME TypeInv, Enrol PROVE TypeInv'
    OBVIOUS
  <1> USE DEF TypeInv, TypeOK, disk, world, history
  <1>1. CASE EnrolClaims
    BY <1>1 DEF EnrolClaims
  <1>2. CASE EnrolReads
    BY <1>2, EnrolledTyped DEF EnrolReads
  <1>3. CASE EnrolPuts
    <2>1. enrolment.plan \in PlanRow
      BY <1>3 DEF EnrolPuts, Idle
    <2>2. row' \in PlanRow \cup {NoPlan} /\ wanted' \in Choices \cup {None}
      BY <1>3, <2>1, WriteBackTyped DEF EnrolPuts
    <2> QED
      BY <1>3, <2>2 DEF EnrolPuts
  <1>4. CASE EnrolDies
    BY <1>4 DEF EnrolDies
  <1>5. CASE AdoptReads
    BY <1>5 DEF AdoptReads
  <1>6. CASE AdoptPuts
    BY <1>6, ScriptTyped DEF AdoptPuts
  <1>7. CASE AdoptMarks
    BY <1>7 DEF AdoptMarks
  <1> QED
    BY <1>1, <1>2, <1>3, <1>4, <1>5, <1>6, <1>7 DEF Enrol

LEMMA StepTyped == TypeInv /\ [Next]_vars => TypeInv'
  <1> SUFFICES ASSUME TypeInv, [Next]_vars PROVE TypeInv'
    OBVIOUS
  <1>1. CASE Crash
    BY <1>1 DEF Crash, TypeInv, TypeOK, disk
  <1>2. CASE ServerMoves
    BY <1>2 DEF ServerMoves, TypeInv, TypeOK, disk, history
  <1>3. CASE UNCHANGED vars
    BY <1>3 DEF vars, disk, history, TypeInv, TypeOK
  <1> QED
    BY <1>1, <1>2, <1>3, StartingTyped, PageTyped, BackupTyped, EnrolTyped DEF Next

LEMMA AlwaysTyped == Spec => []TypeInv
  BY InitTyped, StepTyped, PTL DEF Spec

(* The plan table and every copy of its row that a request, a run or an    *)
(* enrolment holds are plans; nothing is stored that is not one.           *)
THEOREM TypeCorrect == Spec => []TypeOK
  <1>1. TypeInv => TypeOK
    BY DEF TypeInv
  <1> QED
    BY <1>1, AlwaysTyped, PTL

(***************************************************************************)
(* The scheduler's gate.                                                   *)
(***************************************************************************)
(* Somebody said yes, if any copy of the plan says that somebody did: one  *)
(* that a handler, a run or an enrolment will write back later, and the    *)
(* table of an older build, which will be filled in on an upgrade.         *)
Answered(plan) == plan.confirmed => approved

HandlersAnswered ==
    \A h \in Request : request[h].at = "store" => Answered(request[h].plan)

GateInv ==
    /\ TypeInv
    /\ row # NoPlan => Answered(row)
    /\ column # "filled" \/ daemon \in {"migrate", "fill"} => approved
    /\ HandlersAnswered
    /\ run # Idle => Answered(run.plan) /\ (run.scheduled => approved)
    /\ enrolment.at = "put" => Answered(enrolment.plan)

(* A copy stays answered in a step that leaves it alone. *)
LEMMA HandlersKept ==
    ASSUME GateInv, UNCHANGED request, approved => approved'
    PROVE  HandlersAnswered'
  BY DEF GateInv, HandlersAnswered, Answered

LEMMA InitGate == Init => GateInv
  <1> SUFFICES ASSUME Init PROVE GateInv
    OBVIOUS
  <1>1. row # NoPlan => Answered(row)
    BY DEF Init, NewMachine, OldMachine, Answered
  <1>2. column # "filled" => approved
    BY DEF Init, NewMachine, OldMachine
  <1>3. HandlersAnswered
    BY DEF Init, Idle, HandlersAnswered
  <1> QED
    BY <1>1, <1>2, <1>3, InitTyped DEF Init, Idle, GateInv

LEMMA StartingGate == GateInv /\ Starting => GateInv'
  <1> SUFFICES ASSUME GateInv, Starting PROVE GateInv'
    OBVIOUS
  <1>0. TypeInv'
    BY StartingTyped DEF GateInv
  <1>h. UNCHANGED <<request, run, enrolment>> /\ (approved => approved')
    <2>1. CASE SeedPuts
      BY <2>1 DEF SeedPuts
    <2>2. CASE FillColumn
      BY <2>2 DEF FillColumn, history
    <2>3. CASE ~SeedPuts /\ ~FillColumn
      BY <2>3 DEF Starting, ServiceStarts, AddColumn, SeedReads, SeedMarks, RecoverReads,
                  RecoverPuts, RecoverFails, history
    <2> QED
      BY <2>1, <2>2, <2>3
  <1>c. /\ HandlersAnswered'
        /\ (run # Idle => Answered(run.plan) /\ (run.scheduled => approved))'
        /\ (enrolment.at = "put" => Answered(enrolment.plan))'
    BY <1>h, HandlersKept DEF GateInv, Answered
  <1>r. ASSUME (row # NoPlan => Answered(row))',
               (column # "filled" \/ daemon \in {"migrate", "fill"} => approved)'
        PROVE  GateInv'
    BY <1>0, <1>c, <1>r DEF GateInv
  <1> USE DEF GateInv, Answered, disk, world, history
  <1>1. CASE ServiceStarts
    BY <1>1, <1>r DEF ServiceStarts
  <1>2. CASE AddColumn
    BY <1>2, <1>r DEF AddColumn
  <1>3. CASE FillColumn
    BY <1>3, <1>r DEF FillColumn
  <1>4. CASE SeedReads
    BY <1>4, <1>r DEF SeedReads
  <1>5. CASE SeedPuts
    BY <1>5, <1>r DEF SeedPuts
  <1>6. CASE SeedMarks
    BY <1>6, <1>r DEF SeedMarks
  <1>7. CASE RecoverReads
    BY <1>7, <1>r DEF RecoverReads
  <1>8. CASE RecoverPuts
    BY <1>8, <1>r DEF RecoverPuts, RecoveredPlan
  <1>9. CASE RecoverFails
    BY <1>9, <1>r DEF RecoverFails
  <1> QED
    BY <1>1, <1>2, <1>3, <1>4, <1>5, <1>6, <1>7, <1>8, <1>9 DEF Starting

(* The page: a form carries the confirmation of the row it was read from.  *)
LEMMA PageGate == ASSUME NEW h \in Request PROVE GateInv /\ Page(h) => GateInv'
  <1> SUFFICES ASSUME GateInv, Page(h) PROVE GateInv'
    OBVIOUS
  <1>0. TypeInv' /\ TypeInv /\ request \in [Request -> {request[g] : g \in Request}]
    BY PageTyped DEF GateInv, TypeInv, TypeOK
  <1> USE DEF disk, world, history
  <1>1. ASSUME NEW plan \in PlanRow, row \in PlanRow, plan.confirmed = row.confirmed,
               request'[h].plan = plan, \A g \in Request \ {h} : request'[g] = request[g],
               UNCHANGED <<row, column, daemon, run, enrolment, approved>>
        PROVE  GateInv'
    <2>1. HandlersAnswered'
      <3>1. row # NoPlan /\ (row.confirmed => approved)
        BY <1>1, PlanAssumption DEF GateInv, Answered, NoPlan
      <3>2. request'[h].plan.confirmed => approved'
        BY <1>1, <3>1
      <3>3. ASSUME NEW g \in Request \ {h}, request'[g].at = "store"
            PROVE  request'[g].plan.confirmed => approved'
        BY <1>1, <3>3 DEF GateInv, HandlersAnswered, Answered
      <3> QED
        BY <3>2, <3>3 DEF HandlersAnswered, Answered
    <2> QED
      BY <1>0, <1>1, <2>1 DEF GateInv, Answered
  <1>2. CASE SaveSettings(h)
    <2>1. PICK folders \in Targets, paused \in BOOLEAN :
            request' = [request EXCEPT ![h] =
                [at |-> "store", read |-> row, confirm |-> FALSE,
                 plan |-> [row EXCEPT !.targets = folders, !.paused = paused]]]
      BY <1>2 DEF SaveSettings
    <2>2. row \in PlanRow
      BY <1>2 DEF SaveSettings, GateInv, TypeInv, TypeOK
    <2>3. /\ [row EXCEPT !.targets = folders, !.paused = paused] \in PlanRow
          /\ [row EXCEPT !.targets = folders, !.paused = paused].confirmed = row.confirmed
      BY <2>2 DEF PlanRow
    <2> QED
      BY <1>0, <1>1, <1>2, <2>1, <2>2, <2>3 DEF SaveSettings
  <1>3. CASE SaveSetup(h)
    <2>1. PICK folders \in Folders, confirm \in BOOLEAN :
            request' = [request EXCEPT ![h] =
                [at |-> "store", read |-> row, confirm |-> confirm,
                 plan |-> [row EXCEPT !.targets = folders]]]
      BY <1>3 DEF SaveSetup
    <2>2. row \in PlanRow
      BY <1>3 DEF SaveSetup, GateInv, TypeInv, TypeOK
    <2>3. /\ [row EXCEPT !.targets = folders] \in PlanRow
          /\ [row EXCEPT !.targets = folders].confirmed = row.confirmed
      BY <2>2 DEF PlanRow, Targets
    <2> QED
      BY <1>0, <1>1, <1>3, <2>1, <2>2, <2>3 DEF SaveSetup
  <1>4. CASE Store(h)
    <2>1. row' = request[h].plan /\ Answered(request[h].plan)
      BY <1>4 DEF Store, WriteBack, GateInv, HandlersAnswered
    <2>2. /\ request'[h].at # "store"
          /\ \A g \in Request \ {h} : request'[g] = request[g]
      BY <1>0, <1>4 DEF Store, Idle
    <2>3. UNCHANGED <<column, daemon, run, enrolment, approved>>
      BY <1>4 DEF Store
    <2> QED
      BY <1>0, <2>1, <2>2, <2>3 DEF GateInv, HandlersAnswered, Answered
  <1>5. CASE ConfirmReads(h)
    <2>1. /\ request'[h].at # "store"
          /\ \A g \in Request \ {h} : request'[g] = request[g]
      BY <1>0, <1>5 DEF ConfirmReads, Idle
    <2>2. UNCHANGED <<row, column, daemon, run, enrolment, approved>>
      BY <1>5 DEF ConfirmReads
    <2> QED
      BY <1>0, <2>1, <2>2 DEF GateInv, HandlersAnswered, Answered
  <1>6. CASE Approve(h)
    <2>1. approved' = TRUE
      BY <1>6 DEF Approve
    <2> QED
      BY <1>0, <2>1 DEF GateInv, HandlersAnswered, Answered
  <1> QED
    BY <1>2, <1>3, <1>4, <1>5, <1>6 DEF Page

LEMMA BackupGate == GateInv /\ Backup => GateInv'
  <1> SUFFICES ASSUME GateInv, Backup PROVE GateInv'
    OBVIOUS
  <1>0. TypeInv'
    BY BackupTyped DEF GateInv
  <1>h. UNCHANGED <<request, approved, column, daemon, enrolment>>
    BY DEF Backup, MaybeRun, StartRun, RunFails, RunFetches, disk, world, history
  <1>c. HandlersAnswered'
    BY <1>h, HandlersKept
  <1>1. CASE MaybeRun
    BY <1>0, <1>h, <1>c, <1>1 DEF MaybeRun, GateInv, Answered, Idle, disk
  <1>2. CASE StartRun
    BY <1>0, <1>h, <1>c, <1>2 DEF StartRun, GateInv, Answered, Idle, disk
  <1>3. CASE RunFails
    BY <1>0, <1>h, <1>c, <1>3 DEF RunFails, GateInv, Answered, Idle, disk
  <1>4. CASE RunFetches
    <2>1. run.plan \in PlanRow /\ Answered(run.plan)
      BY <1>4 DEF RunFetches, GateInv, TypeInv, TypeOK
    <2>2. [run.plan EXCEPT !.repository = server].confirmed = run.plan.confirmed
      BY <2>1 DEF PlanRow
    <2>3. row' = row \/ row' = [run.plan EXCEPT !.repository = server]
      BY <1>4 DEF RunFetches, WriteBack
    <2>4. (row # NoPlan => Answered(row))'
      BY <1>h, <2>1, <2>2, <2>3 DEF GateInv, Answered
    <2> QED
      BY <1>0, <1>h, <1>c, <1>4, <2>4 DEF RunFetches, GateInv, Answered, Idle
  <1> QED
    BY <1>1, <1>2, <1>3, <1>4 DEF Backup

LEMMA EnrolGate == GateInv /\ Enrol => GateInv'
  <1> SUFFICES ASSUME GateInv, Enrol PROVE GateInv'
    OBVIOUS
  <1>0. TypeInv'
    BY EnrolTyped DEF GateInv
  <1>h. UNCHANGED <<request, approved, column, daemon, run>>
    BY DEF Enrol, EnrolClaims, EnrolReads, EnrolPuts, AdoptReads, AdoptPuts, AdoptMarks,
           EnrolDies, disk, world, history
  <1>c. HandlersAnswered'
    BY <1>h, HandlersKept
  <1>1. CASE EnrolClaims
    BY <1>0, <1>h, <1>c, <1>1 DEF EnrolClaims, GateInv, Answered, Idle
  <1>2. CASE EnrolReads
    <2>1. Answered(Enrolled)
      BY DEF Enrolled, Answered, GateInv, TypeInv, TypeOK, PlanRow
    <2> QED
      BY <1>0, <1>h, <1>c, <1>2, <2>1 DEF EnrolReads, GateInv, Answered, disk
  <1>3. CASE EnrolPuts
    BY <1>0, <1>h, <1>c, <1>3 DEF EnrolPuts, WriteBack, GateInv, Answered, Idle
  <1>4. CASE EnrolDies
    BY <1>0, <1>h, <1>c, <1>4 DEF EnrolDies, GateInv, Answered, Idle, disk
  <1>5. CASE AdoptReads
    BY <1>0, <1>h, <1>c, <1>5 DEF AdoptReads, GateInv, Answered, disk
  <1>6. CASE AdoptPuts
    <2>1. (row # NoPlan => Answered(row))'
      BY <1>6, ScriptTyped DEF AdoptPuts, Answered
    <2> QED
      BY <1>0, <1>h, <1>c, <1>6, <2>1 DEF AdoptPuts, GateInv, Answered
  <1>7. CASE AdoptMarks
    BY <1>0, <1>h, <1>c, <1>7 DEF AdoptMarks, GateInv, Answered, Idle
  <1> QED
    BY <1>1, <1>2, <1>3, <1>4, <1>5, <1>6, <1>7 DEF Enrol

LEMMA StepGate == GateInv /\ [Next]_vars => GateInv'
  <1> SUFFICES ASSUME GateInv, [Next]_vars PROVE GateInv'
    OBVIOUS
  <1>0. TypeInv'
    BY StepTyped DEF GateInv
  <1>1. CASE Crash
    <2>1. HandlersAnswered'
      BY <1>1 DEF Crash, HandlersAnswered, Idle
    <2> QED
      BY <1>0, <1>1, <2>1 DEF Crash, GateInv, Answered, disk
  <1>2. CASE ServerMoves
    BY <1>0, <1>2, HandlersKept DEF ServerMoves, GateInv, Answered, disk, history
  <1>3. CASE UNCHANGED vars
    BY <1>0, <1>3, HandlersKept DEF vars, disk, history, GateInv, Answered
  <1> QED
    BY <1>1, <1>2, <1>3, StartingGate, PageGate, BackupGate, EnrolGate DEF Next

(* Nothing is confirmed, and nothing the scheduler started is running,     *)
(* unless somebody said yes; whatever mix of pages, runs, enrolments,      *)
(* upgrades, recoveries and crashes writes the row back.                   *)
THEOREM NothingRunsUnasked == Spec => []GateHolds
  <1>1. GateInv => GateHolds
    BY DEF GateInv, GateHolds, Answered
  <1> QED
    BY <1>1, InitGate, StepGate, PTL DEF Spec
(***************************************************************************)
(* What people last said stays what is stored.                             *)
(***************************************************************************)
\* Where the daemon is says how far the table and the marker are.
Stages ==
    /\ daemon = "migrate" => column = "missing"
    /\ daemon = "fill" => column = "empty"
    /\ daemon \in {"seed", "putSeed", "mark", "recover", "ask", "up"} => column # "missing"
    /\ daemon \in {"putSeed", "mark"} => config # NoConfig
    /\ daemon # "up" => run = Idle /\ \A h \in Request : request[h] = Idle
    /\ enrolment # Idle => column = "filled"

\* While the file has still to be read, nobody has seen a page; nor has anybody
\* while it is being stored, though adopt-enroll may have set the marker by then.
FileFirst ==
    /\ config # NoConfig /\ ~seeded =>
           wanted = None /\ daemon \notin {"recover", "ask", "up"}
    /\ daemon \in {"putSeed", "mark"} => wanted = None

\* A plan is looked for when there is none, and then nothing is wanted.
NothingLost == daemon = "ask" /\ column = "filled" => wanted = None

\* An older build's row is what people want, but for the column it lacks.
OldRow ==
    (column = "missing" \/ daemon = "fill") /\ wanted # None =>
        /\ row # NoPlan
        /\ row.paused = wanted.paused /\ wanted.confirmed /\ wanted.targets = row.targets

\* What is about to be written differs from what was read only in what its
\* writer has a say in.
FormsChange(h) ==
    /\ request[h].at = "store" => request[h].plan.confirmed = request[h].read.confirmed
    /\ request[h].at = "approve" => request[h].plan.confirmed

EnrolChanges ==
    enrolment.at = "put" /\ enrolment.read # NoPlan =>
        /\ enrolment.plan.paused = enrolment.read.paused
        /\ enrolment.plan.confirmed = enrolment.read.confirmed
        /\ enrolment.read.targets \in {NoFolders, enrolment.plan.targets}

EditsInv ==
    /\ TypeInv /\ Stages /\ FileFirst /\ NothingLost /\ OldRow
    /\ (\A h \in Request : FormsChange(h)) /\ EnrolChanges
    /\ EditsKept

(* A part of the row that its writer has no say in is written as it was. *)
LEMMA WriteBackKeeps ==
    ASSUME TypeInv, EditsKept, NEW read, NEW plan \in PlanRow,
           WriteBack(read, plan, wanted), UNCHANGED column,
           read # NoPlan =>
               /\ plan.paused = read.paused /\ plan.confirmed = read.confirmed
               /\ read.targets \in {NoFolders, plan.targets}
    PROVE  EditsKept'
  <1> SUFFICES ASSUME wanted' # None, column = "filled"
               PROVE  /\ plan.paused = wanted.paused /\ plan.confirmed = wanted.confirmed
                      /\ wanted.targets \in {NoFolders, plan.targets} /\ wanted' = wanted
    BY PlanAssumption DEF EditsKept, WriteBack, NoPlan
  <1>1. wanted' = wanted /\ ~ Overtakes(read)
    BY DEF WriteBack
  <1>2. /\ row # NoPlan
        /\ row.paused = wanted.paused /\ row.confirmed = wanted.confirmed
        /\ wanted.targets \in {NoFolders, row.targets}
    BY <1>1 DEF EditsKept
  <1>3. read # NoPlan /\ PersonPart(read) = PersonPart(row)
    BY <1>1, <1>2 DEF Overtakes
  <1>4. read.targets = row.targets /\ read.paused = row.paused /\ read.confirmed = row.confirmed
    BY <1>3 DEF PersonPart
  <1> QED
    BY <1>1, <1>2, <1>3, <1>4

(* A form that is stored is what people want, and what they said before of *)
(* the parts it does not hold.                                             *)
LEMMA FormKeeps ==
    ASSUME TypeInv, EditsKept, NEW read \in PlanRow, NEW plan \in PlanRow,
           WriteBack(read, plan, Said(plan)), UNCHANGED column,
           plan.confirmed = read.confirmed
    PROVE  EditsKept'
  <1> SUFFICES ASSUME wanted' # None, column = "filled"
               PROVE  /\ plan.paused = wanted'.paused /\ plan.confirmed = wanted'.confirmed
                      /\ wanted'.targets = plan.targets
    BY PlanAssumption DEF EditsKept, WriteBack, NoPlan
  <1>1. wanted' = Said(plan) /\ ~ Overtakes(read)
    BY DEF WriteBack
  <1>2. CASE wanted = None
    BY <1>1, <1>2 DEF Said, PersonPart
  <1>3. CASE wanted # None
    <2>1. wanted \in Choices /\ row # NoPlan /\ row.confirmed = wanted.confirmed
      BY <1>3 DEF EditsKept, TypeInv, TypeOK
    <2>2. PersonPart(read) = PersonPart(row)
      BY <1>1, <2>1 DEF Overtakes
    <2>3. read.confirmed = row.confirmed
      BY <2>2 DEF PersonPart
    <2>4. wanted' = [wanted EXCEPT !.targets = plan.targets, !.paused = plan.paused]
      BY <1>1, <1>3 DEF Said
    <2> QED
      BY <2>1, <2>3, <2>4 DEF Choices
  <1> QED
    BY <1>2, <1>3

LEMMA InitEdits == Init => EditsInv
  <1> SUFFICES ASSUME Init PROVE EditsInv
    OBVIOUS
  <1>1. Stages
    BY DEF Init, Stages
  <1>2. FileFirst
    BY DEF Init, NewMachine, OldMachine, FileFirst
  <1>3. OldRow
    <2>1. CASE NewMachine
      BY <2>1 DEF NewMachine, OldRow, Init
    <2>2. CASE OldMachine
      <3>1. row \in PlanRow /\ ~row.paused /\ wanted = [PersonPart(row) EXCEPT !.confirmed = TRUE]
        BY <2>2 DEF OldMachine
      <3>2. row # NoPlan
        BY <3>1, PlanAssumption DEF NoPlan
      <3> QED
        BY <3>1, <3>2 DEF OldRow, PersonPart
    <2> QED
      BY <2>1, <2>2 DEF Init
  <1>4. NothingLost /\ EnrolChanges /\ \A h \in Request : FormsChange(h)
    BY DEF Init, NothingLost, EnrolChanges, FormsChange, Idle
  <1>5. EditsKept
    BY DEF Init, NewMachine, OldMachine, EditsKept
  <1> QED
    BY <1>1, <1>2, <1>3, <1>4, <1>5, InitTyped DEF EditsInv

(* The daemon's start: nothing is read from the file once somebody has     *)
(* seen a page, and nothing is recovered that was not lost.                *)
LEMMA StartingEdits == EditsInv /\ Starting => EditsInv'
  <1> SUFFICES ASSUME EditsInv, Starting PROVE EditsInv'
    OBVIOUS
  <1>0. TypeInv'
    BY StartingTyped DEF EditsInv
  <1>h. UNCHANGED <<request, run, enrolment, wanted, config>>
    BY DEF Starting, ServiceStarts, AddColumn, FillColumn, SeedReads, SeedPuts, SeedMarks,
           RecoverReads, RecoverPuts, RecoverFails, disk, world, history
  <1>f. EnrolChanges' /\ \A h \in Request : FormsChange(h)'
    BY <1>h DEF EditsInv, EnrolChanges, FormsChange
  <1>r. ASSUME Stages', FileFirst', NothingLost', OldRow', EditsKept' PROVE EditsInv'
    BY <1>0, <1>f, <1>r DEF EditsInv
  <1> USE DEF EditsInv, disk, world, history
  <1>1. CASE ServiceStarts
    <2>1. Stages' /\ FileFirst'
      BY <1>h, <1>1 DEF ServiceStarts, Stages, FileFirst, TypeInv, TypeOK
    <2>2. NothingLost' /\ OldRow' /\ EditsKept'
      BY <1>h, <1>1 DEF ServiceStarts, NothingLost, OldRow, EditsKept
    <2> QED
      BY <1>r, <2>1, <2>2
  <1>2. CASE AddColumn
    <2>1. Stages' /\ FileFirst'
      BY <1>h, <1>2 DEF AddColumn, Stages, FileFirst
    <2>2. NothingLost' /\ OldRow' /\ EditsKept'
      BY <1>h, <1>2 DEF AddColumn, NothingLost, OldRow, EditsKept, Stages
    <2> QED
      BY <1>r, <2>1, <2>2
  <1>3. CASE FillColumn
    <2>1. Stages' /\ FileFirst'
      BY <1>h, <1>3 DEF FillColumn, Stages, FileFirst
    <2>2. NothingLost' /\ OldRow'
      BY <1>h, <1>3 DEF FillColumn, NothingLost, OldRow
    <2>3. EditsKept'
      <3> SUFFICES ASSUME wanted # None
                   PROVE  /\ row' # NoPlan
                          /\ row'.paused = wanted.paused /\ row'.confirmed = wanted.confirmed
                          /\ wanted.targets \in {NoFolders, row'.targets}
        BY <1>h DEF EditsKept
      <3>1. /\ row # NoPlan /\ row.paused = wanted.paused
            /\ wanted.confirmed /\ wanted.targets = row.targets
        BY <1>3 DEF FillColumn, OldRow
      <3>2. row \in PlanRow /\ row' = [row EXCEPT !.confirmed = TRUE]
        BY <1>3, <3>1 DEF FillColumn, TypeInv, TypeOK
      <3>3. wanted.confirmed = TRUE
        <4>1. wanted \in Choices
          BY DEF TypeInv, TypeOK
        <4> QED
          BY <3>1, <4>1 DEF Choices
      <3>4. /\ row' \in PlanRow /\ row'.paused = row.paused /\ row'.confirmed = TRUE
            /\ row'.targets = row.targets
        BY <3>2 DEF PlanRow
      <3>5. row' # NoPlan
        BY <3>4, PlanAssumption DEF NoPlan
      <3> QED
        BY <3>1, <3>3, <3>4, <3>5
    <2> QED
      BY <1>r, <2>1, <2>2, <2>3
  <1>4. CASE SeedReads
    <2>1. Stages' /\ FileFirst'
      BY <1>h, <1>4 DEF SeedReads, Stages, FileFirst
    <2>2. NothingLost' /\ OldRow' /\ EditsKept'
      BY <1>h, <1>4 DEF SeedReads, NothingLost, OldRow, EditsKept
    <2> QED
      BY <1>r, <2>1, <2>2
  <1>5. CASE SeedPuts
    <2>0. wanted = None
      BY <1>5 DEF SeedPuts, Stages, FileFirst
    <2>1. Stages' /\ FileFirst'
      BY <1>h, <1>5, <2>0 DEF SeedPuts, Stages, FileFirst
    <2>2. NothingLost' /\ OldRow' /\ EditsKept'
      BY <1>h, <1>5, <2>0 DEF SeedPuts, NothingLost, OldRow, EditsKept
    <2> QED
      BY <1>r, <2>1, <2>2
  <1>6. CASE SeedMarks
    <2>1. Stages' /\ FileFirst'
      BY <1>h, <1>6 DEF SeedMarks, Stages, FileFirst
    <2>2. NothingLost' /\ OldRow' /\ EditsKept'
      BY <1>h, <1>6 DEF SeedMarks, NothingLost, OldRow, EditsKept
    <2> QED
      BY <1>r, <2>1, <2>2
  <1>7. CASE RecoverReads
    <2>1. Stages' /\ FileFirst'
      BY <1>h, <1>7 DEF RecoverReads, Stages, FileFirst
    <2>2. NothingLost' /\ OldRow' /\ EditsKept'
      BY <1>h, <1>7 DEF RecoverReads, NothingLost, OldRow, EditsKept
    <2> QED
      BY <1>r, <2>1, <2>2
  <1>8. CASE RecoverPuts
    <2>0. column = "filled" => wanted = None
      BY <1>8 DEF RecoverPuts, NothingLost
    <2>1. Stages' /\ FileFirst'
      BY <1>h, <1>8 DEF RecoverPuts, Stages, FileFirst
    <2>2. NothingLost' /\ OldRow' /\ EditsKept'
      BY <1>h, <1>8, <2>0 DEF RecoverPuts, NothingLost, OldRow, EditsKept, Stages
    <2> QED
      BY <1>r, <2>1, <2>2
  <1>9. CASE RecoverFails
    <2>1. Stages' /\ FileFirst'
      BY <1>h, <1>9 DEF RecoverFails, Stages, FileFirst
    <2>2. NothingLost' /\ OldRow' /\ EditsKept'
      BY <1>h, <1>9 DEF RecoverFails, NothingLost, OldRow, EditsKept
    <2> QED
      BY <1>r, <2>1, <2>2
  <1> QED
    BY <1>1, <1>2, <1>3, <1>4, <1>5, <1>6, <1>7, <1>8, <1>9 DEF Starting

(* The page is served by a daemon that is up. *)
LEMMA PageEdits == ASSUME NEW h \in Request PROVE EditsInv /\ Page(h) => EditsInv'
  <1> SUFFICES ASSUME EditsInv, Page(h) PROVE EditsInv'
    OBVIOUS
  <1>0. TypeInv' /\ TypeInv /\ DOMAIN request = Request
    BY PageTyped DEF EditsInv, TypeInv, TypeOK
  <1>h. UNCHANGED <<column, seeded, config, daemon, enrolment>>
    BY DEF Page, SaveSettings, SaveSetup, Store, ConfirmReads, Approve, disk, world
  <1>u. daemon = "up"
    <2>1. daemon = "up" \/ request[h] # Idle
      <3>1. SaveSettings(h) \/ SaveSetup(h) => daemon = "up"
        BY DEF SaveSettings, SaveSetup
      <3>2. Store(h) \/ ConfirmReads(h) \/ Approve(h) =>
                request[h].at \in {"store", "confirm", "approve"}
        BY DEF Store, ConfirmReads, Approve
      <3>3. request[h].at \in {"store", "confirm", "approve"} => request[h] # Idle
        BY DEF Idle
      <3> QED
        BY <3>1, <3>2, <3>3 DEF Page
    <2> QED
      BY <2>1 DEF EditsInv, Stages
  <1>k. Stages' /\ FileFirst' /\ NothingLost' /\ OldRow' /\ EnrolChanges'
    BY <1>h, <1>u DEF EditsInv, Stages, FileFirst, NothingLost, OldRow, EnrolChanges
  <1>r. ASSUME NEW held, request' = [request EXCEPT ![h] = held], EditsKept',
               /\ held.at = "store" => held.plan.confirmed = held.read.confirmed
               /\ held.at = "approve" => held.plan.confirmed
        PROVE  EditsInv'
    <2>1. \A g \in Request : FormsChange(g)'
      BY <1>0, <1>r DEF EditsInv, FormsChange
    <2> QED
      BY <1>0, <1>k, <1>r, <2>1 DEF EditsInv
  <1>1. CASE SaveSettings(h)
    <2>1. PICK folders \in Targets, paused \in BOOLEAN :
            request' = [request EXCEPT ![h] =
                [at |-> "store", read |-> row, confirm |-> FALSE,
                 plan |-> [row EXCEPT !.targets = folders, !.paused = paused]]]
      BY <1>1 DEF SaveSettings
    <2>2. row \in PlanRow
      BY <1>0, <1>1 DEF SaveSettings, TypeInv, TypeOK
    <2>3. [row EXCEPT !.targets = folders, !.paused = paused].confirmed = row.confirmed
      BY <2>2 DEF PlanRow
    <2>4. EditsKept'
      BY <1>1 DEF SaveSettings, EditsInv, EditsKept, disk, history
    <2> QED
      BY <1>r, <2>1, <2>3, <2>4
  <1>2. CASE SaveSetup(h)
    <2>1. PICK folders \in Folders, confirm \in BOOLEAN :
            request' = [request EXCEPT ![h] =
                [at |-> "store", read |-> row, confirm |-> confirm,
                 plan |-> [row EXCEPT !.targets = folders]]]
      BY <1>2 DEF SaveSetup
    <2>2. row \in PlanRow
      BY <1>0, <1>2 DEF SaveSetup, TypeInv, TypeOK
    <2>3. [row EXCEPT !.targets = folders].confirmed = row.confirmed
      BY <2>2 DEF PlanRow
    <2>4. EditsKept'
      BY <1>2 DEF SaveSetup, EditsInv, EditsKept, disk, history
    <2> QED
      BY <1>r, <2>1, <2>3, <2>4
  <1>3. CASE Store(h)
    <2>1. /\ request[h].read \in PlanRow /\ request[h].plan \in PlanRow
          /\ request[h].plan.confirmed = request[h].read.confirmed
      BY <1>0, <1>3 DEF Store, TypeInv, TypeOK, EditsInv, FormsChange, Idle
    <2>2. EditsKept'
      BY <1>0, <1>h, <1>3, <2>1, FormKeeps DEF Store, EditsInv
    <2>3. PICK held : held = IF request[h].confirm THEN [at |-> "confirm"] ELSE Idle
      OBVIOUS
    <2>4. request' = [request EXCEPT ![h] = held] /\ held.at \notin {"store", "approve"}
      BY <1>3, <2>3 DEF Store, Idle
    <2> QED
      BY <1>r, <2>2, <2>4
  <1>4. CASE ConfirmReads(h)
    <2>1. EditsKept'
      BY <1>4 DEF ConfirmReads, EditsInv, EditsKept, disk, history
    <2>2. CASE row # NoPlan /\ Runnable(row)
      <3>1. PICK held : held = [at |-> "approve", read |-> row, confirm |-> TRUE,
                                plan |-> [row EXCEPT !.confirmed = TRUE]]
        OBVIOUS
      <3>2. row \in PlanRow
        BY <1>0, <2>2 DEF TypeInv, TypeOK
      <3>3. held.at = "approve" /\ held.plan.confirmed
        BY <3>1, <3>2 DEF PlanRow
      <3>4. request' = [request EXCEPT ![h] = held]
        BY <1>4, <2>2, <3>1 DEF ConfirmReads
      <3> QED
        BY <1>r, <2>1, <3>3, <3>4
    <2>3. CASE ~ (row # NoPlan /\ Runnable(row))
      <3>1. request' = [request EXCEPT ![h] = Idle]
        BY <1>4, <2>3 DEF ConfirmReads
      <3> QED
        BY <1>r, <2>1, <3>1 DEF Idle
    <2> QED
      BY <2>2, <2>3
  <1>5. CASE Approve(h)
    <2>1. request[h].plan \in PlanRow /\ request[h].plan.confirmed = TRUE
      BY <1>0, <1>5 DEF Approve, TypeInv, TypeOK, EditsInv, FormsChange, Idle, PlanRow
    <2>2. PICK plan : plan = request[h].plan
      OBVIOUS
    <2>3. Said(plan) \in Choices /\ Said(plan).paused = plan.paused
            /\ Said(plan).targets = plan.targets
      BY <1>0, <2>1, <2>2 DEF Said, PersonPart, Choices, PlanRow, TypeInv, TypeOK
    <2>4. row' = plan /\ (wanted' = None \/ wanted' = [Said(plan) EXCEPT !.confirmed = TRUE])
      BY <1>5, <2>2 DEF Approve, WriteBack
    <2>5. [Said(plan) EXCEPT !.confirmed = TRUE].paused = plan.paused
            /\ [Said(plan) EXCEPT !.confirmed = TRUE].targets = plan.targets
            /\ [Said(plan) EXCEPT !.confirmed = TRUE].confirmed = TRUE
      BY <2>3 DEF Choices
    <2>6. row' # NoPlan
      BY <2>1, <2>2, <2>4, PlanAssumption DEF NoPlan
    <2>7. EditsKept'
      BY <2>1, <2>2, <2>4, <2>5, <2>6 DEF EditsKept
    <2>8. request' = [request EXCEPT ![h] = Idle]
      BY <1>5 DEF Approve
    <2> QED
      BY <1>r, <2>7, <2>8 DEF Idle
  <1> QED
    BY <1>1, <1>2, <1>3, <1>4, <1>5 DEF Page

LEMMA BackupEdits == EditsInv /\ Backup => EditsInv'
  <1> SUFFICES ASSUME EditsInv, Backup PROVE EditsInv'
    OBVIOUS
  <1>0. TypeInv'
    BY BackupTyped DEF EditsInv
  <1>h. UNCHANGED <<request, column, seeded, config, daemon, enrolment>>
    BY DEF Backup, MaybeRun, StartRun, RunFails, RunFetches, disk, world
  <1>u. daemon = "up"
    BY DEF Backup, MaybeRun, StartRun, RunFails, RunFetches, EditsInv, Stages
  <1>k. /\ Stages' /\ FileFirst' /\ NothingLost' /\ OldRow' /\ EnrolChanges'
        /\ \A h \in Request : FormsChange(h)'
    <2>1. FileFirst' /\ OldRow'
      BY <1>h, <1>u DEF EditsInv, FileFirst, OldRow, Stages
    <2>2. Stages' /\ NothingLost'
      BY <1>h, <1>u DEF EditsInv, Stages, NothingLost
    <2>3. EnrolChanges' /\ \A h \in Request : FormsChange(h)'
      BY <1>h DEF EditsInv, EnrolChanges, FormsChange
    <2> QED
      BY <2>1, <2>2, <2>3
  <1>1. CASE RunFetches /\ server # run.plan.repository
    <2>1. run.plan \in PlanRow
      BY <1>1 DEF RunFetches, EditsInv, TypeInv, TypeOK
    <2>2. PICK plan : plan = [run.plan EXCEPT !.repository = server]
      OBVIOUS
    <2>3. /\ plan \in PlanRow /\ plan.paused = run.plan.paused
          /\ plan.confirmed = run.plan.confirmed /\ plan.targets = run.plan.targets
      BY <2>1, <2>2 DEF PlanRow, EditsInv, TypeInv, TypeOK
    <2>4. WriteBack(run.plan, plan, wanted)
      BY <1>1, <2>2 DEF RunFetches
    <2>5. EditsKept'
      BY <1>h, <2>3, <2>4, WriteBackKeeps DEF EditsInv
    <2> QED
      BY <1>0, <1>k, <2>5 DEF EditsInv
  <1>2. CASE ~ (RunFetches /\ server # run.plan.repository)
    <2>1. UNCHANGED <<row, wanted>>
      BY <1>2 DEF Backup, MaybeRun, StartRun, RunFails, RunFetches, disk, history
    <2>2. EditsKept'
      BY <1>h, <2>1 DEF EditsInv, EditsKept
    <2> QED
      BY <1>0, <1>k, <2>2 DEF EditsInv
  <1> QED
    BY <1>1, <1>2

(* What enrol writes back says what the row it read said, but for a list   *)
(* of folders that was empty.                                              *)
LEMMA EnrolEdits == EditsInv /\ Enrol => EditsInv'
  <1> SUFFICES ASSUME EditsInv, Enrol PROVE EditsInv'
    OBVIOUS
  <1>0. TypeInv' /\ TypeInv
    BY EnrolTyped DEF EditsInv
  <1>h. UNCHANGED <<request, column, config, daemon, run>> /\ (seeded' = seeded \/ seeded')
    BY DEF Enrol, EnrolClaims, EnrolReads, EnrolPuts, AdoptReads, AdoptPuts, AdoptMarks,
           EnrolDies, disk, world
  <1>w. wanted' = wanted \/ wanted' = None
    BY DEF Enrol, EnrolClaims, EnrolReads, EnrolPuts, AdoptReads, AdoptPuts, AdoptMarks,
           EnrolDies, WriteBack, history
  <1>c. column = "filled" /\ daemon \notin {"migrate", "fill"}
    <2>1. column = "filled"
      BY DEF Enrol, EnrolClaims, EnrolReads, EnrolPuts, AdoptReads, AdoptPuts, AdoptMarks,
             EnrolDies, EditsInv, Stages, Idle
    <2> QED
      BY <2>1 DEF EditsInv, Stages
  <1>k. /\ Stages' /\ FileFirst' /\ NothingLost' /\ OldRow'
        /\ \A h \in Request : FormsChange(h)'
    <2>1. Stages' /\ OldRow'
      BY <1>h, <1>c DEF EditsInv, Stages, OldRow
    <2>2. FileFirst' /\ NothingLost'
      BY <1>h, <1>w DEF EditsInv, FileFirst, NothingLost
    <2>3. \A h \in Request : FormsChange(h)'
      BY <1>h DEF EditsInv, FormsChange
    <2> QED
      BY <2>1, <2>2, <2>3
  <1>r. ASSUME EnrolChanges', EditsKept' PROVE EditsInv'
    BY <1>0, <1>k, <1>r DEF EditsInv
  <1>1. CASE EnrolClaims
    BY <1>h, <1>r, <1>1 DEF EnrolClaims, EditsInv, EnrolChanges, EditsKept, history
  <1>2. CASE EnrolReads
    <2>1. EditsKept'
      BY <1>2 DEF EnrolReads, EditsInv, EditsKept, disk, history
    <2>2. /\ enrolment'.read = row /\ enrolment'.plan = Enrolled
      BY <1>2 DEF EnrolReads
    <2>3. ASSUME row # NoPlan
          PROVE  /\ Enrolled.paused = row.paused /\ Enrolled.confirmed = row.confirmed
                 /\ row.targets \in {NoFolders, Enrolled.targets}
      <3>1. row \in PlanRow
        BY <1>0, <2>3 DEF TypeInv, TypeOK
      <3>2. PICK kept : kept = [row EXCEPT !.repository = server]
        OBVIOUS
      <3>3. /\ kept.paused = row.paused /\ kept.confirmed = row.confirmed
            /\ kept.targets = row.targets /\ kept \in PlanRow
        BY <1>0, <3>1, <3>2 DEF PlanRow, TypeInv, TypeOK
      <3>4. CASE kept.targets = NoFolders /\ config # NoConfig
        <4>1. Enrolled = [kept EXCEPT !.targets = config.targets]
          BY <2>3, <3>2, <3>4 DEF Enrolled
        <4> QED
          BY <3>3, <3>4, <4>1 DEF PlanRow
      <3>5. CASE ~ (kept.targets = NoFolders /\ config # NoConfig)
        <4>1. Enrolled = kept
          BY <2>3, <3>2, <3>5 DEF Enrolled
        <4> QED
          BY <3>3, <4>1
      <3> QED
        BY <3>4, <3>5
    <2>4. EnrolChanges'
      BY <2>2, <2>3 DEF EnrolChanges
    <2> QED
      BY <1>r, <2>1, <2>4
  <1>3. CASE EnrolPuts
    <2>1. enrolment.plan \in PlanRow
      BY <1>0, <1>3 DEF EnrolPuts, TypeInv, TypeOK, Idle
    <2>2. EditsKept'
      BY <1>0, <1>h, <1>3, <2>1, WriteBackKeeps DEF EnrolPuts, EditsInv, EnrolChanges
    <2>3. EnrolChanges'
      BY <1>3 DEF EnrolPuts, EnrolChanges, Idle
    <2> QED
      BY <1>r, <2>2, <2>3
  <1>4. CASE EnrolDies
    <2>1. EnrolChanges' /\ EditsKept'
      BY <1>4 DEF EnrolDies, EditsInv, EnrolChanges, EditsKept, Idle, disk, history
    <2> QED
      BY <1>r, <2>1
  <1>5. CASE AdoptReads
    <2>1. EnrolChanges' /\ EditsKept'
      BY <1>5 DEF AdoptReads, EditsInv, EnrolChanges, EditsKept, disk, history
    <2> QED
      BY <1>r, <2>1
  <1>6. CASE AdoptPuts
    <2>1. EnrolChanges' /\ EditsKept'
      BY <1>6 DEF AdoptPuts, EnrolChanges, EditsKept
    <2> QED
      BY <1>r, <2>1
  <1>7. CASE AdoptMarks
    <2>1. EnrolChanges' /\ EditsKept'
      BY <1>7 DEF AdoptMarks, EditsInv, EnrolChanges, EditsKept, Idle, history
    <2> QED
      BY <1>r, <2>1
  <1> QED
    BY <1>1, <1>2, <1>3, <1>4, <1>5, <1>6, <1>7 DEF Enrol

LEMMA StepEdits == EditsInv /\ [Next]_vars => EditsInv'
  <1> SUFFICES ASSUME EditsInv, [Next]_vars PROVE EditsInv'
    OBVIOUS
  <1>0. TypeInv'
    BY StepTyped DEF EditsInv
  <1>1. CASE Crash
    <2>1. Stages' /\ FileFirst'
      BY <1>1 DEF Crash, EditsInv, Stages, FileFirst, disk
    <2>2. NothingLost' /\ OldRow' /\ EditsKept'
      BY <1>1 DEF Crash, EditsInv, Stages, NothingLost, OldRow, EditsKept, disk
    <2>3. EnrolChanges' /\ \A h \in Request : FormsChange(h)'
      BY <1>1 DEF Crash, EditsInv, EnrolChanges, FormsChange, Idle
    <2> QED
      BY <1>0, <2>1, <2>2, <2>3 DEF EditsInv
  <1>2. CASE UNCHANGED <<disk, daemon, request, run, enrolment, history>>
    <2>1. Stages' /\ FileFirst'
      BY <1>2 DEF EditsInv, Stages, FileFirst, disk, history
    <2>2. NothingLost' /\ OldRow' /\ EditsKept'
      BY <1>2 DEF EditsInv, NothingLost, OldRow, EditsKept, disk, history
    <2>3. EnrolChanges' /\ \A h \in Request : FormsChange(h)'
      BY <1>2 DEF EditsInv, EnrolChanges, FormsChange
    <2> QED
      BY <1>0, <2>1, <2>2, <2>3 DEF EditsInv
  <1>3. (ServerMoves \/ UNCHANGED vars) =>
            UNCHANGED <<disk, daemon, request, run, enrolment, history>>
    BY DEF ServerMoves, vars
  <1> QED
    BY <1>1, <1>2, <1>3, StartingEdits, PageEdits, BackupEdits, EnrolEdits DEF Next

(* What somebody said on the page is what the row says, whoever else wrote *)
(* the row back meanwhile: a restart that reads config.toml again, a plan  *)
(* that is recovered, a second enrolment, a run that was told of another   *)
(* bucket, the upgrade that adds the confirmation.  The history gives a    *)
(* choice up in three cases only: a write that was computed before it, an  *)
(* upgrade cut short, and adopt-enroll's plan from a script, which is put  *)
(* over whatever plan is there while no file has been consumed.            *)
THEOREM ChoicesAreKept == Spec => []EditsKept
  <1>1. EditsInv => EditsKept
    BY DEF EditsInv
  <1> QED
    BY <1>1, InitEdits, StepEdits, PTL DEF Spec

===============================================================================
