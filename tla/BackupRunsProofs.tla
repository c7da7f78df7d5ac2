-------------------------- MODULE BackupRunsProofs --------------------------
(* Proofs about BackupRuns, for any number of goroutines, runs and faults. *)
EXTENDS BackupRuns, TLAPS, SequenceTheorems, NaturalsInduction, WellFoundedInduction

-----------------------------------------------------------------------------
(* Lemmas.                                                                 *)

\* A row of the history replaced by another leaves a history of the same length.
LEMMA RowReplaced ==
    ASSUME NEW s \in Seq(Row), NEW i \in DOMAIN s, NEW r \in Row
    PROVE  /\ [s EXCEPT ![i] = r] \in Seq(Row)
           /\ DOMAIN [s EXCEPT ![i] = r] = DOMAIN s
           /\ \A j \in DOMAIN s : [s EXCEPT ![i] = r][j] = IF j = i THEN r ELSE s[j]
<1>1. i \in 1..Len(s)
  OBVIOUS
<1>. QED
  BY <1>1, ExceptSeq, Zenon

\* A non-empty set of row ids has an oldest, and Oldest is it.
LEMMA OldestIsThere ==
    ASSUME NEW S \in SUBSET Nat, S # {}
    PROVE  Oldest(S) \in S
<1>1. PICK m \in S : \A y \in S : ~ (<<y, m>> \in OpToRel(<, Nat))
  BY WFMin, NatLessThanWellFounded, Zenon
<1>2. \A y \in S : ~ (y < m)
  BY <1>1, Zenon DEF OpToRel
<1>3. \A y \in S : m <= y
  BY <1>2
<1>. QED
  BY <1>3 DEF Oldest

-----------------------------------------------------------------------------
(* Types.                                                                  *)

Working   == {"backup", "verify", "finish", "failFinish"}
Telling   == {"report", "mark"}
Unwinding == {"disarm", "release"}
Beginning == {"prepare", "announce", "claim", "arm", "create", "failCreate"}

\* What a worker holds at each of its steps.
JobShape ==
    \A w \in Worker :
        /\ pc[w] # "idle" => job[w].attempt \in Attempt
        /\ pc[w] \in Beginning \cup {"idle"} => job[w].row = 0
        /\ pc[w] \in Working \cup Telling => job[w].row \in DOMAIN run
        /\ pc[w] \in Unwinding => job[w].row \in DOMAIN run \cup {0}

TypeInv == TypeOK /\ JobShape

\* The two writes to the history, and what they leave alone.
LEMMA RowOpened ==
    ASSUME TypeInv, NEW w \in Worker, pc[w] # "idle", OpenRow(w)
    PROVE  /\ run' \in History
           /\ Len(run') = Len(run) + 1
           /\ DOMAIN run' = DOMAIN run \cup {Len(run')}
           /\ Len(run') \notin DOMAIN run
           /\ \A i \in DOMAIN run : run'[i] = run[i]
           /\ run'[Len(run')] = [status |-> "open", attempt |-> job[w].attempt,
                                 named |-> job[w].named, outcome |-> "failed",
                                 reported |-> FALSE]
           /\ job' = [job EXCEPT ![w].row = Len(run')]
           /\ job' \in [Worker -> Job]
<1>. DEFINE r == [status |-> "open", attempt |-> job[w].attempt,
                  named |-> job[w].named, outcome |-> "failed", reported |-> FALSE]
<1>1. r \in Row
  BY DEF TypeInv, TypeOK, JobShape, Row, Job, Outcome
<1>2. run \in Seq(Row) /\ run' = Append(run, r)
  BY DEF TypeInv, TypeOK, OpenRow, History
<1>. HIDE DEF r
<1>3. /\ run' \in History
      /\ Len(run') = Len(run) + 1
      /\ \A i \in 1..Len(run) : run'[i] = run[i]
      /\ run'[Len(run) + 1] = r
  BY <1>1, <1>2, AppendProperties, ZenonT(40) DEF History
<1>4. job' = [job EXCEPT ![w].row = Len(run')]
  BY DEF OpenRow
<1>5. Len(run') \in Nat
  BY <1>2, <1>3
<1>6. job' \in [Worker -> Job]
  BY <1>4, <1>5 DEF TypeInv, TypeOK, Job
<1>. QED
  BY <1>2, <1>3, <1>4, <1>6 DEF r, History

LEMMA RowClosed ==
    ASSUME TypeInv, NEW w \in Worker, job[w].row \in DOMAIN run, CloseRow(w)
    PROVE  /\ run' \in History
           /\ DOMAIN run' = DOMAIN run
           /\ \A i \in DOMAIN run :
                 run'[i] = IF i = job[w].row
                           THEN [run[i] EXCEPT !.status = "closed", !.outcome = job[w].outcome]
                           ELSE run[i]
<1>. DEFINE n == job[w].row
            r == [run[n] EXCEPT !.status = "closed", !.outcome = job[w].outcome]
<1>1. run \in Seq(Row) /\ n \in DOMAIN run /\ run[n] \in Row
  BY DEF TypeInv, TypeOK, History
<1>2. r \in Row
  BY <1>1 DEF TypeInv, TypeOK, Row, Job
<1>3. run' = [run EXCEPT ![n] = r]
  BY <1>1 DEF CloseRow, Row
<1>. QED
  BY <1>1, <1>2, <1>3, RowReplaced, ZenonT(60) DEF History

LEMMA RowMarked ==
    ASSUME TypeInv, NEW n \in DOMAIN run, SetReported(n)
    PROVE  /\ run' \in History
           /\ DOMAIN run' = DOMAIN run
           /\ \A i \in DOMAIN run :
                 run'[i] = IF i = n THEN [run[i] EXCEPT !.reported = TRUE] ELSE run[i]
<1>. DEFINE r == [run[n] EXCEPT !.reported = TRUE]
<1>1. run \in Seq(Row) /\ run[n] \in Row
  BY DEF TypeInv, TypeOK, History
<1>2. r \in Row
  BY <1>1 DEF Row
<1>3. run' = [run EXCEPT ![n] = r]
  BY <1>1 DEF SetReported, Row
<1>. QED
  BY <1>1, <1>2, <1>3, RowReplaced DEF History

\* The event of a row is one the dashboard can take: at most one of five outcomes.
LEMMA FinishedTaken ==
    ASSUME TypeInv, NEW n \in DOMAIN run
    PROVE  TakeFinished(n) \in Events
<1>1. run[n] \in Row /\ heard \in Seq(Heard)
  BY DEF TypeInv, TypeOK, History, Events
<1>2. [attempt |-> run[n].attempt, outcome |-> Reported(run[n].outcome)] \in Heard
  BY <1>1 DEF Row, Heard, Reported, Outcome
<1>. QED
  BY <1>1, <1>2, AppendProperties DEF TakeFinished, Events

LEMMA NoJobTyped == NoJob \in Job
  BY RunsAssumption DEF NoJob, Job, Outcome

\* A goroutine that returns keeps nothing.
LEMMA WorkerReturned ==
    ASSUME TypeInv, NEW w \in Worker, Returns(w)
    PROVE  /\ pc' \in [Worker -> PC] /\ job' \in [Worker -> Job]
           /\ pc'[w] = "idle" /\ job'[w] = NoJob
           /\ \A v \in Worker \ {w} : pc'[v] = pc[v] /\ job'[v] = job[v]
  BY NoJobTyped DEF TypeInv, TypeOK, Returns, PC

\* Neither does a process that is gone.
LEMMA ProcessEnded ==
    ASSUME TypeInv, ProcessEnds, faults' \in 0..MaxFaults
    PROVE  TypeInv'
<1>1. /\ pc' = [w \in Worker |-> "idle"] /\ job' = [w \in Worker |-> NoJob]
      /\ mode' = "down" /\ running' = FALSE /\ cancelPtr' = 0 /\ queue' = {}
      /\ flushing' = "send"
      /\ UNCHANGED <<due, lastAttempt, cancelled, run, started, heard>>
  BY DEF ProcessEnds, fleet
<1>2. job' \in [Worker -> Job]
  BY <1>1, NoJobTyped
<1>3. 0 \in 0..MaxRuns
  BY RunsAssumption
<1>4. TypeOK'
  BY <1>1, <1>2, <1>3 DEF TypeInv, TypeOK, PC
<1>5. JobShape'
  BY <1>1 DEF JobShape, NoJob, Beginning, Working, Telling, Unwinding
<1>. QED
  BY <1>4, <1>5 DEF TypeInv

\* The bounded faults stay within their bound.
LEMMA FaultCounted ==
    ASSUME TypeInv, ContextOrDatabaseFails
    PROVE  faults' \in 0..MaxFaults
  BY RunsAssumption DEF TypeInv, TypeOK, ContextOrDatabaseFails

LEMMA TypeInvInit == Init => TypeInv
<1>. SUFFICES ASSUME Init PROVE TypeInv
  OBVIOUS
<1>1. MaxRuns \in Nat /\ MaxFaults \in Nat
  BY RunsAssumption
<1>2. run = <<>> /\ heard = <<>>
  BY DEF Init
<1>3. run \in History /\ heard \in Events
  BY <1>2 DEF History, Events
<1>4. job \in [Worker -> Job] /\ pc \in [Worker -> PC]
  BY NoJobTyped DEF Init, PC
<1>5. /\ 0 \in 0..MaxRuns /\ 0 \in 0..MaxFaults
      /\ queue \subseteq DOMAIN run
  BY <1>1 DEF Init
<1>7. TypeOK
  BY <1>3, <1>4, <1>5 DEF Init, TypeOK
<1>6. JobShape
  BY DEF Init, JobShape, NoJob, Beginning, Working, Telling, Unwinding
<1>. QED
  BY <1>6, <1>7 DEF TypeInv

\* Getting as far as the runner.
LEMMA TypeInvStarts ==
    ASSUME TypeInv, NEW w \in Worker,
           \/ MaybeRun(w) \/ StartRun(w) \/ PrepareFails(w) \/ PrepareSucceeds(w)
           \/ Announce(w) \/ ClaimRefused(w) \/ Claim(w) \/ Arm(w)
    PROVE  TypeInv'
<1>. USE DEF process, runner, flusher, fleet
<1>1. CASE MaybeRun(w) \/ StartRun(w)
  <2>1. /\ lastAttempt' \in 0..MaxRuns /\ lastAttempt + 1 \in Attempt
        /\ pc[w] = "idle" /\ pc' = [pc EXCEPT ![w] = "prepare"]
        /\ job' = [job EXCEPT ![w].attempt = lastAttempt + 1]
        /\ UNCHANGED <<process, due, runner, run, flusher, fleet>>
    BY <1>1, RunsAssumption DEF TypeInv, TypeOK, MaybeRun, StartRun, Spawn, Moves, Attempt
  <2>2. job' \in [Worker -> Job]
    BY <2>1 DEF TypeInv, TypeOK, Job, Attempt
  <2>3. TypeOK'
    BY <2>1, <2>2 DEF TypeInv, TypeOK, PC
  <2>4. JobShape'
    BY <2>1 DEF TypeInv, TypeOK, JobShape, Job, Beginning, Working, Telling, Unwinding
  <2>. QED  BY <2>3, <2>4 DEF TypeInv
<1>2. CASE PrepareFails(w) \/ PrepareSucceeds(w)
  <2>1. PICK minted \in BOOLEAN, p \in {"failCreate", "announce"} :
          /\ pc[w] = "prepare" /\ pc' = [pc EXCEPT ![w] = p]
          /\ job' = [job EXCEPT ![w].named = minted]
          /\ UNCHANGED <<process, due, lastAttempt, runner, run, flusher, fleet>>
    BY <1>2 DEF PrepareFails, PrepareSucceeds, Moves
  <2>2. job' \in [Worker -> Job]
    BY <2>1 DEF TypeInv, TypeOK, Job
  <2>3. TypeOK'
    BY <2>1, <2>2 DEF TypeInv, TypeOK, PC
  <2>4. JobShape'
    BY <2>1 DEF TypeInv, TypeOK, JobShape, Job, Beginning, Working, Telling, Unwinding
  <2>. QED  BY <2>3, <2>4 DEF TypeInv
<1>3. CASE Announce(w) \/ Claim(w) \/ Arm(w)
  <2>1. PICK p \in {"claim", "arm", "create"} :
          /\ pc[w] \in Beginning /\ pc' = [pc EXCEPT ![w] = p]
          /\ UNCHANGED <<process, due, job, lastAttempt, cancelled, run, flusher, heard>>
    BY <1>3 DEF Announce, Claim, Arm, Moves, Beginning
  <2>2. job[w].attempt \in Attempt /\ job[w].attempt \in 0..MaxRuns
    BY <2>1 DEF TypeInv, TypeOK, JobShape, Job, Beginning
  <2>3. started' \subseteq Attempt /\ running' \in BOOLEAN /\ cancelPtr' \in 0..MaxRuns
    BY <1>3, <2>2 DEF Announce, Claim, Arm, TypeInv, TypeOK
  <2>4. TypeOK'
    BY <2>1, <2>3 DEF TypeInv, TypeOK, PC
  <2>5. JobShape'
    BY <2>1 DEF TypeInv, TypeOK, JobShape, Beginning, Working, Telling, Unwinding
  <2>. QED  BY <2>4, <2>5 DEF TypeInv
<1>4. CASE ClaimRefused(w)
  <2>1. Returns(w) /\ UNCHANGED <<process, due, lastAttempt, runner, run, flusher, fleet>>
    BY <1>4 DEF ClaimRefused
  <2>2. TypeOK'
    BY <2>1, WorkerReturned DEF TypeInv, TypeOK
  <2>3. JobShape'
    BY <2>1, WorkerReturned DEF TypeInv, JobShape, NoJob, Beginning, Working, Telling, Unwinding
  <2>. QED  BY <2>2, <2>3 DEF TypeInv
<1>. QED
  BY <1>1, <1>2, <1>3, <1>4

\* The runner's own steps.
LEMMA TypeInvRuns ==
    ASSUME TypeInv, NEW w \in Worker,
           \/ Create(w) \/ Backup(w) \/ Verify(w) \/ Finish(w) \/ Disarm(w) \/ Release(w)
    PROVE  TypeInv'
<1>. USE DEF process, runner, flusher, fleet
<1>1. CASE Create(w)
  <2>1. /\ pc[w] = "create" /\ pc[w] # "idle"
        /\ UNCHANGED <<mode, lastAttempt, runner, flusher, fleet>>
    BY <1>1 DEF Create
  <2>2. CASE OpenRow(w) /\ pc' = [pc EXCEPT ![w] = "backup"] /\ UNCHANGED faults
    <3>1. due' = FALSE
      BY <2>2 DEF OpenRow
    <3>2. TypeOK'
      BY <2>1, <2>2, <3>1, RowOpened DEF TypeInv, TypeOK, PC
    <3>3. /\ DOMAIN run' = DOMAIN run \cup {Len(run')}
          /\ job' = [job EXCEPT ![w].row = Len(run')]
          /\ job \in [Worker -> Job] /\ pc \in [Worker -> PC]
      BY <2>1, <2>2, RowOpened DEF TypeInv, TypeOK
    <3>4. JobShape'
      BY <2>1, <2>2, <3>3
         DEF TypeInv, JobShape, Job, Beginning, Working, Telling, Unwinding
    <3>. QED  BY <3>2, <3>4 DEF TypeInv
  <2>3. CASE /\ ContextOrDatabaseFails /\ pc' = [pc EXCEPT ![w] = "disarm"]
             /\ UNCHANGED <<job, run, due>>
    <3>1. TypeOK'
      BY <2>1, <2>3, FaultCounted DEF TypeInv, TypeOK, PC
    <3>2. JobShape'
      BY <2>1, <2>3 DEF TypeInv, TypeOK, JobShape, Beginning, Working, Telling, Unwinding
    <3>. QED  BY <3>1, <3>2 DEF TypeInv
  <2>. QED  BY <1>1, <2>2, <2>3 DEF Create
<1>2. CASE Backup(w) \/ Verify(w)
  <2>1. PICK o \in Outcome, p \in {"verify", "finish"} :
          /\ pc[w] \in {"backup", "verify"} /\ pc' = [pc EXCEPT ![w] = p]
          /\ job' = [job EXCEPT ![w].outcome = o]
          /\ UNCHANGED <<process, due, lastAttempt, runner, run, flusher, fleet>>
    <3>1. CASE Backup(w)
      <4>1. \A r \in BackupResult : OutcomeOf(w, r) \in Outcome
        BY DEF OutcomeOf, Outcome
      <4>. QED  BY <3>1, <4>1 DEF Backup
    <3>2. CASE Verify(w)
      <4>1. job[w].outcome \in Outcome /\ job = [job EXCEPT ![w].outcome = job[w].outcome]
        BY DEF TypeInv, TypeOK, Job
      <4>2. "unverified" \in Outcome
        BY DEF Outcome
      <4>. QED  BY <3>2, <4>1, <4>2 DEF Verify, Moves
    <3>. QED  BY <1>2, <3>1, <3>2
  <2>2. job' \in [Worker -> Job]
    BY <2>1 DEF TypeInv, TypeOK, Job
  <2>3. TypeOK'
    BY <2>1, <2>2 DEF TypeInv, TypeOK, PC
  <2>4. JobShape'
    BY <2>1 DEF TypeInv, TypeOK, JobShape, Job, Beginning, Working, Telling, Unwinding
  <2>. QED  BY <2>3, <2>4 DEF TypeInv
<1>3. CASE Finish(w)
  <2>1. /\ pc[w] = "finish" /\ pc' = [pc EXCEPT ![w] = "disarm"]
        /\ job[w].row \in DOMAIN run
        /\ UNCHANGED <<mode, due, lastAttempt, runner, flusher, fleet>>
    BY <1>3 DEF Finish, Moves, TypeInv, JobShape, Working
  <2>2. CASE CloseRow(w) /\ UNCHANGED <<job, faults>>
    <3>1. TypeOK'
      BY <2>1, <2>2, RowClosed DEF TypeInv, TypeOK, PC
    <3>2. JobShape'
      BY <2>1, <2>2, RowClosed
         DEF TypeInv, TypeOK, JobShape, Beginning, Working, Telling, Unwinding
    <3>. QED  BY <3>1, <3>2 DEF TypeInv
  <2>3. CASE /\ faults < MaxFaults /\ faults' = faults + 1
             /\ job' = [job EXCEPT ![w].row = 0] /\ UNCHANGED run
    <3>1. job' \in [Worker -> Job]
      BY <2>3 DEF TypeInv, TypeOK, Job
    <3>2. faults' \in 0..MaxFaults
      BY <2>3, RunsAssumption DEF TypeInv, TypeOK
    <3>3. TypeOK'
      BY <2>1, <2>3, <3>1, <3>2 DEF TypeInv, TypeOK, PC
    <3>4. JobShape'
      BY <2>1, <2>3 DEF TypeInv, TypeOK, JobShape, Job, Beginning, Working, Telling, Unwinding
    <3>. QED  BY <3>3, <3>4 DEF TypeInv
  <2>. QED  BY <1>3, <2>2, <2>3 DEF Finish
<1>4. CASE Disarm(w)
  <2>1. /\ pc[w] = "disarm" /\ pc' = [pc EXCEPT ![w] = "release"] /\ cancelPtr' = 0
        /\ UNCHANGED <<process, due, job, lastAttempt, running, cancelled, run, flusher, fleet>>
    BY <1>4 DEF Disarm, Moves
  <2>2. TypeOK'
    BY <2>1, RunsAssumption DEF TypeInv, TypeOK, PC
  <2>3. JobShape'
    BY <2>1 DEF TypeInv, TypeOK, JobShape, Beginning, Working, Telling, Unwinding
  <2>. QED  BY <2>2, <2>3 DEF TypeInv
<1>5. CASE Release(w)
  <2>1. /\ pc[w] = "release" /\ running' = FALSE
        /\ job[w].row \in DOMAIN run \cup {0}
        /\ UNCHANGED <<process, due, lastAttempt, cancelPtr, cancelled, run, flusher, fleet>>
    BY <1>5 DEF Release, TypeInv, JobShape, Unwinding
  <2>2. CASE job[w].row = 0 /\ Returns(w)
    <3>1. TypeOK'
      BY <2>1, <2>2, WorkerReturned DEF TypeInv, TypeOK
    <3>2. JobShape'
      BY <2>1, <2>2, WorkerReturned
         DEF TypeInv, JobShape, NoJob, Beginning, Working, Telling, Unwinding
    <3>. QED  BY <3>1, <3>2 DEF TypeInv
  <2>3. CASE job[w].row # 0 /\ pc' = [pc EXCEPT ![w] = "report"] /\ UNCHANGED job
    <3>1. TypeOK'
      BY <2>1, <2>3 DEF TypeInv, TypeOK, PC
    <3>2. JobShape'
      BY <2>1, <2>3 DEF TypeInv, TypeOK, JobShape, Beginning, Working, Telling, Unwinding
    <3>. QED  BY <3>1, <3>2 DEF TypeInv
  <2>. QED  BY <1>5, <2>2, <2>3 DEF Release
<1>. QED
  BY <1>1, <1>2, <1>3, <1>4, <1>5

\* RecordFailedStart, and the worker's own report.
LEMMA TypeInvRecords ==
    ASSUME TypeInv, NEW w \in Worker,
           FailedStartCreate(w) \/ FailedStartFinish(w) \/ Report(w) \/ Mark(w)
    PROVE  TypeInv'
<1>. USE DEF process, runner, flusher, fleet
<1>1. CASE FailedStartCreate(w)
  <2>1. /\ pc[w] = "failCreate" /\ pc[w] # "idle"
        /\ UNCHANGED <<mode, lastAttempt, runner, flusher, fleet>>
    BY <1>1 DEF FailedStartCreate
  <2>2. CASE OpenRow(w) /\ pc' = [pc EXCEPT ![w] = "failFinish"] /\ UNCHANGED faults
    <3>1. due' = FALSE
      BY <2>2 DEF OpenRow
    <3>2. TypeOK'
      BY <2>1, <2>2, <3>1, RowOpened DEF TypeInv, TypeOK, PC
    <3>3. /\ DOMAIN run' = DOMAIN run \cup {Len(run')}
          /\ job' = [job EXCEPT ![w].row = Len(run')]
          /\ job \in [Worker -> Job] /\ pc \in [Worker -> PC]
      BY <2>1, <2>2, RowOpened DEF TypeInv, TypeOK
    <3>4. JobShape'
      BY <2>1, <2>2, <3>3
         DEF TypeInv, JobShape, Job, Beginning, Working, Telling, Unwinding
    <3>. QED  BY <3>2, <3>4 DEF TypeInv
  <2>3. CASE ContextOrDatabaseFails /\ Returns(w) /\ UNCHANGED <<run, due>>
    <3>1. TypeOK'
      BY <2>1, <2>3, FaultCounted, WorkerReturned DEF TypeInv, TypeOK
    <3>2. JobShape'
      BY <2>1, <2>3, WorkerReturned
         DEF TypeInv, JobShape, NoJob, Beginning, Working, Telling, Unwinding
    <3>. QED  BY <3>1, <3>2 DEF TypeInv
  <2>. QED  BY <1>1, <2>2, <2>3 DEF FailedStartCreate
<1>2. CASE FailedStartFinish(w)
  <2>1. /\ job[w].row \in DOMAIN run /\ Returns(w)
        /\ UNCHANGED <<mode, due, lastAttempt, runner, flusher, fleet>>
        /\ faults' \in 0..MaxFaults
    BY <1>2, FaultCounted DEF FailedStartFinish, TypeInv, TypeOK, JobShape, Working
  <2>2. CloseRow(w) \/ UNCHANGED run
    BY <1>2 DEF FailedStartFinish
  <2>3. run' \in History /\ DOMAIN run' = DOMAIN run
    BY <2>1, <2>2, RowClosed DEF TypeInv, TypeOK
  <2>4. TypeOK'
    BY <2>1, <2>3, WorkerReturned DEF TypeInv, TypeOK
  <2>5. JobShape'
    BY <2>1, <2>3, WorkerReturned
       DEF TypeInv, JobShape, NoJob, Beginning, Working, Telling, Unwinding
  <2>. QED  BY <2>4, <2>5 DEF TypeInv
<1>3. CASE Report(w)
  <2>1. /\ pc[w] = "report" /\ job[w].row \in DOMAIN run
        /\ UNCHANGED <<process, due, lastAttempt, runner, run, flusher, started>>
    BY <1>3 DEF Report, TypeInv, JobShape, Telling
  <2>2. heard' \in Events
    BY <1>3, <2>1, FinishedTaken DEF Report, TypeInv, TypeOK
  <2>3. CASE Returns(w)
    <3>1. TypeOK'
      BY <2>1, <2>2, <2>3, WorkerReturned DEF TypeInv, TypeOK
    <3>2. JobShape'
      BY <2>1, <2>3, WorkerReturned
         DEF TypeInv, JobShape, NoJob, Beginning, Working, Telling, Unwinding
    <3>. QED  BY <3>1, <3>2 DEF TypeInv
  <2>4. CASE pc' = [pc EXCEPT ![w] = "mark"] /\ UNCHANGED job
    <3>1. TypeOK'
      BY <2>1, <2>2, <2>4 DEF TypeInv, TypeOK, PC
    <3>2. JobShape'
      BY <2>1, <2>4 DEF TypeInv, TypeOK, JobShape, Beginning, Working, Telling, Unwinding
    <3>. QED  BY <3>1, <3>2 DEF TypeInv
  <2>. QED  BY <1>3, <2>3, <2>4 DEF Report
<1>4. CASE Mark(w)
  <2>1. /\ job[w].row \in DOMAIN run /\ Returns(w)
        /\ UNCHANGED <<mode, due, lastAttempt, runner, flusher, fleet>>
        /\ faults' \in 0..MaxFaults
    BY <1>4, FaultCounted DEF Mark, TypeInv, TypeOK, JobShape, Telling
  <2>2. SetReported(job[w].row) \/ UNCHANGED run
    BY <1>4 DEF Mark
  <2>3. run' \in History /\ DOMAIN run' = DOMAIN run
    BY <2>1, <2>2, RowMarked DEF TypeInv, TypeOK
  <2>4. TypeOK'
    BY <2>1, <2>3, WorkerReturned DEF TypeInv, TypeOK
  <2>5. JobShape'
    BY <2>1, <2>3, WorkerReturned
       DEF TypeInv, JobShape, NoJob, Beginning, Working, Telling, Unwinding
  <2>. QED  BY <2>4, <2>5 DEF TypeInv
<1>. QED
  BY <1>1, <1>2, <1>3, <1>4

\* The flusher, the Cancel button and the process.
LEMMA TypeInvOthers ==
    ASSUME TypeInv,
           \/ SlotArrives \/ Cancel \/ FlushRead \/ FlushDelivers \/ FlushFails \/ FlushMark
           \/ Shutdown \/ Exit \/ Crash \/ Restart \/ Quiescent \/ UNCHANGED vars
    PROVE  TypeInv'
<1>. USE DEF process, workers, runner, flusher, fleet
<1>1. CASE SlotArrives
  <2>1. TypeOK'
    BY <1>1 DEF SlotArrives, TypeInv, TypeOK
  <2>2. JobShape'
    BY <1>1 DEF SlotArrives, TypeInv, JobShape
  <2>. QED  BY <2>1, <2>2 DEF TypeInv
<1>2. CASE Cancel
  <2>1. cancelPtr \in Attempt
    BY <1>2 DEF Cancel, TypeInv, TypeOK, Attempt
  <2>2. TypeOK'
    BY <1>2, <2>1 DEF Cancel, TypeInv, TypeOK
  <2>3. JobShape'
    BY <1>2 DEF Cancel, TypeInv, JobShape
  <2>. QED  BY <2>2, <2>3 DEF TypeInv
<1>3. CASE FlushRead
  <2>1. OldestUnreported \subseteq DOMAIN run
    BY DEF OldestUnreported, Unreported
  <2>2. TypeOK'
    BY <1>3, <2>1 DEF FlushRead, TypeInv, TypeOK
  <2>3. JobShape'
    BY <1>3 DEF FlushRead, TypeInv, JobShape
  <2>. QED  BY <2>2, <2>3 DEF TypeInv
<1>4. queue # {} => Oldest(queue) \in DOMAIN run
  <2>1. queue \subseteq DOMAIN run /\ DOMAIN run \subseteq Nat
    BY DEF TypeInv, TypeOK, History
  <2>. QED  BY <2>1, OldestIsThere
<1>5. CASE FlushDelivers \/ FlushFails
  <2>1. /\ queue' \subseteq queue /\ flushing' \in {"send", "mark"}
        /\ UNCHANGED <<process, due, workers, runner, run, started>>
    BY <1>5 DEF FlushDelivers, FlushFails, TypeInv, TypeOK
  <2>2. heard' = heard \/ (queue # {} /\ heard' = TakeFinished(Oldest(queue)))
    BY <1>5 DEF FlushDelivers, FlushFails
  <2>3. heard' \in Events
    BY <1>4, <2>2, FinishedTaken DEF TypeInv, TypeOK
  <2>4. TypeOK'
    BY <2>1, <2>3 DEF TypeInv, TypeOK
  <2>5. JobShape'
    BY <2>1 DEF TypeInv, JobShape
  <2>. QED  BY <2>4, <2>5 DEF TypeInv
<1>6. CASE FlushMark
  <2>1. /\ queue # {} /\ queue' \subseteq queue /\ flushing' = "send"
        /\ faults' \in 0..MaxFaults
        /\ UNCHANGED <<mode, due, workers, runner, fleet>>
    BY <1>6, FaultCounted DEF FlushMark, TypeInv, TypeOK
  <2>2. SetReported(Oldest(queue)) \/ UNCHANGED run
    BY <1>6 DEF FlushMark
  <2>3. run' \in History /\ DOMAIN run' = DOMAIN run
    BY <1>4, <2>1, <2>2, RowMarked DEF TypeInv, TypeOK
  <2>4. TypeOK'
    BY <2>1, <2>3 DEF TypeInv, TypeOK
  <2>5. JobShape'
    BY <2>1, <2>3 DEF TypeInv, JobShape
  <2>. QED  BY <2>4, <2>5 DEF TypeInv
<1>7. CASE Exit
  BY <1>7, ProcessEnded DEF Exit, TypeInv, TypeOK
<1>8. CASE Crash
  <2>1. faults' \in 0..MaxFaults
    BY <1>8, RunsAssumption DEF Crash, TypeInv, TypeOK
  <2>. QED  BY <1>8, <2>1, ProcessEnded DEF Crash
<1>9. CASE Shutdown \/ Restart
  <2>1. /\ mode' \in {"up", "stopping", "down"} /\ faults' \in 0..MaxFaults
        /\ UNCHANGED <<due, workers, runner, run, flusher, fleet>>
    BY <1>9, RunsAssumption DEF Shutdown, Restart, TypeInv, TypeOK
  <2>2. TypeOK'
    BY <2>1 DEF TypeInv, TypeOK
  <2>3. JobShape'
    BY <2>1 DEF TypeInv, JobShape
  <2>. QED  BY <2>2, <2>3 DEF TypeInv
<1>10. CASE Quiescent \/ UNCHANGED vars
  <2>1. UNCHANGED vars
    BY <1>10 DEF Quiescent
  <2>2. TypeOK'
    BY <2>1 DEF TypeInv, TypeOK, vars
  <2>3. JobShape'
    BY <2>1 DEF TypeInv, JobShape, vars
  <2>. QED  BY <2>2, <2>3 DEF TypeInv
<1>. QED
  BY <1>1, <1>2, <1>3, <1>5, <1>6, <1>7, <1>8, <1>9, <1>10

\* No step takes a variable out of its type, a worker's record out of step with
\* its program counter, or an index out of the history.
THEOREM TypeInvHolds == Spec => []TypeInv
<1>1. TypeInv /\ [Next]_vars => TypeInv'
  BY TypeInvStarts, TypeInvRuns, TypeInvRecords, TypeInvOthers DEF Next, WorkerStep
<1>. QED
  BY <1>1, TypeInvInit, PTL DEF Spec

\* Every reachable state is well typed: in particular no index the code uses is
\* out of the run history.
THEOREM TypeCorrect == Spec => []TypeOK
<1>1. TypeInv => TypeOK
  BY DEF TypeInv
<1>. QED
  BY <1>1, TypeInvHolds, PTL

-----------------------------------------------------------------------------
(* One backup at a time, and the Cancel button that reaches it.            *)

\* From the moment the pointer is stored until the moment it is cleared.
Armed == {"create", "backup", "verify", "finish", "disarm"}

FlightInv ==
    /\ SingleFlight
    /\ \A w \in Worker : pc[w] \in Armed => cancelPtr = job[w].attempt

\* What each step means to the guard and to the pointer: a worker moves inside
\* its run, or outside of any, or takes the guard, stores the pointer, clears
\* it, or releases the guard.
Inside(w) ==
    /\ InRun(w) /\ InRun(w)' /\ pc[w] \in Armed /\ pc'[w] \in Armed
    /\ job'[w].attempt = job[w].attempt
    /\ UNCHANGED <<running, cancelPtr>>

Outside(w) == ~InRun(w) /\ ~InRun(w)' /\ UNCHANGED <<running, cancelPtr>>

Takes(w) == ~running /\ running' /\ pc[w] = "claim" /\ pc'[w] = "arm" /\ UNCHANGED cancelPtr

Stores(w) ==
    /\ pc[w] = "arm" /\ pc'[w] = "create"
    /\ cancelPtr' = job[w].attempt /\ job'[w].attempt = job[w].attempt
    /\ UNCHANGED running

Clears(w) == pc[w] = "disarm" /\ pc'[w] = "release" /\ cancelPtr' = 0 /\ UNCHANGED running

Frees(w) == pc[w] = "release" /\ ~InRun(w)' /\ running' = FALSE /\ UNCHANGED cancelPtr

LEMMA WorkerFlight ==
    ASSUME TypeInv, NEW w \in Worker, MaybeRun(w) \/ StartRun(w) \/ WorkerStep(w)
    PROVE  /\ \A v \in Worker \ {w} : pc'[v] = pc[v] /\ job'[v] = job[v]
           /\ \/ Inside(w) \/ Outside(w) \/ Takes(w) \/ Stores(w) \/ Clears(w) \/ Frees(w)
<1>. USE DEF runner, Outside, InRun
<1>1. pc \in [Worker -> PC] /\ job \in [Worker -> Job]
  BY DEF TypeInv, TypeOK
<1>2. CASE MaybeRun(w) \/ StartRun(w)
  BY <1>1, <1>2 DEF MaybeRun, StartRun, Spawn, Moves
<1>3. CASE PrepareFails(w) \/ PrepareSucceeds(w)
  BY <1>1, <1>3 DEF PrepareFails, PrepareSucceeds, Moves
<1>4. CASE FailedStartCreate(w)
  BY <1>1, <1>4 DEF FailedStartCreate, OpenRow, Returns
<1>5. CASE FailedStartFinish(w)
  BY <1>1, <1>5 DEF FailedStartFinish, Returns
<1>6. CASE Announce(w) \/ ClaimRefused(w)
  BY <1>1, <1>6 DEF Announce, ClaimRefused, Moves, Returns
<1>7. CASE Claim(w)
  BY <1>1, <1>7 DEF Claim, Moves, Takes
<1>8. CASE Arm(w)
  BY <1>1, <1>8 DEF Arm, Moves, Stores
<1>9. CASE Create(w)
  BY <1>1, <1>9 DEF Create, OpenRow, Inside, Armed, Job
<1>10. CASE Backup(w) \/ Verify(w)
  BY <1>1, <1>10 DEF Backup, Verify, Moves, Inside, Armed, Job
<1>11. CASE Finish(w)
  BY <1>1, <1>11 DEF Finish, Moves, Inside, Armed, Job
<1>12. CASE Disarm(w)
  BY <1>1, <1>12 DEF Disarm, Moves, Clears
<1>13. CASE Release(w)
  BY <1>1, <1>13 DEF Release, Returns, Frees
<1>14. CASE Report(w) \/ Mark(w)
  BY <1>1, <1>14 DEF Report, Mark, Returns
<1>. QED
  BY <1>2, <1>3, <1>4, <1>5, <1>6, <1>7, <1>8, <1>9, <1>10, <1>11, <1>12, <1>13, <1>14
     DEF WorkerStep

LEMMA FlightInvInductive ==
    ASSUME TypeInv, FlightInv, [Next]_vars
    PROVE  FlightInv'
<1>. USE DEF InRun, Armed
<1>1. ASSUME NEW w \in Worker, MaybeRun(w) \/ StartRun(w) \/ WorkerStep(w)
      PROVE  FlightInv'
  <2>1. \A v \in Worker \ {w} : pc'[v] = pc[v] /\ job'[v] = job[v]
    BY <1>1, WorkerFlight
  <2>2. CASE Inside(w)
    BY <2>1, <2>2 DEF FlightInv, SingleFlight, Inside
  <2>3. CASE Outside(w)
    BY <2>1, <2>3 DEF FlightInv, SingleFlight, Outside
  <2>4. CASE Takes(w)
    BY <2>1, <2>4 DEF FlightInv, SingleFlight, Takes
  <2>5. CASE Stores(w)
    BY <2>1, <2>5 DEF FlightInv, SingleFlight, Stores
  <2>6. CASE Clears(w)
    BY <2>1, <2>6 DEF FlightInv, SingleFlight, Clears
  <2>7. CASE Frees(w)
    BY <2>1, <2>7 DEF FlightInv, SingleFlight, Frees
  <2>. QED
    BY <1>1, <2>2, <2>3, <2>4, <2>5, <2>6, <2>7, WorkerFlight
<1>2. CASE Exit \/ Crash
  <2>1. pc' = [w \in Worker |-> "idle"] /\ running' = FALSE
    BY <1>2 DEF Exit, Crash, ProcessEnds
  <2>. QED
    BY <2>1 DEF FlightInv, SingleFlight
<1>3. CASE UNCHANGED <<pc, job, running, cancelPtr>>
  BY <1>3 DEF FlightInv, SingleFlight
<1>4. CASE \/ SlotArrives \/ Cancel \/ FlushRead \/ FlushDelivers \/ FlushFails \/ FlushMark
           \/ Shutdown \/ Restart \/ Quiescent \/ UNCHANGED vars
  BY <1>3, <1>4 DEF SlotArrives, Cancel, FlushRead, FlushDelivers, FlushFails, FlushMark,
                    Shutdown, Restart, Quiescent, vars, workers, runner
<1>. QED
  BY <1>1, <1>2, <1>4 DEF Next

LEMMA FlightInvHolds == Spec => []FlightInv
<1>1. Init => FlightInv
  BY DEF Init, FlightInv, SingleFlight, InRun, Armed
<1>2. TypeInv /\ FlightInv /\ [Next]_vars => FlightInv'
  BY FlightInvInductive
<1>. QED
  BY <1>1, <1>2, TypeInvHolds, PTL DEF Spec

\* However many goroutines see no backup running and go on to start one, at most
\* one is between the compare-and-swap and its release, and the guard is set
\* exactly while one is.
THEOREM OneBackupAtATime == Spec => []SingleFlight
<1>1. FlightInv => SingleFlight
  BY DEF FlightInv
<1>. QED
  BY <1>1, FlightInvHolds, PTL

\* While a run can be cancelled, the pointer Cancel loads is that run's.
THEOREM CancelFindsTheRun == Spec => []CancelReachesTheRun
<1>1. FlightInv => CancelReachesTheRun
  BY DEF FlightInv, CancelReachesTheRun, Armed
<1>. QED
  BY <1>1, FlightInvHolds, PTL

-----------------------------------------------------------------------------
(* The rows of the history and the workers that write them.                *)

\* Attempts are numbered apart, a row belongs to the attempt that wrote it, and
\* whoever is working on a row left it open.
RowInv ==
    /\ OneRowPerAttempt
    /\ \A i \in DOMAIN run : run[i].attempt <= lastAttempt
    /\ \A w \in Worker : pc[w] # "idle" => job[w].attempt <= lastAttempt
    /\ \A v, w \in Worker :
          /\ pc[v] # "idle" /\ pc[w] # "idle"
          /\ job[v].attempt = job[w].attempt
          => v = w
    /\ \A w \in Worker : pc[w] \in Beginning =>
          \A i \in DOMAIN run : run[i].attempt # job[w].attempt
    /\ \A w \in Worker : pc[w] # "idle" /\ job[w].row \in DOMAIN run =>
          /\ run[job[w].row].attempt = job[w].attempt
          /\ pc[w] \in Working => run[job[w].row].status = "open"
          /\ pc[w] \in Telling \cup Unwinding => run[job[w].row].status = "closed"

\* What each step means to the history: a worker takes a number, or carries on,
\* or returns, or writes one of its row's three statements, or fails to write
\* the one that ends it.
Numbers(w) ==
    /\ pc[w] = "idle" /\ pc'[w] = "prepare"
    /\ lastAttempt' = lastAttempt + 1
    /\ job'[w].attempt = lastAttempt + 1 /\ job'[w].row = job[w].row
    /\ UNCHANGED run

CarriesOn(w) ==
    /\ \/ pc[w] \in Beginning /\ pc'[w] \in Beginning
       \/ pc[w] = "create" /\ pc'[w] = "disarm"
       \/ pc[w] \in Working /\ pc'[w] \in Working
       \/ pc[w] \in Unwinding /\ pc'[w] \in Unwinding
       \/ pc[w] = "release" /\ pc'[w] = "report"
       \/ pc[w] = "report" /\ pc'[w] = "mark"
    /\ job'[w].attempt = job[w].attempt /\ job'[w].row = job[w].row
    /\ UNCHANGED <<run, lastAttempt>>

GivesUp(w) ==
    /\ pc[w] # "idle" /\ pc'[w] = "idle"
    /\ UNCHANGED <<run, lastAttempt>>

Opens(w) ==
    /\ pc[w] \in {"create", "failCreate"} /\ pc'[w] \in {"backup", "failFinish"}
    /\ OpenRow(w)
    /\ UNCHANGED lastAttempt

Closes(w) ==
    /\ \/ pc[w] = "finish" /\ pc'[w] = "disarm" /\ job'[w] = job[w]
       \/ pc[w] = "failFinish" /\ pc'[w] = "idle"
    /\ CloseRow(w)
    /\ UNCHANGED lastAttempt

Loses(w) ==
    /\ pc[w] = "finish" /\ pc'[w] = "disarm" /\ faults' # 0
    /\ job'[w].attempt = job[w].attempt /\ job'[w].row = 0
    /\ UNCHANGED <<run, lastAttempt>>

Marks(w) ==
    /\ pc[w] = "mark" /\ pc'[w] = "idle"
    /\ SetReported(job[w].row)
    /\ UNCHANGED lastAttempt

LEMMA WorkerWrites ==
    ASSUME TypeInv, NEW w \in Worker, MaybeRun(w) \/ StartRun(w) \/ WorkerStep(w)
    PROVE  /\ \A v \in Worker \ {w} : pc'[v] = pc[v] /\ job'[v] = job[v]
           /\ \/ Numbers(w) \/ CarriesOn(w) \/ GivesUp(w) \/ Opens(w)
              \/ Closes(w) \/ Loses(w) \/ Marks(w)
<1>. USE DEF Beginning, Working, Telling, Unwinding
<1>1. pc \in [Worker -> PC] /\ job \in [Worker -> Job]
  BY DEF TypeInv, TypeOK
<1>2. CASE MaybeRun(w) \/ StartRun(w)
  BY <1>1, <1>2 DEF MaybeRun, StartRun, Spawn, Moves, Numbers, Job
<1>3. CASE PrepareFails(w) \/ PrepareSucceeds(w)
  BY <1>1, <1>3 DEF PrepareFails, PrepareSucceeds, Moves, CarriesOn, Job
<1>4. CASE FailedStartCreate(w)
  BY <1>1, <1>4 DEF FailedStartCreate, OpenRow, Returns, Opens, GivesUp
<1>5. CASE FailedStartFinish(w)
  BY <1>1, <1>5 DEF FailedStartFinish, Returns, Closes, GivesUp
<1>6. CASE Announce(w) \/ ClaimRefused(w)
  BY <1>1, <1>6 DEF Announce, ClaimRefused, Moves, Returns, CarriesOn, GivesUp
<1>7. CASE Claim(w) \/ Arm(w)
  BY <1>1, <1>7 DEF Claim, Arm, Moves, CarriesOn
<1>8. CASE Create(w)
  BY <1>1, <1>8 DEF Create, OpenRow, Opens, CarriesOn
<1>9. CASE Backup(w) \/ Verify(w)
  BY <1>1, <1>9, ZenonT(60) DEF Backup, Verify, Moves, CarriesOn, Job
<1>10. CASE Finish(w)
  <2>1. faults \in Nat
    BY DEF TypeInv, TypeOK
  <2>. QED
    BY <1>1, <1>10, <2>1 DEF Finish, Moves, Closes, Loses, Job
<1>11. CASE Disarm(w) \/ Release(w)
  BY <1>1, <1>11 DEF Disarm, Release, Moves, Returns, CarriesOn, GivesUp
<1>12. CASE Report(w)
  BY <1>1, <1>12 DEF Report, Returns, CarriesOn, GivesUp
<1>13. CASE Mark(w)
  BY <1>1, <1>13 DEF Mark, Returns, Marks, GivesUp
<1>. QED
  BY <1>2, <1>3, <1>4, <1>5, <1>6, <1>7, <1>8, <1>9, <1>10, <1>11, <1>12, <1>13
     DEF WorkerStep

\* Every index a worker or the flusher holds is that of a row of the history.
LEMMA Indices ==
    ASSUME TypeInv
    PROVE  /\ \A i \in DOMAIN run : run[i] \in Row
           /\ DOMAIN run = 1..Len(run) /\ Len(run) \in Nat
           /\ \A w \in Worker : job[w].row \in DOMAIN run \cup {0}
           /\ \A w \in Worker : pc[w] \in Beginning \cup {"idle"} => job[w].row = 0
           /\ queue # {} => Oldest(queue) \in queue
           /\ queue \subseteq DOMAIN run
<1>1. run \in Seq(Row)
  BY DEF TypeInv, TypeOK, History
<1>2. /\ \A i \in DOMAIN run : run[i] \in Row
      /\ DOMAIN run = 1..Len(run) /\ Len(run) \in Nat
  BY <1>1
<1>3. \A w \in Worker : pc[w] \in PC
  BY DEF TypeInv, TypeOK
<1>4. \A w \in Worker : job[w].row \in DOMAIN run \cup {0}
  BY <1>3 DEF TypeInv, JobShape, PC, Beginning, Working, Telling, Unwinding
<1>5. queue # {} => Oldest(queue) \in queue
  BY <1>2, OldestIsThere DEF TypeInv, TypeOK
<1>. QED
  BY <1>2, <1>4, <1>5 DEF TypeInv, TypeOK, JobShape

LEMMA RowInvInductive ==
    ASSUME TypeInv, RowInv, [Next]_vars
    PROVE  RowInv'
<1>. USE DEF Beginning, Working, Telling, Unwinding
<1>1. \A i \in DOMAIN run : run[i].attempt \in Nat
  BY Indices DEF Row, Attempt
<1>2. lastAttempt \in Nat /\ \A w \in Worker : job[w].attempt \in Nat
  BY DEF TypeInv, TypeOK, Job
<1>3. /\ \A w \in Worker : job[w].row \in DOMAIN run \cup {0}
      /\ \A w \in Worker : pc[w] \in Beginning \cup {"idle"} => job[w].row = 0
      /\ 0 \notin DOMAIN run
  BY Indices
<1>4. ASSUME NEW w \in Worker, MaybeRun(w) \/ StartRun(w) \/ WorkerStep(w)
      PROVE  RowInv'
  <2>1. \A v \in Worker \ {w} : pc'[v] = pc[v] /\ job'[v] = job[v]
    BY <1>4, WorkerWrites
  <2>2. CASE Numbers(w)
    BY <1>1, <1>2, <1>3, <2>1, <2>2 DEF RowInv, OneRowPerAttempt, Numbers
  <2>3. CASE CarriesOn(w)
    BY <1>3, <2>1, <2>3 DEF RowInv, OneRowPerAttempt, CarriesOn
  <2>4. CASE GivesUp(w)
    BY <2>1, <2>4 DEF RowInv, OneRowPerAttempt, GivesUp
  <2>5. CASE Opens(w)
    <3>1. pc[w] # "idle" /\ OpenRow(w) /\ job \in [Worker -> Job]
      BY <2>5 DEF Opens, TypeInv, TypeOK
    <3>2. PICK n : /\ n \notin DOMAIN run /\ n # 0
                   /\ DOMAIN run' = DOMAIN run \cup {n}
                   /\ \A i \in DOMAIN run : run'[i] = run[i]
                   /\ run'[n].attempt = job[w].attempt
                   /\ run'[n].status = "open"
                   /\ job' = [job EXCEPT ![w].row = n]
      <4>1. /\ Len(run') = Len(run) + 1
            /\ Len(run') \notin DOMAIN run
            /\ DOMAIN run' = DOMAIN run \cup {Len(run')}
            /\ \A i \in DOMAIN run : run'[i] = run[i]
            /\ run'[Len(run')] = [status |-> "open", attempt |-> job[w].attempt,
                                 named |-> job[w].named, outcome |-> "failed",
                                 reported |-> FALSE]
            /\ job' = [job EXCEPT ![w].row = Len(run')]
        BY <3>1, RowOpened, Zenon
      <4>2. Len(run') # 0
        BY <4>1, Indices
      <4>. DEFINE m == Len(run')
      <4>3. run'[m].attempt = job[w].attempt /\ run'[m].status = "open"
        BY <4>1
      <4>. HIDE DEF m
      <4>. QED  BY <4>1, <4>2, <4>3, Zenon DEF m
    <3>3. job'[w].row = n /\ job'[w].attempt = job[w].attempt
      BY <3>1, <3>2 DEF Job
    <3>4. OneRowPerAttempt'
      BY <2>5, <3>2 DEF RowInv, OneRowPerAttempt, Opens
    <3>5. \A v \in Worker : pc'[v] \in Beginning =>
             \A i \in DOMAIN run' : run'[i].attempt # job'[v].attempt
      BY <2>1, <2>5, <3>2, <3>3 DEF RowInv, Opens
    <3>6. \A v \in Worker : pc'[v] # "idle" /\ job'[v].row \in DOMAIN run' =>
             /\ run'[job'[v].row].attempt = job'[v].attempt
             /\ pc'[v] \in Working => run'[job'[v].row].status = "open"
             /\ pc'[v] \in Telling \cup Unwinding => run'[job'[v].row].status = "closed"
      BY <1>3, <2>1, <2>5, <3>2, <3>3 DEF RowInv, Opens
    <3>7. /\ \A i \in DOMAIN run' : run'[i].attempt <= lastAttempt'
          /\ \A v \in Worker : pc'[v] # "idle" => job'[v].attempt <= lastAttempt'
          /\ \A u, v \in Worker :
                /\ pc'[u] # "idle" /\ pc'[v] # "idle"
                /\ job'[u].attempt = job'[v].attempt
                => u = v
      BY <2>1, <2>5, <3>2, <3>3 DEF RowInv, Opens
    <3>. QED
      BY <3>4, <3>5, <3>6, <3>7 DEF RowInv
  <2>6. CASE Closes(w)
    <3>1. job[w].row \in DOMAIN run /\ CloseRow(w)
      BY <2>6 DEF Closes, TypeInv, JobShape
    <3>2. /\ DOMAIN run' = DOMAIN run
          /\ \A i \in DOMAIN run : run'[i].attempt = run[i].attempt
          /\ \A i \in DOMAIN run \ {job[w].row} : run'[i].status = run[i].status
          /\ run'[job[w].row].status = "closed"
      <4>1. /\ DOMAIN run' = DOMAIN run
            /\ \A i \in DOMAIN run :
                  run'[i] = IF i = job[w].row
                            THEN [run[i] EXCEPT !.status = "closed", !.outcome = job[w].outcome]
                            ELSE run[i]
        BY <3>1, RowClosed
      <4>2. \A i \in DOMAIN run : run[i] \in Row
        BY Indices
      <4>. QED  BY <3>1, <4>1, <4>2, ZenonT(60) DEF Row
    <3>3. run[job[w].row].attempt = job[w].attempt
      BY <2>6, <3>1 DEF RowInv, Closes
    <3>4. \A v \in Worker \ {w} : pc[v] # "idle" => job[v].row # job[w].row
      BY <2>6, <3>1, <3>3 DEF RowInv, Closes
    <3>5. OneRowPerAttempt'
      BY <3>2 DEF RowInv, OneRowPerAttempt
    <3>6. \A v \in Worker : pc'[v] # "idle" /\ job'[v].row \in DOMAIN run' =>
             /\ run'[job'[v].row].attempt = job'[v].attempt
             /\ pc'[v] \in Working => run'[job'[v].row].status = "open"
             /\ pc'[v] \in Telling \cup Unwinding => run'[job'[v].row].status = "closed"
      BY <2>1, <2>6, <3>2, <3>3, <3>4 DEF RowInv, Closes
    <3>. QED
      BY <2>1, <2>6, <3>2, <3>5, <3>6 DEF RowInv, Closes
  <2>7. CASE Loses(w)
    BY <1>3, <2>1, <2>7 DEF RowInv, OneRowPerAttempt, Loses
  <2>8. CASE Marks(w)
    <3>1. job[w].row \in DOMAIN run /\ SetReported(job[w].row)
      BY <2>8 DEF Marks, TypeInv, JobShape
    <3>2. /\ DOMAIN run' = DOMAIN run
          /\ \A i \in DOMAIN run : run'[i].attempt = run[i].attempt /\ run'[i].status = run[i].status
      BY <3>1, RowMarked, Indices DEF Row
    <3>. QED
      BY <2>1, <2>8, <3>2 DEF RowInv, OneRowPerAttempt, Marks
  <2>. QED
    BY <1>4, <2>2, <2>3, <2>4, <2>5, <2>6, <2>7, <2>8, WorkerWrites
<1>5. CASE Exit \/ Crash
  <2>1. pc' = [w \in Worker |-> "idle"] /\ UNCHANGED <<run, lastAttempt>>
    BY <1>5 DEF Exit, Crash, ProcessEnds
  <2>. QED
    BY <2>1 DEF RowInv, OneRowPerAttempt
<1>6. CASE FlushMark
  <2>1. queue # {} /\ Oldest(queue) \in DOMAIN run
    BY <1>6, Indices DEF FlushMark
  <2>2. SetReported(Oldest(queue)) \/ UNCHANGED run
    BY <1>6 DEF FlushMark
  <2>3. /\ DOMAIN run' = DOMAIN run
        /\ \A i \in DOMAIN run : run'[i].attempt = run[i].attempt /\ run'[i].status = run[i].status
    BY <2>1, <2>2, RowMarked, Indices DEF Row
  <2>4. UNCHANGED <<pc, job, lastAttempt>>
    BY <1>6 DEF FlushMark, workers
  <2>. QED
    BY <2>3, <2>4 DEF RowInv, OneRowPerAttempt
<1>7. CASE \/ SlotArrives \/ Cancel \/ FlushRead \/ FlushDelivers \/ FlushFails
           \/ Shutdown \/ Restart \/ Quiescent \/ UNCHANGED vars
  <2>1. UNCHANGED <<pc, job, lastAttempt, run>>
    BY <1>7 DEF SlotArrives, Cancel, FlushRead, FlushDelivers, FlushFails, Shutdown, Restart,
                Quiescent, vars, workers
  <2>. QED
    BY <2>1 DEF RowInv, OneRowPerAttempt
<1>. QED
  BY <1>4, <1>5, <1>6, <1>7 DEF Next

LEMMA RowInvHolds == Spec => []RowInv
<1>1. Init => RowInv
  BY DEF Init, RowInv, OneRowPerAttempt, Beginning
<1>2. TypeInv /\ RowInv /\ [Next]_vars => RowInv'
  BY RowInvInductive
<1>. QED
  BY <1>1, <1>2, TypeInvHolds, PTL DEF Spec

\* No attempt leaves two rows, whether the runner or RecordFailedStart wrote the
\* first one and whichever of their writes failed.
THEOREM OneRowEach == Spec => []OneRowPerAttempt
<1>1. RowInv => OneRowPerAttempt
  BY DEF RowInv
<1>. QED
  BY <1>1, RowInvHolds, PTL

-----------------------------------------------------------------------------
(* What the dashboard knows.                                               *)

Told(a) == \E k \in 1..Len(heard) : heard[k].attempt = a

\* Whoever is about to mark a row has told the dashboard of it, unless it is one
\* the dashboard can never take; and only rows with an outcome are told.
HeardInv ==
    /\ HeardIsFinal
    /\ ReportedWasHeard
    /\ \A w \in Worker : pc[w] = "mark" => Told(run[job[w].row].attempt)
    /\ \A i \in queue : run[i].status = "closed"
    /\ flushing = "mark" /\ queue # {} /\ run[Oldest(queue)].named =>
          Told(run[Oldest(queue)].attempt)

\* One statement's effect on the history, whoever executes it: an outcome once
\* written stays, and a row is marked by a worker or a flush that is at that step.
LEMMA RowsAfterAStep ==
    ASSUME TypeInv, RowInv, [Next]_vars
    PROVE  /\ \A i \in DOMAIN run :
                 /\ i \in DOMAIN run'
                 /\ run'[i].attempt = run[i].attempt
                 /\ run'[i].named = run[i].named
                 /\ run[i].status = "closed" =>
                       run'[i].status = "closed" /\ run'[i].outcome = run[i].outcome
           /\ \A i \in DOMAIN run' : run'[i].reported =>
                 /\ i \in DOMAIN run
                 /\ \/ run[i].reported
                    \/ \E w \in Worker : pc[w] = "mark" /\ i = job[w].row
                    \/ flushing = "mark" /\ queue # {} /\ i = Oldest(queue)
<1>1. \A i \in DOMAIN run : run[i] \in Row
  BY Indices
<1>2. CASE UNCHANGED run
  BY <1>2
<1>3. ASSUME NEW w \in Worker, MaybeRun(w) \/ StartRun(w) \/ WorkerStep(w), ~UNCHANGED run
      PROVE  Opens(w) \/ Closes(w) \/ Marks(w)
  BY <1>3, WorkerWrites DEF Numbers, CarriesOn, GivesUp, Loses
<1>4. ASSUME NEW w \in Worker, Opens(w)
      PROVE  /\ DOMAIN run \subseteq DOMAIN run'
             /\ \A i \in DOMAIN run : run'[i] = run[i]
             /\ \A i \in DOMAIN run' \ DOMAIN run : ~run'[i].reported
  <2>1. pc[w] # "idle" /\ OpenRow(w)
    BY <1>4 DEF Opens
  <2>2. /\ DOMAIN run' = DOMAIN run \cup {Len(run')}
        /\ \A i \in DOMAIN run : run'[i] = run[i]
        /\ run'[Len(run')] = [status |-> "open", attempt |-> job[w].attempt,
                             named |-> job[w].named, outcome |-> "failed",
                             reported |-> FALSE]
    BY <2>1, RowOpened, Zenon
  <2>3. run'[Len(run')].reported = FALSE
    BY <2>2
  <2>. QED
    BY <2>2, <2>3, Zenon
<1>5. ASSUME NEW w \in Worker, Closes(w)
      PROVE  /\ DOMAIN run' = DOMAIN run
             /\ run[job[w].row].status = "open"
             /\ \A i \in DOMAIN run :
                   run'[i] = IF i = job[w].row
                             THEN [run[i] EXCEPT !.status = "closed", !.outcome = job[w].outcome]
                             ELSE run[i]
  <2>1. /\ pc[w] \in Working /\ pc[w] # "idle"
        /\ job[w].row \in DOMAIN run /\ CloseRow(w)
    BY <1>5 DEF Closes, Working, TypeInv, JobShape
  <2>2. run[job[w].row].status = "open"
    BY <2>1 DEF RowInv
  <2>. QED
    BY <2>1, <2>2, RowClosed
<1>6. ASSUME NEW w \in Worker, Marks(w)
      PROVE  /\ DOMAIN run' = DOMAIN run
             /\ pc[w] = "mark"
             /\ \A i \in DOMAIN run :
                   run'[i] = IF i = job[w].row THEN [run[i] EXCEPT !.reported = TRUE] ELSE run[i]
  <2>1. pc[w] = "mark" /\ job[w].row \in DOMAIN run /\ SetReported(job[w].row)
    BY <1>6 DEF Marks, Telling, TypeInv, JobShape
  <2>. QED
    BY <2>1, RowMarked
<1>7. ASSUME FlushMark, ~UNCHANGED run
      PROVE  /\ DOMAIN run' = DOMAIN run
             /\ flushing = "mark" /\ queue # {}
             /\ \A i \in DOMAIN run :
                   run'[i] = IF i = Oldest(queue) THEN [run[i] EXCEPT !.reported = TRUE] ELSE run[i]
  <2>1. /\ flushing = "mark" /\ queue # {}
        /\ Oldest(queue) \in DOMAIN run /\ SetReported(Oldest(queue))
    BY <1>7, Indices DEF FlushMark
  <2>. QED
    BY <2>1, RowMarked
<1>8. CASE \E w \in Worker : MaybeRun(w) \/ StartRun(w) \/ WorkerStep(w)
  <2>1. PICK w \in Worker : MaybeRun(w) \/ StartRun(w) \/ WorkerStep(w)
    BY <1>8
  <2>2. CASE Opens(w)
    BY <1>1, <1>4, <2>2
  <2>3. CASE Closes(w)
    <3>1. \A i \in DOMAIN run :
             /\ run'[i].attempt = run[i].attempt /\ run'[i].named = run[i].named
             /\ run'[i].reported = run[i].reported
             /\ run[i].status = "closed" => run'[i] = run[i]
      <4>1. /\ run[job[w].row].status = "open"
            /\ \A i \in DOMAIN run \ {job[w].row} : run'[i] = run[i]
        BY <1>5, <2>3
      <4>2. ASSUME job[w].row \in DOMAIN run
            PROVE  LET r == run[job[w].row]
                       q == run'[job[w].row]
                   IN  q.attempt = r.attempt /\ q.named = r.named /\ q.reported = r.reported
        <5>1. /\ run[job[w].row] \in Row
              /\ run'[job[w].row] = [run[job[w].row] EXCEPT !.status = "closed",
                                                          !.outcome = job[w].outcome]
          BY <1>1, <1>5, <2>3, <4>2
        <5>. QED  BY <5>1 DEF Row
      <4>. QED  BY <4>1, <4>2
    <3>. QED
      BY <1>5, <2>3, <3>1
  <2>4. CASE Marks(w)
    <3>1. \A i \in DOMAIN run :
             /\ run'[i].attempt = run[i].attempt /\ run'[i].named = run[i].named
             /\ run'[i].status = run[i].status /\ run'[i].outcome = run[i].outcome
             /\ run'[i].reported => run[i].reported \/ i = job[w].row
      <4>1. \A i \in DOMAIN run \ {job[w].row} : run'[i] = run[i]
        BY <1>6, <2>4
      <4>2. ASSUME job[w].row \in DOMAIN run
            PROVE  LET r == run[job[w].row]
                       q == run'[job[w].row]
                   IN  /\ q.attempt = r.attempt /\ q.named = r.named
                       /\ q.status = r.status /\ q.outcome = r.outcome
        <5>1. /\ run[job[w].row] \in Row
              /\ run'[job[w].row] = [run[job[w].row] EXCEPT !.reported = TRUE]
          BY <1>1, <1>6, <2>4, <4>2
        <5>. QED  BY <5>1 DEF Row
      <4>. QED  BY <4>1, <4>2
    <3>. QED
      BY <1>6, <2>4, <3>1
  <2>. QED
    BY <1>2, <1>3, <2>1, <2>2, <2>3, <2>4
<1>9. CASE FlushMark
  BY <1>1, <1>2, <1>7, <1>9 DEF Row
<1>10. CASE \/ SlotArrives \/ Cancel \/ FlushRead \/ FlushDelivers \/ FlushFails
            \/ Exit \/ Crash \/ Shutdown \/ Restart \/ Quiescent \/ UNCHANGED vars
  <2>1. UNCHANGED run
    BY <1>10 DEF SlotArrives, Cancel, FlushRead, FlushDelivers, FlushFails, Exit, Crash,
                 ProcessEnds, Shutdown, Restart, Quiescent, vars
  <2>. QED
    BY <1>2, <2>1
<1>. QED
  BY <1>8, <1>9, <1>10 DEF Next

\* What telling a row adds to the dashboard, and that nothing is taken away.
LEMMA Learned ==
    ASSUME TypeInv, NEW n \in DOMAIN run, heard' = TakeFinished(n)
    PROVE  /\ \E k \in 1..Len(heard') : heard'[k].attempt = run[n].attempt
           /\ \A k \in 1..Len(heard) : k \in 1..Len(heard') /\ heard'[k] = heard[k]
           /\ \A k \in 1..Len(heard') :
                 \/ k \in 1..Len(heard)
                 \/ /\ heard'[k].attempt = run[n].attempt
                    /\ heard'[k].outcome = Reported(run[n].outcome)
<1>. DEFINE e == [attempt |-> run[n].attempt, outcome |-> Reported(run[n].outcome)]
<1>1. heard \in Seq(Heard)
  BY DEF TypeInv, TypeOK, Events
<1>2. CASE \E k \in 1..Len(heard) : heard[k].attempt = run[n].attempt
  <2>1. heard' = heard
    BY <1>2 DEF TakeFinished
  <2>. QED  BY <1>2, <2>1
<1>3. CASE ~\E k \in 1..Len(heard) : heard[k].attempt = run[n].attempt
  <2>1. heard' = Append(heard, e)
    BY <1>3 DEF TakeFinished
  <2>2. e \in Heard
    BY Indices DEF Row, Heard, Reported, Outcome
  <2>. HIDE DEF e
  <2>3. /\ Len(heard') = Len(heard) + 1 /\ Len(heard) \in Nat
        /\ \A k \in 1..Len(heard) : heard'[k] = heard[k]
        /\ heard'[Len(heard) + 1] = e
    BY <1>1, <2>1, <2>2, AppendProperties
  <2>4. e.attempt = run[n].attempt /\ e.outcome = Reported(run[n].outcome)
    BY DEF e
  <2>. QED  BY <2>3, <2>4
<1>. QED  BY <1>2, <1>3

\* The dashboard only learns the outcome of a row that has one.
LEMMA WhatIsTold ==
    ASSUME TypeInv, RowInv, HeardInv, [Next]_vars
    PROVE  \/ heard' = heard
           \/ \E n \in DOMAIN run : run[n].status = "closed" /\ heard' = TakeFinished(n)
<1>1. CASE \E w \in Worker : Report(w)
  <2>1. PICK w \in Worker : Report(w)
    BY <1>1
  <2>2. job[w].row \in DOMAIN run /\ run[job[w].row].status = "closed"
    BY <2>1 DEF Report, TypeInv, JobShape, RowInv, Telling
  <2>. QED  BY <2>1, <2>2 DEF Report
<1>2. CASE FlushDelivers \/ FlushFails
  <2>1. /\ Oldest(queue) \in DOMAIN run
        /\ run[Oldest(queue)].status = "closed"
    BY <1>2, Indices DEF FlushDelivers, FlushFails, HeardInv
  <2>. QED  BY <1>2, <2>1 DEF FlushDelivers, FlushFails
<1>3. ASSUME NEW w \in Worker,
             \/ MaybeRun(w) \/ StartRun(w) \/ PrepareFails(w) \/ PrepareSucceeds(w)
             \/ FailedStartCreate(w) \/ FailedStartFinish(w) \/ Announce(w)
             \/ ClaimRefused(w) \/ Claim(w) \/ Arm(w) \/ Create(w) \/ Backup(w)
             \/ Verify(w) \/ Finish(w) \/ Disarm(w) \/ Release(w) \/ Mark(w)
      PROVE  heard' = heard
  BY <1>3 DEF MaybeRun, StartRun, Spawn, PrepareFails, PrepareSucceeds, FailedStartCreate,
              FailedStartFinish, Announce, ClaimRefused, Claim, Arm, Create, Backup, Verify,
              Finish, Disarm, Release, Mark, fleet
<1>4. CASE \/ SlotArrives \/ Cancel \/ FlushRead \/ FlushMark \/ Exit \/ Crash
           \/ Shutdown \/ Restart \/ Quiescent \/ UNCHANGED vars
  BY <1>4 DEF SlotArrives, Cancel, FlushRead, FlushMark, Exit, Crash, ProcessEnds, Shutdown,
              Restart, Quiescent, vars, fleet
<1>. QED
  BY <1>1, <1>2, <1>3, <1>4 DEF Next, WorkerStep

\* A worker reaches its mark only by a report that went through.
LEMMA WhoMarks ==
    ASSUME TypeInv, [Next]_vars, NEW w \in Worker, pc'[w] = "mark"
    PROVE  /\ job'[w] = job[w]
           /\ \/ pc[w] = "mark"
              \/ /\ pc[w] = "report" /\ job[w].row \in DOMAIN run
                 /\ heard' = TakeFinished(job[w].row)
<1>1. pc \in [Worker -> PC]
  BY DEF TypeInv, TypeOK
<1>2. ASSUME NEW v \in Worker, MaybeRun(v) \/ StartRun(v) \/ WorkerStep(v), v # w
      PROVE  pc'[w] = pc[w] /\ job'[w] = job[w]
  BY <1>2, WorkerWrites
<1>3. CASE MaybeRun(w) \/ StartRun(w) \/ WorkerStep(w)
  <2>1. CASE Report(w)
    BY <1>1, <2>1 DEF Report, Returns, TypeInv, JobShape, Telling
  <2>2. CASE \/ MaybeRun(w) \/ StartRun(w) \/ PrepareFails(w) \/ PrepareSucceeds(w)
             \/ Announce(w) \/ ClaimRefused(w) \/ Claim(w) \/ Arm(w)
    BY <1>1, <2>2 DEF MaybeRun, StartRun, Spawn, PrepareFails, PrepareSucceeds, Announce,
                      ClaimRefused, Claim, Arm, Moves, Returns
  <2>3. CASE \/ FailedStartCreate(w) \/ FailedStartFinish(w) \/ Create(w) \/ Backup(w)
             \/ Verify(w) \/ Finish(w) \/ Disarm(w) \/ Release(w) \/ Mark(w)
    BY <1>1, <2>3 DEF FailedStartCreate, FailedStartFinish, Create, Backup, Verify, Finish,
                      Disarm, Release, Mark, Moves, Returns
  <2>. QED  BY <1>3, <2>1, <2>2, <2>3 DEF WorkerStep
<1>4. CASE Exit \/ Crash
  BY <1>4 DEF Exit, Crash, ProcessEnds
<1>5. CASE \/ SlotArrives \/ Cancel \/ FlushRead \/ FlushDelivers \/ FlushFails \/ FlushMark
           \/ Shutdown \/ Restart \/ Quiescent \/ UNCHANGED vars
  BY <1>5 DEF SlotArrives, Cancel, FlushRead, FlushDelivers, FlushFails, FlushMark, Shutdown,
              Restart, Quiescent, vars, workers
<1>. QED
  BY <1>2, <1>3, <1>4, <1>5 DEF Next

\* The flusher reaches its mark only by a delivery, and only reads rows that
\* have an outcome.
LEMMA WhatTheFlusherHolds ==
    ASSUME TypeInv, [Next]_vars
    PROVE  /\ \A i \in queue' : i \in queue \/ (i \in DOMAIN run /\ run[i].status = "closed")
           /\ flushing' = "mark" /\ queue' # {} =>
                 /\ queue' = queue /\ queue # {}
                 /\ \/ flushing = "mark"
                    \/ run[Oldest(queue)].named => heard' = TakeFinished(Oldest(queue))
<1>1. CASE FlushRead
  BY <1>1 DEF FlushRead, OldestUnreported, Unreported
<1>2. CASE FlushDelivers \/ FlushFails \/ FlushMark
  BY <1>2 DEF FlushDelivers, FlushFails, FlushMark
<1>3. CASE Exit \/ Crash
  BY <1>3 DEF Exit, Crash, ProcessEnds
<1>4. CASE UNCHANGED flusher
  BY <1>4 DEF flusher
<1>5. CASE SlotArrives \/ Cancel \/ Shutdown \/ Restart \/ Quiescent \/ UNCHANGED vars
  BY <1>4, <1>5 DEF SlotArrives, Cancel, Shutdown, Restart, Quiescent, vars, flusher
<1>6. ASSUME NEW w \in Worker, MaybeRun(w) \/ StartRun(w) \/ WorkerStep(w)
      PROVE  UNCHANGED flusher
  BY <1>6 DEF WorkerStep, MaybeRun, StartRun, Spawn, PrepareFails, PrepareSucceeds,
              FailedStartCreate, FailedStartFinish, Announce, ClaimRefused, Claim, Arm, Create,
              Backup, Verify, Finish, Disarm, Release, Report, Mark
<1>. QED
  BY <1>1, <1>2, <1>3, <1>4, <1>5, <1>6 DEF Next

LEMMA HeardInvInductive ==
    ASSUME TypeInv, RowInv, HeardInv, [Next]_vars
    PROVE  HeardInv'
<1>1. /\ \A k \in 1..Len(heard) : k \in 1..Len(heard') /\ heard'[k] = heard[k]
      /\ \A k \in 1..Len(heard') :
            \/ k \in 1..Len(heard)
            \/ \E n \in DOMAIN run : /\ run[n].status = "closed"
                                     /\ heard'[k].attempt = run[n].attempt
                                     /\ heard'[k].outcome = Reported(run[n].outcome)
  BY WhatIsTold, Learned
<1>2. \A a : Told(a) => \E k \in 1..Len(heard') : heard'[k].attempt = a
  BY <1>1 DEF Told
<1>3. HeardIsFinal'
  <2>1. \A k \in 1..Len(heard') : \E n \in DOMAIN run :
            /\ run[n].status = "closed"
            /\ heard'[k].attempt = run[n].attempt
            /\ heard'[k].outcome = Reported(run[n].outcome)
    BY <1>1 DEF HeardInv, HeardIsFinal
  <2>2. \A n \in DOMAIN run : run[n].status = "closed" =>
            /\ n \in DOMAIN run' /\ run'[n].status = "closed"
            /\ run'[n].attempt = run[n].attempt /\ run'[n].outcome = run[n].outcome
    BY RowsAfterAStep
  <2>. QED
    BY <2>1, <2>2 DEF HeardIsFinal, Reported
<1>4. ReportedWasHeard'
  <2>. SUFFICES ASSUME NEW i \in DOMAIN run', run'[i].reported, run'[i].named
                PROVE  \E k \in 1..Len(heard') : heard'[k].attempt = run'[i].attempt
    BY DEF ReportedWasHeard
  <2>1. /\ i \in DOMAIN run
        /\ run'[i].attempt = run[i].attempt /\ run[i].named
        /\ \/ run[i].reported
           \/ \E w \in Worker : pc[w] = "mark" /\ i = job[w].row
           \/ flushing = "mark" /\ queue # {} /\ i = Oldest(queue)
    BY RowsAfterAStep
  <2>2. Told(run[i].attempt)
    BY <2>1 DEF HeardInv, ReportedWasHeard, Told
  <2>. QED
    BY <1>2, <2>1, <2>2
<1>5. \A w \in Worker : pc'[w] = "mark" =>
          \E k \in 1..Len(heard') : heard'[k].attempt = run'[job'[w].row].attempt
  <2>. SUFFICES ASSUME NEW w \in Worker, pc'[w] = "mark"
                PROVE  \E k \in 1..Len(heard') : heard'[k].attempt = run'[job'[w].row].attempt
    OBVIOUS
  <2>1. job[w].row \in DOMAIN run /\ job'[w] = job[w]
    BY WhoMarks DEF TypeInv, JobShape, Telling
  <2>2. run'[job[w].row].attempt = run[job[w].row].attempt
    BY <2>1, RowsAfterAStep
  <2>3. \E k \in 1..Len(heard') : heard'[k].attempt = run[job[w].row].attempt
    <3>1. CASE pc[w] = "mark"
      BY <1>2, <3>1 DEF HeardInv
    <3>2. CASE heard' = TakeFinished(job[w].row)
      BY <2>1, <3>2, Learned
    <3>. QED  BY <3>1, <3>2, WhoMarks
  <2>. QED
    BY <2>1, <2>2, <2>3
<1>6. \A i \in queue' : run'[i].status = "closed"
  BY WhatTheFlusherHolds, RowsAfterAStep, Indices DEF HeardInv
<1>7. ASSUME flushing' = "mark", queue' # {}, run'[Oldest(queue')].named
      PROVE  \E k \in 1..Len(heard') : heard'[k].attempt = run'[Oldest(queue')].attempt
  <2>1. /\ queue' = queue /\ queue # {}
        /\ flushing = "mark" \/ (run[Oldest(queue)].named => heard' = TakeFinished(Oldest(queue)))
    BY <1>7, WhatTheFlusherHolds
  <2>2. Oldest(queue) \in DOMAIN run
    BY <2>1, Indices
  <2>3. /\ run'[Oldest(queue)].attempt = run[Oldest(queue)].attempt
        /\ run[Oldest(queue)].named
    BY <1>7, <2>1, <2>2, RowsAfterAStep
  <2>4. \E k \in 1..Len(heard') : heard'[k].attempt = run[Oldest(queue)].attempt
    <3>1. CASE flushing = "mark"
      BY <1>2, <2>1, <2>3, <3>1 DEF HeardInv
    <3>2. CASE heard' = TakeFinished(Oldest(queue))
      BY <2>2, <3>2, Learned
    <3>. QED  BY <2>1, <2>3, <3>1, <3>2
  <2>. QED
    BY <2>1, <2>3, <2>4
<1>. QED
  BY <1>3, <1>4, <1>5, <1>6, <1>7 DEF HeardInv, Told

LEMMA HeardInvHolds == Spec => []HeardInv
<1>1. Init => HeardInv
  BY DEF Init, HeardInv, HeardIsFinal, ReportedWasHeard
<1>2. TypeInv /\ RowInv /\ HeardInv /\ [Next]_vars => HeardInv'
  BY HeardInvInductive
<1>. QED
  BY <1>1, <1>2, TypeInvHolds, RowInvHolds, PTL DEF Spec

\* Whatever the dashboard was told of a run, through lost acknowledgements,
\* repeats, crashes and two reporters, is what the history says of it for good.
THEOREM HeardForGood == Spec => []HeardIsFinal
<1>1. HeardInv => HeardIsFinal
  BY DEF HeardInv
<1>. QED
  BY <1>1, HeardInvHolds, PTL

\* The machine stops trying to tell the dashboard of a run that has an identity
\* only once the dashboard has it.
THEOREM ReportedOnlyIfHeard == Spec => []ReportedWasHeard
<1>1. HeardInv => ReportedWasHeard
  BY DEF HeardInv
<1>. QED
  BY <1>1, HeardInvHolds, PTL

-----------------------------------------------------------------------------
(* Rows left open.                                                         *)

\* Until something fails, the process is up, and whatever row is open is owned.
OpenInv == faults = 0 => mode = "up" /\ OpenRowsAreOwned

LEMMA FaultsOnlyGrow ==
    ASSUME TypeInv, OpenInv, [Next]_vars, faults' = 0
    PROVE  faults = 0 /\ mode = "up" /\ mode' = "up"
<1>1. faults \in Nat
  BY DEF TypeInv, TypeOK
<1>2. ASSUME NEW w \in Worker, MaybeRun(w) \/ StartRun(w) \/ WorkerStep(w)
      PROVE  mode' = mode /\ (faults' = faults \/ faults' = faults + 1)
  BY <1>2 DEF WorkerStep, MaybeRun, StartRun, Spawn, PrepareFails, PrepareSucceeds,
              FailedStartCreate, FailedStartFinish, Announce, ClaimRefused, Claim, Arm, Create,
              Backup, Verify, Finish, Disarm, Release, Report, Mark, ContextOrDatabaseFails,
              process
<1>3. CASE SlotArrives \/ Cancel \/ FlushRead \/ FlushDelivers \/ FlushFails \/ FlushMark
  BY <1>1, <1>3 DEF SlotArrives, Cancel, FlushRead, FlushDelivers, FlushFails, FlushMark,
                    ContextOrDatabaseFails, process, OpenInv
<1>4. CASE Shutdown \/ Exit \/ Crash \/ Restart \/ Quiescent \/ UNCHANGED vars
  BY <1>1, <1>4 DEF Shutdown, Exit, Crash, Restart, Quiescent, vars, OpenInv
<1>. QED
  BY <1>1, <1>2, <1>3, <1>4 DEF Next, OpenInv

\* With nothing failing, no worker walks away from a row it has open.
LEMMA NobodyGivesUp ==
    ASSUME TypeInv, NEW w \in Worker, MaybeRun(w) \/ StartRun(w) \/ WorkerStep(w),
           faults = 0, faults' = 0, mode = "up", pc[w] \in Working
    PROVE  GivesUp(w) => Closes(w)
<1>. USE DEF Working, GivesUp
<1>1. pc \in [Worker -> PC]
  BY DEF TypeInv, TypeOK
<1>2. CASE FailedStartFinish(w)
  <2>1. ~ContextOrDatabaseFails
    BY <1>2 DEF ContextOrDatabaseFails
  <2>. QED  BY <1>2, <2>1 DEF FailedStartFinish, Closes
<1>3. CASE Backup(w) \/ Verify(w) \/ Finish(w)
  BY <1>1, <1>3 DEF Backup, Verify, Finish, Moves
<1>4. CASE \/ MaybeRun(w) \/ StartRun(w) \/ PrepareFails(w) \/ PrepareSucceeds(w)
           \/ FailedStartCreate(w) \/ Announce(w) \/ ClaimRefused(w) \/ Claim(w) \/ Arm(w)
           \/ Create(w) \/ Disarm(w) \/ Release(w) \/ Report(w) \/ Mark(w)
  BY <1>4 DEF MaybeRun, StartRun, Spawn, PrepareFails, PrepareSucceeds, FailedStartCreate,
              Announce, ClaimRefused, Claim, Arm, Create, Disarm, Release, Report, Mark, Moves
<1>. QED
  BY <1>2, <1>3, <1>4 DEF WorkerStep

LEMMA OpenInvInductive ==
    ASSUME TypeInv, RowInv, OpenInv, [Next]_vars
    PROVE  OpenInv'
<1>. SUFFICES ASSUME faults' = 0
              PROVE  mode' = "up" /\ OpenRowsAreOwned'
  BY DEF OpenInv
<1>1. faults = 0 /\ mode = "up" /\ mode' = "up"
  BY FaultsOnlyGrow
<1>2. \A i \in DOMAIN run : run[i].status = "open" => \E w \in Worker : Owns(w, i)
  BY <1>1 DEF OpenInv, OpenRowsAreOwned
<1>. SUFFICES ASSUME NEW i \in DOMAIN run', run'[i].status = "open"
              PROVE  \E w \in Worker : Owns(w, i)'
  BY <1>1 DEF OpenRowsAreOwned
<1>3. CASE UNCHANGED <<pc, job, run>>
  BY <1>2, <1>3 DEF Owns
<1>4. ASSUME NEW w \in Worker, MaybeRun(w) \/ StartRun(w) \/ WorkerStep(w)
      PROVE  \E v \in Worker : Owns(v, i)'
  <2>1. \A v \in Worker \ {w} : pc'[v] = pc[v] /\ job'[v] = job[v]
    BY <1>4, WorkerWrites
  <2>2. ASSUME i \in DOMAIN run, run[i].status = "open", ~Owns(w, i)
        PROVE  \E v \in Worker : Owns(v, i)'
    BY <1>2, <2>1, <2>2 DEF Owns
  <2>3. CASE Opens(w)
    <3>1. pc[w] # "idle" /\ OpenRow(w)
      BY <2>3 DEF Opens
    <3>2. /\ DOMAIN run' = DOMAIN run \cup {Len(run')}
          /\ \A j \in DOMAIN run : run'[j] = run[j]
          /\ job' = [job EXCEPT ![w].row = Len(run')]
      BY <3>1, RowOpened, Zenon
    <3>3. job \in [Worker -> Job]
      BY DEF TypeInv, TypeOK
    <3>4. CASE i = Len(run')
      BY <2>3, <3>2, <3>3, <3>4 DEF Opens, Owns, Job
    <3>5. CASE i \in DOMAIN run
      <4>1. ~Owns(w, i) /\ run[i].status = "open"
        BY <2>3, <3>2, <3>5 DEF Opens, Owns
      <4>. QED  BY <2>2, <3>5, <4>1
    <3>. QED  BY <3>2, <3>4, <3>5
  <2>4. CASE Closes(w)
    <3>1. job[w].row \in DOMAIN run /\ CloseRow(w)
      BY <2>4 DEF Closes, TypeInv, JobShape, Working
    <3>2. /\ DOMAIN run' = DOMAIN run
          /\ \A j \in DOMAIN run \ {job[w].row} : run'[j] = run[j]
          /\ run'[job[w].row] = [run[job[w].row] EXCEPT !.status = "closed",
                                                       !.outcome = job[w].outcome]
      BY <3>1, RowClosed
    <3>3. run'[job[w].row].status # "open"
      BY <3>1, <3>2, Indices DEF Row
    <3>4. i # job[w].row /\ run[i].status = "open"
      BY <3>2, <3>3
    <3>. QED  BY <2>2, <3>2, <3>4 DEF Owns
  <2>5. CASE Marks(w)
    <3>1. pc[w] = "mark" /\ job[w].row \in DOMAIN run /\ SetReported(job[w].row)
      BY <2>5 DEF Marks, Telling, TypeInv, JobShape
    <3>2. /\ DOMAIN run' = DOMAIN run
          /\ \A j \in DOMAIN run : run'[j].status = run[j].status
      BY <3>1, RowMarked, Indices DEF Row
    <3>. QED  BY <2>2, <3>1, <3>2 DEF Owns
  <2>6. CASE CarriesOn(w)
    <3>1. CASE pc[w] \in Working
      BY <1>2, <2>1, <2>6, <3>1
         DEF CarriesOn, Owns, Working, Beginning, Unwinding
    <3>2. CASE pc[w] \notin Working
      BY <2>2, <2>6, <3>2 DEF CarriesOn, Owns, Working
    <3>. QED  BY <3>1, <3>2
  <2>7. CASE Numbers(w)
    BY <2>2, <2>7 DEF Numbers, Owns
  <2>8. CASE GivesUp(w)
    <3>1. CASE pc[w] \in Working
      BY <1>1, <1>4, <2>4, <2>8, <3>1, NobodyGivesUp
    <3>2. CASE pc[w] \notin Working
      BY <2>2, <2>8, <3>2 DEF GivesUp, Owns, Working
    <3>. QED  BY <3>1, <3>2
  <2>9. ~Loses(w)
    BY DEF Loses
  <2>. QED
    BY <1>4, <2>3, <2>4, <2>5, <2>6, <2>7, <2>8, <2>9, WorkerWrites
<1>5. CASE FlushMark
  <2>1. queue # {} /\ Oldest(queue) \in DOMAIN run
    BY <1>5, Indices DEF FlushMark
  <2>2. SetReported(Oldest(queue)) \/ UNCHANGED run
    BY <1>5 DEF FlushMark
  <2>3. /\ DOMAIN run' = DOMAIN run
        /\ \A j \in DOMAIN run : run'[j].status = run[j].status
    BY <2>1, <2>2, RowMarked, Indices DEF Row
  <2>4. UNCHANGED <<pc, job>>
    BY <1>5 DEF FlushMark, workers
  <2>. QED
    BY <1>2, <2>3, <2>4 DEF Owns
<1>6. CASE Exit \/ Crash
  BY <1>1, <1>6 DEF Exit, Crash, ProcessEnds
<1>7. CASE \/ SlotArrives \/ Cancel \/ FlushRead \/ FlushDelivers \/ FlushFails
           \/ Shutdown \/ Restart \/ Quiescent \/ UNCHANGED vars
  BY <1>3, <1>7 DEF SlotArrives, Cancel, FlushRead, FlushDelivers, FlushFails, Shutdown,
                    Restart, Quiescent, vars, workers
<1>. QED
  BY <1>4, <1>5, <1>6, <1>7 DEF Next

\* On a machine where no write failed, nothing crashed and nothing was shut
\* down, a row without an outcome is one a worker is still working on.
THEOREM NoOrphanRows == Spec => []OpenRowsAreOwned
<1>1. Init => OpenInv
  BY DEF Init, OpenInv, OpenRowsAreOwned
<1>2. TypeInv /\ RowInv /\ OpenInv /\ [Next]_vars => OpenInv'
  BY OpenInvInductive
<1>3. OpenInv => OpenRowsAreOwned
  BY DEF OpenInv, OpenRowsAreOwned
<1>. QED
  BY <1>1, <1>2, <1>3, TypeInvHolds, RowInvHolds, PTL DEF Spec

-----------------------------------------------------------------------------
(* The ledger: BackupRuns does what FleetLedger allows, and nothing else.  *)

\* Between its preparation and its report a run has a UUID, and so has its row;
\* a row that was marked has an outcome.
Announced == {"announce", "claim", "arm", "create"}
Recorded  == {"backup", "verify", "finish", "disarm", "release", "report", "mark"}

Named(w) ==
    /\ pc[w] \in Announced => job[w].named
    /\ pc[w] \in Recorded /\ job[w].row \in DOMAIN run => run[job[w].row].named

NamedInv ==
    /\ \A w \in Worker : Named(w)
    /\ \A i \in DOMAIN run : run[i].reported => run[i].status = "closed"

\* A worker's own step keeps it named.
LEMMA WorkerStaysNamed ==
    ASSUME TypeInv, NamedInv, NEW w \in Worker, MaybeRun(w) \/ StartRun(w) \/ WorkerStep(w)
    PROVE  Named(w)'
<1>. USE DEF Announced, Recorded
<1>1. pc \in [Worker -> PC] /\ job \in [Worker -> Job]
  BY DEF TypeInv, TypeOK
<1>2. job[w].named \in BOOLEAN
  BY <1>1 DEF Job
<1>3. CASE \/ MaybeRun(w) \/ StartRun(w) \/ PrepareFails(w) \/ ClaimRefused(w)
           \/ FailedStartFinish(w) \/ Mark(w)
  BY <1>1, <1>3 DEF MaybeRun, StartRun, Spawn, PrepareFails, ClaimRefused, FailedStartFinish,
                    Mark, Moves, Returns, Named
<1>4. CASE PrepareSucceeds(w)
  BY <1>1, <1>4 DEF PrepareSucceeds, Moves, Named, Job
<1>5. CASE FailedStartCreate(w)
  BY <1>1, <1>5 DEF FailedStartCreate, Returns, Named
<1>6. CASE Announce(w) \/ Claim(w) \/ Arm(w)
  BY <1>1, <1>6 DEF Announce, Claim, Arm, Moves, NamedInv, Named
<1>7. CASE Create(w)
  <2>1. CASE OpenRow(w) /\ pc'[w] = "backup"
    <3>1. pc[w] = "create" /\ pc[w] # "idle" /\ OpenRow(w)
      BY <1>7, <2>1 DEF Create
    <3>2. /\ run'[Len(run')] = [status |-> "open", attempt |-> job[w].attempt,
                               named |-> job[w].named, outcome |-> "failed",
                               reported |-> FALSE]
          /\ job' = [job EXCEPT ![w].row = Len(run')]
      BY <3>1, RowOpened, Zenon
    <3>3. run'[Len(run')].named = job[w].named
      BY <3>2
    <3>4. job'[w].row = Len(run')
      BY <1>1, <3>2 DEF Job
    <3>5. job[w].named
      BY <3>1 DEF NamedInv, Named
    <3>. QED
      BY <2>1, <3>3, <3>4, <3>5 DEF Named
  <2>2. CASE pc'[w] = "disarm" /\ UNCHANGED <<job, run>>
    <3>1. job[w].row = 0 /\ 0 \notin DOMAIN run
      BY <1>7, Indices DEF Create, Beginning
    <3>. QED
      BY <2>2, <3>1 DEF Named
  <2>. QED
    BY <1>1, <1>7, <2>1, <2>2 DEF Create
<1>8. CASE Backup(w) \/ Verify(w) \/ Disarm(w) \/ Release(w) \/ Report(w)
  <2>1. pc[w] \in Recorded /\ UNCHANGED run
    BY <1>8 DEF Backup, Verify, Disarm, Release, Report, Moves
  <2>2. pc'[w] = "idle" \/ (job'[w].row = job[w].row /\ pc'[w] \in Recorded)
    <3>1. CASE Backup(w) \/ Verify(w)
      BY <1>1, <3>1 DEF Backup, Verify, Moves, Job
    <3>2. CASE Disarm(w) \/ Release(w) \/ Report(w)
      BY <1>1, <3>2 DEF Disarm, Release, Report, Moves, Returns
    <3>. QED  BY <1>8, <3>1, <3>2
  <2>. QED
    BY <2>1, <2>2 DEF NamedInv, Named
<1>9. CASE Finish(w)
  <2>1. CASE CloseRow(w) /\ job' = job
    <3>1. job[w].row \in DOMAIN run
      BY <1>9 DEF Finish, Moves, TypeInv, JobShape, Working
    <3>2. run'[job[w].row].named = run[job[w].row].named /\ DOMAIN run' = DOMAIN run
      BY <2>1, <3>1, RowClosed, Indices DEF Row
    <3>. QED
      BY <1>9, <2>1, <3>1, <3>2 DEF Finish, Moves, NamedInv, Named
  <2>2. CASE job'[w].row = 0 /\ UNCHANGED run
    BY <1>1, <1>9, <2>2, Indices DEF Finish, Moves, Named
  <2>. QED
    BY <1>1, <1>9, <2>1, <2>2 DEF Finish, Job
<1>. QED
  BY <1>3, <1>4, <1>5, <1>6, <1>7, <1>8, <1>9 DEF WorkerStep

LEMMA NamedInvInductive ==
    ASSUME TypeInv, TypeInv', RowInv, HeardInv, NamedInv, [Next]_vars
    PROVE  NamedInv'
<1>. USE DEF Announced, Recorded
<1>1. ASSUME NEW w \in Worker, pc'[w] = pc[w], job'[w] = job[w]
      PROVE  Named(w)'
  <2>1. pc[w] \in Recorded /\ job[w].row \in DOMAIN run' => job[w].row \in DOMAIN run
    <3>1. job[w].row \in DOMAIN run \cup {0}
      BY Indices
    <3>2. run' \in Seq(Row)
      BY DEF TypeInv, TypeOK, History
    <3>3. 0 \notin DOMAIN run'
      BY <3>2
    <3>. QED  BY <3>1, <3>3
  <2>2. pc[w] \in Recorded /\ job[w].row \in DOMAIN run' => run'[job[w].row].named
    BY <2>1, RowsAfterAStep DEF NamedInv, Named
  <2>. QED
    BY <1>1, <2>2 DEF NamedInv, Named
<1>2. ASSUME NEW v \in Worker, MaybeRun(v) \/ StartRun(v) \/ WorkerStep(v)
      PROVE  \A w \in Worker : Named(w)'
  <2>1. \A w \in Worker \ {v} : pc'[w] = pc[w] /\ job'[w] = job[w]
    BY <1>2, WorkerWrites
  <2>2. Named(v)'
    BY <1>2, WorkerStaysNamed
  <2>. QED
    BY <1>1, <2>1, <2>2
<1>3. ASSUME Exit \/ Crash
      PROVE  \A w \in Worker : Named(w)'
  <2>1. \A w \in Worker : pc'[w] = "idle"
    BY <1>3 DEF Exit, Crash, ProcessEnds
  <2>. QED
    BY <2>1 DEF Named
<1>4. ASSUME \/ SlotArrives \/ Cancel \/ FlushRead \/ FlushDelivers \/ FlushFails \/ FlushMark
             \/ Shutdown \/ Restart \/ Quiescent \/ UNCHANGED vars
      PROVE  \A w \in Worker : Named(w)'
  <2>1. UNCHANGED <<pc, job>>
    BY <1>4 DEF SlotArrives, Cancel, FlushRead, FlushDelivers, FlushFails, FlushMark, Shutdown,
                Restart, Quiescent, vars, workers
  <2>. QED
    BY <1>1, <2>1
<1>5. \A w \in Worker : Named(w)'
  <2>1. CASE \E v \in Worker : MaybeRun(v) \/ StartRun(v) \/ WorkerStep(v)
    BY <1>2, <2>1
  <2>2. CASE Exit \/ Crash
    BY <1>3, <2>2
  <2>. QED
    BY <1>4, <2>1, <2>2 DEF Next
<1>6. \A i \in DOMAIN run' : run'[i].reported => run'[i].status = "closed"
  <2>. SUFFICES ASSUME NEW i \in DOMAIN run', run'[i].reported
                PROVE  run'[i].status = "closed"
    OBVIOUS
  <2>1. /\ i \in DOMAIN run
        /\ \/ run[i].reported
           \/ \E w \in Worker : pc[w] = "mark" /\ i = job[w].row
           \/ flushing = "mark" /\ queue # {} /\ i = Oldest(queue)
    BY RowsAfterAStep
  <2>2. run[i].status = "closed"
    BY <2>1, Indices DEF NamedInv, RowInv, HeardInv, Telling
  <2>. QED
    BY <2>1, <2>2, RowsAfterAStep
<1>. QED
  BY <1>5, <1>6 DEF NamedInv

LEMMA NamedInvHolds == Spec => []NamedInv
<1>1. Init => NamedInv
  BY DEF Init, NamedInv, Named, Announced, Recorded
<1>2. TypeInv /\ TypeInv' /\ RowInv /\ HeardInv /\ NamedInv /\ [Next]_vars => NamedInv'
  BY NamedInvInductive
<1>. QED
  BY <1>1, <1>2, TypeInvHolds, RowInvHolds, HeardInvHolds, PTL DEF Spec

\* A step writes to the history, or tells the dashboard of a row with a name and
\* an outcome, or does neither; never both.
LEMMA OneThingAtATime ==
    ASSUME TypeInv, RowInv, HeardInv, NamedInv, [Next]_vars
    PROVE  \/ UNCHANGED <<run, heard>>
           \/ /\ UNCHANGED run
              /\ \E n \in DOMAIN run : /\ run[n].status = "closed" /\ run[n].named
                                       /\ heard' = TakeFinished(n)
           \/ /\ UNCHANGED heard
              /\ \E w \in Worker : Opens(w) \/ Closes(w) \/ Marks(w)
           \/ /\ UNCHANGED heard
              /\ flushing = "mark" /\ queue # {} /\ SetReported(Oldest(queue))
<1>1. ASSUME NEW w \in Worker, Report(w)
      PROVE  /\ UNCHANGED run
             /\ \/ UNCHANGED heard
                \/ \E n \in DOMAIN run : /\ run[n].status = "closed" /\ run[n].named
                                         /\ heard' = TakeFinished(n)
  <2>1. pc[w] = "report" /\ UNCHANGED run /\ (heard' = heard \/ heard' = TakeFinished(job[w].row))
    BY <1>1 DEF Report
  <2>2. /\ job[w].row \in DOMAIN run /\ run[job[w].row].status = "closed"
        /\ run[job[w].row].named
    BY <2>1 DEF TypeInv, JobShape, RowInv, Telling, NamedInv, Named, Recorded
  <2>. QED  BY <2>1, <2>2
<1>2. CASE FlushDelivers \/ FlushFails
  <2>1. /\ Oldest(queue) \in DOMAIN run
        /\ run[Oldest(queue)].status = "closed"
    BY <1>2, Indices DEF FlushDelivers, FlushFails, HeardInv
  <2>2. /\ UNCHANGED run
        /\ \/ heard' = heard
           \/ run[Oldest(queue)].named /\ heard' = TakeFinished(Oldest(queue))
    BY <1>2 DEF FlushDelivers, FlushFails
  <2>. QED  BY <2>1, <2>2
<1>3. ASSUME NEW w \in Worker,
             \/ MaybeRun(w) \/ StartRun(w) \/ PrepareFails(w) \/ PrepareSucceeds(w)
             \/ FailedStartCreate(w) \/ FailedStartFinish(w) \/ Announce(w)
             \/ ClaimRefused(w) \/ Claim(w) \/ Arm(w) \/ Create(w) \/ Backup(w)
             \/ Verify(w) \/ Finish(w) \/ Disarm(w) \/ Release(w) \/ Mark(w)
      PROVE  UNCHANGED heard /\ (UNCHANGED run \/ Opens(w) \/ Closes(w) \/ Marks(w))
  <2>1. UNCHANGED heard
    BY <1>3 DEF MaybeRun, StartRun, Spawn, PrepareFails, PrepareSucceeds, FailedStartCreate,
                FailedStartFinish, Announce, ClaimRefused, Claim, Arm, Create, Backup, Verify,
                Finish, Disarm, Release, Mark, fleet
  <2>2. MaybeRun(w) \/ StartRun(w) \/ WorkerStep(w)
    BY <1>3 DEF WorkerStep
  <2>. QED
    BY <2>1, <2>2, WorkerWrites DEF Numbers, CarriesOn, GivesUp, Loses
<1>4. CASE FlushMark
  BY <1>4 DEF FlushMark, fleet
<1>5. CASE \/ SlotArrives \/ Cancel \/ FlushRead \/ Exit \/ Crash
           \/ Shutdown \/ Restart \/ Quiescent \/ UNCHANGED vars
  BY <1>5 DEF SlotArrives, Cancel, FlushRead, Exit, Crash, ProcessEnds, Shutdown, Restart,
              Quiescent, vars, fleet
<1>. QED
  BY <1>1, <1>2, <1>3, <1>4, <1>5 DEF Next, WorkerStep

\* What the ledger reads off a row that has an outcome.
LEMMA RowInLedger ==
    ASSUME TypeInv, RowInv, NEW n \in DOMAIN run, run[n].status = "closed"
    PROVE  /\ run[n].attempt \in Attempt
           /\ RowOf(run[n].attempt) = {n}
           /\ Ends[run[n].attempt] = IF run[n].named THEN run[n].outcome ELSE "nameless"
           /\ run[n].outcome \in Outcome
           /\ run[n].reported => run[n].attempt \in Settled
<1>1. run[n] \in Row
  BY Indices
<1>2. run[n].attempt \in Attempt /\ run[n].outcome \in Outcome
  BY <1>1 DEF Row
<1>3. RowOf(run[n].attempt) = {n}
  BY DEF RowOf, RowInv, OneRowPerAttempt
<1>4. EndOf(run[n].attempt) = IF run[n].named THEN run[n].outcome ELSE "nameless"
  BY <1>3 DEF EndOf
<1>. QED
  BY <1>2, <1>3, <1>4 DEF Ends, Settled

\* An attempt whose closed row stays the only one keeps its end.
LEMMA EndKept ==
    ASSUME TypeInv, RowInv, [Next]_vars, NEW a \in Attempt, RowOf(a)' = RowOf(a)
    PROVE  EndOf(a)' = EndOf(a)
<1>1. CASE RowOf(a) = {}
  BY <1>1 DEF EndOf
<1>2. CASE RowOf(a) # {}
  <2>. DEFINE n == CHOOSE i \in RowOf(a) : TRUE
  <2>1. n \in RowOf(a)
    BY <1>2
  <2>. HIDE DEF n
  <2>2. run'[n].named = run[n].named /\ run'[n].outcome = run[n].outcome
    BY <2>1, RowsAfterAStep DEF RowOf
  <2>3. EndOf(a) = IF run[n].named THEN run[n].outcome ELSE "nameless"
    BY <1>2 DEF EndOf, n
  <2>4. EndOf(a)' = IF run'[n].named THEN run'[n].outcome ELSE "nameless"
    BY <1>2 DEF EndOf, n
  <2>. QED  BY <2>2, <2>3, <2>4
<1>. QED  BY <1>1, <1>2

\* Opening a row tells the ledger nothing.
LEMMA OpeningIsSilent ==
    ASSUME TypeInv, RowInv, [Next]_vars, NEW w \in Worker, Opens(w)
    PROVE  UNCHANGED <<Ends, Settled>>
<1>1. pc[w] # "idle" /\ OpenRow(w)
  BY DEF Opens
<1>2. /\ DOMAIN run' = DOMAIN run \cup {Len(run')}
      /\ \A i \in DOMAIN run : run'[i] = run[i]
      /\ run'[Len(run')] = [status |-> "open", attempt |-> job[w].attempt,
                           named |-> job[w].named, outcome |-> "failed",
                           reported |-> FALSE]
  BY <1>1, RowOpened, Zenon
<1>3. run'[Len(run')].status = "open"
  BY <1>2
<1>4. \A a \in Attempt : RowOf(a)' = RowOf(a)
  BY <1>2, <1>3 DEF RowOf
<1>5. \A a \in Attempt : \A i \in RowOf(a) : run'[i].reported = run[i].reported
  BY <1>2 DEF RowOf
<1>. QED
  BY <1>4, <1>5, EndKept DEF Ends, Settled

\* Closing one is the ledger's Close.
LEMMA ClosingIsClose ==
    ASSUME TypeInv, TypeInv', RowInv, NamedInv, [Next]_vars, UNCHANGED heard,
           NEW w \in Worker, Closes(w), NEW n, n = job[w].row, NEW a, a = run[n].attempt
    PROVE  a \in Attempt /\ Ledger!Close(a)
<1>1. /\ n \in DOMAIN run /\ CloseRow(w)
      /\ run[n].status = "open" /\ run[n] \in Row
  BY Indices DEF Closes, Working, TypeInv, JobShape, RowInv
<1>2. /\ DOMAIN run' = DOMAIN run
      /\ \A i \in DOMAIN run \ {n} : run'[i] = run[i]
      /\ run'[n] = [run[n] EXCEPT !.status = "closed", !.outcome = job[w].outcome]
  BY <1>1, RowClosed
<1>3. /\ run'[n].status = "closed" /\ run'[n].attempt = a
      /\ run'[n].reported = run[n].reported
  BY <1>1, <1>2 DEF Row
<1>4. a \in Attempt
  BY <1>1 DEF Row
<1>5. RowOf(a) = {} /\ RowOf(a)' = {n}
  <2>1. \A i \in DOMAIN run : run[i].attempt = a => i = n
    BY <1>1 DEF RowInv, OneRowPerAttempt
  <2>2. RowOf(a) = {}
    BY <1>1, <2>1 DEF RowOf
  <2>3. \A i \in DOMAIN run' : run'[i].attempt = a /\ run'[i].status = "closed" <=> i = n
    BY <1>1, <1>2, <1>3, <2>1, ZenonT(60)
  <2>4. RowOf(a)' = {i \in DOMAIN run' : run'[i].attempt = a /\ run'[i].status = "closed"}
    BY DEF RowOf
  <2>. QED
    BY <1>1, <1>2, <2>2, <2>3, <2>4
<1>6. \A b \in Attempt \ {a} : RowOf(b)' = RowOf(b)
  <2>. SUFFICES ASSUME NEW b \in Attempt, b # a
                PROVE  RowOf(b)' = RowOf(b)
    OBVIOUS
  <2>1. RowOf(b)' = {i \in DOMAIN run' : run'[i].attempt = b /\ run'[i].status = "closed"}
    BY DEF RowOf
  <2>2. \A i \in DOMAIN run : /\ run'[i].attempt = b /\ run'[i].status = "closed"
                              <=> run[i].attempt = b /\ run[i].status = "closed"
    BY <1>1, <1>2, <1>3
  <2>. QED
    BY <1>2, <2>1, <2>2 DEF RowOf
<1>7. Ends[a] = "open"
  BY <1>4, <1>5 DEF Ends, EndOf
<1>8. \E v \in Outcome \cup {"nameless"} : Ends' = [Ends EXCEPT ![a] = v]
  <2>1. EndOf(a)' \in Outcome \cup {"nameless"}
    <3>1. run'[n] \in Row
      BY <1>1, <1>2 DEF TypeInv, TypeOK, History
    <3>2. run'[n].outcome \in Outcome
      BY <3>1 DEF Row
    <3>3. EndOf(a)' = IF run'[n].named THEN run'[n].outcome ELSE "nameless"
      BY <1>5 DEF EndOf
    <3>. QED  BY <3>2, <3>3
  <2>2. \A b \in Attempt \ {a} : EndOf(b)' = EndOf(b)
    BY <1>6, EndKept
  <2>3. Ends' = [Ends EXCEPT ![a] = EndOf(a)']
    BY <1>4, <2>2 DEF Ends
  <2>. QED  BY <2>1, <2>3
<1>9. Settled' = Settled
  <2>1. ~run[n].reported
    BY <1>1 DEF NamedInv
  <2>2. \A b \in Attempt \ {a} : \A i \in RowOf(b) : run'[i].reported = run[i].reported
    BY <1>2 DEF RowOf
  <2>. QED
    BY <1>3, <1>5, <1>6, <2>1, <2>2 DEF Settled
<1>10. Known' = Known
  BY DEF Known
<1>. QED
  BY <1>4, <1>7, <1>8, <1>9, <1>10 DEF Ledger!Close

\* An event the dashboard takes is the ledger's Hear, the first time or again.
LEMMA TellingIsHear ==
    ASSUME TypeInv, RowInv, UNCHANGED run, NEW n \in DOMAIN run,
           run[n].status = "closed", run[n].named, heard' = TakeFinished(n)
    PROVE  \E a \in Attempt : Ledger!Hear(a)
<1>. DEFINE a == run[n].attempt
<1>1. a \in Attempt /\ Ends[a] \in Outcome
  BY RowInLedger
<1>2. Known' = Known \cup {a}
  <2>1. ASSUME NEW k \in 1..Len(heard')
        PROVE  heard'[k].attempt \in Known \cup {a}
    BY Learned DEF Known
  <2>2. ASSUME NEW k \in 1..Len(heard)
        PROVE  heard[k].attempt \in Known'
    BY Learned DEF Known
  <2>3. a \in Known'
    BY Learned DEF Known
  <2>. QED
    BY <2>1, <2>2, <2>3 DEF Known
<1>3. Ends' = Ends /\ Settled' = Settled
  BY DEF Ends, EndOf, Settled, RowOf
<1>. QED
  BY <1>1, <1>2, <1>3 DEF Ledger!Hear

\* A row is marked as heard, or as one that never can be.
LEMMA MarkingSettles ==
    ASSUME TypeInv, RowInv, [Next]_vars, UNCHANGED heard, NEW n \in DOMAIN run,
           run[n].status = "closed", SetReported(n), NEW a, a = run[n].attempt,
           run[n].named => Told(a)
    PROVE  a \in Attempt /\ (Ledger!Settle(a) \/ Ledger!Drop(a))
<1>1. /\ a \in Attempt /\ RowOf(a) = {n}
      /\ Ends[a] = IF run[n].named THEN run[n].outcome ELSE "nameless"
  BY RowInLedger
<1>2. /\ DOMAIN run' = DOMAIN run
      /\ \A i \in DOMAIN run \ {n} : run'[i] = run[i]
      /\ run'[n] = [run[n] EXCEPT !.reported = TRUE]
  BY RowMarked
<1>3. /\ run'[n].status = "closed" /\ run'[n].attempt = a /\ run'[n].reported
  BY <1>2, Indices DEF Row
<1>4. \A b \in Attempt : RowOf(b)' = RowOf(b)
  <2>. SUFFICES ASSUME NEW b \in Attempt
                PROVE  RowOf(b)' = RowOf(b)
    OBVIOUS
  <2>1. RowOf(b)' = {i \in DOMAIN run' : run'[i].attempt = b /\ run'[i].status = "closed"}
    BY DEF RowOf
  <2>2. \A i \in DOMAIN run : /\ run'[i].attempt = b /\ run'[i].status = "closed"
                              <=> run[i].attempt = b /\ run[i].status = "closed"
    BY <1>2, <1>3, ZenonT(60)
  <2>. QED
    BY <1>2, <2>1, <2>2 DEF RowOf
<1>5. Ends' = Ends
  BY <1>4, EndKept DEF Ends
<1>6. Settled' = Settled \cup {a}
  <2>1. \A b \in Attempt \ {a} : \A i \in RowOf(b) : run'[i].reported = run[i].reported
    BY <1>2 DEF RowOf
  <2>. QED
    BY <1>1, <1>3, <1>4, <2>1 DEF Settled
<1>7. Known' = Known
  BY DEF Known
<1>8. CASE run[n].named
  BY <1>1, <1>5, <1>6, <1>7, <1>8 DEF Told, Known, Ledger!Settle
<1>9. CASE ~run[n].named
  BY <1>1, <1>5, <1>6, <1>7, <1>9 DEF Ledger!Drop
<1>. QED  BY <1>8, <1>9

LEMMA StepsOfTheLedger ==
    ASSUME TypeInv, TypeInv', RowInv, HeardInv, NamedInv, [Next]_vars
    PROVE  [Ledger!Next]_(Ledger!vars)
<1>1. CASE UNCHANGED <<run, heard>>
  BY <1>1 DEF Ends, EndOf, Settled, RowOf, Known, Ledger!vars
<1>2. ASSUME UNCHANGED run, NEW n \in DOMAIN run, run[n].status = "closed", run[n].named,
             heard' = TakeFinished(n)
      PROVE  Ledger!Next
  BY <1>2, TellingIsHear DEF Ledger!Next
<1>3. ASSUME UNCHANGED heard, NEW w \in Worker, Opens(w)
      PROVE  UNCHANGED Ledger!vars
  <2>1. UNCHANGED <<Ends, Settled>>
    BY <1>3, OpeningIsSilent
  <2>2. Known' = Known
    BY <1>3 DEF Known
  <2>. QED  BY <2>1, <2>2 DEF Ledger!vars
<1>4. ASSUME UNCHANGED heard, NEW w \in Worker, Closes(w)
      PROVE  Ledger!Next
  BY <1>4, ClosingIsClose DEF Ledger!Next
<1>5. ASSUME UNCHANGED heard, NEW w \in Worker, Marks(w)
      PROVE  Ledger!Next
  <2>1. /\ pc[w] = "mark" /\ SetReported(job[w].row) /\ job[w].row \in DOMAIN run
        /\ run[job[w].row].status = "closed" /\ Told(run[job[w].row].attempt)
    BY <1>5 DEF Marks, TypeInv, JobShape, Telling, RowInv, HeardInv
  <2>. QED
    BY <1>5, <2>1, MarkingSettles DEF Ledger!Next
<1>6. ASSUME UNCHANGED heard, flushing = "mark", queue # {}, SetReported(Oldest(queue))
      PROVE  Ledger!Next
  <2>1. /\ Oldest(queue) \in DOMAIN run
        /\ run[Oldest(queue)].status = "closed"
        /\ run[Oldest(queue)].named => Told(run[Oldest(queue)].attempt)
    BY <1>6, Indices DEF HeardInv
  <2>. QED
    BY <1>6, <2>1, MarkingSettles DEF Ledger!Next
<1>. QED
  BY <1>1, <1>2, <1>3, <1>4, <1>5, <1>6, OneThingAtATime

\* The machine and the dashboard together do what FleetLedger allows and nothing
\* else: an outcome is written once and for all before it is told, it is what the
\* dashboard hears, and the machine falls silent only about what the dashboard
\* has or can never be told.
THEOREM ImplementsTheLedger == Spec => Ledger!Safety
<1>1. Init => Ledger!Init
  BY DEF Init, Ends, EndOf, Known, Settled, RowOf, Ledger!Init
<1>2. /\ TypeInv /\ TypeInv' /\ RowInv /\ HeardInv /\ NamedInv /\ [Next]_vars
      => [Ledger!Next]_(Ledger!vars)
  BY StepsOfTheLedger
<1>. QED
  BY <1>1, <1>2, TypeInvHolds, RowInvHolds, HeardInvHolds, NamedInvHolds, PTL
     DEF Spec, Ledger!Safety

=============================================================================
