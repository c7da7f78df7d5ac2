-------------------------- MODULE SelfUpdateProofs --------------------------
(***************************************************************************)
(* Proofs about SelfUpdate: its types, for every way Apply is called, and, *)
(* for the machine that is updated by its daemon, the four promises an     *)
(* update makes it: it always has a binary, it can always go back, it does *)
(* not try a bad release twice, and it does not hold bad luck against a    *)
(* version that works.  That there is a binary holds for the machine that  *)
(* foreground runs update too, while no file operation fails.              *)
(*                                                                         *)
(* All four rest on knowing what is at which path at every step of a swap  *)
(* and of a rollback (WhatIsWhere), which holds after any number of power  *)
(* losses and failed file operations.                                      *)
(***************************************************************************)
EXTENDS MCSelfUpdate, TLAPS

\* Where the daemon is in Apply.
At == step["daemon"]

RollingBackFrom == {"stage", "aside", "place", "back"}

\* The daemon is the only one who calls Apply, and calls it while it is up.
OnlyTheDaemon ==
    /\ \A a \in Actor \ {"daemon"} : step[a] = "idle"
    /\ At # "settle"
    /\ At # "idle" => daemon = "up"

\* The process: what it runs, and when its timer is armed.
TheProcess ==
    /\ daemon = "off" <=> image = None
    /\ daemon = "up" => image \notin Bad
    /\ watched => daemon \in {"wire", "up"}

\* What is being installed is newer than what runs and than all that was given
\* up on.
TheTarget ==
    /\ At # "idle" =>
        /\ current["daemon"] = image
        /\ target["daemon"] > image /\ target["daemon"] <= released
        /\ \A v \in Refused : v < target["daemon"]
    /\ \A v \in Refused : v <= released

\* What is on probation, which is in the daemon's hands while its file is written.
Held == IF daemon = "record" THEN [tally EXCEPT !.starts = @ - 1] ELSE probation

\* What a start has read and counted, and what a rollback is about to write.
Verdict == {verdict[i] : i \in DOMAIN verdict}

InHand ==
    /\ daemon = "count" =>
          probation.installed # None /\ TriesLeft /\ tally = Counted
    /\ daemon = "record" =>
          probation = NoProbation /\ tally.installed # None /\ tally.starts > 0
    /\ daemon = "refuse" =>
          /\ refused = <<>> /\ probation.installed \in Verdict
          /\ \A v \in Verdict : v <= probation.installed
          /\ \A v \in Verdict \ Bad : reboots + failures >= ProbationStarts

\* So is what is on probation.
OnTrial ==
    Held.installed # None =>
        /\ 0 < Held.previous /\ Held.previous < Held.installed
        /\ Held.installed <= released
        /\ Held.installed \in Refused \/ \A v \in Refused : v < Held.installed

\* What is at the program's path and beside it.
WhatIsWhere ==
    /\ daemon \in {"start", "count", "record", "refuse", "stage", "aside"} =>
          disk["exe"] = image
    /\ watched /\ daemon = "wire" => disk["exe"] = image
    /\ daemon \in {"wire", "stuck"} => disk["exe"] \in {image, None}
    /\ daemon \in RollingBackFrom \cup {"refuse", "stuck"} =>
          probation.installed # None /\ probation.starts = ProbationStarts
    /\ daemon \in {"refuse", "stage"} => disk["old"] = probation.previous
    /\ daemon = "aside" => disk["back"] = probation.previous /\ disk["old"] = None
    /\ daemon = "place" => /\ disk["exe"] = None /\ disk["old"] = image
                           /\ disk["back"] = probation.previous
    /\ daemon = "back" => disk["exe"] = probation.previous /\ disk["old"] = image
    /\ daemon = "up" /\ At \notin {"place", "begin", "record", "done", "exit"} =>
          disk["exe"] \in {image, None}
    /\ At \in {"clear", "aside", "place"} => disk["new"] = target["daemon"]
    /\ At = "aside" => disk["old"] = None
    /\ At = "place" => disk["exe"] = None
    /\ At \in {"place", "begin", "record"} =>
          disk["old"] = image \/ (disk["old"] = None /\ torn)
    /\ At = "record" => probation = NoProbation
    /\ At \in {"begin", "record", "done", "exit"} => disk["exe"] = target["daemon"]

\* Until the program's path is lost to two failures, or to a failure of power.
ThereIsABinary ==
    failures <= 1 /\ ~torn /\ At # "place" /\ daemon # "place" => disk["exe"] # None

\* A version still being tried has not been gone back from: what runs is newer
\* than what it replaced, and where .old is what it replaced, it is what runs.
StillTried ==
    Held.installed # None /\ (Held.starts < ProbationStarts \/ watched) =>
        /\ disk["exe"] = None \/ disk["exe"] > Held.previous
        /\ daemon # "off" /\ At \notin {"done", "exit"} => image > Held.previous
        /\ disk["old"] = Held.previous =>
              disk["exe"] \in {Held.installed, None}

\* The starts a version was given are paid for by interruptions, but for the one
\* under way.
Charged ==
    Held.starts <=
        reboots + failures + (IF watched /\ At \notin {"done", "exit"} THEN 1 ELSE 0)

\* A probation that was not rewritten under a bad version may be counted up for
\* nothing, and will then be found to have no way back.
NobodyIsBlamed ==
    Held.installed \notin Bad \cup {None} =>
        \/ Charged
        \/ /\ disk["exe"] \in Bad /\ disk["old"] # Held.previous
           /\ daemon \notin RollingBackFrom \cup {"refuse"}

\* No file operation failed: what is rolled back is what is on probation, and is
\* refused by then.
RollbackIsTheRightOne ==
    failures = 0 /\ Held.installed # None =>
        /\ disk["old"] = Held.previous =>
              disk["exe"] \in {Held.installed, None}
        /\ daemon \in {"wire", "up"} /\ At \notin {"done", "exit"} =>
              image > Held.previous
        /\ daemon \in RollingBackFrom =>
              image = Held.installed /\ Held.installed \in Refused

\* WayBack, of what is in the daemon's hands too.
WayBackInHand ==
    Held.installed # None /\ ~Swapping /\ ~RollingBack /\ ~torn /\ failures = 0 =>
        /\ disk["exe"] = Held.installed
        /\ disk["old"] = Held.previous

\* A bad version that was installed is refused, or history, or still there.
InstalledBefore ==
    failures = 0 =>
        \A v \in Bad :
            /\ installs[v] <= 1
            /\ installs[v] = 1 => v \in Refused \/ v < released \/ disk["exe"] = v
            /\ At \in {"download", "smoke", "clear", "aside", "place"}
                  /\ target["daemon"] = v => installs[v] = 0

DaemonInv ==
    /\ OnlyTheDaemon
    /\ TheProcess
    /\ TheTarget
    /\ InHand
    /\ OnTrial
    /\ WhatIsWhere
    /\ ThereIsABinary
    /\ StillTried
    /\ NobodyIsBlamed
    /\ RollbackIsTheRightOne
    /\ InstalledBefore
    /\ FairTrial
    /\ WayBackInHand

Inv ==
    /\ updater \in Actor
    /\ updater = "daemon" => DaemonInv

-----------------------------------------------------------------------------
(* Types.                                                                  *)

\* The list of refused versions stays one, and within its bound.
LEMMA RefusedWithType ==
    ASSUME refused \in Seq(Version), Len(refused) <= MaxRefused, NEW v \in Version
    PROVE  RefusedWith(v) \in Seq(Version) /\ Len(RefusedWith(v)) <= MaxRefused
<1>1. CASE v \in Refused
  BY <1>1 DEF RefusedWith
<1>2. CASE v \notin Refused
  <2> DEFINE all == Append(refused, v)
             kept == IF Len(all) < MaxRefused THEN Len(all) ELSE MaxRefused
  <2>1. all \in Seq(Version) /\ Len(all) = Len(refused) + 1
    OBVIOUS
  <2>2. kept \in 1..Len(all) /\ kept <= MaxRefused
    BY <2>1, UpdateAssumption
  <2>3. SubSeq(all, Len(all) - kept + 1, Len(all)) \in Seq(Version)
    BY <2>1, <2>2
  <2>4. Len(SubSeq(all, Len(all) - kept + 1, Len(all))) = kept
    BY <2>1, <2>2
  <2>5. RefusedWith(v) = SubSeq(all, Len(all) - kept + 1, Len(all))
    BY <1>2 DEF RefusedWith
  <2> QED
    BY <2>2, <2>3, <2>4, <2>5
<1> QED
  BY <1>1, <1>2

\* What a version is added to keeps it; what it loses was there before.
LEMMA RefusedWithKeeps ==
    ASSUME refused \in Seq(Version), NEW v \in Version, verdict' = RefusedWith(v)
    PROVE  v \in Verdict' /\ Verdict' \subseteq Refused \cup {v}
<1>1. CASE v \in Refused
  BY <1>1 DEF RefusedWith, Refused, Verdict
<1>2. CASE v \notin Refused
  <2> DEFINE all == Append(refused, v)
             kept == IF Len(all) < MaxRefused THEN Len(all) ELSE MaxRefused
             from == Len(all) - kept + 1
  <2>1. all \in Seq(Version) /\ Len(all) = Len(refused) + 1 /\ all[Len(all)] = v
    OBVIOUS
  <2>a. kept \in 1..Len(all)
    BY <2>1, UpdateAssumption
  <2> HIDE DEF kept
  <2>2. from \in 1..Len(all)
    BY <2>1, <2>a
  <2> USE DEF kept
  <2>3. verdict' = SubSeq(all, from, Len(all))
    BY <1>2 DEF RefusedWith
  <2> HIDE DEF from
  <2>4. DOMAIN verdict' = 1..(Len(all) - from + 1)
    BY <2>1, <2>2, <2>3
  <2>5. \A i \in DOMAIN verdict' : verdict'[i] = all[from + i - 1]
    BY <2>1, <2>2, <2>3
  <2>6. verdict'[Len(all) - from + 1] = v
    BY <2>1, <2>2, <2>4, <2>5
  <2>7. \A i \in 1..Len(all) : all[i] \in Refused \cup {v}
    BY <2>1 DEF Refused
  <2>8. \A i \in DOMAIN verdict' : verdict'[i] \in Refused \cup {v}
    BY <2>1, <2>2, <2>4, <2>5, <2>7, SMTT(30)
  <2> QED
    BY <1>2, <2>1, <2>2, <2>4, <2>6, <2>8 DEF Verdict
<1> QED
  BY <1>1, <1>2

\* Nothing refused, which is what an emptied file says.
LEMMA NothingRefused == <<>> \in Seq(Version) /\ Len(<<>>) <= MaxRefused
  BY UpdateAssumption

LEMMA NoneIsNoVersion == None \notin Version /\ Version \subseteq Nat
  BY UpdateAssumption DEF None, Version

Slot == {"exe", "old", "new", "back"}

Disk == [Slot -> Version \cup {None}]

Probation == [installed : Version \cup {None}, previous : Version \cup {None},
              starts : 0..ProbationStarts]

\* The disk stays a disk.
LEMMA RenamedType ==
    ASSUME NEW d \in Disk, NEW from \in Slot, NEW to \in Slot
    PROVE  Renamed(d, from, to) \in Disk
  BY DEF Renamed, Disk

LEMMA RemovedType ==
    ASSUME NEW d \in Disk, NEW slot \in Slot
    PROVE  Removed(d, slot) \in Disk
  BY DEF Removed, Disk

\* What the probation file is overwritten with.
LEMMA ProbationType ==
    /\ NoProbation \in Probation
    /\ \A v, w \in Version \cup {None} :
          [installed |-> v, previous |-> w, starts |-> 0] \in Probation
    /\ probation \in Probation /\ TriesLeft => Counted \in Probation
  BY UpdateAssumption DEF NoProbation, Probation, TriesLeft, Counted, None

\* TypeOK, with the sets named.
Typed ==
    /\ released \in Version
    /\ disk \in Disk
    /\ probation \in Probation
    /\ refused \in Seq(Version) /\ Len(refused) <= MaxRefused
    /\ daemon \in {"off", "start", "count", "record", "refuse", "stage", "aside", "place",
                    "stuck", "back", "wire", "up"}
    /\ image \in Version \cup {None}
    /\ tally \in Probation
    /\ verdict \in Seq(Version) /\ Len(verdict) <= MaxRefused
    /\ watched \in BOOLEAN
    /\ step \in [Actor -> Step]
    /\ current \in [Actor -> Version \cup {None}]
    /\ target \in [Actor -> Version \cup {None}]
    /\ believed \subseteq Version
    /\ installs \in [Version -> Nat]
    /\ torn \in BOOLEAN /\ forgotten \in BOOLEAN
    /\ reboots \in 0..MaxReboots
    /\ failures \in 0..MaxFailures

LEMMA TypesNamed == (TypeOK <=> Typed) /\ (Typed' => TypeOK')
  BY DEF TypeOK, Typed, Disk, Slot, Probation

LEMMA TypeStep == TypeOK /\ [Next]_vars => TypeOK'
<1> SUFFICES ASSUME Typed, [Next]_vars PROVE Typed'
  BY TypesNamed
<1> USE UpdateAssumption, NoneIsNoVersion DEF Typed, Slot, files, process, apply, history
<1>0. /\ probation.installed \in Version \cup {None}
      /\ \A s \in Slot : disk[s] \in Version \cup {None}
  BY DEF Disk, Probation
<1>1. CASE UNCHANGED vars
  BY <1>1 DEF vars
<1>2. CASE \E a \in Actor : Check(a)
  BY <1>0, <1>2 DEF Check, Goes, Step, CodeOf
<1>3. CASE \E a \in Actor : Download(a)
  <2> SUFFICES ASSUME NEW a \in Actor, Download(a) PROVE Typed'
    BY <1>3
  <2>1. disk' \in Disk
    BY RemovedType DEF Download, Disk
  <2>2. step' \in [Actor -> Step]
    BY SMTT(30) DEF Download, Goes, Step
  <2>3. failures' \in 0..MaxFailures
    BY SMTT(30) DEF Download, Fails
  <2> QED
    BY <2>1, <2>2, <2>3 DEF Download
<1>4. CASE \E a \in Actor : Smoke(a)
  BY <1>4, SMTT(30) DEF Smoke, Goes, Step, Fails
<1>5. CASE \E a \in Actor : Clear(a)
  BY <1>5, RemovedType DEF Clear, Goes, Step
<1>6. CASE \E a \in Actor : Aside(a)
  <2> SUFFICES ASSUME NEW a \in Actor, Aside(a) PROVE Typed'
    BY <1>6
  <2>1. disk' \in Disk
    BY RenamedType DEF Aside
  <2>2. step' \in [Actor -> Step] /\ failures' \in 0..MaxFailures
    BY DEF Aside, Goes, Step, Fails
  <2> QED
    BY <2>1, <2>2 DEF Aside
<1>7. CASE \E a \in Actor : Place(a)
  <2> SUFFICES ASSUME NEW a \in Actor, Place(a) PROVE Typed'
    BY <1>7
  <2>1. disk' \in Disk
    BY RenamedType DEF Place, Undone
  <2>2. failures' \in 0..MaxFailures
    BY DEF Place, Undone, Fails
  <2>3. installs' \in [Version -> Nat]
    BY <1>0 DEF Place
  <2> QED
    BY <2>1, <2>2, <2>3 DEF Place, Goes, Step
<1>8. CASE \E a \in Actor : Begin(a)
  <2> SUFFICES ASSUME NEW a \in Actor, Begin(a) PROVE Typed'
    BY <1>8
  <2>1. probation' \in Probation
    BY ProbationType DEF Begin
  <2>2. step' \in [Actor -> Step]
    BY SMTT(30) DEF Begin, Goes, Step
  <2>3. failures' \in 0..MaxFailures
    BY SMTT(30) DEF Begin, Fails
  <2> QED
    BY <2>1, <2>2, <2>3 DEF Begin
<1>24. CASE \E a \in Actor : RecordTrial(a)
  <2> SUFFICES ASSUME NEW a \in Actor, RecordTrial(a) PROVE Typed'
    BY <1>24
  <2>1. probation' \in Probation
    <3>1. target[a] \in Version \cup {None} /\ current[a] \in Version \cup {None}
      OBVIOUS
    <3>2. Trial(a) \in Probation
      BY <3>1, ProbationType DEF Trial
    <3> QED
      BY <3>2 DEF RecordTrial
  <2>2. step' \in [Actor -> Step] /\ failures' \in 0..MaxFailures
    BY DEF RecordTrial, Goes, Step, Fails
  <2> QED
    BY <2>1, <2>2 DEF RecordTrial
<1>9. CASE \E a \in Actor : Tidy(a)
  <2> SUFFICES ASSUME NEW a \in Actor, Tidy(a) PROVE Typed'
    BY <1>9
  <2>1. step' \in [Actor -> Step]
    BY DEF Tidy, Step
  <2>2. disk' \in Disk
    BY RemovedType DEF Tidy
  <2> QED
    BY <2>1, <2>2 DEF Tidy
<1>10. CASE ServiceStarts \/ StartNothing \/ WireSucceeds
  BY <1>0, <1>10, RemovedType DEF ServiceStarts, StartNothing, WireSucceeds
<1>11. CASE StartOnProbation \/ CountOpens \/ CountWrites
  <2>1. tally' \in Probation
    BY <1>11, ProbationType DEF StartOnProbation, CountOpens, CountWrites
  <2>2. probation' \in Probation
    BY <1>11, ProbationType DEF StartOnProbation, CountOpens, CountWrites
  <2>3. failures' \in 0..MaxFailures
    BY <1>11 DEF StartOnProbation, CountOpens, CountWrites, Fails
  <2> QED
    BY <1>11, <2>1, <2>2, <2>3 DEF StartOnProbation, CountOpens, CountWrites
<1>12. CASE StartGivesUp \/ RefuseWrites
  <2>1. CASE StartGivesUp
    <3>1. refused' \in Seq(Version) /\ Len(refused') <= MaxRefused
      BY <2>1, NothingRefused DEF StartGivesUp
    <3>2. verdict' \in Seq(Version) /\ Len(verdict') <= MaxRefused
      BY <1>0, <2>1, RefusedWithType DEF StartGivesUp
    <3>3. failures' \in 0..MaxFailures
      BY <2>1 DEF StartGivesUp, Fails
    <3> QED
      BY <2>1, <3>1, <3>2, <3>3 DEF StartGivesUp
  <2>2. CASE RefuseWrites
    BY <2>2, NothingRefused DEF RefuseWrites, Fails
  <2> QED
    BY <1>12, <2>1, <2>2
<1>13. CASE RollingBackStep
  BY <1>13, RenamedType DEF RollingBackStep, Rollback
<1>14. CASE RollbackFails
  <2>1. disk' \in Disk
    BY <1>14, RenamedType DEF RollbackFails, Undone, UndoneWithout
  <2>2. failures' \in 0..MaxFailures
    BY <1>14 DEF RollbackFails, Undone, UndoneWithout, Fails
  <2> QED
    BY <1>14, <2>1, <2>2 DEF RollbackFails
<1>15. CASE GotStuck \/ WentBack
  <2>1. probation' \in Probation
    BY <1>15, ProbationType DEF GotStuck, WentBack, ClearProbation
  <2>2. failures' \in 0..MaxFailures
    BY <1>15 DEF GotStuck, WentBack, ClearProbation, Fails
  <2> QED
    BY <1>15, <2>1, <2>2, ProbationType, NothingRefused DEF GotStuck, WentBack, DaemonStops
<1>16. CASE WireFails
  <2>1. failures' \in 0..MaxFailures
    BY <1>16 DEF WireFails, Fails
  <2> QED
    BY <1>16, <2>1, ProbationType, NothingRefused DEF WireFails, DaemonStops
<1>17. CASE Exit
  <2>1. torn' \in BOOLEAN /\ forgotten' \in BOOLEAN
    BY <1>17 DEF Exit
  <2>2. step' \in [Actor -> Step]
    BY <1>17 DEF Exit, Step
  <2> QED
    BY <1>17, <2>1, <2>2, ProbationType, NothingRefused DEF Exit, DaemonStops
<1>18. ASSUME Keep
       PROVE  /\ disk' \in Disk
              /\ probation' \in Probation
              /\ believed' \subseteq Version
              /\ torn' \in BOOLEAN
              /\ failures' \in 0..MaxFailures
  <2>1. disk' \in Disk
    BY <1>18, RemovedType DEF Keep
  <2>2. probation' \in Probation
    BY <1>18, ProbationType DEF Keep
  <2>3. believed' \subseteq Version
    BY <1>0, <1>18 DEF Keep
  <2>4. torn' \in BOOLEAN
    BY <1>18 DEF Keep, Swapping
  <2>5. failures' \in 0..MaxFailures
    BY <1>18 DEF Keep, Fails
  <2> QED
    BY <2>1, <2>2, <2>3, <2>4, <2>5
<1>19. CASE Settle
  BY <1>18, <1>19 DEF Settle
<1>20. CASE RunWithoutUpdate \/ RunSettles
  BY <1>18, <1>20, ZenonT(60) DEF RunWithoutUpdate, RunSettles, Goes, Step
<1>21. CASE Release
  BY <1>21 DEF Release, Version
<1>22. CASE Reboot
  <2>1. torn' \in BOOLEAN /\ forgotten' \in BOOLEAN
    BY <1>22 DEF Reboot, Swapping, RollingBack, WritingProbation
  <2>2. step' \in [Actor -> Step] /\ reboots' \in 0..MaxReboots
    BY <1>22 DEF Reboot, Step
  <2> QED
    BY <1>22, <2>1, <2>2, ProbationType, NothingRefused DEF Reboot, DaemonStops
<1>23. CASE Rests
  BY <1>23 DEF Rests, vars
<1> QED
  BY <1>1, <1>2, <1>3, <1>4, <1>5, <1>6, <1>7, <1>8, <1>9, <1>10, <1>11, <1>12, <1>13,
     <1>14, <1>15, <1>16, <1>17, <1>19, <1>20, <1>21, <1>22, <1>23, <1>24
     DEF Next, ApplyStep, DaemonStep

\* Each program, file and counter keeps its type, whoever calls Apply.
THEOREM Types == MCSpec => []TypeOK
<1>1. Init => TypeOK
  <2> SUFFICES ASSUME Init PROVE TypeOK
    OBVIOUS
  <2>1. 1 \in Version /\ None \in Version \cup {None}
    BY UpdateAssumption DEF Version
  <2>2. probation \in Probation /\ tally \in Probation
    BY ProbationType DEF Init
  <2>3. 0 \in 0..MaxReboots /\ 0 \in 0..MaxFailures
    BY UpdateAssumption
  <2>4. disk \in Disk
    BY <2>1 DEF Init, Disk, Slot
  <2>5. /\ refused \in Seq(Version) /\ Len(refused) <= MaxRefused
        /\ verdict \in Seq(Version) /\ Len(verdict) <= MaxRefused
    BY UpdateAssumption DEF Init
  <2>6. step \in [Actor -> Step]
    BY DEF Init, Step
  <2>7. installs \in [Version -> Nat]
    BY DEF Init
  <2> QED
    BY <2>1, <2>2, <2>3, <2>4, <2>5, <2>6, <2>7, TypesNamed DEF Init, Typed
<1>2. TypeOK /\ [MCNext]_<<vars, updater>> => TypeOK'
  BY TypeStep DEF MCNext, vars
<1> QED
  BY <1>1, <1>2, PTL DEF MCSpec, MCInit

-----------------------------------------------------------------------------
(* The machine that is updated by its daemon.                              *)

\* What it may do.
Moves ==
    \/ Check("daemon") \/ ApplyStep("daemon")
    \/ DaemonStep \/ Release \/ Reboot \/ Rests

LEMMA OnlyTheDaemonMoves ==
    ASSUME Typed, "daemon" \in Actor, updater = "daemon", OnlyTheDaemon, MCNext
    PROVE  Moves /\ OnlyTheDaemon'
<1> USE DEF Typed, OnlyTheDaemon, At, Goes
<1>1. \A a \in Actor \ {"daemon"} : step[a] = "idle" /\ step'[a] = "idle"
  BY DEF MCNext
<1>2. ASSUME NEW a \in Actor, Check(a) \/ ApplyStep(a)
      PROVE  a = "daemon"
  <2>1. Check(a) => step'[a] = "download"
    BY DEF Check
  <2>2. ApplyStep(a) => step[a] # "idle"
    BY DEF ApplyStep, Download, Smoke, Clear, Aside, Place, Begin, RecordTrial,
                Tidy
  <2> QED
    BY <1>1, <1>2, <2>1, <2>2
<1>3. ~RunWithoutUpdate
  BY <1>1 DEF RunWithoutUpdate
<1>4. ~RunSettles
  BY <1>1 DEF RunSettles
<1>5. Moves
  BY <1>2, <1>3, <1>4 DEF MCNext, Next, Moves
<1>6. At' # "settle" /\ (At' # "idle" => daemon' = "up")
  <2>1. CASE Check("daemon")
    BY <2>1 DEF Check, process
  <2>2. CASE ApplyStep("daemon")
    BY <2>2 DEF ApplyStep, Download, Smoke, Clear, Aside, Place, Begin, RecordTrial,
                Tidy, process
  <2>3. CASE DaemonStep
    BY <2>3 DEF DaemonStep, ServiceStarts, StartNothing, StartOnProbation, CountOpens,
                CountWrites, StartGivesUp, RefuseWrites,
                RollingBackStep, Rollback, RollbackFails, GotStuck, WentBack, WireSucceeds,
                WireFails, Settle, Exit, InDaemon, DaemonStops, apply
  <2>4. CASE Release \/ Reboot \/ Rests
    BY <2>4 DEF Release, Reboot, Rests, vars, process, apply
  <2> QED
    BY <1>5, <2>1, <2>2, <2>3, <2>4 DEF Moves
<1> QED
  BY <1>1, <1>5, <1>6

LEMMA NumbersOfVersions ==
    /\ None = 0
    /\ \A v \in Version : v \in Nat /\ v > 0
    /\ refused \in Seq(Version) => Refused \subseteq Version
  BY UpdateAssumption DEF None, Version, Refused

\* What was paid for stays paid for.
LEMMA MoreIsEnough ==
    Typed => \A n \in {failures, failures + 1, failures + 2} :
                reboots + failures >= ProbationStarts => reboots + n >= ProbationStarts
  BY UpdateAssumption DEF Typed

Grows == failures' \in {failures, failures + 1, failures + 2} /\ reboots' = reboots

LEMMA HeldStarts ==
    ASSUME Typed
    PROVE  Held.starts \in Nat \cup {-1}
<1>1. probation.starts \in Nat
  BY DEF Typed, Probation
<1>2. [tally EXCEPT !.starts = @ - 1].starts \in Nat \cup {-1}
  BY DEF Typed, Probation
<1> QED
  BY <1>1, <1>2 DEF Held

LEMMA ChargedKept ==
    ASSUME Typed, Held' = Held, Grows, watched' = watched,
           At \notin {"done", "exit"} => At' \notin {"done", "exit"}
    PROVE  Charged => Charged'
<1>1. Held.starts \in Nat \cup {-1}
  BY HeldStarts, Zenon
<1> DEFINE one == IF watched /\ At \notin {"done", "exit"} THEN 1 ELSE 0
           one1 == IF watched' /\ At' \notin {"done", "exit"} THEN 1 ELSE 0
<1>2. one \in 0..1 /\ one1 \in 0..1 /\ one1 >= one
  OBVIOUS
<1>3. reboots \in Nat /\ failures \in Nat
  BY UpdateAssumption DEF Typed
<1>4. Charged <=> Held.starts <= reboots + failures + one
  BY DEF Charged
<1>5. Charged' <=> Held.starts <= reboots' + failures' + one1
  BY DEF Charged
<1> HIDE DEF one, one1
<1> QED
  BY <1>1, <1>2, <1>3, <1>4, <1>5 DEF Grows

\* A power loss excuses one start more, the one it may have cut short.
LEMMA RebootCharged ==
    ASSUME Typed, Held' = Held, reboots' = reboots + 1, failures' = failures, ~watched'
    PROVE  Charged => Charged'
<1>1. Held.starts \in Nat \cup {-1}
  BY HeldStarts, Zenon
<1> DEFINE one == IF watched /\ At \notin {"done", "exit"} THEN 1 ELSE 0
<1>2. one \in 0..1
  OBVIOUS
<1>3. reboots \in Nat /\ failures \in Nat
  BY UpdateAssumption DEF Typed
<1>4. Charged <=> Held.starts <= reboots + failures + one
  BY DEF Charged
<1>5. Charged' <=> Held.starts <= reboots' + failures' + 0
  BY DEF Charged
<1> HIDE DEF one
<1> QED
  BY <1>1, <1>2, <1>3, <1>4, <1>5

\* Nothing is installed, and nothing that was is forgotten.
Installing == {"download", "smoke", "clear", "aside", "place"}

LEMMA InstalledKept ==
    ASSUME InstalledBefore, UNCHANGED <<released, refused, installs>>,
           failures' = 0 => failures = 0, disk'["exe"] = disk["exe"],
           At' \in Installing => At \in Installing /\ target' = target
    PROVE  InstalledBefore'
  BY DEF InstalledBefore, Refused, Installing

\* Each step leaves the machine as DaemonInv has it.
LEMMA DaemonInvStep ==
    ASSUME Typed, "daemon" \in Actor, DaemonInv, Moves, OnlyTheDaemon'
    PROVE  DaemonInv'
<1> USE UpdateAssumption, NumbersOfVersions
    DEF Typed, Disk, Slot, Probation, files, process, apply, history, Goes, Fails, Step, At,
        DaemonInv, OnlyTheDaemon, TheProcess, TheTarget, OnTrial, WhatIsWhere,
        ThereIsABinary, StillTried, NobodyIsBlamed, Charged, RollbackIsTheRightOne,
        InstalledBefore, FairTrial, InHand, WayBackInHand, RollingBack, RollingBackFrom
<1>1. Refused \subseteq Version
  OBVIOUS
<1>2. refused' = refused => Refused' = Refused
  BY DEF Refused
<1>3. Swapping <=> At \in {"aside", "place", "begin"}
  BY DEF Swapping
<1>4. Swapping' <=> At' \in {"aside", "place", "begin"}
  BY DEF Swapping
<1>h. /\ daemon # "record" => Held = probation
      /\ daemon' # "record" => Held' = probation'
  BY DEF Held
<1>i. NoProbation.installed = None /\ NoProbation.starts = 0
  BY DEF NoProbation
<1> USE <1>2, <1>3, <1>4, <1>h, <1>i
<1>5. CASE Check("daemon")
  <2>1. /\ daemon = "up" /\ At = "idle" /\ At' = "download"
        /\ released > image /\ released \notin Refused
        /\ current'["daemon"] = image /\ target'["daemon"] = released
        /\ UNCHANGED <<released, files, process, history, reboots, failures>>
    BY <1>5, SMTT(60) DEF Check, CodeOf, MayInstall
  <2>20. TheProcess'
    BY <1>1, <2>1, SMTT(90)
  <2>21. TheTarget'
    BY <1>1, <2>1, SMTT(90)
  <2>22. InHand'
    BY <1>1, <2>1, SMTT(90)
  <2>23. OnTrial'
    BY <1>1, <2>1, SMTT(90)
  <2>24. WhatIsWhere'
    BY <1>1, <2>1, SMTT(90)
  <2>25. ThereIsABinary'
    BY <1>1, <2>1, SMTT(90)
  <2>26. StillTried'
    BY <1>1, <2>1, SMTT(90)
  <2>27. NobodyIsBlamed'
    BY <1>1, <2>1, SMTT(90)
  <2>28. RollbackIsTheRightOne'
    BY <1>1, <2>1, SMTT(90)
  <2>29. InstalledBefore'
    BY <1>1, <2>1, SMTT(90)
  <2>30. FairTrial'
    BY <1>1, <2>1, SMTT(90)
  <2>31. WayBackInHand'
    BY <1>1, <2>1, SMTT(90)
  <2> QED
    BY <2>20, <2>21, <2>22, <2>23, <2>24, <2>25, <2>26, <2>27, <2>28, <2>29, <2>30,
       <2>31
<1>6. CASE Download("daemon")
  <2>1. /\ \A slot \in {"exe", "old", "back"} : disk'[slot] = disk[slot]
        /\ At = "download" /\ At' \in {"smoke", "tidy"}
        /\ failures' = failures \/ failures' = failures + 1
        /\ UNCHANGED <<released, probation, refused, process, current, target, history,
                       reboots>>
    BY <1>6 DEF Download, Removed
  <2>20. TheProcess'
    BY <2>1, SMTT(90)
  <2>21. TheTarget'
    BY <2>1, SMTT(90)
  <2>22. InHand'
    BY <2>1, SMTT(90)
  <2>23. OnTrial'
    BY <2>1, SMTT(90)
  <2>24. WhatIsWhere'
    BY <2>1, SMTT(90)
  <2>25. ThereIsABinary'
    BY <2>1, SMTT(90)
  <2>26. StillTried'
    BY <2>1, SMTT(90)
  <2>27. NobodyIsBlamed'
    BY <2>1, SMTT(90)
  <2>28. RollbackIsTheRightOne'
    BY <2>1, SMTT(90)
  <2>29. InstalledBefore'
    BY <2>1, InstalledKept, SMTT(60) DEF Installing
  <2>30. FairTrial'
    BY <2>1, SMTT(90)
  <2>31. WayBackInHand'
    BY <2>1, SMTT(90)
  <2> QED
    BY <2>20, <2>21, <2>22, <2>23, <2>24, <2>25, <2>26, <2>27, <2>28, <2>29, <2>30,
       <2>31
<1>7. CASE Smoke("daemon")
  <2>1. /\ At = "smoke"
        /\ \/ At' = "clear" /\ disk["new"] = target["daemon"]
           \/ At' = "tidy"
        /\ failures' = failures \/ failures' = failures + 1
        /\ UNCHANGED <<released, files, process, current, target, history, reboots>>
    BY <1>7 DEF Smoke
  <2>20. TheProcess'
    BY <2>1, SMTT(90)
  <2>21. TheTarget'
    BY <2>1, SMTT(90)
  <2>22. InHand'
    BY <2>1, SMTT(90)
  <2>23. OnTrial'
    BY <2>1, SMTT(90)
  <2>24. WhatIsWhere'
    BY <2>1, SMTT(90)
  <2>25. ThereIsABinary'
    BY <2>1, SMTT(90)
  <2>26. StillTried'
    BY <2>1, SMTT(90)
  <2>27. NobodyIsBlamed'
    BY <2>1, SMTT(90)
  <2>28. RollbackIsTheRightOne'
    BY <2>1, SMTT(90)
  <2>29. InstalledBefore'
    BY <2>1, InstalledKept, SMTT(60) DEF Installing
  <2>30. FairTrial'
    BY <2>1, SMTT(90)
  <2>31. WayBackInHand'
    BY <2>1, SMTT(90)
  <2> QED
    BY <2>20, <2>21, <2>22, <2>23, <2>24, <2>25, <2>26, <2>27, <2>28, <2>29, <2>30,
       <2>31
<1>8. CASE Clear("daemon")
  <2>1. /\ At = "clear" /\ At' = "aside" /\ disk'["old"] = None
        /\ \A slot \in {"exe", "new", "back"} : disk'[slot] = disk[slot]
        /\ UNCHANGED <<released, probation, refused, process, current, target, history,
                       reboots, failures>>
    BY <1>8 DEF Clear, Removed
  <2>20. TheProcess'
    BY <2>1, SMTT(90)
  <2>21. TheTarget'
    BY <2>1, SMTT(90)
  <2>22. InHand'
    BY <2>1, SMTT(90)
  <2>23. OnTrial'
    BY <2>1, SMTT(90)
  <2>24. WhatIsWhere'
    BY <2>1, SMTT(90)
  <2>25. ThereIsABinary'
    BY <2>1, SMTT(90)
  <2>26. StillTried'
    BY <2>1, SMTT(90)
  <2>27. NobodyIsBlamed'
    BY <2>1, SMTT(90)
  <2>28. RollbackIsTheRightOne'
    BY <2>1, SMTT(90)
  <2>29. InstalledBefore'
    BY <2>1, InstalledKept, SMTT(60) DEF Installing
  <2>30. FairTrial'
    BY <2>1, SMTT(90)
  <2>31. WayBackInHand'
    BY <2>1, SMTT(90)
  <2> QED
    BY <2>20, <2>21, <2>22, <2>23, <2>24, <2>25, <2>26, <2>27, <2>28, <2>29, <2>30,
       <2>31
<1>9. CASE Aside("daemon")
  <2>1. /\ At = "aside"
        /\ \/ /\ At' = "place" /\ disk["exe"] # None
              /\ disk'["exe"] = None /\ disk'["old"] = disk["exe"]
           \/ /\ At' = "tidy" /\ disk'["exe"] = disk["exe"] /\ disk'["old"] = disk["old"]
              /\ disk["exe"] = None \/ failures' = failures + 1
        /\ disk'["new"] = disk["new"] /\ disk'["back"] = disk["back"]
        /\ failures' = failures \/ failures' = failures + 1
        /\ UNCHANGED <<released, probation, refused, process, current, target, history,
                       reboots>>
    BY <1>9, SMTT(60) DEF Aside, Renamed
  <2>20. TheProcess'
    BY <2>1, SMTT(90)
  <2>21. TheTarget'
    BY <2>1, SMTT(90)
  <2>22. InHand'
    BY <2>1, SMTT(90)
  <2>23. OnTrial'
    BY <2>1, SMTT(90)
  <2>24. WhatIsWhere'
    BY <2>1, SMTT(90)
  <2>25. ThereIsABinary'
    BY <2>1, SMTT(90)
  <2>26. StillTried'
    BY <2>1, SMTT(90)
  <2>27. NobodyIsBlamed'
    <3>1. disk["exe"] \notin Bad
      BY <2>1, SMTT(60)
    <3>2. Charged \/ Held.installed \in Bad \cup {None}
      BY <3>1, SMTT(60)
    <3>3. Held' = Held
      BY <2>1 DEF Held
    <3>4. Charged => Charged'
      BY <2>1, <3>3, SMTT(60)
    <3> QED
      BY <3>2, <3>3, <3>4, SMTT(60)
  <2>28. RollbackIsTheRightOne'
    BY <2>1, SMTT(90)
  <2>29. InstalledBefore'
    BY <2>1, SMTT(90)
  <2>30. FairTrial'
    BY <2>1, SMTT(90)
  <2>31. WayBackInHand'
    BY <2>1, SMTT(90)
  <2> QED
    BY <2>20, <2>21, <2>22, <2>23, <2>24, <2>25, <2>26, <2>27, <2>28, <2>29, <2>30,
       <2>31
<1>10. CASE Place("daemon")
  <2>1. /\ At = "place" /\ disk["exe"] = None
        /\ \/ /\ At' = "begin" /\ failures' = failures
              /\ disk["new"] # None /\ disk["new"] = target["daemon"]
              /\ disk'["exe"] = disk["new"] /\ disk'["old"] = disk["old"]
              /\ installs' = [installs EXCEPT ![target["daemon"]] = @ + 1]
           \/ /\ At' = "tidy" /\ installs' = installs
              /\ \/ /\ disk["old"] = None
                    /\ disk'["exe"] = None /\ disk'["old"] = None
                 \/ /\ disk["old"] # None
                    /\ disk'["exe"] = disk["old"] /\ disk'["old"] = None
                 \/ /\ disk'["exe"] = disk["exe"] /\ disk'["old"] = disk["old"]
                    /\ failures' = failures + 2
              /\ failures' \in {failures + 1, failures + 2}
        /\ disk'["back"] = disk["back"]
        /\ UNCHANGED <<released, probation, refused, process, current, target, believed,
                       torn, reboots>>
    BY <1>1, <1>10, SMTT(60) DEF Place, Renamed, Undone
  <2>20. TheProcess'
    BY <1>1, <2>1, SMTT(90)
  <2>21. TheTarget'
    BY <1>1, <2>1, SMTT(90)
  <2>22. InHand'
    BY <1>1, <2>1, SMTT(90)
  <2>23. OnTrial'
    BY <1>1, <2>1, SMTT(90)
  <2>24. WhatIsWhere'
    BY <1>1, <2>1, SMTT(90)
  <2>25. ThereIsABinary'
    BY <1>1, <2>1, SMTT(90)
  <2>26. StillTried'
    BY <1>1, <2>1, SMTT(90)
  <2>27. NobodyIsBlamed'
    <3>1. Held' = Held /\ Grows /\ watched' = watched
      BY <2>1 DEF Grows
    <3>2. Charged => Charged'
      BY <2>1, <3>1, ChargedKept, Zenon
    <3>3. disk["exe"] \notin Bad /\ Held'.installed = Held.installed
      BY <2>1, <3>1
    <3> QED
      BY <3>2, <3>3, Zenon
  <2>28. RollbackIsTheRightOne'
    BY <1>1, <2>1, SMTT(90)
  <2>29. InstalledBefore'
    <3>1. CASE failures' # 0
      BY <3>1
    <3>2. CASE failures' = 0
      <4>1. /\ disk["new"] = target["daemon"] /\ disk["new"] # None
            /\ disk'["exe"] = target["daemon"] /\ At' = "begin"
            /\ installs' = [installs EXCEPT ![target["daemon"]] = @ + 1]
            /\ target["daemon"] <= released /\ disk["exe"] = None
            /\ UNCHANGED <<released, refused, failures>>
        BY <2>1, <3>2, SMTT(90)
      <4>2. target["daemon"] \in Bad => installs[target["daemon"]] = 0
        <5>1. failures = 0 /\ At = "place"
          BY <2>1, <3>2, <4>1
        <5>2. target["daemon"] \in Bad /\ At = "place" => installs[target["daemon"]] = 0
          BY <5>1
        <5> QED
          BY <5>1, <5>2
      <4>3. \A v \in Bad \ {target["daemon"]} : installs'[v] = installs[v]
        BY <4>1
      <4>4. target["daemon"] \in Bad => installs'[target["daemon"]] = 1
        BY <4>1, <4>2
      <4>5. \A v \in Bad : installs'[v] <= 1 /\ (installs'[v] = 1 =>
                v \in Refused' \/ v < released' \/ disk'["exe"] = v)
        <5> SUFFICES ASSUME NEW v \in Bad
                     PROVE  installs'[v] <= 1 /\ (installs'[v] = 1 =>
                                v \in Refused' \/ v < released' \/ disk'["exe"] = v)
          OBVIOUS
        <5>1. CASE v = target["daemon"]
          BY <4>1, <4>4, <5>1
        <5>2. CASE v # target["daemon"]
          <6>1. installs'[v] = installs[v]
            BY <4>3, <5>2
          <6>2. failures = 0 /\ disk["exe"] # v
            BY <3>2, <4>1
          <6>3. installs[v] <= 1 /\ (installs[v] = 1 => v \in Refused \/ v < released)
            BY <6>2
          <6> QED
            BY <4>1, <6>1, <6>3, SMTT(60)
        <5> QED
          BY <5>1, <5>2
      <4> QED
        BY <4>1, <4>5
    <3> QED
      BY <3>1, <3>2
  <2>30. FairTrial'
    BY <1>1, <2>1, SMTT(90)
  <2>31. WayBackInHand'
    BY <1>1, <2>1, SMTT(90)
  <2> QED
    BY <2>20, <2>21, <2>22, <2>23, <2>24, <2>25, <2>26, <2>27, <2>28, <2>29, <2>30,
       <2>31
<1>11. CASE Begin("daemon")
  <2>1. /\ At = "begin"
        /\ \/ At' = "record" /\ probation' = NoProbation /\ failures' = failures
           \/ At' = "done" /\ probation' = probation /\ failures' = failures + 1
        /\ UNCHANGED <<released, disk, refused, process, current, target, history, reboots>>
    BY <1>11 DEF Begin
  <2>20. TheProcess'
    BY <1>1, <2>1, SMTT(90)
  <2>21. TheTarget'
    BY <1>1, <2>1, SMTT(90)
  <2>22. InHand'
    BY <1>1, <2>1, SMTT(90)
  <2>23. OnTrial'
    BY <1>1, <2>1, SMTT(90)
  <2>24. WhatIsWhere'
    BY <1>1, <2>1, SMTT(90)
  <2>25. ThereIsABinary'
    BY <1>1, <2>1, SMTT(90)
  <2>26. StillTried'
    BY <1>1, <2>1, SMTT(90)
  <2>27. NobodyIsBlamed'
    BY <1>1, <2>1, SMTT(90)
  <2>28. RollbackIsTheRightOne'
    BY <1>1, <2>1, SMTT(90)
  <2>29. InstalledBefore'
    <3>1. /\ UNCHANGED <<released, refused, installs, target>> /\ disk'["exe"] = disk["exe"]
          /\ failures' = 0 => failures = 0
      BY <2>1, SMTT(60)
    <3>2. At' \notin Installing
      BY <2>1 DEF Installing
    <3>3. InstalledBefore
      BY DEF DaemonInv
    <3> HIDE DEF InstalledBefore, At, DaemonInv
    <3> QED
      BY <3>1, <3>2, <3>3, InstalledKept
  <2>30. FairTrial'
    BY <1>1, <2>1, SMTT(90)
  <2>31. WayBackInHand'
    BY <1>1, <2>1, SMTT(90)
  <2> QED
    BY <2>20, <2>21, <2>22, <2>23, <2>24, <2>25, <2>26, <2>27, <2>28, <2>29, <2>30,
       <2>31
<1>30. CASE RecordTrial("daemon")
  <2>1. CASE probation' = probation
    BY <1>1, <1>30, <2>1, SMTT(60) DEF RecordTrial
  <2>2. CASE probation' = Trial("daemon")
    <3>1. /\ probation'.installed = target["daemon"] /\ probation'.previous = current["daemon"]
          /\ probation'.starts = 0
      BY <2>2 DEF Trial
    <3> QED
      BY <1>1, <1>30, <2>2, <3>1, SMTT(60) DEF RecordTrial
  <2> QED
    BY <1>30, <2>1, <2>2 DEF RecordTrial
<1>12. CASE Tidy("daemon")
  <2>1. /\ \A slot \in {"exe", "old", "back"} : disk'[slot] = disk[slot]
        /\ \/ At = "done" /\ At' = "exit"
           \/ At = "tidy" /\ At' = "idle"
        /\ UNCHANGED <<released, probation, refused, process, current, target, history,
                       reboots, failures>>
    BY <1>12 DEF Tidy, Removed
  <2>20. TheProcess'
    BY <2>1, SMTT(90)
  <2>21. TheTarget'
    BY <2>1, SMTT(90)
  <2>22. InHand'
    BY <2>1, SMTT(90)
  <2>23. OnTrial'
    BY <2>1, SMTT(90)
  <2>24. WhatIsWhere'
    BY <2>1, SMTT(90)
  <2>25. ThereIsABinary'
    BY <2>1, SMTT(90)
  <2>26. StillTried'
    BY <2>1, SMTT(90)
  <2>27. NobodyIsBlamed'
    BY <2>1, SMTT(90)
  <2>28. RollbackIsTheRightOne'
    BY <2>1, SMTT(90)
  <2>29. InstalledBefore'
    BY <2>1, InstalledKept, SMTT(60) DEF Installing
  <2>30. FairTrial'
    BY <2>1, SMTT(90)
  <2>31. WayBackInHand'
    BY <2>1, SMTT(90)
  <2> QED
    BY <2>20, <2>21, <2>22, <2>23, <2>24, <2>25, <2>26, <2>27, <2>28, <2>29, <2>30,
       <2>31
<1>13. CASE Exit
  <2>1. /\ At = "exit" /\ At' = "idle" /\ daemon = "up" /\ daemon' = "off"
        /\ image' = None /\ ~watched' /\ torn' = torn
        /\ UNCHANGED <<released, files, installs, reboots, failures>>
    BY <1>13, SMTT(90) DEF Exit, DaemonStops, InDaemon
  <2>20. TheProcess'
    BY <2>1, SMTT(90)
  <2>21. TheTarget'
    BY <2>1, SMTT(90)
  <2>22. InHand'
    BY <2>1, SMTT(90)
  <2>23. OnTrial'
    BY <2>1, SMTT(90)
  <2>24. WhatIsWhere'
    BY <2>1, SMTT(90)
  <2>25. ThereIsABinary'
    BY <2>1, SMTT(90)
  <2>26. StillTried'
    BY <2>1, SMTT(90)
  <2>27. NobodyIsBlamed'
    BY <2>1, SMTT(90)
  <2>28. RollbackIsTheRightOne'
    BY <2>1, SMTT(90)
  <2>29. InstalledBefore'
    BY <2>1, InstalledKept, SMTT(60) DEF Installing
  <2>30. FairTrial'
    BY <2>1, SMTT(90)
  <2>31. WayBackInHand'
    BY <2>1, SMTT(90)
  <2> QED
    BY <2>20, <2>21, <2>22, <2>23, <2>24, <2>25, <2>26, <2>27, <2>28, <2>29, <2>30,
       <2>31
<1>14. CASE Settle
  <2> USE <1>14
  <2>1. /\ At' = At /\ daemon = "up" /\ daemon' = "up" /\ watched /\ ~watched'
        /\ UNCHANGED <<released, refused, image, current, target, installs, reboots>>
    BY DEF Settle
  <2>2. CASE UNCHANGED <<disk, probation, believed, torn>>
    <3>1. \/ probation.installed = None /\ failures' = failures
          \/ failures < MaxFailures /\ failures' = failures + 1
      BY <2>2 DEF Settle, Keep, NoProbation
    <3>11. TheProcess'
      BY <2>1, <2>2, <3>1
    <3>12. TheTarget' /\ InHand'
      BY <2>1, <2>2, <3>1
    <3>13. OnTrial'
      BY <2>1, <2>2, <3>1
    <3>14. WhatIsWhere'
      BY <2>1, <2>2, <3>1
    <3>15. ThereIsABinary'
      BY <2>1, <2>2, <3>1
    <3>16. StillTried'
      BY <2>1, <2>2, <3>1
    <3>17. NobodyIsBlamed'
      BY <2>1, <2>2, <3>1
    <3>18. RollbackIsTheRightOne'
      BY <2>1, <2>2, <3>1
    <3>19. InstalledBefore'
      BY <2>1, <2>2, <3>1
    <3>20. FairTrial'
      BY <2>1, <2>2, <3>1
    <3>21. WayBackInHand'
      BY <2>1, <2>2, <3>1
    <3> QED
      BY <3>11, <3>12, <3>13, <3>14, <3>15, <3>16, <3>17, <3>18, <3>19, <3>20, <3>21
  <2>3. CASE /\ probation.installed # None /\ probation' = NoProbation
             /\ disk' = Removed(disk, "old")
             /\ torn' = (torn \/ Swapping)
             /\ UNCHANGED failures
    <3>1. probation'.installed = None /\ probation'.starts = 0
      BY <2>3 DEF NoProbation
    <3>2. /\ disk'["exe"] = disk["exe"] /\ disk'["new"] = disk["new"]
          /\ disk'["back"] = disk["back"] /\ disk'["old"] = None
      BY <2>3 DEF Removed
    <3>3. torn' = (torn \/ At \in {"aside", "place", "begin"}) /\ At # "record"
      BY <2>3
    <3>11. TheProcess'
      BY <2>1, <2>3, <3>1, <3>2, <3>3
    <3>12. TheTarget' /\ InHand'
      BY <2>1, <2>3, <3>1, <3>2, <3>3
    <3>13. OnTrial'
      BY <2>1, <2>3, <3>1, <3>2, <3>3
    <3>14. WhatIsWhere'
      BY <2>1, <2>3, <3>1, <3>2, <3>3
    <3>15. ThereIsABinary'
      BY <2>1, <2>3, <3>1, <3>2, <3>3
    <3>16. StillTried'
      BY <2>1, <2>3, <3>1, <3>2, <3>3
    <3>17. NobodyIsBlamed'
      BY <2>1, <2>3, <3>1, <3>2, <3>3
    <3>18. RollbackIsTheRightOne'
      BY <2>1, <2>3, <3>1, <3>2, <3>3
    <3>19. InstalledBefore'
      BY <2>1, <2>3, <3>1, <3>2, <3>3
    <3>20. FairTrial'
      BY <2>1, <2>3, <3>1, <3>2, <3>3
    <3>21. WayBackInHand'
      BY <2>1, <2>3, <3>1, <3>2, <3>3
    <3> QED
      BY <3>11, <3>12, <3>13, <3>14, <3>15, <3>16, <3>17, <3>18, <3>19, <3>20, <3>21
  <2> QED
    BY <2>2, <2>3 DEF Settle, Keep
<1>15. CASE ServiceStarts
  <2>1. /\ daemon = "off" /\ disk["exe"] # None
        /\ daemon' = "start" /\ image' = disk["exe"]
        /\ UNCHANGED <<released, files, watched, tally, verdict, apply, history, reboots,
                       failures>>
    BY <1>15 DEF ServiceStarts
  <2>20. TheProcess'
    BY <2>1, SMTT(90)
  <2>21. TheTarget'
    BY <2>1, SMTT(90)
  <2>22. InHand'
    BY <2>1, SMTT(90)
  <2>23. OnTrial'
    BY <2>1, SMTT(90)
  <2>24. WhatIsWhere'
    BY <2>1, SMTT(90)
  <2>25. ThereIsABinary'
    BY <2>1, SMTT(90)
  <2>26. StillTried'
    BY <2>1, SMTT(90)
  <2>27. NobodyIsBlamed'
    BY <2>1, SMTT(90)
  <2>28. RollbackIsTheRightOne'
    BY <2>1, SMTT(90)
  <2>29. InstalledBefore'
    BY <2>1, InstalledKept, SMTT(60) DEF Installing
  <2>30. FairTrial'
    BY <2>1, SMTT(90)
  <2>31. WayBackInHand'
    BY <2>1, SMTT(90)
  <2> QED
    BY <2>20, <2>21, <2>22, <2>23, <2>24, <2>25, <2>26, <2>27, <2>28, <2>29, <2>30,
       <2>31
<1>16. CASE StartNothing
  <2>1. /\ daemon = "start" /\ probation.installed = None /\ disk'["old"] = None
        /\ daemon' = "wire"
        /\ \A slot \in {"exe", "new", "back"} : disk'[slot] = disk[slot]
        /\ UNCHANGED <<released, probation, refused, image, watched, tally, verdict, apply,
                       history, reboots, failures>>
    BY <1>16 DEF StartNothing, Removed
  <2>20. TheProcess'
    BY <2>1, SMTT(90)
  <2>21. TheTarget'
    BY <2>1, SMTT(90)
  <2>22. InHand'
    BY <2>1, SMTT(90)
  <2>23. OnTrial'
    BY <2>1, SMTT(90)
  <2>24. WhatIsWhere'
    BY <2>1, SMTT(90)
  <2>25. ThereIsABinary'
    BY <2>1, SMTT(90)
  <2>26. StillTried'
    BY <2>1, SMTT(90)
  <2>27. NobodyIsBlamed'
    BY <2>1, SMTT(90)
  <2>28. RollbackIsTheRightOne'
    BY <2>1, SMTT(90)
  <2>29. InstalledBefore'
    BY <2>1, InstalledKept, SMTT(60) DEF Installing
  <2>30. FairTrial'
    BY <2>1, SMTT(90)
  <2>31. WayBackInHand'
    BY <2>1, SMTT(90)
  <2> QED
    BY <2>20, <2>21, <2>22, <2>23, <2>24, <2>25, <2>26, <2>27, <2>28, <2>29, <2>30,
       <2>31
<1>17. CASE StartOnProbation
  <2>1. /\ daemon = "start" /\ daemon' = "count" /\ probation.installed # None
        /\ TriesLeft /\ TriesLeft' /\ tally' = Counted' /\ ~watched /\ ~watched'
        /\ UNCHANGED <<released, disk, probation, refused, image, apply, history, reboots,
                       failures>>
    BY <1>17 DEF StartOnProbation, TriesLeft, Counted
  <2>2. Held' = Held
    BY <2>1
  <2>20. TheProcess'
    BY <2>1, <2>2
  <2>21. TheTarget'
    BY <2>1, <2>2
  <2>22. InHand'
    BY <2>1, <2>2
  <2>23. OnTrial'
    BY <2>1, <2>2
  <2>24. WhatIsWhere'
    BY <2>1, <2>2
  <2>25. ThereIsABinary'
    BY <2>1, <2>2
  <2>26. StillTried'
    BY <2>1, <2>2
  <2>27. NobodyIsBlamed'
    BY <2>1, <2>2
  <2>28. RollbackIsTheRightOne'
    BY <2>1, <2>2
  <2>29. InstalledBefore'
    BY <2>1, <2>2
  <2>30. FairTrial'
    BY <2>1, <2>2
  <2>31. WayBackInHand'
    BY <2>1, <2>2
  <2> QED
    BY <2>20, <2>21, <2>22, <2>23, <2>24, <2>25, <2>26, <2>27, <2>28, <2>29, <2>30,
       <2>31
<1>31. CASE CountOpens
  <2>1. /\ daemon = "count" /\ probation.installed # None /\ probation.starts < ProbationStarts
        /\ ~watched
        /\ UNCHANGED <<released, disk, refused, image, apply, history, reboots>>
    BY <1>31 DEF CountOpens, TriesLeft
  <2>2. CASE /\ probation' = NoProbation /\ daemon' = "record" /\ ~watched'
             /\ UNCHANGED <<tally, failures>>
    <3>2. /\ tally' = [probation EXCEPT !.starts = @ + 1]
          /\ Held = probation /\ Held' = [tally' EXCEPT !.starts = @ - 1]
      BY <2>1, <2>2 DEF Held, Counted
    <3>1. /\ tally'.installed = probation.installed /\ tally'.starts = probation.starts + 1
          /\ Held'.installed = Held.installed /\ Held'.previous = Held.previous
          /\ Held'.starts = Held.starts
      BY <3>2
    <3>20. TheProcess'
      BY <2>1, <2>2, <3>1
    <3>21. TheTarget'
      BY <2>1, <2>2, <3>1
    <3>22. InHand'
      BY <2>1, <2>2, <3>1
    <3>23. OnTrial'
      BY <2>1, <2>2, <3>1
    <3>24. WhatIsWhere'
      BY <2>1, <2>2, <3>1
    <3>25. ThereIsABinary'
      BY <2>1, <2>2, <3>1
    <3>26. StillTried'
      BY <2>1, <2>2, <3>1
    <3>27. NobodyIsBlamed'
      BY <2>1, <2>2, <3>1
    <3>28. RollbackIsTheRightOne'
      BY <2>1, <2>2, <3>1
    <3>29. InstalledBefore'
      BY <2>1, <2>2, <3>1
    <3>30. FairTrial'
      BY <2>1, <2>2, <3>1
    <3>31. WayBackInHand'
      BY <2>1, <2>2, <3>1
    <3> QED
      BY <3>20, <3>21, <3>22, <3>23, <3>24, <3>25, <3>26, <3>27, <3>28, <3>29, <3>30,
         <3>31
  <2>3. CASE UNCHANGED probation /\ Fails /\ daemon' = "wire" /\ watched'
    <3>20. TheProcess'
      BY <2>1, <2>3, SMTT(90)
    <3>21. TheTarget'
      BY <2>1, <2>3, SMTT(90)
    <3>22. InHand'
      BY <2>1, <2>3, SMTT(90)
    <3>23. OnTrial'
      BY <2>1, <2>3, SMTT(90)
    <3>24. WhatIsWhere'
      BY <2>1, <2>3, SMTT(90)
    <3>25. ThereIsABinary'
      BY <2>1, <2>3, SMTT(90)
    <3>26. StillTried'
      BY <2>1, <2>3, SMTT(90)
    <3>27. NobodyIsBlamed'
      BY <2>1, <2>3, SMTT(90)
    <3>28. RollbackIsTheRightOne'
      BY <2>1, <2>3, SMTT(90)
    <3>29. InstalledBefore'
      BY <2>1, <2>3, SMTT(90)
    <3>30. FairTrial'
      BY <2>1, <2>3, SMTT(90)
    <3>31. WayBackInHand'
      BY <2>1, <2>3, SMTT(90)
    <3> QED
      BY <3>20, <3>21, <3>22, <3>23, <3>24, <3>25, <3>26, <3>27, <3>28, <3>29, <3>30,
         <3>31
  <2> QED
    BY <1>31, <2>1, <2>2, <2>3 DEF CountOpens
<1>32. CASE CountWrites
  <2>1. /\ daemon = "record" /\ daemon' = "wire" /\ ~watched /\ watched'
        /\ Held' = probation'
        /\ UNCHANGED <<released, disk, refused, image, apply, history, reboots>>
    BY <1>32 DEF CountWrites
  <2>2. /\ Held.installed = tally.installed /\ Held.previous = tally.previous
        /\ Held.starts = tally.starts - 1 /\ Held.installed # None
        /\ tally.starts \in 1..ProbationStarts
    BY <2>1 DEF Held
  <2>3. CASE probation' = tally /\ UNCHANGED failures
    <3>20. TheProcess'
      BY <2>1, <2>2, <2>3, SMTT(90)
    <3>21. TheTarget'
      BY <2>1, <2>2, <2>3, SMTT(90)
    <3>22. InHand'
      BY <2>1, <2>2, <2>3, SMTT(90)
    <3>23. OnTrial'
      BY <2>1, <2>2, <2>3, SMTT(90)
    <3>24. WhatIsWhere'
      BY <2>1, <2>2, <2>3, SMTT(90)
    <3>25. ThereIsABinary'
      BY <2>1, <2>2, <2>3, SMTT(90)
    <3>26. StillTried'
      BY <2>1, <2>2, <2>3, SMTT(90)
    <3>27. NobodyIsBlamed'
      BY <2>1, <2>2, <2>3, SMTT(90)
    <3>28. RollbackIsTheRightOne'
      BY <2>1, <2>2, <2>3, SMTT(90)
    <3>29. InstalledBefore'
      BY <2>1, <2>2, <2>3, SMTT(90)
    <3>30. FairTrial'
      BY <2>1, <2>2, <2>3, SMTT(90)
    <3>31. WayBackInHand'
      BY <2>1, <2>2, <2>3, SMTT(90)
    <3> QED
      BY <3>20, <3>21, <3>22, <3>23, <3>24, <3>25, <3>26, <3>27, <3>28, <3>29, <3>30,
         <3>31
  <2>4. CASE UNCHANGED probation /\ Fails
    <3>1. probation' = NoProbation
      BY <2>1, <2>4
    <3>20. TheProcess'
      BY <2>1, <2>2, <2>4, <3>1, SMTT(90)
    <3>21. TheTarget'
      BY <2>1, <2>2, <2>4, <3>1, SMTT(90)
    <3>22. InHand'
      BY <2>1, <2>2, <2>4, <3>1, SMTT(90)
    <3>23. OnTrial'
      BY <2>1, <2>2, <2>4, <3>1, SMTT(90)
    <3>24. WhatIsWhere'
      BY <2>1, <2>2, <2>4, <3>1, SMTT(90)
    <3>25. ThereIsABinary'
      BY <2>1, <2>2, <2>4, <3>1, SMTT(90)
    <3>26. StillTried'
      BY <2>1, <2>2, <2>4, <3>1, SMTT(90)
    <3>27. NobodyIsBlamed'
      BY <2>1, <2>2, <2>4, <3>1, SMTT(90)
    <3>28. RollbackIsTheRightOne'
      BY <2>1, <2>2, <2>4, <3>1, SMTT(90)
    <3>29. InstalledBefore'
      BY <2>1, <2>2, <2>4, <3>1, SMTT(90)
    <3>30. FairTrial'
      BY <2>1, <2>2, <2>4, <3>1, SMTT(90)
    <3>31. WayBackInHand'
      BY <2>1, <2>2, <2>4, <3>1, SMTT(90)
    <3> QED
      BY <3>20, <3>21, <3>22, <3>23, <3>24, <3>25, <3>26, <3>27, <3>28, <3>29, <3>30,
         <3>31
  <2> QED
    BY <1>32, <2>3, <2>4 DEF CountWrites
<1>18. CASE StartGivesUp
  <2>1. /\ daemon = "start" /\ probation.installed # None
        /\ probation.starts = ProbationStarts /\ ~watched
        /\ UNCHANGED <<released, disk, probation, image, watched, apply, history, reboots>>
        /\ daemon' # "record" /\ Held' = Held
    BY <1>18, SMTT(90) DEF StartGivesUp, TriesLeft
  <2>2. CASE /\ UNCHANGED refused
             /\ \/ /\ RunsAsPrevious /\ daemon' = "stage"
                   /\ IF probation.installed \in Refused THEN UNCHANGED failures ELSE Fails
                \/ Fails /\ RunsAsPrevious /\ daemon' = "stuck"
                \/ ~RunsAsPrevious /\ UNCHANGED failures /\ daemon' = "stuck"
    <3>20. TheProcess'
      BY <2>1, <2>2, SMTT(90) DEF RunsAsPrevious
    <3>21. TheTarget'
      BY <2>1, <2>2, SMTT(90) DEF RunsAsPrevious
    <3>22. InHand'
      BY <2>1, <2>2, SMTT(90) DEF RunsAsPrevious
    <3>23. OnTrial'
      BY <2>1, <2>2, SMTT(90) DEF RunsAsPrevious
    <3>24. WhatIsWhere'
      BY <2>1, <2>2, SMTT(90) DEF RunsAsPrevious
    <3>25. ThereIsABinary'
      BY <2>1, <2>2, SMTT(90) DEF RunsAsPrevious
    <3>26. StillTried'
      BY <2>1, <2>2, SMTT(90) DEF RunsAsPrevious
    <3>27. NobodyIsBlamed'
      <4>1. Grows
        BY <2>1, <2>2 DEF Grows
      <4>2. Charged => Charged'
        BY <2>1, <4>1, ChargedKept, Zenon
      <4>3. daemon' \in RollingBackFrom \cup {"refuse"} => disk["old"] = Held.previous
        BY <2>1, <2>2 DEF RunsAsPrevious
      <4> QED
        BY <2>1, <4>2, <4>3
    <3>28. RollbackIsTheRightOne'
      BY <2>1, <2>2, SMTT(90) DEF RunsAsPrevious
    <3>29. InstalledBefore'
      BY <2>1, <2>2, SMTT(90) DEF RunsAsPrevious
    <3>30. FairTrial'
      BY <2>1, <2>2, SMTT(90) DEF RunsAsPrevious
    <3>31. WayBackInHand'
      BY <2>1, <2>2, SMTT(90) DEF RunsAsPrevious
    <3> QED
      BY <3>20, <3>21, <3>22, <3>23, <3>24, <3>25, <3>26, <3>27, <3>28, <3>29, <3>30,
         <3>31
  <2>3. CASE /\ RunsAsPrevious /\ UNCHANGED failures /\ daemon' = "refuse"
             /\ probation.installed \notin Refused
             /\ refused' = <<>> /\ verdict' = RefusedWith(probation.installed)
    <3>1. probation.installed \in Verdict' /\ Verdict' \subseteq Refused \cup {probation.installed}
      BY <2>1, <2>3, RefusedWithKeeps
    <3>2. Refused' = {}
      BY <2>3 DEF Refused
    <3>3. /\ disk["exe"] # None /\ disk["exe"] = image /\ disk["old"] = probation.previous
          /\ \A v \in Refused : v < probation.installed
      BY <2>1, <2>3 DEF RunsAsPrevious
    <3>20. TheProcess'
      BY <1>1, <2>1, <2>3, <3>1, <3>2, <3>3, SMTT(90)
    <3>21. TheTarget'
      BY <1>1, <2>1, <2>3, <3>1, <3>2, <3>3, SMTT(90)
    <3>4. probation.installed \notin Bad => reboots + failures >= ProbationStarts
      BY <2>1, <3>3
    <3>5. \A v \in Verdict' \ Bad : reboots + failures >= ProbationStarts
      BY <3>1, <3>4
    <3>6. \A v \in Verdict' : v <= probation.installed
      <4>1. probation.installed \in Version
        BY <2>1
      <4>2. \A v \in Refused : v <= probation.installed
        BY <1>1, <3>3, <4>1
      <4> QED
        BY <3>1, <4>1, <4>2
    <3>22. InHand'
      BY <2>1, <2>3, <3>1, <3>5, <3>6
    <3>23. OnTrial'
      BY <1>1, <2>1, <2>3, <3>1, <3>2, <3>3, SMTT(90)
    <3>24. WhatIsWhere'
      BY <1>1, <2>1, <2>3, <3>1, <3>2, <3>3, SMTT(90)
    <3>25. ThereIsABinary'
      BY <1>1, <2>1, <2>3, <3>1, <3>2, <3>3, SMTT(90)
    <3>26. StillTried'
      BY <1>1, <2>1, <2>3, <3>1, <3>2, <3>3, SMTT(90)
    <3>27. NobodyIsBlamed'
      BY <1>1, <2>1, <2>3, <3>1, <3>2, <3>3, SMTT(90)
    <3>28. RollbackIsTheRightOne'
      BY <1>1, <2>1, <2>3, <3>1, <3>2, <3>3, SMTT(90)
    <3>29. InstalledBefore'
      BY <1>1, <2>1, <2>3, <3>1, <3>2, <3>3, SMTT(90)
    <3>30. FairTrial'
      BY <1>1, <2>1, <2>3, <3>1, <3>2, <3>3, SMTT(90)
    <3>31. WayBackInHand'
      BY <1>1, <2>1, <2>3, <3>1, <3>2, <3>3, SMTT(90)
    <3> QED
      BY <3>20, <3>21, <3>22, <3>23, <3>24, <3>25, <3>26, <3>27, <3>28, <3>29, <3>30,
         <3>31
  <2> QED
    BY <1>18, <2>2, <2>3 DEF StartGivesUp
<1>33. CASE RefuseWrites
  <2>1. /\ daemon = "refuse" /\ daemon' = "stage" /\ ~watched
        /\ UNCHANGED <<released, disk, probation, image, watched, apply, history, reboots>>
        /\ Held' = Held /\ Held = probation
    BY <1>33 DEF RefuseWrites
  <2>2. CASE refused' = verdict /\ UNCHANGED failures
    <3>1. Refused' = Verdict /\ Verdict \subseteq Version
      BY <2>2 DEF Refused, Verdict
    <3>2. probation.installed \in Version /\ probation.installed <= released
      BY <2>1
    <3>3. \A v \in Refused' : v <= probation.installed /\ v <= released
      BY <2>1, <3>1, <3>2
    <3>20. TheProcess'
      BY <1>1, <2>1, <2>2, <3>1, SMTT(90)
    <3>21. TheTarget'
      BY <2>1, <2>2, <3>3
    <3>22. InHand'
      BY <1>1, <2>1, <2>2, <3>1, SMTT(90)
    <3>23. OnTrial'
      BY <1>1, <2>1, <2>2, <3>1, SMTT(90)
    <3>24. WhatIsWhere'
      BY <1>1, <2>1, <2>2, <3>1, SMTT(90)
    <3>25. ThereIsABinary'
      BY <1>1, <2>1, <2>2, <3>1, SMTT(90)
    <3>26. StillTried'
      BY <1>1, <2>1, <2>2, <3>1, SMTT(90)
    <3>27. NobodyIsBlamed'
      BY <1>1, <2>1, <2>2, <3>1, SMTT(90)
    <3>28. RollbackIsTheRightOne'
      BY <1>1, <2>1, <2>2, <3>1, SMTT(90)
    <3>29. InstalledBefore'
      <4> SUFFICES ASSUME failures = 0
                   PROVE  \A v \in Bad : /\ installs[v] <= 1
                                         /\ installs[v] = 1 =>
                                               v \in Refused' \/ v < released \/ disk["exe"] = v
        BY <2>1, <2>2
      <4>1. Refused = {}
        BY <2>1 DEF Refused
      <4> QED
        BY <2>1, <2>2, <4>1
    <3>30. FairTrial'
      BY <1>1, <2>1, <2>2, <3>1, SMTT(90)
    <3>31. WayBackInHand'
      BY <1>1, <2>1, <2>2, <3>1, SMTT(90)
    <3> QED
      BY <3>20, <3>21, <3>22, <3>23, <3>24, <3>25, <3>26, <3>27, <3>28, <3>29, <3>30,
         <3>31
  <2>3. CASE UNCHANGED refused /\ Fails
    <3>20. TheProcess'
      BY <2>1, <2>3, SMTT(90)
    <3>21. TheTarget'
      BY <2>1, <2>3, SMTT(90)
    <3>22. InHand'
      BY <2>1, <2>3, SMTT(90)
    <3>23. OnTrial'
      BY <2>1, <2>3, SMTT(90)
    <3>24. WhatIsWhere'
      BY <2>1, <2>3, SMTT(90)
    <3>25. ThereIsABinary'
      BY <2>1, <2>3, SMTT(90)
    <3>26. StillTried'
      BY <2>1, <2>3, SMTT(90)
    <3>27. NobodyIsBlamed'
      BY <2>1, <2>3, SMTT(90)
    <3>28. RollbackIsTheRightOne'
      BY <2>1, <2>3, SMTT(90)
    <3>29. InstalledBefore'
      BY <2>1, <2>3, SMTT(90)
    <3>30. FairTrial'
      BY <2>1, <2>3, SMTT(90)
    <3>31. WayBackInHand'
      BY <2>1, <2>3, SMTT(90)
    <3> QED
      BY <3>20, <3>21, <3>22, <3>23, <3>24, <3>25, <3>26, <3>27, <3>28, <3>29, <3>30,
         <3>31
  <2> QED
    BY <1>33, <2>2, <2>3 DEF RefuseWrites
<1>19. CASE Rollback("stage", "old", "back", "aside")
  <2>1. /\ daemon = "stage" /\ daemon' = "aside" /\ disk["old"] # None
        /\ disk'["back"] = disk["old"] /\ disk'["old"] = None
        /\ disk'["exe"] = disk["exe"] /\ disk'["new"] = disk["new"]
        /\ UNCHANGED <<released, probation, refused, image, watched, tally, verdict, apply,
                       history, reboots, failures>>
    BY <1>19 DEF Rollback, Renamed
  <2>20. TheProcess'
    BY <2>1, SMTT(90)
  <2>21. TheTarget'
    BY <2>1, SMTT(90)
  <2>22. InHand'
    BY <2>1, SMTT(90)
  <2>23. OnTrial'
    BY <2>1, SMTT(90)
  <2>24. WhatIsWhere'
    BY <2>1, SMTT(90)
  <2>25. ThereIsABinary'
    BY <2>1, SMTT(90)
  <2>26. StillTried'
    BY <2>1, SMTT(90)
  <2>27. NobodyIsBlamed'
    BY <2>1, SMTT(90)
  <2>28. RollbackIsTheRightOne'
    BY <2>1, SMTT(90)
  <2>29. InstalledBefore'
    BY <2>1, SMTT(90)
  <2>30. FairTrial'
    BY <2>1, SMTT(90)
  <2>31. WayBackInHand'
    BY <2>1, SMTT(90)
  <2> QED
    BY <2>20, <2>21, <2>22, <2>23, <2>24, <2>25, <2>26, <2>27, <2>28, <2>29, <2>30,
       <2>31
<1>20. CASE Rollback("aside", "exe", "old", "place")
  <2>1. /\ daemon = "aside" /\ daemon' = "place" /\ disk["exe"] # None
        /\ disk'["old"] = disk["exe"] /\ disk'["exe"] = None
        /\ disk'["back"] = disk["back"] /\ disk'["new"] = disk["new"]
        /\ UNCHANGED <<released, probation, refused, image, watched, tally, verdict, apply,
                       history, reboots, failures>>
    BY <1>20 DEF Rollback, Renamed
  <2>20. TheProcess'
    BY <2>1, SMTT(90)
  <2>21. TheTarget'
    BY <2>1, SMTT(90)
  <2>22. InHand'
    BY <2>1, SMTT(90)
  <2>23. OnTrial'
    BY <2>1, SMTT(90)
  <2>24. WhatIsWhere'
    BY <2>1, SMTT(90)
  <2>25. ThereIsABinary'
    BY <2>1, SMTT(90)
  <2>26. StillTried'
    BY <2>1, SMTT(90)
  <2>27. NobodyIsBlamed'
    BY <2>1, SMTT(90)
  <2>28. RollbackIsTheRightOne'
    BY <2>1, SMTT(90)
  <2>29. InstalledBefore'
    BY <2>1, SMTT(90)
  <2>30. FairTrial'
    BY <2>1, SMTT(90)
  <2>31. WayBackInHand'
    BY <2>1, SMTT(90)
  <2> QED
    BY <2>20, <2>21, <2>22, <2>23, <2>24, <2>25, <2>26, <2>27, <2>28, <2>29, <2>30,
       <2>31
<1>21. CASE Rollback("place", "back", "exe", "back")
  <2>1. /\ daemon = "place" /\ daemon' = "back" /\ disk["back"] # None
        /\ disk'["exe"] = disk["back"] /\ disk'["back"] = None
        /\ disk'["old"] = disk["old"] /\ disk'["new"] = disk["new"]
        /\ UNCHANGED <<released, probation, refused, image, watched, tally, verdict, apply,
                       history, reboots, failures>>
    BY <1>21 DEF Rollback, Renamed
  <2>20. TheProcess'
    BY <2>1, SMTT(90)
  <2>21. TheTarget'
    BY <2>1, SMTT(90)
  <2>22. InHand'
    BY <2>1, SMTT(90)
  <2>23. OnTrial'
    BY <2>1, SMTT(90)
  <2>24. WhatIsWhere'
    BY <2>1, SMTT(90)
  <2>25. ThereIsABinary'
    BY <2>1, SMTT(90)
  <2>26. StillTried'
    BY <2>1, SMTT(90)
  <2>27. NobodyIsBlamed'
    BY <2>1, SMTT(90)
  <2>28. RollbackIsTheRightOne'
    BY <2>1, SMTT(90)
  <2>29. InstalledBefore'
    BY <2>1, SMTT(90)
  <2>30. FairTrial'
    BY <2>1, SMTT(90)
  <2>31. WayBackInHand'
    BY <2>1, SMTT(90)
  <2> QED
    BY <2>20, <2>21, <2>22, <2>23, <2>24, <2>25, <2>26, <2>27, <2>28, <2>29, <2>30,
       <2>31
<1>22. CASE RollbackFails
  <2>1. /\ daemon' = "stuck"
        /\ UNCHANGED <<released, probation, refused, image, watched, tally, verdict, apply,
                       history, reboots>>
        /\ disk'["new"] = disk["new"]
    BY <1>22 DEF RollbackFails, Renamed, Undone, UndoneWithout
  <2>2. \/ /\ daemon = "stage" /\ disk' = disk
           /\ disk["old"] # None => failures' = failures + 1
        \/ /\ daemon = "aside"
           /\ \/ disk["exe"] # None /\ disk'["exe"] = disk["exe"]
              \/ disk'["exe"] = disk["exe"] /\ failures' = failures
           /\ disk["exe"] # None => failures' \in {failures + 1, failures + 2}
        \/ /\ daemon = "place"
           /\ \/ disk'["exe"] = disk["old"] /\ failures' \in {failures + 1}
              \/ disk'["exe"] = disk["old"] /\ failures' = failures /\ disk["back"] = None
              \/ disk'["exe"] = disk["exe"] /\ failures' = failures + 2
    BY <1>22, SMTT(60) DEF RollbackFails, Renamed, Undone, UndoneWithout
  <2>3. failures' \in {failures, failures + 1, failures + 2}
    BY <1>22 DEF RollbackFails, Undone, UndoneWithout
  <2>20. TheProcess'
    BY <2>1, <2>2, <2>3, SMTT(90)
  <2>21. TheTarget'
    BY <2>1, <2>2, <2>3, SMTT(90)
  <2>22. InHand'
    BY <2>1, <2>2, <2>3, SMTT(90)
  <2>23. OnTrial'
    BY <2>1, <2>2, <2>3, SMTT(90)
  <2>24. WhatIsWhere'
    BY <2>1, <2>2, <2>3, SMTT(90)
  <2>25. ThereIsABinary'
    BY <2>1, <2>2, <2>3, SMTT(90)
  <2>26. StillTried'
    BY <2>1, <2>2, <2>3, SMTT(90)
  <2>27. NobodyIsBlamed'
    BY <2>1, <2>2, <2>3, SMTT(90)
  <2>28. RollbackIsTheRightOne'
    BY <2>1, <2>2, <2>3, SMTT(90)
  <2>29. InstalledBefore'
    BY <2>1, <2>2, <2>3, SMTT(90)
  <2>30. FairTrial'
    <3>1. Refused' = Refused /\ reboots' = reboots
      BY <2>1
    <3>3. reboots + failures >= ProbationStarts => reboots' + failures' >= ProbationStarts
      BY <2>3, <3>1, MoreIsEnough, Zenon
    <3> QED
      BY <3>1, <3>3
  <2>31. WayBackInHand'
    BY <2>1, <2>2, <2>3, SMTT(90)
  <2> QED
    BY <2>20, <2>21, <2>22, <2>23, <2>24, <2>25, <2>26, <2>27, <2>28, <2>29, <2>30,
       <2>31
<1>23. CASE GotStuck
  <2>1. /\ daemon = "stuck" /\ daemon' = "wire"
        /\ \/ probation' = NoProbation /\ failures' = failures
           \/ probation' = probation /\ failures' = failures + 1
        /\ UNCHANGED <<released, disk, refused, image, watched, tally, verdict, apply,
                       history, reboots>>
    BY <1>23 DEF GotStuck, ClearProbation
  <2>20. TheProcess'
    BY <2>1, SMTT(90)
  <2>21. TheTarget'
    BY <2>1, SMTT(90)
  <2>22. InHand'
    BY <2>1, SMTT(90)
  <2>23. OnTrial'
    BY <2>1, SMTT(90)
  <2>24. WhatIsWhere'
    BY <2>1, SMTT(90)
  <2>25. ThereIsABinary'
    BY <2>1, SMTT(90)
  <2>26. StillTried'
    BY <2>1, SMTT(90)
  <2>27. NobodyIsBlamed'
    BY <2>1, SMTT(90)
  <2>28. RollbackIsTheRightOne'
    BY <2>1, SMTT(90)
  <2>29. InstalledBefore'
    BY <2>1, InstalledKept, SMTT(60) DEF Installing
  <2>30. FairTrial'
    BY <2>1, SMTT(90)
  <2>31. WayBackInHand'
    BY <2>1, SMTT(90)
  <2> QED
    BY <2>20, <2>21, <2>22, <2>23, <2>24, <2>25, <2>26, <2>27, <2>28, <2>29, <2>30,
       <2>31
<1>24. CASE WentBack
  <2>1. /\ daemon = "back" /\ daemon' = "off" /\ image' = None /\ ~watched'
        /\ \/ probation' = NoProbation /\ failures' = failures
           \/ probation' = probation /\ failures' = failures + 1
        /\ UNCHANGED <<released, disk, refused, apply, history, reboots>>
    BY <1>24 DEF WentBack, ClearProbation, DaemonStops
  <2>20. TheProcess'
    BY <2>1, SMTT(90)
  <2>21. TheTarget'
    BY <2>1, SMTT(90)
  <2>22. InHand'
    BY <2>1, SMTT(90)
  <2>23. OnTrial'
    BY <2>1, SMTT(90)
  <2>24. WhatIsWhere'
    BY <2>1, SMTT(90)
  <2>25. ThereIsABinary'
    BY <2>1, SMTT(90)
  <2>26. StillTried'
    BY <2>1, SMTT(90)
  <2>27. NobodyIsBlamed'
    BY <2>1, SMTT(90)
  <2>28. RollbackIsTheRightOne'
    BY <2>1, SMTT(90)
  <2>29. InstalledBefore'
    BY <2>1, InstalledKept, SMTT(60) DEF Installing
  <2>30. FairTrial'
    BY <2>1, SMTT(90)
  <2>31. WayBackInHand'
    BY <2>1, SMTT(90)
  <2> QED
    BY <2>20, <2>21, <2>22, <2>23, <2>24, <2>25, <2>26, <2>27, <2>28, <2>29, <2>30,
       <2>31
<1>25. CASE WireSucceeds
  <2>1. /\ daemon = "wire" /\ daemon' = "up" /\ image \notin Bad
        /\ UNCHANGED <<released, files, image, watched, tally, verdict, apply, history,
                       reboots, failures>>
    BY <1>25 DEF WireSucceeds
  <2>20. TheProcess'
    BY <2>1, SMTT(90)
  <2>21. TheTarget'
    BY <2>1, SMTT(90)
  <2>22. InHand'
    BY <2>1, SMTT(90)
  <2>23. OnTrial'
    BY <2>1, SMTT(90)
  <2>24. WhatIsWhere'
    BY <2>1, SMTT(90)
  <2>25. ThereIsABinary'
    BY <2>1, SMTT(90)
  <2>26. StillTried'
    BY <2>1, SMTT(90)
  <2>27. NobodyIsBlamed'
    BY <2>1, SMTT(90)
  <2>28. RollbackIsTheRightOne'
    BY <2>1, SMTT(90)
  <2>29. InstalledBefore'
    BY <2>1, InstalledKept, SMTT(60) DEF Installing
  <2>30. FairTrial'
    BY <2>1, SMTT(90)
  <2>31. WayBackInHand'
    BY <2>1, SMTT(90)
  <2> QED
    BY <2>20, <2>21, <2>22, <2>23, <2>24, <2>25, <2>26, <2>27, <2>28, <2>29, <2>30,
       <2>31
<1>26. CASE WireFails
  <2>1. /\ daemon = "wire" /\ daemon' = "off" /\ image' = None /\ ~watched'
        /\ failures' = failures \/ failures' = failures + 1
        /\ image \notin Bad => failures' = failures + 1
        /\ UNCHANGED <<released, files, apply, history, reboots>>
    BY <1>26, SMTT(60) DEF WireFails, DaemonStops
  <2>20. TheProcess'
    BY <2>1, SMTT(90)
  <2>21. TheTarget'
    BY <2>1, SMTT(90)
  <2>22. InHand'
    BY <2>1, SMTT(90)
  <2>23. OnTrial'
    BY <2>1, SMTT(90)
  <2>24. WhatIsWhere'
    BY <2>1, SMTT(90)
  <2>25. ThereIsABinary'
    BY <2>1, SMTT(90)
  <2>26. StillTried'
    BY <2>1, SMTT(90)
  <2>27. NobodyIsBlamed'
    BY <2>1, SMTT(90)
  <2>28. RollbackIsTheRightOne'
    BY <2>1, SMTT(90)
  <2>29. InstalledBefore'
    BY <2>1, InstalledKept, SMTT(60) DEF Installing
  <2>30. FairTrial'
    BY <2>1, SMTT(90)
  <2>31. WayBackInHand'
    BY <2>1, SMTT(90)
  <2> QED
    BY <2>20, <2>21, <2>22, <2>23, <2>24, <2>25, <2>26, <2>27, <2>28, <2>29, <2>30,
       <2>31
<1>27. CASE Release
  <2>1. /\ released \in Nat /\ released' = released + 1
        /\ UNCHANGED <<files, process, apply, history, reboots, failures>>
        /\ Held' = Held /\ Verdict' = Verdict /\ Counted' = Counted /\ TriesLeft' = TriesLeft
    BY <1>27 DEF Release, Held, Verdict, Counted, TriesLeft
  <2>2. \A v \in Version : v <= released => v <= released'
    BY <2>1
  <2>3. target["daemon"] \in Nat
    BY SMTT(60)
  <2>11. TheProcess'
    BY <1>1, <2>1, <2>2
  <2>12. TheTarget'
    <3>1. \A v \in Refused' : v <= released'
      BY <1>1, <2>1, <2>2
    <3>2. At' = At /\ target' = target /\ current' = current /\ image' = image
      BY <2>1
    <3>3. Refused' = Refused
      BY <2>1
    <3>4. target["daemon"] <= released => target["daemon"] <= released'
      BY <2>1, <2>3
    <3> QED
      BY <3>1, <3>2, <3>3, <3>4
  <2>13. InHand' /\ OnTrial'
    <3>1. Held.installed \in Nat
      BY SMTT(90) DEF Held
    <3>2. OnTrial'
      <4>1. Held.installed <= released => Held.installed <= released'
        BY <2>1, <3>1
      <4> QED
        BY <2>1, <4>1
    <3>3. InHand'
      BY <2>1
    <3> QED
      BY <3>2, <3>3
  <2>14. WhatIsWhere'
    BY <1>1, <2>1, <2>2
  <2>15. ThereIsABinary'
    BY <1>1, <2>1, <2>2
  <2>16. StillTried'
    BY <1>1, <2>1, <2>2
  <2>17. NobodyIsBlamed'
    <3>1. Charged => Charged'
      BY <2>1, ChargedKept DEF Grows
    <3> QED
      BY <2>1, <3>1
  <2>18. RollbackIsTheRightOne'
    BY <1>1, <2>1, <2>2
  <2>19. InstalledBefore'
    BY <1>1, <2>1, <2>2
  <2>20. FairTrial'
    BY <1>1, <2>1, <2>2
  <2>21. WayBackInHand'
    BY <1>1, <2>1, <2>2
  <2> QED
    BY <2>11, <2>12, <2>13, <2>14, <2>15, <2>16, <2>17, <2>18, <2>19, <2>20, <2>21
<1>28. CASE Reboot
  <2>1. /\ daemon' = "off" /\ image' = None /\ ~watched' /\ At' = "idle"
        /\ torn' = (torn \/ At \in {"aside", "place", "begin"}
                         \/ daemon \in RollingBackFrom \cup {"stuck"})
        /\ reboots' = reboots + 1
        /\ UNCHANGED <<released, disk, probation, refused, installs, failures>>
    BY <1>28 DEF Reboot, DaemonStops
  <2>11. TheProcess'
    BY <2>1
  <2>12. TheTarget' /\ InHand'
    BY <2>1
  <2>13. OnTrial'
    BY <2>1
  <2>14. WhatIsWhere'
    BY <2>1
  <2>15. ThereIsABinary'
    BY <2>1
  <2>16. StillTried'
    BY <2>1
  <2>17. NobodyIsBlamed'
    <3>1. CASE daemon = "record"
      BY <2>1, <3>1
    <3>2. CASE daemon # "record"
      <4>1. Held' = Held
        BY <2>1, <3>2
      <4>2. Charged => Charged'
        BY <2>1, <4>1, RebootCharged, Zenon
      <4> QED
        BY <2>1, <4>1, <4>2
    <3> QED
      BY <3>1, <3>2
  <2>18. RollbackIsTheRightOne'
    BY <2>1
  <2>19. InstalledBefore'
    BY <2>1
  <2>20. FairTrial'
    BY <2>1
  <2>21. WayBackInHand'
    <3>1. CASE daemon = "record"
      BY <2>1, <3>1
    <3>2. CASE daemon # "record"
      <4>1. Held' = Held
        BY <2>1, <3>2
      <4>2. ~torn' => ~torn /\ ~Swapping /\ ~RollingBack
        BY <2>1
      <4> QED
        BY <2>1, <4>1, <4>2
    <3> QED
      BY <3>1, <3>2
  <2> QED
    BY <2>11, <2>12, <2>13, <2>14, <2>15, <2>16, <2>17, <2>18, <2>19, <2>20, <2>21
<1>29. CASE Rests
  BY <1>29, SMTT(60) DEF Rests, vars
<1> QED
  BY <1>5, <1>6, <1>7, <1>8, <1>9, <1>10, <1>11, <1>12, <1>13, <1>14, <1>15, <1>16, <1>17,
     <1>18, <1>19, <1>20, <1>21, <1>22, <1>23, <1>24, <1>25, <1>26, <1>27, <1>28, <1>29,
     <1>30, <1>31, <1>32, <1>33
     DEF Moves, ApplyStep, DaemonStep, RollingBackStep

LEMMA DaemonInvInit ==
    ASSUME Init, "daemon" \in Actor
    PROVE  DaemonInv
<1> USE UpdateAssumption DEF Init, NoProbation, None
<1>1. At = "idle" /\ Refused = {}
  BY DEF At, Refused
<1>2. OnlyTheDaemon /\ TheProcess /\ TheTarget /\ InHand /\ OnTrial
  BY <1>1 DEF OnlyTheDaemon, TheProcess, TheTarget, InHand, OnTrial, Held
<1>3. WhatIsWhere /\ ThereIsABinary /\ StillTried
  BY <1>1 DEF WhatIsWhere, ThereIsABinary, StillTried, RollingBackFrom, Held
<1>4. NobodyIsBlamed /\ RollbackIsTheRightOne /\ FairTrial /\ WayBackInHand
  BY <1>1 DEF NobodyIsBlamed, RollbackIsTheRightOne, FairTrial, WayBackInHand, Held
<1>5. InstalledBefore
  BY <1>1 DEF InstalledBefore, Version
<1> QED
  BY <1>2, <1>3, <1>4, <1>5 DEF DaemonInv

LEMMA DaemonInvHolds == MCSpec => []Inv
<1>1. MCInit => Inv
  BY DaemonInvInit DEF MCInit, Inv
<1>2. ASSUME TypeOK, Inv, [MCNext]_<<vars, updater>> PROVE Inv'
  <2>1. CASE UNCHANGED <<vars, updater>>
    BY <1>2, <2>1 DEF vars, Inv, DaemonInv, OnlyTheDaemon, TheProcess, TheTarget, OnTrial,
         WhatIsWhere, ThereIsABinary, StillTried, NobodyIsBlamed, Charged,
         RollbackIsTheRightOne, InstalledBefore, FairTrial, WayBackInHand, At, Refused,
         Swapping, RollingBack, InHand, Held, Verdict, TriesLeft, Counted
  <2>2. CASE MCNext
    <3> SUFFICES ASSUME updater = "daemon" PROVE DaemonInv'
      BY <1>2, <2>2 DEF Inv, MCNext
    <3>1. Typed /\ DaemonInv /\ "daemon" \in Actor
      BY <1>2, TypesNamed DEF Inv
    <3>2. Moves /\ OnlyTheDaemon'
      BY <2>2, <3>1, OnlyTheDaemonMoves DEF DaemonInv
    <3> QED
      BY <3>1, <3>2, DaemonInvStep
  <2> QED
    BY <1>2, <2>1, <2>2
<1> QED
  BY <1>1, <1>2, Types, PTL DEF MCSpec

-----------------------------------------------------------------------------
(* The machine that is updated by another process, or by the button.       *)

\* Nobody else calls Apply.
OnlyTheUpdater == \A a \in Actor \ {updater} : step[a] = "idle"

\* While nothing fails and no swap is cut short, the path is empty only between the
\* two renames of a swap or of a rollback, and what is to fill it is still there:
\* the two may be under way at once.
NothingIsMissing ==
    failures = 0 /\ ~torn =>
        /\ disk["exe"] = None => step[updater] = "place" \/ daemon = "place"
        /\ step[updater] \in {"clear", "aside", "place"} => disk["new"] # None
        /\ daemon \in {"aside", "place"} => disk["back"] # None
        /\ step[updater] \in {"download", "smoke"} => target[updater] # None

UpdaterInv == OnlyTheUpdater /\ NothingIsMissing

AnyInv ==
    /\ updater \in Actor
    /\ updater # "daemon" => UpdaterInv

\* What such an updater does.
UpdaterMoves ==
    \/ Check(updater) \/ ApplyStep(updater) \/ DaemonStep
    \/ updater = "run" /\ (RunWithoutUpdate \/ RunSettles)
    \/ Release \/ Reboot \/ Rests

LEMMA OnlyTheUpdaterMoves ==
    ASSUME Typed, updater \in Actor, OnlyTheUpdater, MCNext
    PROVE  UpdaterMoves /\ OnlyTheUpdater'
<1> USE DEF Typed, OnlyTheUpdater, Goes
<1>1. \A a \in Actor \ {updater} : step[a] = "idle" /\ step'[a] = "idle"
  BY DEF MCNext
<1>2. ASSUME NEW a \in Actor, Check(a) \/ ApplyStep(a)
      PROVE  a = updater
  <2>1. Check(a) => step'[a] = "download"
    BY DEF Check
  <2>2. ApplyStep(a) => step[a] # "idle"
    BY DEF ApplyStep, Download, Smoke, Clear, Aside, Place, Begin, RecordTrial,
                Tidy
  <2> QED
    BY <1>1, <1>2, <2>1, <2>2
<1>3. RunWithoutUpdate \/ RunSettles => updater = "run"
  BY <1>1 DEF RunWithoutUpdate, RunSettles
<1>4. UpdaterMoves
  BY <1>2, <1>3 DEF MCNext, Next, UpdaterMoves
<1> QED
  BY <1>1, <1>4 DEF MCNext

LEMMA NothingIsMissingStep ==
    ASSUME Typed, updater \in Actor, updater # "daemon", updater' = updater,
           UpdaterInv, UpdaterMoves
    PROVE  NothingIsMissing'
<1> USE UpdateAssumption, NumbersOfVersions
    DEF Typed, Disk, Slot, files, process, apply, history, Goes, Fails, Step, UpdaterInv,
        OnlyTheUpdater, NothingIsMissing
<1>1. CASE Check(updater)
  BY <1>1, SMTT(30) DEF Check
<1>2. CASE Download(updater)
  BY <1>2, SMTT(30) DEF Download, Removed
<1>3. CASE Smoke(updater)
  BY <1>3, SMTT(30) DEF Smoke
<1>4. CASE Clear(updater)
  BY <1>4, SMTT(30) DEF Clear, Removed
<1>5. CASE Aside(updater)
  BY <1>5, SMTT(30) DEF Aside, Renamed
<1>6. CASE Place(updater)
  BY <1>6, SMTT(30) DEF Place, Renamed, Undone
<1>7. CASE Begin(updater)
  BY <1>7, SMTT(60) DEF Begin
<1>20. CASE RecordTrial(updater)
  BY <1>20, SMTT(60) DEF RecordTrial
<1>8. CASE Tidy(updater)
  BY <1>8, SMTT(30) DEF Tidy, Removed
<1>9. CASE ServiceStarts \/ StartOnProbation \/ CountOpens \/ CountWrites \/ StartGivesUp
           \/ RefuseWrites \/ GotStuck \/ WireSucceeds \/ WireFails
  <2>1. CASE ServiceStarts
    BY <2>1, SMTT(30) DEF ServiceStarts
  <2>2. CASE StartOnProbation
    BY <2>2, SMTT(30) DEF StartOnProbation
  <2>5. CASE CountOpens \/ CountWrites
    BY <2>5, SMTT(60) DEF CountOpens, CountWrites
  <2>6. CASE StartGivesUp
    BY <2>6, SMTT(60) DEF StartGivesUp
  <2>7. CASE RefuseWrites
    BY <2>7, SMTT(30) DEF RefuseWrites
  <2>3. CASE GotStuck \/ WireSucceeds
    BY <2>3, SMTT(30) DEF GotStuck, ClearProbation, WireSucceeds
  <2>4. CASE WireFails
    BY <2>4, SMTT(30) DEF WireFails, DaemonStops
  <2> QED
    BY <1>9, <2>1, <2>2, <2>3, <2>4, <2>5, <2>6, <2>7
<1>10. CASE StartNothing
  BY <1>10, SMTT(30) DEF StartNothing, Removed
<1>11. CASE RollingBackStep
  BY <1>11, SMTT(30) DEF RollingBackStep, Rollback, Renamed
<1>12. CASE RollbackFails
  BY <1>12, SMTT(30) DEF RollbackFails, Renamed, Undone, UndoneWithout
<1>13. CASE WentBack
  BY <1>13, SMTT(30) DEF WentBack, ClearProbation, DaemonStops
<1>14. CASE Settle
  BY <1>14, SMTT(30) DEF Settle, Keep, Removed
<1>15. CASE Exit
  <2>1. step["daemon"] = "idle"
    BY <1>15 DEF Exit
  <2> QED
    BY <1>15, <2>1 DEF Exit
<1>16. CASE RunWithoutUpdate /\ updater = "run"
  BY <1>16, SMTT(30) DEF RunWithoutUpdate
<1>17. CASE RunSettles /\ updater = "run"
  BY <1>17, SMTT(30) DEF RunSettles, Keep, Removed
<1>18. CASE Release \/ Rests
  BY <1>18, SMTT(60) DEF Release, Rests, vars
<1>19. CASE Reboot
  <2>1. step[updater] = "place" => Swapping
    BY DEF Swapping
  <2>2. \A a \in Actor : step'[a] = "idle"
    BY <1>19 DEF Reboot
  <2>3. ~torn' => ~torn /\ step[updater] # "place" /\ daemon # "place"
    BY <1>19, <2>1, ZenonT(60) DEF Reboot, RollingBack
  <2>4. daemon' = "off" /\ disk' = disk /\ failures' = failures
    BY <1>19 DEF Reboot, DaemonStops
  <2> QED
    BY <2>2, <2>3, <2>4, SMTT(30)
<1> QED
  BY <1>1, <1>2, <1>3, <1>4, <1>5, <1>6, <1>7, <1>8, <1>9, <1>10, <1>11, <1>12, <1>13, <1>14,
     <1>15, <1>16, <1>17, <1>18, <1>19, <1>20 DEF UpdaterMoves, ApplyStep, DaemonStep

LEMMA AnyInvHolds == MCSpec => []AnyInv
<1>1. MCInit => AnyInv
  BY UpdateAssumption DEF MCInit, Init, AnyInv, UpdaterInv, OnlyTheUpdater, NothingIsMissing,
                          None
<1>2. ASSUME TypeOK, AnyInv, [MCNext]_<<vars, updater>> PROVE AnyInv'
  <2>1. CASE UNCHANGED <<vars, updater>>
    BY <1>2, <2>1 DEF vars, AnyInv, UpdaterInv, OnlyTheUpdater, NothingIsMissing
  <2>2. CASE MCNext
    <3> SUFFICES ASSUME updater # "daemon" PROVE UpdaterInv'
      BY <1>2, <2>2 DEF AnyInv, MCNext
    <3>1. Typed /\ UpdaterInv /\ updater \in Actor /\ updater' = updater
      BY <1>2, <2>2, TypesNamed DEF AnyInv, MCNext
    <3>2. UpdaterMoves /\ OnlyTheUpdater'
      BY <2>2, <3>1, OnlyTheUpdaterMoves DEF UpdaterInv
    <3> QED
      BY <3>1, <3>2, NothingIsMissingStep DEF UpdaterInv
  <2> QED
    BY <1>2, <2>1, <2>2
<1> QED
  BY <1>1, <1>2, Types, PTL DEF MCSpec

-----------------------------------------------------------------------------
(* What follows.                                                           *)

\* A machine updated by its daemon can always go back from a version on
\* probation, whatever is interrupted between a start and the end of a trial.
THEOREM WayBackHolds == MCSpec => []DaemonHasAWayBack
<1>1. Inv => DaemonHasAWayBack
  BY DEF Inv, DaemonInv, InHand, WayBackInHand, WayBack, Held, NoProbation, DaemonHasAWayBack
<1> QED
  BY <1>1, DaemonInvHolds, PTL

\* It always has a binary, unless two file operations fail, or power does
\* half-way through a swap; and where another process updates it, unless one fails.
THEOREM BinaryHolds == MCSpec => []HasABinary
<1>1. ASSUME TypeOK, Inv, AnyInv PROVE HasABinary
  <2>1. CASE updater = "daemon"
    <3> SUFFICES ASSUME ~Swapping, ~RollingBack, ~torn, failures <= 1
                 PROVE  disk["exe"] # None
      BY <2>1 DEF HasABinary, AlwaysABinary
    <3>1. At # "place" /\ daemon # "place"
      BY <1>1, <2>1 DEF Swapping, RollingBack, At, Inv
    <3> QED
      BY <1>1, <2>1, <3>1 DEF Inv, DaemonInv, ThereIsABinary
  <2>2. CASE updater # "daemon"
    BY <1>1, <2>2 DEF AnyInv, UpdaterInv, NothingIsMissing, HasABinary, AlwaysABinary,
                      Swapping, RollingBack
  <2> QED
    BY <2>1, <2>2
<1> QED
  BY <1>1, Types, DaemonInvHolds, AnyInvHolds, PTL

\* It installs a bad release once at most, wherever the power fails.
THEOREM BadOnceHolds == MCSpec => []DaemonTriesTheBadOnce
<1>1. Inv => DaemonTriesTheBadOnce
  BY DEF Inv, DaemonInv, InstalledBefore, DaemonTriesTheBadOnce, BadIsInstalledOnce
<1> QED
  BY <1>1, DaemonInvHolds, PTL

\* It gives up on a version that works only after as many interruptions as a
\* version has starts, any number of which may be failed file operations.
THEOREM FairTrialHolds == MCSpec => []DaemonTriesFairly
<1>1. Inv => DaemonTriesFairly
  BY DEF Inv, DaemonInv, DaemonTriesFairly
<1> QED
  BY <1>1, DaemonInvHolds, PTL

=============================================================================
