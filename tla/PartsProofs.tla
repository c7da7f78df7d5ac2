---------------------------- MODULE PartsProofs ----------------------------
(***************************************************************************)
(* Theorems about four parts of a machine that share no state: its         *)
(* diagnostic reports, the counting of its folders, its copy of restic,    *)
(* and the taking over of an old backup.                                   *)
(***************************************************************************)
EXTENDS Diagnostics, Survey, ResticInstall, Adoption, TLAPS, FiniteSetTheorems,
        NaturalsInduction, WellFoundedInduction

-----------------------------------------------------------------------------
(***************************************************************************)
(* Diagnostics.  A report leaves the directory for a reason, and a crash   *)
(* loop does not fill the disk.                                            *)
(***************************************************************************)
\* What a process holds at each of its steps.
Held ==
    [step : {"idle"}] \cup [step : {"written"}, report : Report] \cup [step : {"trim"}]
    \cup [step : {"trimming"}, remove : SUBSET Report]
    \cup [step : {"reading"}, names : SUBSET Report, batch : SUBSET Report]
    \cup [step : {"sending", "remove"}, batch : (SUBSET Report) \ {{}}]

DiagTypes ==
    /\ at \in [Process -> Held]
    /\ files \subseteq stored /\ stored \subseteq Report
    /\ last \in 0..MaxReports /\ old \in Nat /\ untrimmed \in Nat
    /\ spoilt \in [Report -> {"no", "garbled", "unreadable", "forbidden"}]

Newer(n) == {s \in stored : s > n}

\* A report that is gone, or about to be removed, is one that may go.
Accounted ==
    /\ \A r \in stored \ files :
          \/ r \in heard \/ r <= old \/ spoilt[r] = "garbled"
          \/ Cardinality(Newer(r)) >= Keep
    /\ \A p \in Process : at[p].step = "trimming" =>
          \A n \in at[p].remove : Cardinality(Newer(n)) >= Keep
    /\ \A p \in Process : at[p].step = "remove" => Min(at[p].batch) \in heard

\* Whichever of the trims under way come to their end first, what they leave is
\* Keep reports, one for each process still to list or to remove, and one for
\* each that died there, or could not list, or left behind.
Trimming == {p \in Process : at[p].step = "trimming"}

Removing(Q) == UNION {at[q].remove : q \in Q}

Room ==
    /\ IsFiniteSet(Finishing)
    /\ \A Q \in SUBSET Trimming :
          Cardinality(files \ Removing(Q)) <= Keep + Cardinality(Finishing \ Q) + untrimmed

DiagInv == DiagTypes /\ Accounted /\ Room

LEMMA ReportsAreFinite ==
    ASSUME NEW S \in SUBSET Report
    PROVE  IsFiniteSet(S) /\ Cardinality(S) \in Nat
  <1>1. IsFiniteSet(Report)
    BY DiagnosticsAssumption, FS_Interval DEF Report
  <1> QED
    BY <1>1, FS_Subset, FS_CardinalityType

LEMMA OldestReport ==
    ASSUME NEW S \in SUBSET Report, S # {}
    PROVE  Min(S) \in S /\ \A n \in S : Min(S) <= n
  <1>1. S \in SUBSET Nat
    BY DEF Report
  <1>2. PICK m \in S : \A y \in S : ~ (<<y, m>> \in OpToRel(<, Nat))
    BY <1>1, WFMin, NatLessThanWellFounded, Zenon
  <1>3. \A y \in S : ~ (y < m)
    BY <1>1, <1>2, Zenon DEF OpToRel
  <1>4. \A y \in S : m <= y
    BY <1>1, <1>3
  <1> QED
    BY <1>4 DEF Min

\* A trim leaves at most Keep of the names it was given: were there more, the
\* oldest left would have Keep newer ones.
LEMMA TrimLeavesKeep ==
    ASSUME NEW names \in SUBSET Report
    PROVE  Cardinality(names \ Surplus(names)) <= Keep
  <1> DEFINE left == names \ Surplus(names)
  <1>1. left \in SUBSET Report /\ Cardinality(left) \in Nat /\ IsFiniteSet(left)
    BY ReportsAreFinite
  <1> SUFFICES ASSUME Cardinality(left) > Keep
               PROVE  FALSE
    BY <1>1, DiagnosticsAssumption
  <1>2. left # {}
    BY <1>1, FS_EmptySet, DiagnosticsAssumption
  <1>3. Min(left) \in left /\ \A n \in left : Min(left) <= n
    BY <1>1, <1>2, OldestReport
  <1> DEFINE above == {m \in names : m > Min(left)}
  <1>4. left \ {Min(left)} \in SUBSET above
    BY <1>1, <1>3 DEF Report
  <1>5. IsFiniteSet(above) /\ Cardinality(above) \in Nat
    BY ReportsAreFinite
  <1>6. Cardinality(left \ {Min(left)}) = Cardinality(left) - 1
    BY <1>1, <1>3, FS_RemoveElement
  <1>7. Cardinality(above) >= Keep
    <2> HIDE DEF left, above
    <2>1. Cardinality(left \ {Min(left)}) <= Cardinality(above)
      BY <1>4, <1>5, FS_Subset
    <2> QED
      BY <1>1, <1>5, <1>6, <2>1, DiagnosticsAssumption
  <1> QED
    BY <1>3, <1>7 DEF Surplus

\* A report that has enough newer ones keeps them: none is taken back.
LEMMA NewerOnlyGrow ==
    ASSUME DiagTypes, DiagTypes', stored \subseteq stored', NEW n
    PROVE  Cardinality(Newer(n)) >= Keep => Cardinality(Newer(n)') >= Keep
  <1>1. Newer(n) \in SUBSET Newer(n)'
    BY DEF Newer
  <1>2. /\ Newer(n) \in SUBSET Report
        /\ Newer(n)' \in SUBSET Report
    BY DEF Newer, DiagTypes
  <1>3. /\ IsFiniteSet(Newer(n)') /\ Cardinality(Newer(n)') \in Nat
        /\ Cardinality(Newer(n)) \in Nat
    BY <1>2, ReportsAreFinite
  <1> QED
    BY <1>1, <1>3, FS_Subset, DiagnosticsAssumption

-----------------------------------------------------------------------------
\* What each step is to the directory: a report is put in place, a trim lists, a
\* trim removes one, leaves one behind or comes to its end, or its process dies; or
\* nothing is put in place and nobody's trim is touched.
Puts(p) ==
    /\ at[p].step = "written" /\ files' = files \cup {at[p].report}
    /\ stored' = stored \cup {at[p].report}
    /\ at' = [at EXCEPT ![p] = [step |-> "trim"]]
    /\ UNCHANGED <<old, heard, untrimmed>>

ListsTrim(p) ==
    /\ at[p].step = "trim"
    /\ at' = [at EXCEPT ![p] = [step |-> "trimming", remove |-> Surplus(files)]]
    /\ UNCHANGED <<files, old, ghost>>

Removes(p) ==
    /\ at[p].step = "trimming" /\ at[p].remove # {}
    /\ files' = files \ {Min(at[p].remove)}
    /\ at' = [at EXCEPT ![p].remove = @ \ {Min(@)}]
    /\ UNCHANGED <<old, ghost>>

Leaves(p) ==
    /\ at[p].step = "trimming" /\ at[p].remove # {}
    /\ at' = [at EXCEPT ![p].remove = @ \ {Min(@)}]
    /\ untrimmed' = untrimmed + 1
    /\ UNCHANGED <<files, old, stored, heard>>

EndsTrim(p) ==
    /\ at[p].step \in {"trim", "trimming"} /\ at' = [at EXCEPT ![p] = AtRest]
    /\ \/ at[p].step = "trimming" /\ at[p].remove = {} /\ untrimmed' = untrimmed
       \/ untrimmed' = untrimmed + 1
    /\ UNCHANGED <<files, old, stored, heard>>

Apart ==
    /\ files' \subseteq files
    /\ UNCHANGED <<stored, untrimmed>>
    /\ \A q \in Process : at[q].step \in {"trim", "trimming"}
                             \/ at'[q].step \in {"trim", "trimming"} => at'[q] = at[q]

\* A flush that is reading goes on to the next name, or ends.
LEMMA ReadsOn ==
    ASSUME DiagTypes, NEW p \in Process, FlushReads(p)
    PROVE  \E s \in Held : /\ at' = [at EXCEPT ![p] = s]
                          /\ s.step \in {"reading", "idle"}
  <1> DEFINE n == Min(at[p].names)
             b == IF n \in files /\ ~Removed(n) THEN at[p].batch \cup {n} ELSE at[p].batch
             s == [at[p] EXCEPT !.names = @ \ {n}, !.batch = b]
  <1>1. at[p] \in [step : {"reading"}, names : SUBSET Report, batch : SUBSET Report]
    BY DEF FlushReads, DiagTypes, Held
  <1>2. n \in Report
    BY <1>1, OldestReport DEF FlushReads
  <1>3. b \in SUBSET Report
    BY <1>1, <1>2
  <1>4. at' = [at EXCEPT ![p] = AtRest] \/ at' = [at EXCEPT ![p] = s]
    BY DEF FlushReads, Becomes
  <1> HIDE DEF n, b
  <1>5. s \in Held /\ s.step = "reading"
    BY <1>1, <1>3 DEF Held
  <1>6. AtRest \in Held /\ AtRest.step = "idle"
    BY DEF Held, AtRest
  <1> QED
    BY <1>4, <1>5, <1>6

LEMMA EachStep ==
    ASSUME DiagTypes, [DiagNext]_diagVars
    PROVE  \/ \E p \in Process : Puts(p) \/ ListsTrim(p) \/ Removes(p) \/ Leaves(p) \/ EndsTrim(p)
           \/ Apart
  <1> USE DEF DiagTypes
  <1>1. ASSUME NEW p \in Process, Record(p) \/ FlushLists(p)
        PROVE  Apart
    BY <1>1 DEF Record, FlushLists, Becomes, Apart, ghost
  <1>2. ASSUME NEW p \in Process, Rename(p)
        PROVE  Puts(p)
    BY <1>2 DEF Rename, Becomes, Puts
  <1>3. ASSUME NEW p \in Process, TrimList(p)
        PROVE  ListsTrim(p)
    BY <1>3 DEF TrimList, Becomes, ListsTrim
  <1>4. ASSUME NEW p \in Process, TrimRemove(p)
        PROVE  Removes(p) \/ EndsTrim(p)
    BY <1>4 DEF TrimRemove, Becomes, Removes, EndsTrim, ghost
  <1>5. ASSUME NEW p \in Process, FlushReads(p)
        PROVE  Apart
    <2>1. at[p].step = "reading" /\ files' \subseteq files /\ UNCHANGED <<stored, untrimmed>>
      BY <1>5 DEF FlushReads, ghost
    <2>2. \E s \in Held : at' = [at EXCEPT ![p] = s] /\ s.step \in {"reading", "idle"}
      BY <1>5, ReadsOn
    <2>3. at'[p].step \in {"reading", "idle"}
      BY <2>2
    <2>4. \A q \in Process \ {p} : at'[q] = at[q]
      BY <2>2
    <2> QED
      BY <2>1, <2>3, <2>4 DEF Apart
  <1>6. ASSUME NEW p \in Process,
               \/ FlushSends(p) \/ SendFails(p) \/ Forbidden(p)
               \/ RemoveSent(p) \/ RemoveFails(p)
        PROVE  Apart
    <2>1. /\ at[p].step \in {"reading", "sending", "remove"} /\ files' \subseteq files
          /\ UNCHANGED <<stored, untrimmed>>
      BY <1>6 DEF FlushSends, SendFails, Forbidden, RemoveSent, RemoveFails, ghost
    <2>2. \E s : s.step \in {"idle", "sending"} /\ at' = [at EXCEPT ![p] = s]
      BY <1>6 DEF FlushSends, SendFails, Forbidden, RemoveSent, RemoveFails, Becomes, AtRest
    <2> QED
      BY <2>1, <2>2 DEF Apart
  <1>7. ASSUME NEW p \in Process, Sent(p)
        PROVE  Apart
    BY <1>7 DEF Sent, Answered, Becomes, Apart
  <1>8. ASSUME NEW p \in Process, Dies(p)
        PROVE  EndsTrim(p) \/ Apart
    BY <1>8 DEF Dies, Becomes, EndsTrim, Apart, AtRest
  <1>9. ASSUME NEW p \in Process, TrimFails(p)
        PROVE  Leaves(p) \/ EndsTrim(p)
    BY <1>9 DEF TrimFails, Becomes, Leaves, EndsTrim
  <1>10. ASSUME NEW p \in Process, ReadRemoveFails(p)
         PROVE  Apart
    <2>1. at[p] \in [step : {"reading"}, names : SUBSET Report, batch : SUBSET Report]
      BY <1>10 DEF ReadRemoveFails, Held
    <2>2. at' = [at EXCEPT ![p] = [at[p] EXCEPT !.names = @ \ {Min(@)}]]
      BY <1>10 DEF ReadRemoveFails, Becomes
    <2>3. at'[p].step = "reading" /\ \A q \in Process \ {p} : at'[q] = at[q]
      BY <2>1, <2>2
    <2> QED
      BY <1>10, <2>1, <2>3 DEF ReadRemoveFails, Apart, ghost
  <1>11. CASE Spoils \/ Ages \/ UNCHANGED diagVars
    BY <1>11 DEF Spoils, Ages, diagVars, ghost, Apart
  <1> QED
    BY <1>1, <1>2, <1>3, <1>4, <1>5, <1>6, <1>7, <1>8, <1>9, <1>10, <1>11
    DEF DiagNext, Writes, Flushes, Failures

LEMMA DiagTypesKept ==
    ASSUME DiagTypes, [DiagNext]_diagVars
    PROVE  DiagTypes'
  <1>1. ASSUME NEW p \in Process, Record(p)
        PROVE  DiagTypes'
    BY <1>1, DiagnosticsAssumption DEF DiagTypes, Record, Becomes, Held, Report, ghost
  <1>2. ASSUME NEW p \in Process, Rename(p)
        PROVE  DiagTypes'
    <2>1. at[p].report \in Report
      BY <1>2 DEF DiagTypes, Rename, Held
    <2> QED
      BY <1>2, <2>1 DEF DiagTypes, Rename, Becomes, Held
  <1>3. ASSUME NEW p \in Process, TrimList(p)
        PROVE  DiagTypes'
    <2>1. Surplus(files) \subseteq Report
      BY DEF DiagTypes, Surplus
    <2> QED
      BY <1>3, <2>1 DEF DiagTypes, TrimList, Becomes, Held, ghost
  <1>4. ASSUME NEW p \in Process, TrimRemove(p)
        PROVE  DiagTypes'
    <2>1. at[p] \in [step : {"trimming"}, remove : SUBSET Report]
      BY <1>4 DEF DiagTypes, TrimRemove, Held
    <2>2. [at[p] EXCEPT !.remove = @ \ {Min(@)}] \in Held
      BY <2>1 DEF Held
    <2>3. AtRest \in Held
      BY DEF Held, AtRest
    <2> QED
      BY <1>4, <2>2, <2>3 DEF DiagTypes, TrimRemove, Becomes, ghost
  <1>5. ASSUME NEW p \in Process, FlushLists(p)
        PROVE  DiagTypes'
    BY <1>5 DEF DiagTypes, FlushLists, Becomes, Held, ghost
  <1>6. ASSUME NEW p \in Process, FlushReads(p)
        PROVE  DiagTypes'
    <2>1. PICK s \in Held : at' = [at EXCEPT ![p] = s]
      BY <1>6, ReadsOn
    <2> QED
      BY <1>6, <2>1 DEF DiagTypes, FlushReads, ghost
  <1>7. ASSUME NEW p \in Process,
               FlushSends(p) \/ SendFails(p) \/ Sent(p) \/ Forbidden(p) \/ RemoveFails(p)
        PROVE  DiagTypes'
    <2>1. at[p].step = "reading" => at[p].batch \in SUBSET Report
      BY DEF DiagTypes, Held
    <2>2. at[p].step \in {"sending", "remove"} => at[p].batch \in (SUBSET Report) \ {{}}
      BY DEF DiagTypes, Held
    <2>3. PICK s \in Held : at' = [at EXCEPT ![p] = s]
      <3>1. /\ AtRest \in Held
            /\ \A b \in (SUBSET Report) \ {{}} : /\ [step |-> "sending", batch |-> b] \in Held
                                             /\ [step |-> "remove", batch |-> b] \in Held
        BY DEF AtRest, Held
      <3>2. CASE FlushSends(p)
        <4>1. /\ at[p].batch \in SUBSET Report
              /\ at' = [at EXCEPT ![p] = IF at[p].batch = {} THEN AtRest
                                        ELSE [step |-> "sending", batch |-> at[p].batch]]
          BY <2>1, <3>2 DEF FlushSends, Becomes
        <4>2. CASE at[p].batch = {}
          BY <3>1, <4>1, <4>2
        <4>3. CASE at[p].batch # {}
          <5>1. [step |-> "sending", batch |-> at[p].batch] \in Held
            <6>1. at[p].batch \in (SUBSET Report) \ {{}}
              BY <4>1, <4>3
            <6> QED
              BY <3>1, <6>1, Zenon
          <5>2. at' = [at EXCEPT ![p] = [step |-> "sending", batch |-> at[p].batch]]
            BY <4>1, <4>3
          <5> QED
            BY <5>1, <5>2, Zenon
        <4> QED
          BY <4>2, <4>3
      <3>3. CASE SendFails(p) \/ Forbidden(p) \/ RemoveFails(p)
        BY <3>1, <3>3 DEF SendFails, Forbidden, RemoveFails, Becomes
      <3>4. CASE Sent(p)
        BY <2>2, <3>1, <3>4 DEF Sent, Answered, Becomes
      <3> QED
        BY <1>7, <3>2, <3>3, <3>4
    <2>4. UNCHANGED <<files, stored, last, old, spoilt, untrimmed>>
      BY <1>7 DEF FlushSends, SendFails, Sent, Forbidden, RemoveFails, ghost
    <2> QED
      BY <2>3, <2>4 DEF DiagTypes
  <1>8. ASSUME NEW p \in Process, RemoveSent(p)
        PROVE  DiagTypes'
    <2>1. at[p].batch \in SUBSET Report
      BY <1>8 DEF DiagTypes, RemoveSent, Held
    <2>2. PICK s \in Held : at' = [at EXCEPT ![p] = s]
      <3>1. /\ AtRest \in Held
            /\ \A b \in (SUBSET Report) \ {{}} : [step |-> "sending", batch |-> b] \in Held
        BY DEF AtRest, Held
      <3> DEFINE rest == at[p].batch \ {Min(at[p].batch)}
      <3>2. at' = [at EXCEPT ![p] = IF rest = {} THEN AtRest
                                    ELSE [step |-> "sending", batch |-> rest]]
        BY <1>8 DEF RemoveSent, Becomes
      <3>3. rest \in SUBSET Report
        BY <2>1
      <3> HIDE DEF rest
      <3>4. CASE rest = {}
        BY <3>1, <3>2, <3>4
      <3>5. CASE rest # {}
        <4>1. [step |-> "sending", batch |-> rest] \in Held
          <5>1. rest \in (SUBSET Report) \ {{}}
            BY <3>3, <3>5
          <5> QED
            BY <3>1, <5>1, Zenon
        <4>2. at' = [at EXCEPT ![p] = [step |-> "sending", batch |-> rest]]
          BY <3>2, <3>5
        <4> QED
          BY <4>1, <4>2, Zenon
      <3> QED
        BY <3>4, <3>5
    <2> QED
      BY <1>8, <2>2 DEF DiagTypes, RemoveSent, ghost
  <1>9. ASSUME NEW p \in Process, Dies(p)
        PROVE  DiagTypes'
    BY <1>9 DEF DiagTypes, Dies, Becomes, AtRest, Held
  <1>10. CASE Ages \/ UNCHANGED diagVars
    BY <1>10 DEF DiagTypes, Ages, diagVars, ghost
  <1>11. ASSUME NEW p \in Process, TrimFails(p)
         PROVE  DiagTypes'
    <2>1. at[p].step = "trimming" => [at[p] EXCEPT !.remove = @ \ {Min(@)}] \in Held
      BY DEF DiagTypes, Held
    <2>2. AtRest \in Held
      BY DEF Held, AtRest
    <2>3. \E h \in Held : at' = [at EXCEPT ![p] = h]
      <3>1. CASE at[p].step = "trim"
        BY <1>11, <2>2, <3>1 DEF TrimFails, Becomes
      <3>2. CASE at[p].step = "trimming"
        BY <1>11, <2>1, <3>2 DEF TrimFails, Becomes
      <3> QED
        BY <1>11, <3>1, <3>2 DEF TrimFails
    <2>4. /\ at' \in [Process -> Held] /\ untrimmed' \in Nat
          /\ UNCHANGED <<files, stored, last, old, spoilt>>
      BY <1>11, <2>3 DEF DiagTypes, TrimFails
    <2> QED
      BY <2>4 DEF DiagTypes
  <1>12. ASSUME NEW p \in Process, ReadRemoveFails(p)
         PROVE  DiagTypes'
    <2>1. [at[p] EXCEPT !.names = @ \ {Min(@)}] \in Held
      BY <1>12 DEF DiagTypes, ReadRemoveFails, Held
    <2> QED
      BY <1>12, <2>1 DEF DiagTypes, ReadRemoveFails, Becomes, ghost
  <1>13. CASE Spoils
    BY <1>13 DEF DiagTypes, Spoils, ghost
  <1> QED
    BY <1>1, <1>2, <1>3, <1>4, <1>5, <1>6, <1>7, <1>8, <1>9, <1>10, <1>11, <1>12, <1>13
    DEF DiagNext, Writes, Flushes, Failures

-----------------------------------------------------------------------------
\* A report leaves the directory only for a reason that is there by then.
LEMMA AccountedKept ==
    ASSUME DiagTypes, Accounted, [DiagNext]_diagVars
    PROVE  Accounted'
  <1>1. DiagTypes' /\ at \in [Process -> Held]
    BY DiagTypesKept DEF DiagTypes
  <1>2. /\ stored \subseteq stored' /\ old \in Int /\ old <= old'
        /\ heard \subseteq heard'
        /\ \A r \in Report : spoilt[r] = "garbled" => spoilt'[r] = "garbled"
    <2>1. ASSUME NEW p \in Process, Record(p) \/ Writes(p) \/ Flushes(p) \/ Failures(p)
          PROVE  /\ stored \subseteq stored' /\ UNCHANGED <<old, spoilt>>
                 /\ heard \subseteq heard'
      BY <2>1 DEF Record, Writes, Rename, TrimList, TrimRemove, Flushes, FlushLists, FlushReads,
                  FlushSends, Sent, Forbidden, RemoveSent, Failures, TrimFails, ReadRemoveFails,
                  SendFails, RemoveFails, Dies, ghost
    <2>2. CASE Spoils
      BY <2>2 DEF Spoils, ghost, DiagTypes
    <2>3. CASE Ages \/ UNCHANGED diagVars
      BY <2>3 DEF Ages, diagVars, ghost, DiagTypes
    <2> QED
      BY <2>1, <2>2, <2>3 DEF DiagNext, DiagTypes
  <1>3. ASSUME NEW n
        PROVE  Cardinality(Newer(n)) >= Keep => Cardinality(Newer(n)') >= Keep
    BY <1>1, <1>2, NewerOnlyGrow
  <1> DEFINE Excused(r) == \/ r \in heard \/ r <= old \/ spoilt[r] = "garbled"
                           \/ Cardinality(Newer(r)) >= Keep
             Trims(p) == at[p].step = "trimming" =>
                            \A n \in at[p].remove : Cardinality(Newer(n)) >= Keep
             Answers(p) == at[p].step = "remove" => Min(at[p].batch) \in heard
  <1>4. ASSUME NEW r \in Report, Excused(r)
        PROVE  Excused(r)'
    <2>1. r \in Int
      BY DEF Report
    <2> QED
      BY <1>1, <1>2, <1>3, <1>4, <2>1 DEF DiagTypes
  \* What has gone may go.
  <1>5. ASSUME NEW r \in stored' \ files'
        PROVE  Excused(r)'
    <2>1. r \in Report
      BY <1>1 DEF DiagTypes
    <2>2. CASE r \in stored \ files
      BY <1>4, <2>1, <2>2 DEF Accounted
    <2>3. CASE r \notin stored
      <3>1. \E p \in Process : Puts(p)
        BY <2>3, EachStep DEF ListsTrim, Removes, Leaves, EndsTrim, Apart, ghost
      <3> QED
        BY <2>3, <3>1 DEF Puts
    <2>4. CASE r \in files
      <3>1. ASSUME NEW p \in Process, TrimRemove(p)
            PROVE  Excused(r)'
        <4>1. at[p] \in [step : {"trimming"}, remove : SUBSET Report]
          BY <1>1, <3>1 DEF TrimRemove, Held
        <4>2. at[p].remove # {} /\ r = Min(at[p].remove)
          BY <2>4, <3>1 DEF TrimRemove
        <4>3. r \in at[p].remove
          BY <4>1, <4>2, OldestReport
        <4>4. Excused(r)
          BY <4>1, <4>3 DEF Accounted
        <4> QED
          BY <1>4, <2>1, <4>4
      <3>2. ASSUME NEW p \in Process, FlushReads(p)
            PROVE  Excused(r)'
        <4>1. r <= old \/ spoilt[r] = "garbled"
          BY <2>4, <3>2 DEF FlushReads, Removed
        <4> QED
          BY <1>4, <2>1, <4>1
      <3>3. ASSUME NEW p \in Process, RemoveSent(p)
            PROVE  Excused(r)'
        <4>1. r = Min(at[p].batch) /\ at[p].step = "remove"
          BY <2>4, <3>3 DEF RemoveSent
        <4>2. Excused(r)
          BY <4>1 DEF Accounted
        <4> QED
          BY <1>4, <2>1, <4>2
      <3>4. ASSUME NEW p \in Process,
                   \/ Record(p) \/ Rename(p) \/ TrimList(p) \/ FlushLists(p) \/ FlushSends(p)
                   \/ Sent(p) \/ Forbidden(p) \/ Failures(p)
            PROVE  FALSE
        BY <2>4, <3>4 DEF Record, Rename, TrimList, FlushLists, FlushSends, Sent, Forbidden,
                          Failures, TrimFails, ReadRemoveFails, SendFails, RemoveFails, Dies
      <3>5. CASE Spoils \/ Ages \/ UNCHANGED diagVars
        BY <2>4, <3>5 DEF Spoils, Ages, diagVars
      <3> QED
        BY <3>1, <3>2, <3>3, <3>4, <3>5 DEF DiagNext, Writes, Flushes
    <2> QED
      BY <2>2, <2>3, <2>4
  <1>6. ASSUME NEW p \in Process
        PROVE  Trims(p)'
    <2>1. CASE at'[p] = at[p]
      BY <1>3, <2>1 DEF Accounted
    <2>2. CASE ListsTrim(p)
      <3>1. /\ at'[p].remove = Surplus(files) /\ stored' = stored
            /\ files \subseteq stored /\ stored \in SUBSET Report
        BY <1>1, <2>2 DEF ListsTrim, ghost, DiagTypes
      <3>2. ASSUME NEW n \in Surplus(files)
            PROVE  Cardinality(Newer(n)) >= Keep
        <4> DEFINE above == {m \in files : m > n}
        <4>1. above \in SUBSET Newer(n) /\ Newer(n) \in SUBSET Report
          BY <3>1 DEF Newer
        <4>2. /\ IsFiniteSet(Newer(n)) /\ Cardinality(Newer(n)) \in Nat
              /\ Cardinality(above) \in Nat
          BY <4>1, ReportsAreFinite
        <4>3. Cardinality(above) >= Keep
          BY <3>2 DEF Surplus
        <4> HIDE DEF above
        <4>4. Cardinality(above) <= Cardinality(Newer(n))
          BY <4>1, <4>2, FS_Subset
        <4> QED
          BY <4>2, <4>3, <4>4, DiagnosticsAssumption
      <3> QED
        BY <1>3, <3>1, <3>2
    <2>3. CASE Removes(p) \/ Leaves(p)
      <3>1. at[p] \in [step : {"trimming"}, remove : SUBSET Report]
        BY <1>1, <2>3 DEF Removes, Leaves, Held
      <3>2. at'[p].remove \subseteq at[p].remove /\ at[p].step = "trimming"
        BY <1>1, <2>3, <3>1 DEF Removes, Leaves
      <3> QED
        BY <1>3, <3>2 DEF Accounted
    <2>4. CASE Puts(p) \/ EndsTrim(p)
      BY <1>1, <2>4 DEF Puts, EndsTrim, AtRest
    <2>5. CASE Apart
      BY <2>1, <2>5 DEF Apart
    <2>6. ASSUME NEW q \in Process \ {p},
                 Puts(q) \/ ListsTrim(q) \/ Removes(q) \/ Leaves(q) \/ EndsTrim(q)
          PROVE  at'[p] = at[p]
      BY <1>1, <2>6 DEF Puts, ListsTrim, Removes, Leaves, EndsTrim
    <2> QED
      BY <2>1, <2>2, <2>3, <2>4, <2>5, <2>6, EachStep
  <1>7. ASSUME NEW p \in Process
        PROVE  Answers(p)'
    <2>1. CASE at'[p] = at[p]
      BY <1>2, <2>1 DEF Accounted
    <2>2. CASE Sent(p)
      BY <1>1, <2>2 DEF Sent, Answered, Becomes
    <2>3. ASSUME \/ Record(p) \/ Writes(p) \/ FlushLists(p) \/ FlushSends(p)
                 \/ Forbidden(p) \/ RemoveSent(p) \/ SendFails(p) \/ RemoveFails(p) \/ Dies(p)
          PROVE  at'[p].step # "remove"
      <3>1. CASE TrimRemove(p)
        <4>1. at[p] \in [step : {"trimming"}, remove : SUBSET Report]
          BY <1>1, <3>1 DEF TrimRemove, Held
        <4> QED
          BY <1>1, <3>1, <4>1 DEF TrimRemove, Becomes, AtRest
      <3>2. CASE \/ Record(p) \/ Rename(p) \/ TrimList(p) \/ FlushLists(p)
                 \/ Forbidden(p) \/ SendFails(p) \/ RemoveFails(p) \/ Dies(p)
        BY <1>1, <3>2 DEF Record, Rename, TrimList, FlushLists, Forbidden, SendFails, RemoveFails,
                          Dies, Becomes, AtRest
      <3>3. CASE FlushSends(p) \/ RemoveSent(p)
        BY <1>1, <3>3 DEF FlushSends, RemoveSent, Becomes, AtRest
      <3> QED
        BY <2>3, <3>1, <3>2, <3>3 DEF Writes
    <2>4. ASSUME FlushReads(p)
          PROVE  at'[p].step # "remove"
      <3>1. \E s \in Held : at' = [at EXCEPT ![p] = s] /\ s.step \in {"reading", "idle"}
        BY <2>4, ReadsOn
      <3> QED
        BY <1>1, <3>1
    <2>5. ASSUME TrimFails(p) \/ ReadRemoveFails(p)
          PROVE  at'[p].step # "remove"
      <3>1. CASE TrimFails(p)
        <4>1. at[p].step = "trimming" =>
                  at[p] \in [step : {"trimming"}, remove : SUBSET Report]
          BY <1>1 DEF Held
        <4> QED
          BY <1>1, <3>1, <4>1 DEF TrimFails, Becomes, AtRest
      <3>2. CASE ReadRemoveFails(p)
        <4>1. at[p] \in [step : {"reading"}, names : SUBSET Report, batch : SUBSET Report]
          BY <1>1, <3>2 DEF ReadRemoveFails, Held
        <4> QED
          BY <1>1, <3>2, <4>1 DEF ReadRemoveFails, Becomes
      <3> QED
        BY <2>5, <3>1, <3>2
    <2>6. ASSUME NEW q \in Process \ {p}, Record(q) \/ Writes(q) \/ Flushes(q) \/ Failures(q)
          PROVE  at'[p] = at[p]
      BY <1>1, <2>6 DEF Record, Writes, Rename, TrimList, TrimRemove, Flushes, FlushLists,
                        FlushReads, FlushSends, Sent, Forbidden, RemoveSent, Failures, TrimFails,
                        ReadRemoveFails, SendFails, RemoveFails, Dies, Becomes
    <2>7. CASE Spoils \/ Ages \/ UNCHANGED diagVars
      BY <2>1, <2>7 DEF Spoils, Ages, diagVars
    <2> QED
      BY <2>1, <2>2, <2>3, <2>4, <2>5, <2>6, <2>7 DEF DiagNext, Flushes, Failures
  <1> QED
    BY <1>5, <1>6, <1>7 DEF Accounted

LEMMA RoomKept ==
    ASSUME DiagTypes, Room, [DiagNext]_diagVars
    PROVE  Room'
  <1>1. DiagTypes' /\ at \in [Process -> Held]
    BY DiagTypesKept DEF DiagTypes
  <1>2. /\ \A Q : files \ Removing(Q) \in SUBSET Report
        /\ \A Q : files' \ Removing(Q)' \in SUBSET Report
    BY <1>1 DEF DiagTypes
  <1>3. ASSUME NEW S \in SUBSET Report, NEW T \in SUBSET S
        PROVE  /\ Cardinality(T) <= Cardinality(S)
               /\ Cardinality(S) \in Nat /\ Cardinality(T) \in Nat
    BY <1>3, ReportsAreFinite, FS_Subset
  <1>4. ASSUME NEW Q
        PROVE  IsFiniteSet(Finishing \ Q) /\ Cardinality(Finishing \ Q) \in Nat
    BY FS_Subset, FS_CardinalityType DEF Room
  <1>a. Keep \in Nat /\ untrimmed \in Nat
    BY DiagnosticsAssumption DEF DiagTypes
  <1>5. ASSUME NEW p \in Process, Puts(p)
        PROVE  Room'
    <2>1. p \notin Finishing /\ p \notin Trimming
      BY <1>5 DEF Puts, Finishing, Trimming
    <2>2. Finishing' = Finishing \cup {p} /\ Trimming' = Trimming
      BY <1>1, <1>5 DEF Puts, Finishing, Trimming
    <2>3. \A Q \in SUBSET Trimming : Removing(Q)' = Removing(Q)
      BY <1>1, <1>5, <2>1 DEF Puts, Removing
    <2>4. IsFiniteSet(Finishing')
      BY <2>2, FS_AddElement DEF Room
    <2>5. ASSUME NEW Q \in SUBSET Trimming'
          PROVE  Cardinality(files' \ Removing(Q)')
                    <= Keep + Cardinality(Finishing' \ Q) + untrimmed'
      <3> DEFINE S == files \ Removing(Q)
                 F == Finishing \ Q
      <3>1. Cardinality(S) <= Keep + Cardinality(F) + untrimmed
        BY <2>2 DEF Room
      <3>2. /\ files' \ Removing(Q)' \in SUBSET (S \cup {at[p].report})
            /\ Finishing' \ Q = F \cup {p} /\ p \notin F /\ untrimmed' = untrimmed
        BY <1>5, <2>1, <2>2, <2>3 DEF Puts
      <3>3. IsFiniteSet(S) /\ Cardinality(S) \in Nat /\ IsFiniteSet(F) /\ Cardinality(F) \in Nat
        BY <1>2, <1>4, ReportsAreFinite
      <3> HIDE DEF S, F
      <3>4. /\ Cardinality(S \cup {at[p].report}) <= Cardinality(S) + 1
            /\ IsFiniteSet(S \cup {at[p].report})
            /\ Cardinality(S \cup {at[p].report}) \in Nat
        BY <3>3, FS_AddElement
      <3>5. Cardinality(files' \ Removing(Q)') <= Cardinality(S) + 1
        BY <1>2, <3>2, <3>3, <3>4, FS_Subset, ReportsAreFinite
      <3>6. Cardinality(F \cup {p}) = Cardinality(F) + 1
        BY <3>2, <3>3, FS_AddElement
      <3>7. Cardinality(files' \ Removing(Q)') \in Nat
        BY <1>2, ReportsAreFinite
      <3>8. Cardinality(Finishing' \ Q) = Cardinality(F) + 1 /\ untrimmed' = untrimmed
        BY <3>2, <3>6
      <3> QED
        BY <1>a, <3>1, <3>3, <3>5, <3>7, <3>8
    <2> QED
      BY <2>4, <2>5 DEF Room
  <1>6. ASSUME NEW p \in Process, ListsTrim(p)
        PROVE  Room'
    <2>1. Finishing' = Finishing /\ Trimming' = Trimming \cup {p} /\ p \notin Trimming
      BY <1>1, <1>6 DEF ListsTrim, Finishing, Trimming
    <2>2. ASSUME NEW Q \in SUBSET Trimming', p \notin Q
          PROVE  Cardinality(files' \ Removing(Q)')
                    <= Keep + Cardinality(Finishing' \ Q) + untrimmed'
      <3>1. Q \in SUBSET Trimming /\ Removing(Q)' = Removing(Q)
        BY <1>1, <1>6, <2>1, <2>2 DEF ListsTrim, Removing
      <3> QED
        BY <1>6, <2>1, <3>1 DEF ListsTrim, Room, ghost
    <2>3. ASSUME NEW Q \in SUBSET Trimming', p \in Q
          PROVE  Cardinality(files' \ Removing(Q)')
                    <= Keep + Cardinality(Finishing' \ Q) + untrimmed'
      <3>1. /\ files' = files /\ files \in SUBSET Report
            /\ at'[p].remove = Surplus(files) /\ untrimmed' = untrimmed /\ untrimmed \in Nat
        BY <1>1, <1>6 DEF ListsTrim, DiagTypes, ghost
      <3>2. Surplus(files) \subseteq Removing(Q)'
        BY <2>3, <3>1 DEF Removing
      <3>3. files' \ Removing(Q)' \in SUBSET (files \ Surplus(files))
        BY <3>1, <3>2
      <3>4. /\ Cardinality(files \ Surplus(files)) <= Keep
            /\ Cardinality(files \ Surplus(files)) \in Nat
        BY <3>1, TrimLeavesKeep, ReportsAreFinite
      <3>5. /\ Cardinality(files' \ Removing(Q)') <= Cardinality(files \ Surplus(files))
            /\ Cardinality(files' \ Removing(Q)') \in Nat
        BY <1>2, <1>3, <3>1, <3>3
      <3>6. Finishing' \ Q = Finishing \ Q /\ Cardinality(Finishing \ Q) \in Nat
        BY <1>4, <2>1
      <3> QED
        BY <3>1, <3>4, <3>5, <3>6, DiagnosticsAssumption, SMTT(30)
    <2> QED
      BY <2>1, <2>2, <2>3 DEF Room
  <1>7. ASSUME NEW p \in Process, Removes(p)
        PROVE  Room'
    <2>1. at[p] \in [step : {"trimming"}, remove : SUBSET Report]
      BY <1>1, <1>7 DEF Removes, Held
    <2>2. /\ at'[p].step = "trimming"
          /\ at'[p].remove = at[p].remove \ {Min(at[p].remove)}
          /\ \A q \in Process \ {p} : at'[q] = at[q]
          /\ files' = files \ {Min(at[p].remove)} /\ untrimmed' = untrimmed
      BY <1>1, <1>7, <2>1 DEF Removes, ghost
    <2>3. Finishing' = Finishing /\ Trimming' = Trimming
      BY <2>1, <2>2 DEF Finishing, Trimming
    <2>4. ASSUME NEW Q \in SUBSET Trimming
          PROVE  files' \ Removing(Q)' \in SUBSET (files \ Removing(Q))
      BY <2>2 DEF Removing, Trimming
    <2>5. ASSUME NEW Q \in SUBSET Trimming
          PROVE  Cardinality(files' \ Removing(Q)')
                    <= Keep + Cardinality(Finishing' \ Q) + untrimmed'
      <3>1. /\ Cardinality(files' \ Removing(Q)') <= Cardinality(files \ Removing(Q))
            /\ Cardinality(files' \ Removing(Q)') \in Nat
            /\ Cardinality(files \ Removing(Q)) \in Nat
        BY <1>2, <1>3, <2>4
      <3>2. Cardinality(files \ Removing(Q)) <= Keep + Cardinality(Finishing \ Q) + untrimmed
        BY DEF Room
      <3> QED
        BY <1>a, <1>4, <2>2, <2>3, <3>1, <3>2
    <2> QED
      BY <2>3, <2>5 DEF Room
  <1>L. ASSUME NEW p \in Process, Leaves(p)
        PROVE  Room'
    <2>1. at[p] \in [step : {"trimming"}, remove : SUBSET Report]
      BY <1>1, <1>L DEF Leaves, Held
    <2>2. /\ at'[p].step = "trimming"
          /\ at'[p].remove = at[p].remove \ {Min(at[p].remove)}
          /\ \A q \in Process \ {p} : at'[q] = at[q]
          /\ files' = files /\ untrimmed' = untrimmed + 1
      BY <1>1, <1>L, <2>1 DEF Leaves
    <2>3. Finishing' = Finishing /\ Trimming' = Trimming
      BY <2>1, <2>2 DEF Finishing, Trimming
    <2>4. ASSUME NEW Q \in SUBSET Trimming
          PROVE  files' \ Removing(Q)' \in SUBSET ((files \ Removing(Q)) \cup {Min(at[p].remove)})
      BY <2>2 DEF Removing, Trimming
    <2>5. ASSUME NEW Q \in SUBSET Trimming
          PROVE  Cardinality(files' \ Removing(Q)')
                    <= Keep + Cardinality(Finishing' \ Q) + untrimmed'
      <3> DEFINE S == files \ Removing(Q)
                 m == Min(at[p].remove)
      <3>1. Cardinality(S) <= Keep + Cardinality(Finishing \ Q) + untrimmed
        BY DEF Room
      <3>2. IsFiniteSet(S) /\ Cardinality(S) \in Nat
        BY <1>2, ReportsAreFinite
      <3>3. files' \ Removing(Q)' \in SUBSET (S \cup {m})
        BY <2>4
      <3>4. Cardinality(files' \ Removing(Q)') \in Nat
        BY <1>2, ReportsAreFinite
      <3> HIDE DEF S, m
      <3>5. /\ IsFiniteSet(S \cup {m}) /\ Cardinality(S \cup {m}) \in Nat
            /\ Cardinality(S \cup {m}) <= Cardinality(S) + 1
        <4>1. /\ IsFiniteSet(S \cup {m})
              /\ Cardinality(S \cup {m}) = IF m \in S THEN Cardinality(S) ELSE Cardinality(S) + 1
          BY <3>2, FS_AddElement, Zenon
        <4> QED
          BY <3>2, <4>1
      <3>6. Cardinality(files' \ Removing(Q)') <= Cardinality(S \cup {m})
        BY <3>3, <3>5, FS_Subset
      <3> QED
        BY <1>a, <1>4, <2>2, <2>3, <3>1, <3>2, <3>4, <3>5, <3>6
    <2> QED
      BY <2>3, <2>5 DEF Room
  <1>8. ASSUME NEW p \in Process, EndsTrim(p)
        PROVE  Room'
    <2>1. /\ Finishing' = Finishing \ {p} /\ p \in Finishing
          /\ Trimming' = Trimming \ {p}
      BY <1>1, <1>8 DEF EndsTrim, Finishing, Trimming, AtRest
    <2>2. IsFiniteSet(Finishing')
      BY <2>1, FS_Subset DEF Room
    <2>3. ASSUME NEW Q \in SUBSET Trimming'
          PROVE  Cardinality(files' \ Removing(Q)')
                    <= Keep + Cardinality(Finishing' \ Q) + untrimmed'
      <3>1. Q \in SUBSET Trimming /\ p \notin Q
        BY <2>1, <2>3
      <3>2. /\ Removing(Q)' = Removing(Q) /\ files' = files
        BY <1>1, <1>8, <3>1 DEF EndsTrim, Removing, Trimming
      <3>3. Finishing' \ Q = (Finishing \ Q) \ {p} /\ p \in Finishing \ Q
        BY <2>1, <3>1
      <3>4. Cardinality(Finishing' \ Q) = Cardinality(Finishing \ Q) - 1
        <4> DEFINE F == Finishing \ Q
        <4>1. IsFiniteSet(F) /\ p \in F /\ Finishing' \ Q = F \ {p}
          BY <1>4, <3>3
        <4> HIDE DEF F
        <4>2. Cardinality(F \ {p}) = Cardinality(F) - 1
          BY <4>1, FS_RemoveElement
        <4> QED
          BY <4>1, <4>2 DEF F
      <3>5. CASE untrimmed' = untrimmed + 1
        <4>1. Cardinality(files \ Removing(Q)) <= Keep + Cardinality(Finishing \ Q) + untrimmed
          BY <3>1 DEF Room
        <4>2. /\ Cardinality(files \ Removing(Q)) \in Nat
              /\ Cardinality(Finishing \ Q) \in Nat
          BY <1>2, <1>4, ReportsAreFinite
        <4> QED
          BY <1>a, <3>2, <3>4, <3>5, <4>1, <4>2
      <3>6. CASE at[p].step = "trimming" /\ at[p].remove = {} /\ untrimmed' = untrimmed
        <4>1. Q \cup {p} \in SUBSET Trimming
          BY <3>1, <3>6 DEF Trimming
        <4>2. Removing(Q \cup {p}) = Removing(Q)
          BY <3>6 DEF Removing
        <4>3. Finishing \ (Q \cup {p}) = Finishing' \ Q
          BY <2>1
        <4> QED
          BY <3>2, <3>6, <4>1, <4>2, <4>3 DEF Room
      <3> QED
        BY <1>8, <3>5, <3>6 DEF EndsTrim
    <2> QED
      BY <2>2, <2>3 DEF Room
  <1>9. CASE Apart
    <2>1. /\ Finishing' = Finishing /\ Trimming' = Trimming
          /\ \A q \in Trimming : at'[q] = at[q]
          /\ files' \subseteq files /\ untrimmed' = untrimmed
      BY <1>9 DEF Apart, Finishing, Trimming
    <2>2. ASSUME NEW Q \in SUBSET Trimming
          PROVE  files' \ Removing(Q)' \in SUBSET (files \ Removing(Q))
      BY <2>1 DEF Removing
    <2>3. ASSUME NEW Q \in SUBSET Trimming
          PROVE  Cardinality(files' \ Removing(Q)')
                    <= Keep + Cardinality(Finishing' \ Q) + untrimmed'
      <3>1. /\ Cardinality(files' \ Removing(Q)') <= Cardinality(files \ Removing(Q))
            /\ Cardinality(files' \ Removing(Q)') \in Nat
            /\ Cardinality(files \ Removing(Q)) \in Nat
        BY <1>2, <1>3, <2>2
      <3>2. Cardinality(files \ Removing(Q)) <= Keep + Cardinality(Finishing \ Q) + untrimmed
        BY DEF Room
      <3> QED
        BY <1>a, <1>4, <2>1, <3>1, <3>2
    <2> QED
      BY <2>1, <2>3 DEF Room
  <1> QED
    BY <1>5, <1>6, <1>7, <1>L, <1>8, <1>9, EachStep

\* Whatever two processes do to the directory at once, wherever they die and
\* whatever they fail to list or to remove: no report leaves it that the server does
\* not have or refuse, that is not old and does parse, and that has fewer than Keep
\* newer ones; and a crash loop does not fill the disk.
THEOREM NoReportIsLost == DiagSpec => []NothingIsLost
  <1>1. DiagInit => DiagInv
    <2> SUFFICES ASSUME DiagInit PROVE DiagInv
      OBVIOUS
    <2>1. DiagTypes
      BY DiagnosticsAssumption DEF DiagInit, DiagTypes, Held, AtRest
    <2>2. Accounted
      BY DEF DiagInit, Accounted, AtRest
    <2>3. Finishing = {} /\ files = {} /\ untrimmed = 0
      BY DEF DiagInit, Finishing, AtRest
    <2>4. Room
      <3>1. \A Q : files \ Removing(Q) = {} /\ Finishing \ Q = {}
        BY <2>3
      <3> QED
        BY <2>3, <3>1, FS_EmptySet, DiagnosticsAssumption DEF Room
    <2> QED
      BY <2>1, <2>2, <2>4 DEF DiagInv
  <1>2. DiagInv /\ [DiagNext]_diagVars => DiagInv'
    BY DiagTypesKept, AccountedKept, RoomKept DEF DiagInv
  <1>3. DiagInv => NothingIsLost
    <2> SUFFICES ASSUME DiagInv PROVE NothingIsLost
      OBVIOUS
    <2>1. {} \in SUBSET Trimming /\ files \ Removing({}) = files /\ Finishing \ {} = Finishing
      BY DEF Removing
    <2>2. Cardinality(files) <= Keep + Cardinality(Finishing) + untrimmed
      BY <2>1 DEF DiagInv, Room
    <2> QED
      BY <2>2 DEF DiagInv, Accounted, Newer, NothingIsLost
  <1> QED
    BY <1>1, <1>2, <1>3, PTL DEF DiagSpec

-----------------------------------------------------------------------------
(***************************************************************************)
(* Survey.  A page that has come to rest shows figures for what it says.   *)
(***************************************************************************)
\* A page keeps its promise while it is being served because whatever would
\* break it marks the page as overtaken: so for a page that is not, every choice
\* on it has been counted, or is being counted, under its settings.
Wanted(s) == Range(Order(s))

Counted(s) == \A c \in Wanted(s) : sizes[c].shape = ShapeOf(c, s)

Shape == {<<>>} \cup {ShapeOf(c, s) : c \in Style, s \in Counting}

Size == [state : {"unmeasured", "measuring", "measured"}, shape : Shape]

Page ==
    {Blank} \cup [at : {"measure", "recount"}, read : Counting]
            \cup [at : {"render"}, read : Counting, overtaken : BOOLEAN]
            \cup [at : {"shown"}, read : Counting, overtaken : BOOLEAN,
                  figures : [Style -> Size], refresh : BOOLEAN, problem : BOOLEAN]

SurveyTypes ==
    /\ settings \in Setting
    /\ sizes \in [Style -> Size]
    /\ \A c \in Style : sizes[c].state = "unmeasured" => sizes[c].shape = <<>>
    /\ tab \in [Tab -> Page]

WalkIsFor ==
    \/ walk = Resting
    \/ /\ walk \in [walking : {TRUE}, todo : SUBSET Style, under : Counting]
       /\ Counted(walk.under)

ServedIsRight ==
    \A t \in Tab : tab[t].at = "render" /\ ~tab[t].overtaken =>
        Counted(tab[t].read) /\ (Sizing => walk.under = tab[t].read)

SurveyInv == SurveyTypes /\ WalkIsFor /\ ServedIsRight /\ StillPageIsRight

\* What a page asks for is something to count folders under.
LEMMA AskedIsCounting ==
    ASSUME NEW plan \in Setting
    PROVE  Asked(plan) \in Counting /\ AsItStands(plan) \in Counting
  <1>1. Junk \subseteq Patterns
    BY SurveyAssumption
  <1>2. AsItStands(plan) \in Counting
    BY DEF AsItStands, Setting, Counting
  <1>3. plan.excludes \cup Junk \in SUBSET Patterns
    BY <1>1 DEF Setting
  <1> QED
    BY <1>2, <1>3 DEF Asked, Counting, AsItStands

\* What is on a page is a choice, and what it is counted under is never nothing.
LEMMA WhatIsWanted ==
    ASSUME NEW s \in Counting
    PROVE  Wanted(s) \subseteq Style
  <1>1. Offered \in Seq(STRING)
    BY SurveyAssumption
  <1>2. Range(Offered) \subseteq Style
    BY DEF Style
  <1>3. ASSUME NEW i \in DOMAIN (<<Custom>> \o Offered)
        PROVE  (<<Custom>> \o Offered)[i] \in Style
    <2>1. i = 1 \/ (i - 1 \in DOMAIN Offered /\ (<<Custom>> \o Offered)[i] = Offered[i - 1])
      BY <1>1, <1>3
    <2>2. i = 1 => (<<Custom>> \o Offered)[i] = Custom
      BY <1>1
    <2> QED
      BY <1>2, <2>1, <2>2 DEF Range, Style
  <1> QED
    BY <1>2, <1>3 DEF Wanted, Order, Range

LEMMA ShapesSaySomething ==
    ASSUME NEW c, NEW s
    PROVE  ShapeOf(c, s) # <<>>
  BY DEF ShapeOf

\* After Measure has been asked for a page's sizes, either another walk is under
\* way or they are counted; nothing is uncounted by it but what it starts on.
LEMMA MeasureCounts ==
    ASSUME SurveyTypes, WalkIsFor, NEW s \in Counting, Measured(s)
    PROVE  /\ sizes' \in [Style -> Size]
           /\ \A c \in Style : sizes'[c].state = "unmeasured" => sizes'[c].shape = <<>>
           /\ WalkIsFor'
           /\ (Sizing' /\ walk'.under # s) \/ Counted(s)'
           /\ Sizing /\ walk.under # s => UNCHANGED <<sizes, walk>>
           /\ ~Starts(s) => UNCHANGED <<sizes, walk>>
           /\ Starts(s) => Counted(s)' /\ walk'.under = s
  <1>1. Todo(s) \subseteq Wanted(s) /\ Wanted(s) \subseteq Style
    BY WhatIsWanted DEF Todo, Wanted
  <1>2. CASE Starts(s)
    <2>1. /\ walk' = [walking |-> TRUE, todo |-> Todo(s), under |-> s]
          /\ sizes' = [c \in Style |->
                IF c \in Todo(s) THEN [state |-> "measuring", shape |-> ShapeOf(c, s)]
                ELSE sizes[c]]
      BY <1>2 DEF Measured
    <2>2. \A c \in Style : [state |-> "measuring", shape |-> ShapeOf(c, s)] \in Size
      BY DEF Size, Shape
    <2>3. sizes' \in [Style -> Size]
      BY <2>1, <2>2 DEF SurveyTypes
    <2>4. \A c \in Style : sizes'[c].state = "unmeasured" => sizes'[c].shape = <<>>
      BY <2>1 DEF SurveyTypes
    <2>5. Counted(s)'
      <3>1. \A c \in Wanted(s) : sizes'[c].shape = ShapeOf(c, s)
        BY <1>1, <2>1 DEF Todo, Wanted
      <3> QED
        BY <3>1 DEF Counted
    <2>6. walk' \in [walking : {TRUE}, todo : SUBSET Style, under : Counting] /\ walk'.under = s
      BY <1>1, <2>1
    <2> QED
      BY <1>2, <2>3, <2>4, <2>5, <2>6 DEF WalkIsFor, Starts
  <1>3. CASE ~Starts(s)
    <2>1. UNCHANGED <<walk, sizes>>
      BY <1>3 DEF Measured
    <2>2. CASE Sizing
      <3>1. walk # Resting
        BY <2>2 DEF Sizing, Resting
      <3>2. Sizing' /\ WalkIsFor'
        BY <2>1, <2>2 DEF Sizing, WalkIsFor, Counted
      <3>3. (walk'.under # s) \/ Counted(s)'
        BY <2>1, <3>1 DEF WalkIsFor, Counted
      <3> QED
        BY <1>3, <2>1, <3>2, <3>3 DEF SurveyTypes
    <2>3. CASE ~Sizing
      <3>1. Counted(s)
        BY <1>3, <2>3 DEF Starts, Todo, Counted, Wanted
      <3> QED
        BY <1>3, <2>1, <2>3, <3>1 DEF SurveyTypes, WalkIsFor, Counted, Sizing
    <2> QED
      BY <2>2, <2>3
  <1> QED
    BY <1>2, <1>3

\* To overtake the pages being served makes them pages.
LEMMA OvertakenTyped ==
    ASSUME SurveyTypes, NEW others
    PROVE  Overtaken(others) \in [Tab -> Page]
  <1>1. ASSUME NEW t \in Tab, tab[t].at = "render"
        PROVE  [tab[t] EXCEPT !.overtaken = TRUE] \in Page
    <2>1. tab[t] \in [at : {"render"}, read : Counting, overtaken : BOOLEAN]
      BY <1>1 DEF SurveyTypes, Page, Blank
    <2> QED
      BY <2>1 DEF Page
  <1> QED
    BY <1>1 DEF Overtaken, SurveyTypes

\* The part of every step that is about what is counted.
LEMMA SurveyTypesKept ==
    ASSUME SurveyTypes, WalkIsFor, [SurveyNext]_surveyVars
    PROVE  SurveyTypes' /\ WalkIsFor'
  <1>1. CASE RetestSpeed \/ ProbeEnds \/ UNCHANGED surveyVars
    BY <1>1 DEF RetestSpeed, ProbeEnds, surveyVars, SurveyTypes, WalkIsFor, Counted
  <1>2. ASSUME NEW t \in Tab, Reads(t) \/ Renders(t)
        PROVE  SurveyTypes' /\ WalkIsFor'
    <2>1. UNCHANGED <<settings, sizes, walk>>
      BY <1>2 DEF Reads, Renders
    <2>2. WalkIsFor'
      BY <2>1 DEF WalkIsFor, Counted
    <2>3. PICK r \in Page : tab' = [tab EXCEPT ![t] = r]
      <3>1. CASE Reads(t)
        BY <3>1, AskedIsCounting DEF Reads, Page, SurveyTypes
      <3>2. CASE Renders(t)
        <4>1. tab[t] \in [at : {"render"}, read : Counting, overtaken : BOOLEAN]
          BY <3>2 DEF Renders, SurveyTypes, Page, Blank
        <4>2. PICK b \in BOOLEAN : b = (upload = "measuring" \/ Measuring(sizes))
          BY Zenon
        <4>3. tab' = [tab EXCEPT ![t] = [at |-> "shown", read |-> tab[t].read,
                          overtaken |-> tab[t].overtaken, figures |-> sizes, refresh |-> b,
                          problem |-> FALSE]]
          BY <3>2, <4>2, Zenon DEF Renders
        <4>4. [at |-> "shown", read |-> tab[t].read, overtaken |-> tab[t].overtaken,
               figures |-> sizes, refresh |-> b, problem |-> FALSE] \in Page
          BY <4>1, <4>2 DEF SurveyTypes, Page
        <4> QED
          BY <4>3, <4>4, Zenon
      <3> QED
        BY <1>2, <3>1, <3>2
    <2> QED
      BY <2>1, <2>2, <2>3 DEF SurveyTypes
  <1>3. ASSUME NEW t \in Tab, Measures(t) \/ Recounts(t)
        PROVE  SurveyTypes' /\ WalkIsFor'
    <2> DEFINE s == tab[t].read
    <2>1. s \in Counting /\ Measured(s) /\ settings' = settings
      BY <1>3 DEF Measures, Recounts, SurveyTypes, Page, Blank
    <2>2. PICK b \in BOOLEAN : b = (Sizing /\ walk.under # s)
      BY Zenon
    <2>3. \E r \in Page : \E others : tab' = [Overtaken(others) EXCEPT ![t] = r]
      <3>1. CASE Measures(t)
        <4>1. [at |-> "render", read |-> s, overtaken |-> b] \in Page
          BY <2>1, <2>2 DEF Page
        <4>2. \E others : tab' = [Overtaken(others) EXCEPT ![t] =
                                     [at |-> "render", read |-> s, overtaken |-> b]]
          BY <2>2, <3>1, Zenon DEF Measures
        <4> QED
          BY <4>1, <4>2, Zenon
      <3>2. CASE Recounts(t)
        BY <3>2 DEF Recounts, Page
      <3> QED
        BY <1>3, <3>1, <3>2
    <2>4. tab' \in [Tab -> Page]
      BY <2>3, OvertakenTyped
    <2> QED
      BY <2>1, <2>4, MeasureCounts DEF SurveyTypes
  <1>4. ASSUME NEW t \in Tab, Remeasure(t)
        PROVE  SurveyTypes' /\ WalkIsFor'
    <2>1. [at |-> "recount", read |-> AsItStands(settings)] \in Page
      BY AskedIsCounting DEF Page, SurveyTypes
    <2>2. \E others : tab' = [Overtaken(others) EXCEPT ![t] =
                                 [at |-> "recount", read |-> AsItStands(settings)]]
      BY <1>4 DEF Remeasure
    <2>3. tab' \in [Tab -> Page]
      BY <2>1, <2>2, OvertakenTyped
    <2>4. Unmeasured \in Size /\ Unmeasured.shape = <<>>
      BY DEF Unmeasured, Size, Shape
    <2>5. CASE Sizing
      <3>1. UNCHANGED <<settings, sizes, walk>>
        BY <1>4, <2>5 DEF Remeasure
      <3> QED
        BY <2>3, <3>1 DEF SurveyTypes, WalkIsFor, Counted
    <2>6. CASE ~Sizing
      <3>1. /\ UNCHANGED <<settings, walk>>
            /\ sizes' = [c \in Style |-> Unmeasured]
        BY <1>4, <2>6 DEF Remeasure
      <3>2. walk' = Resting
        BY <2>6, <3>1 DEF WalkIsFor, Sizing
      <3> QED
        BY <2>3, <2>4, <3>1, <3>2 DEF SurveyTypes, WalkIsFor
    <2> QED
      BY <2>5, <2>6
  <1>5. CASE WalkFinishes
    <2>1. walk \in [walking : {TRUE}, todo : SUBSET Style, under : Counting] /\ Counted(walk.under)
      <3>1. walk # Resting
        BY <1>5 DEF WalkFinishes, Sizing, Resting
      <3> QED
        BY <3>1 DEF WalkIsFor
    <2> DEFINE s == walk.under
    <2>2. PICK c \in Wanted(s) :
             /\ sizes' = [sizes EXCEPT ![c] = [state |-> "measured", shape |-> ShapeOf(c, s)]]
             /\ walk' = [walk EXCEPT !.todo = @ \ {c}]
      BY <1>5 DEF WalkFinishes, Wanted, Range
    <2>3. c \in Style /\ [state |-> "measured", shape |-> ShapeOf(c, s)] \in Size
      BY <2>1, <2>2, WhatIsWanted DEF Size, Shape
    <2>4. walk' \in [walking : {TRUE}, todo : SUBSET Style, under : Counting] /\ walk'.under = s
      BY <2>1, <2>2
    <2>5. \A d \in Wanted(s) : sizes'[d].shape = ShapeOf(d, s)
      BY <2>1, <2>2, <2>3, WhatIsWanted DEF Counted, SurveyTypes
    <2>6. WalkIsFor'
      BY <2>4, <2>5 DEF WalkIsFor, Counted
    <2>7. SurveyTypes'
      BY <1>5, <2>2, <2>3 DEF WalkFinishes, SurveyTypes
    <2> QED
      BY <2>6, <2>7
  <1>6. CASE WalkEnds
    BY <1>6 DEF WalkEnds, SurveyTypes, WalkIsFor
  <1>7. ASSUME NEW t \in Tab, Saves(t) \/ Refused(t)
        PROVE  SurveyTypes' /\ WalkIsFor'
    <2>1. UNCHANGED <<sizes, walk>>
      BY <1>7 DEF Saves, Refused
    <2>2. WalkIsFor'
      BY <2>1 DEF WalkIsFor, Counted
    <2>3. settings' \in Setting
      BY <1>7 DEF Saves, Refused, Stores, SurveyTypes
    <2>4. PICK r \in Page : tab' = [tab EXCEPT ![t] = r]
      <3>1. CASE Saves(t)
        BY <3>1 DEF Saves, Page
      <3>2. CASE Refused(t)
        <4>1. PICK plan \in Setting : tab' = [tab EXCEPT ![t] =
                [at |-> "shown", read |-> Asked(plan), overtaken |-> FALSE, figures |-> sizes,
                 refresh |-> FALSE, problem |-> TRUE]]
          BY <3>2 DEF Refused
        <4> QED
          BY <4>1, AskedIsCounting DEF Page, SurveyTypes
      <3> QED
        BY <1>7, <3>1, <3>2
    <2> QED
      BY <2>1, <2>2, <2>3, <2>4 DEF SurveyTypes
  <1> QED
    BY <1>1, <1>2, <1>3, <1>4, <1>5, <1>6, <1>7 DEF SurveyNext

\* A step that is not a Measure leaves a page that is being served either right or
\* overtaken.
LEMMA ServedKept ==
    ASSUME SurveyInv, [SurveyNext]_surveyVars
    PROVE  ServedIsRight'
  <1> USE DEF SurveyInv
  <1>1. SurveyTypes' /\ tab \in [Tab -> Page]
    BY SurveyTypesKept DEF SurveyTypes
  <1> DEFINE Right(u) == tab[u].at = "render" /\ ~tab[u].overtaken =>
                            Counted(tab[u].read) /\ (Sizing => walk.under = tab[u].read)
  <1> SUFFICES ASSUME NEW u \in Tab
               PROVE  Right(u)'
    BY DEF ServedIsRight
  <1>2. Right(u)
    BY DEF ServedIsRight
  <1>3. ASSUME tab'[u] = tab[u], UNCHANGED <<sizes, walk>>
        PROVE  Right(u)'
    BY <1>2, <1>3 DEF Counted, Sizing
  <1>4. CASE RetestSpeed \/ ProbeEnds \/ UNCHANGED surveyVars
    BY <1>3, <1>4 DEF RetestSpeed, ProbeEnds, surveyVars
  <1>5. ASSUME NEW t \in Tab, Reads(t) \/ Renders(t) \/ Saves(t) \/ Refused(t)
        PROVE  Right(u)'
    <2>1. CASE t = u
      BY <1>1, <1>5, <2>1 DEF Reads, Renders, Saves, Refused, Blank
    <2>2. CASE t # u
      BY <1>1, <1>3, <1>5, <2>2 DEF Reads, Renders, Saves, Refused
    <2> QED  BY <2>1, <2>2
  <1>6. ASSUME NEW t \in Tab, Measures(t) \/ Recounts(t)
        PROVE  Right(u)'
    <2>0. tab[t].read \in Counting /\ Measured(tab[t].read)
      BY <1>1, <1>6 DEF Measures, Recounts, Page, Blank
    <2>1. PICK s \in Counting : s = tab[t].read /\ Measured(s)
      BY <2>0
    <2>2. CASE t = u
      <3>1. CASE Measures(t)
        <4>1. tab'[u].at = "render" /\ tab'[u].read = s
              /\ (tab'[u].overtaken <=> Sizing /\ walk.under # s)
          BY <1>1, <2>1, <2>2, <3>1 DEF Measures, Overtaken
        <4>2. CASE Starts(s)
          BY <2>1, <4>1, <4>2, MeasureCounts
        <4>3. CASE ~Starts(s)
          BY <2>1, <4>1, <4>3, MeasureCounts DEF Sizing
        <4> QED  BY <4>2, <4>3
      <3>2. CASE Recounts(t)
        BY <1>1, <2>2, <3>2 DEF Recounts, Overtaken, Blank
      <3> QED  BY <1>6, <3>1, <3>2
    <2>3. CASE t # u
      <3>1. tab'[u] = Overtaken(OthersThan(t, s))[u]
        BY <1>1, <1>6, <2>1, <2>3 DEF Measures, Recounts, Overtaken
      <3>2. CASE Starts(s)
        <4>1. CASE tab[u].at = "render" /\ tab[u].read # s
          <5>1. tab[u] \in [at : {"render"}, read : Counting, overtaken : BOOLEAN]
            BY <1>1, <4>1 DEF Page, Blank
          <5>2. tab'[u] = [tab[u] EXCEPT !.overtaken = TRUE]
            BY <2>3, <3>1, <3>2, <4>1 DEF Overtaken, OthersThan
          <5> QED  BY <5>1, <5>2
        <4>2. CASE ~(tab[u].at = "render" /\ tab[u].read # s)
          <5>1. tab'[u] = tab[u]
            BY <3>1, <3>2, <4>2 DEF Overtaken, OthersThan
          <5>2. Counted(s)' /\ walk'.under = s
            BY <2>1, <3>2, MeasureCounts
          <5>3. tab[u].at = "render" => tab[u].read = s
            BY <4>2
          <5> QED  BY <5>1, <5>2, <5>3
        <4> QED  BY <4>1, <4>2
      <3>3. CASE ~Starts(s)
        <4>1. UNCHANGED <<sizes, walk>>
          BY <2>1, <3>3, MeasureCounts
        <4>2. tab'[u] = tab[u]
          BY <3>1, <3>3 DEF Overtaken, OthersThan
        <4> QED  BY <1>3, <4>1, <4>2
      <3> QED  BY <3>2, <3>3
    <2> QED  BY <2>2, <2>3
  <1>7. ASSUME NEW t \in Tab, Remeasure(t)
        PROVE  Right(u)'
    <2>1. CASE t = u
      BY <1>1, <1>7, <2>1 DEF Remeasure, Overtaken
    <2>2. CASE t # u /\ Sizing
      <3>1. UNCHANGED <<sizes, walk>> /\ tab'[u] = tab[u]
        BY <1>1, <1>7, <2>2 DEF Remeasure, Overtaken
      <3> QED  BY <1>3, <3>1
    <2>3. CASE t # u /\ ~Sizing
      <3>1. tab'[u] = IF tab[u].at = "render" THEN [tab[u] EXCEPT !.overtaken = TRUE] ELSE tab[u]
        BY <1>1, <1>7, <2>3 DEF Remeasure, Overtaken
      <3>2. CASE tab[u].at = "render"
        <4>1. tab[u] \in [at : {"render"}, read : Counting, overtaken : BOOLEAN]
          BY <1>1, <3>2 DEF Page, Blank
        <4> QED  BY <3>1, <3>2, <4>1
      <3>3. CASE tab[u].at # "render"
        BY <3>1, <3>3
      <3> QED  BY <3>2, <3>3
    <2> QED  BY <2>1, <2>2, <2>3
  <1>8. CASE WalkFinishes
    <2>1. tab' = tab /\ Sizing /\ walk'.under = walk.under /\ Sizing'
      <3>1. walk # Resting /\ tab' = tab /\ Sizing
        BY <1>8 DEF WalkFinishes, Sizing, Resting
      <3>2. walk \in [walking : {TRUE}, todo : SUBSET Style, under : Counting]
        BY <3>1 DEF WalkIsFor
      <3>3. \E c : walk' = [walk EXCEPT !.todo = @ \ {c}]
        BY <1>8 DEF WalkFinishes
      <3> QED  BY <3>1, <3>2, <3>3 DEF Sizing
    <2>2. Counted(walk.under)'
      <3>1. walk' # Resting
        BY <2>1 DEF Sizing, Resting
      <3>2. WalkIsFor'
        BY SurveyTypesKept
      <3> QED
        BY <3>1, <3>2 DEF WalkIsFor
    <2>3. \A c \in Wanted(walk.under) : sizes'[c].shape = ShapeOf(c, walk.under)
      BY <2>1, <2>2 DEF Counted
    <2>4. tab[u].at = "render" /\ ~tab[u].overtaken => tab[u].read = walk.under
      BY <1>2, <2>1
    <2> QED
      BY <2>1, <2>3, <2>4 DEF Counted
  <1>9. CASE WalkEnds
    <2>1. tab' = tab /\ sizes' = sizes /\ ~Sizing'
      BY <1>9 DEF WalkEnds, Sizing, Resting
    <2> QED
      BY <1>2, <2>1 DEF Counted
  <1> QED
    BY <1>4, <1>5, <1>6, <1>7, <1>8, <1>9 DEF SurveyNext

\* A page is as it was rendered; it is rendered from figures that are right.
LEMMA ShownKept ==
    ASSUME SurveyInv, [SurveyNext]_surveyVars
    PROVE  StillPageIsRight'
  <1> USE DEF SurveyInv
  <1>1. SurveyTypes' /\ tab \in [Tab -> Page]
    BY SurveyTypesKept DEF SurveyTypes
  <1> SUFFICES ASSUME NEW u \in Tab, tab'[u].at = "shown", ~tab'[u].refresh, ~tab'[u].overtaken,
                      ~tab'[u].problem, NEW c \in Wanted(tab'[u].read)
               PROVE  tab'[u].figures[c] = [state |-> "measured", shape |-> ShapeOf(c, tab'[u].read)]
    BY DEF StillPageIsRight, Wanted
  <1>2. CASE tab'[u] = tab[u]
    BY <1>2 DEF StillPageIsRight, Wanted
  <1>3. CASE Renders(u)
    <2>1. tab[u] \in [at : {"render"}, read : Counting, overtaken : BOOLEAN]
      BY <1>1, <1>3 DEF Renders, Page, Blank
    <2>2. /\ tab'[u].read = tab[u].read /\ tab'[u].overtaken = tab[u].overtaken
          /\ tab'[u].figures = sizes
          /\ tab'[u].refresh = (upload = "measuring" \/ Measuring(sizes))
      BY <1>1, <1>3, Zenon DEF Renders
    <2>3. c \in Style /\ sizes[c] \in Size
      BY <2>1, <2>2, WhatIsWanted DEF SurveyTypes
    <2>4. sizes[c].shape = ShapeOf(c, tab[u].read)
      BY <2>1, <2>2 DEF ServedIsRight, Counted
    <2>5. ~Measuring(sizes)
      BY <2>2
    <2>6. sizes[c].state = "measured"
      BY <2>3, <2>4, <2>5, ShapesSaySomething DEF Measuring, Size, SurveyTypes
    <2> QED
      BY <2>2, <2>3, <2>4, <2>6 DEF Size
  <1>4. ASSUME NEW t \in Tab, Reads(t) \/ Saves(t) \/ Refused(t) \/ (t # u /\ Renders(t))
        PROVE  tab'[u] = tab[u]
    BY <1>1, <1>4 DEF Reads, Renders, Saves, Refused, Blank
  <1>5. ASSUME NEW t \in Tab, Measures(t) \/ Recounts(t) \/ Remeasure(t)
        PROVE  tab'[u] = tab[u]
    <2>1. t # u
      BY <1>1, <1>5 DEF Measures, Recounts, Remeasure, Overtaken, Blank
    <2>2. PICK others : tab'[u] = Overtaken(others)[u]
      BY <1>1, <1>5, <2>1 DEF Measures, Recounts, Remeasure, Overtaken
    <2>3. CASE tab[u].at = "render"
      <3>1. tab[u] \in [at : {"render"}, read : Counting, overtaken : BOOLEAN]
        BY <1>1, <2>3 DEF Page, Blank
      <3>2. tab'[u].at = "render"
        BY <2>2, <3>1 DEF Overtaken
      <3> QED  BY <3>2
    <2>4. CASE tab[u].at # "render"
      BY <2>2, <2>4 DEF Overtaken
    <2> QED  BY <2>3, <2>4
  <1>6. CASE \/ RetestSpeed \/ ProbeEnds \/ WalkFinishes \/ WalkEnds
             \/ UNCHANGED surveyVars
    BY <1>2, <1>6 DEF RetestSpeed, ProbeEnds, WalkFinishes, WalkEnds, surveyVars
  <1> QED
    BY <1>2, <1>3, <1>4, <1>5, <1>6 DEF SurveyNext

\* Whatever is saved, tested again, counted again or served meanwhile: a set-up
\* page that has stopped reloading itself, and was not overtaken while it was being
\* served, shows a finished count of every choice, made under the settings it shows.
THEOREM StillPagesAreRight == SurveySpec => []StillPageIsRight
  <1>1. SurveyInit => SurveyInv
    <2> SUFFICES ASSUME SurveyInit PROVE SurveyInv
      OBVIOUS
    <2>1. Unmeasured \in Size /\ Unmeasured.shape = <<>>
      BY DEF Unmeasured, Size, Shape
    <2>2. Blank \in Page /\ Blank.at = "blank"
      BY DEF Page, Blank
    <2> QED
      BY <2>1, <2>2
         DEF SurveyInit, SurveyInv, SurveyTypes, WalkIsFor, ServedIsRight, StillPageIsRight
  <1>2. SurveyInv /\ [SurveyNext]_surveyVars => SurveyInv'
    BY SurveyTypesKept, ServedKept, ShownKept DEF SurveyInv
  <1>3. SurveyInv => StillPageIsRight
    BY DEF SurveyInv
  <1> QED
    BY <1>1, <1>2, <1>3, PTL DEF SurveySpec

-----------------------------------------------------------------------------
(***************************************************************************)
(* ResticInstall, for any number of processes and of failures: an          *)
(* installation never costs a machine the restic it had.                   *)
(***************************************************************************)
InstallStep == {"idle", "ask", "fetch", "clear", "aside", "place", "back", "tidy", "confirm", "ready"}

CopyOfRestic == {"none", "broken", "old", "pinned"}

InstallTypes ==
    /\ binary \in CopyOfRestic /\ spare \in CopyOfRestic
    /\ step \in [Installer -> InstallStep]
    /\ staged \in [Installer -> {"nothing", "pinned"}]
    /\ past \in SUBSET {"had none", "forced", "overlap", "failed", "stuck", "killed"}
    /\ \A p \in Installer : step[p] \in {"clear", "aside", "place"} => staged[p] = "pinned"

(***************************************************************************)
(* As long as no rename failed, installs may mix as they like: whenever    *)
(* there is no restic, somebody is about to put a new one there.           *)
(***************************************************************************)
Mixed ==
    past \subseteq {"overlap"} =>
        /\ Runs(binary) \/ \E p \in Installer : step[p] = "place"
        /\ \A p \in Installer : step[p] # "back"

(***************************************************************************)
(* As long as installs did not mix, renames may fail: one swaps at a time, *)
(* and between its renames the old restic is in ".old".                    *)
(***************************************************************************)
Alone ==
    past \subseteq {"failed"} =>
        /\ \A p, q \in Installer : Swaps(p) /\ Swaps(q) => p = q
        /\ \/ Runs(binary)
           \/ \E p \in Installer : step[p] \in {"place", "back"}
        /\ \A p \in Installer : step[p] \in {"place", "back"} => Runs(spare)

InstallInv == InstallTypes /\ Mixed /\ Alone

LEMMA InstallTypesKept ==
    ASSUME InstallTypes, [InstallNext]_installVars
    PROVE  InstallTypes'
  <1>1. ASSUME NEW p \in Installer,
               \/ ForceInstall(p) \/ EnsurePinned(p) \/ Clear(p) \/ MoveAside(p) \/ PutInPlace(p)
               \/ PutBack(p) \/ Tidy(p) \/ Confirm(p) \/ Done(p) \/ KilledInstalling(p)
        PROVE  InstallTypes'
    <2>1. CASE ForceInstall(p) \/ EnsurePinned(p) \/ Confirm(p) \/ Done(p)
      BY <2>1 DEF InstallTypes, ForceInstall, EnsurePinned, Confirm, Done, Then, InstallStep, CopyOfRestic
    <2>2. CASE Clear(p)
      BY <2>2 DEF InstallTypes, Clear, Then, InstallStep, CopyOfRestic
    <2>3. CASE MoveAside(p)
      BY <2>3 DEF InstallTypes, MoveAside, Then, InstallStep, CopyOfRestic
    <2>4. CASE PutInPlace(p)
      BY <2>4 DEF InstallTypes, PutInPlace, Then, InstallStep, CopyOfRestic
    <2>5. CASE PutBack(p)
      BY <2>5 DEF InstallTypes, PutBack, Returned, Then, InstallStep, CopyOfRestic
    <2>6. CASE Tidy(p) \/ KilledInstalling(p)
      BY <2>6 DEF InstallTypes, Tidy, KilledInstalling, Then, InstallStep, CopyOfRestic
    <2> QED
      BY <1>1, <2>1, <2>2, <2>3, <2>4, <2>5, <2>6
  <1>2. ASSUME NEW p \in Installer, Fetch(p) PROVE InstallTypes'
    <2>1. PICK got \in {"nothing", "corrupt", "broken", "pinned"} :
             IF Passes(got)
             THEN staged' = [staged EXCEPT ![p] = got] /\ Then(p, "clear")
             ELSE Then(p, "idle") /\ UNCHANGED staged
      BY <1>2 DEF Fetch
    <2> QED
      BY <1>2, <2>1 DEF InstallTypes, Fetch, Passes, Then, InstallStep, CopyOfRestic
  <1>3. CASE UNCHANGED installVars
    BY <1>3 DEF InstallTypes, installVars
  <1> QED
    BY <1>1, <1>2, <1>3 DEF InstallNext

\* The history only grows, so what it does not hold it never held.
LEMMA PastGrows ==
    ASSUME InstallTypes, [InstallNext]_installVars
    PROVE  past \subseteq past'
  BY DEF InstallNext, installVars, ForceInstall, EnsurePinned, Fetch, Clear, MoveAside, PutInPlace,
         PutBack, Tidy, Confirm, Done, KilledInstalling

LEMMA MixedKept ==
    ASSUME InstallTypes, Mixed, [InstallNext]_installVars
    PROVE  Mixed'
  <1> SUFFICES ASSUME past' \subseteq {"overlap"}
               PROVE  /\ Runs(binary') \/ \E q \in Installer : step'[q] = "place"
                      /\ \A q \in Installer : step'[q] # "back"
    BY DEF Mixed, Runs
  <1>1. past \subseteq {"overlap"}
    BY PastGrows
  <1>2. /\ Runs(binary) \/ \E q \in Installer : step[q] = "place"
        /\ \A q \in Installer : step[q] # "back"
        /\ step \in [Installer -> InstallStep]
    BY <1>1 DEF Mixed, InstallTypes
  <1>3. CASE UNCHANGED installVars
    BY <1>2, <1>3 DEF installVars
  <1>4. ASSUME NEW p \in Installer,
               \/ EnsurePinned(p) \/ Fetch(p) \/ Clear(p) \/ Tidy(p) \/ Confirm(p) \/ Done(p)
        PROVE  /\ Runs(binary') \/ \E q \in Installer : step'[q] = "place"
               /\ \A q \in Installer : step'[q] # "back"
    <2>1. binary' = binary /\ step[p] # "place"
      BY <1>4 DEF EnsurePinned, Fetch, Clear, Tidy, Confirm, Done
    <2>2. PICK next \in InstallStep \ {"back"} : Then(p, next)
      BY <1>4 DEF EnsurePinned, Fetch, Clear, Tidy, Confirm, Done, InstallStep
    <2> QED
      BY <1>2, <2>1, <2>2 DEF Then
  <1>5. ASSUME NEW p \in Installer, MoveAside(p)
        PROVE  /\ Runs(binary') \/ \E q \in Installer : step'[q] = "place"
               /\ \A q \in Installer : step'[q] # "back"
    BY <1>2, <1>5 DEF MoveAside, Then
  <1>6. ASSUME NEW p \in Installer, PutInPlace(p)
        PROVE  /\ Runs(binary') \/ \E q \in Installer : step'[q] = "place"
               /\ \A q \in Installer : step'[q] # "back"
    <2>1. "failed" \notin past'
      OBVIOUS
    <2>2. binary' = staged[p] /\ Then(p, "tidy")
      BY <1>6, <2>1 DEF PutInPlace
    <2>3. Runs(binary')
      BY <1>6, <2>2 DEF PutInPlace, InstallTypes, Runs
    <2> QED
      BY <1>2, <2>2, <2>3 DEF Then
  <1>7. ASSUME NEW p \in Installer, KilledInstalling(p)
        PROVE  /\ Runs(binary') \/ \E q \in Installer : step'[q] = "place"
               /\ \A q \in Installer : step'[q] # "back"
    BY <1>2, <1>7 DEF KilledInstalling, Then
  <1>8. \A p \in Installer : ~ForceInstall(p) /\ ~PutBack(p)
    BY <1>2 DEF ForceInstall, PutBack
  <1> QED
    BY <1>3, <1>4, <1>5, <1>6, <1>7, <1>8 DEF InstallNext

LEMMA AloneKept ==
    ASSUME InstallTypes, Alone, [InstallNext]_installVars
    PROVE  Alone'
  <1> DEFINE Goal == /\ \A p, q \in Installer : Swaps(p)' /\ Swaps(q)' => p = q
                     /\ \/ Runs(binary')
                        \/ \E p \in Installer : step'[p] \in {"place", "back"}
                     /\ \A p \in Installer : step'[p] \in {"place", "back"} => Runs(spare')
  <1> SUFFICES ASSUME past' \subseteq {"failed"} PROVE Goal
    BY DEF Alone, Runs
  <1>1. past \subseteq {"failed"}
    BY PastGrows
  <1>2. /\ \A p, q \in Installer : Swaps(p) /\ Swaps(q) => p = q
        /\ Runs(binary) \/ \E p \in Installer : step[p] \in {"place", "back"}
        /\ \A p \in Installer : step[p] \in {"place", "back"} => Runs(spare)
        /\ step \in [Installer -> InstallStep]
    BY <1>1 DEF Alone, InstallTypes
  <1>3. CASE UNCHANGED installVars
    BY <1>2, <1>3 DEF installVars, Swaps
  <1>4. ASSUME NEW p \in Installer, EnsurePinned(p) \/ Fetch(p) \/ Confirm(p) \/ Done(p)
        PROVE  Goal
    <2>1. binary' = binary /\ spare' = spare /\ ~Swaps(p)
      BY <1>4 DEF EnsurePinned, Fetch, Confirm, Done, Swaps
    <2>2. PICK next \in InstallStep \ {"aside", "place", "back", "tidy"} : Then(p, next)
      BY <1>4 DEF EnsurePinned, Fetch, Confirm, Done, InstallStep
    <2>3. \A q \in Installer : Swaps(q)' => q # p /\ Swaps(q) /\ step'[q] = step[q]
      BY <1>2, <2>2 DEF Then, Swaps
    <2>4. \A q \in Installer : Swaps(q) => step'[q] = step[q]
      BY <1>2, <2>1, <2>2 DEF Then
    <2> QED
      BY <1>2, <2>1, <2>3, <2>4 DEF Swaps
  <1>5. ASSUME NEW p \in Installer, Clear(p) PROVE Goal
    <2>1. \A q \in Installer \ {p} : ~Swaps(q)
      BY <1>5 DEF Clear
    <2>2. Then(p, "aside") /\ binary' = binary /\ step[p] = "clear"
      BY <1>5 DEF Clear
    <2>3. \A q \in Installer : Swaps(q)' => q = p
      BY <1>2, <2>1, <2>2 DEF Then, Swaps
    <2>4. \A q \in Installer : step[q] \notin {"place", "back"}
      BY <2>1, <2>2 DEF Swaps
    <2>5. \A q \in Installer : step'[q] \notin {"place", "back"}
      BY <1>2, <2>2, <2>4 DEF Then
    <2> QED
      BY <1>2, <2>2, <2>3, <2>4, <2>5
  <1>6. ASSUME NEW p \in Installer,
               MoveAside(p) \/ PutInPlace(p) \/ PutBack(p) \/ Tidy(p)
        PROVE  Goal
    <2>1. Swaps(p)
      BY <1>6 DEF MoveAside, PutInPlace, PutBack, Tidy, Swaps
    <2>2. \A q \in Installer \ {p} : step'[q] = step[q] /\ ~Swaps(q)
      BY <1>2, <1>6, <2>1 DEF MoveAside, PutInPlace, PutBack, Tidy, Then
    <2>3. \A q \in Installer : Swaps(q)' => q = p
      BY <2>2 DEF Swaps
    <2>4. \A q \in Installer \ {p} : step'[q] \notin {"place", "back"}
                                  /\ step[q] \notin {"place", "back"}
      BY <2>2 DEF Swaps
    <2>5. /\ Runs(binary') \/ step'[p] \in {"place", "back"}
          /\ step'[p] \in {"place", "back"} => Runs(spare')
      <3>1. CASE MoveAside(p)
        <4>1. Runs(binary)
          BY <1>2, <2>4, <3>1 DEF MoveAside
        <4> QED
          BY <1>2, <3>1, <4>1 DEF MoveAside, Then, Runs
      <3>2. CASE PutInPlace(p)
        <4>1. staged[p] = "pinned" /\ Runs(spare)
          BY <1>2, <3>2 DEF PutInPlace, InstallTypes
        <4> QED
          BY <1>2, <3>2, <4>1 DEF PutInPlace, Then, Runs
      <3>3. CASE PutBack(p)
        <4>1. Runs(spare) /\ spare # "none"
          BY <1>2, <3>3 DEF PutBack, Runs
        <4>2. binary' = spare /\ Then(p, "idle")
          BY <3>3, <4>1 DEF PutBack, Returned
        <4> QED
          BY <1>2, <4>1, <4>2 DEF Then
      <3>4. CASE Tidy(p)
        <4>1. Runs(binary) /\ binary' = binary /\ Then(p, "confirm")
          BY <1>2, <2>4, <3>4 DEF Tidy
        <4> QED
          BY <1>2, <4>1 DEF Then
      <3> QED
        BY <1>6, <3>1, <3>2, <3>3, <3>4
    <2> QED
      BY <2>3, <2>4, <2>5
  <1>7. ASSUME NEW p \in Installer, KilledInstalling(p) PROVE Goal
    <2>1. Runs(binary) /\ binary' = binary /\ spare' = spare /\ Then(p, "idle")
      BY <1>7 DEF KilledInstalling
    <2>2. \A q \in Installer : Swaps(q)' => Swaps(q) /\ step'[q] = step[q]
      BY <1>2, <2>1 DEF Then, Swaps
    <2> QED
      BY <1>2, <2>1, <2>2 DEF Swaps
  <1>8. \A p \in Installer : ~ForceInstall(p)
    BY DEF ForceInstall
  <1> QED
    BY <1>3, <1>4, <1>5, <1>6, <1>7, <1>8 DEF InstallNext

\* Whatever downloads fail or do not run, whichever rename fails (swap, put back), and
\* however many installs mix (nothing keeps two apart): when nobody is swapping, there is
\* a restic that runs.
THEOREM InstallingKeepsRestic == InstallSpec => []ResticIsKept
  <1>1. InstallInit => InstallInv
    BY DEF InstallInit, InstallInv, InstallTypes, Mixed, Alone, Swaps, InstallStep, CopyOfRestic, Runs
  <1>2. InstallInv /\ [InstallNext]_installVars => InstallInv'
    BY InstallTypesKept, MixedKept, AloneKept DEF InstallInv
  <1>3. InstallInv => ResticIsKept
    <2> SUFFICES ASSUME InstallInv, Settled,
                        past \subseteq {"overlap"} \/ past \subseteq {"failed"}
                 PROVE  Runs(binary)
      BY DEF ResticIsKept
    <2>1. \A p \in Installer : step[p] \notin {"place", "back"}
      BY DEF Settled, Swaps
    <2> QED
      BY <2>1 DEF InstallInv, Mixed, Alone
  <1> QED
    BY <1>1, <1>2, <1>3, PTL DEF InstallSpec

-----------------------------------------------------------------------------
(***************************************************************************)
(* Adoption, for any number of places, codes and mishaps: a machine is     *)
(* enrolled where it says it has been writing, nothing is created over or  *)
(* beside the old history, and no code is wasted.                          *)
(***************************************************************************)

(***************************************************************************)
(* What a command holds.                                                   *)
(***************************************************************************)
Before == {"seed", "measure", "steps", "fetch", "claim"}
After == {"save", "store", "ensure", "verify"}

Claiming == [at : Before, names : Repository \cup {None}, adopting : BOOLEAN, claim : BOOLEAN]
Joining == [at : After, names : Repository \cup {None}, adopting : BOOLEAN,
            url : Repository, mayCreate : BOOLEAN]

(* A row of the server's names a bucket; one that is not adopted is fresh. *)
ServerRow == {r \in [url : Repository, adopted : BOOLEAN] : r.adopted \/ r.url = Fresh}

AdoptTypes ==
    /\ script \in Repository \cup {None}
    /\ row \in ServerRow \cup {None}
    /\ code \in {"none", "good", "expired", "spent"}
    /\ repo \in [Repository -> {"absent", "history", "created"}]
    /\ token \in BOOLEAN /\ restic \in BOOLEAN /\ lost \in BOOLEAN
    /\ cmd \in {NoCommand} \cup Claiming \cup Joining
    /\ joined \in {None} \cup [url : Repository, names : Repository \cup {None}]

(* A command moves on from one step to another of the same part. *)
LEMMA Moves ==
    ASSUME cmd \in Claiming, NEW where \in Before
    PROVE  [cmd EXCEPT !.at = where] \in Claiming /\ [cmd EXCEPT !.at = where].at = where
  BY DEF Claiming

LEMMA MovesOn ==
    ASSUME cmd \in Joining, NEW where \in After
    PROVE  /\ [cmd EXCEPT !.at = where] \in Joining
           /\ [cmd EXCEPT !.at = where].at = where
           /\ [cmd EXCEPT !.at = where].names = cmd.names
           /\ [cmd EXCEPT !.at = where].url = cmd.url
           /\ [cmd EXCEPT !.at = where].mayCreate = cmd.mayCreate
  BY DEF Joining

(* Where a command is says what it holds. *)
LEMMA Parts ==
    ASSUME AdoptTypes
    PROVE  /\ cmd.at \in Before => cmd \in Claiming
           /\ cmd.at \in After => cmd \in Joining
  BY DEF AdoptTypes, Before, After, NoCommand, Claiming, Joining

(***************************************************************************)
(* The invariant.                                                          *)
(***************************************************************************)
(* A code that can be claimed has a row behind it; a command past its      *)
(* claim was granted it for the bucket it names, if it names one, may      *)
(* create nothing but a fresh one, and has restic already.                 *)
AdoptInv ==
    /\ AdoptTypes
    /\ code = "good" => row # None
    /\ repo[Legacy] = "history" /\ repo[Beside] = "absent"
    /\ cmd.at \in After => (cmd.mayCreate => cmd.url = Fresh)
    /\ cmd.at = "save" => cmd.names \in {None, cmd.url}
    /\ joined # None => joined.names \in {None, joined.url}
    /\ cmd.at \in {"claim"} \cup After => restic
    /\ code = "spent" => restic /\ (token \/ cmd.at = "save" \/ lost)

LEMMA AdoptInvInit == AdoptInit => AdoptInv
  <1> SUFFICES ASSUME AdoptInit PROVE AdoptInv
    OBVIOUS
  <1>1. /\ repo \in [Repository -> {"absent", "history", "created"}]
        /\ repo[Legacy] = "history" /\ repo[Beside] = "absent"
    BY AdoptionAssumption DEF AdoptInit, Repository
  <1>2. cmd = NoCommand /\ cmd.at = "idle"
    BY DEF AdoptInit, NoCommand
  <1>3. AdoptTypes
    BY <1>1, <1>2 DEF AdoptInit, AdoptTypes, Repository
  <1> QED
    BY <1>1, <1>2, <1>3 DEF AdoptInit, AdoptInv, After

(* A row is not the absence of one. *)
LEMMA NoRowIsNone ==
    ASSUME NEW u \in {Legacy, Beside, Fresh}, NEW a \in BOOLEAN
    PROVE  [url |-> u, adopted |-> a] # None
  <1>1. [url |-> u, adopted |-> a] \in [url : {Legacy, Beside, Fresh}, adopted : BOOLEAN]
    OBVIOUS
  <1> QED
    BY <1>1, AdoptionAssumption

(* What the commands and the administrator do to a row. *)
LEMMA ServerInv == AdoptInv /\ (Provision \/ Adopt \/ IssueCode \/ CodeExpires) => AdoptInv'
  <1> SUFFICES ASSUME AdoptInv, Provision \/ Adopt \/ IssueCode \/ CodeExpires PROVE AdoptInv'
    OBVIOUS
  <1>1. row' \in ServerRow \cup {None}
    <2>1. CASE Provision
      BY <2>1 DEF Provision, ServerRow, Repository
    <2>2. CASE Adopt
      BY <2>2 DEF Adopt, ServerRow, Repository
    <2>3. CASE IssueCode \/ CodeExpires
      BY <2>3 DEF IssueCode, CodeExpires, AdoptInv, AdoptTypes
    <2> QED
      BY <2>1, <2>2, <2>3
  <1>2. /\ code' \in {"none", "good", "expired", "spent"}
        /\ code' = "good" => row' # None
        /\ code' = "spent" => code = "spent"
    <2>1. CASE Provision
      <3>1. row' # None
        BY <2>1, NoRowIsNone DEF Provision
      <3> QED
        BY <2>1, <3>1 DEF Provision, AdoptInv, AdoptTypes
    <2>2. CASE Adopt
      <3>1. PICK u \in {Legacy, Beside} : row' = [url |-> u, adopted |-> TRUE]
        BY <2>2 DEF Adopt
      <3>2. row' # None
        BY <3>1, NoRowIsNone
      <3> QED
        BY <2>2, <3>2 DEF Adopt, AdoptInv, AdoptTypes
    <2>3. CASE IssueCode \/ CodeExpires
      BY <2>3 DEF IssueCode, CodeExpires, AdoptInv, AdoptTypes
    <2> QED
      BY <2>1, <2>2, <2>3
  <1>3. UNCHANGED <<script, token, restic, repo, cmd, joined, lost>>
    BY DEF Provision, Adopt, IssueCode, CodeExpires, onDisk
  <1> QED
    BY <1>1, <1>2, <1>3 DEF AdoptInv, AdoptTypes

(* Before the claim: nothing that is kept here changes but restic.         *)
LEMMA BeforeClaim ==
    ASSUME AdoptInv,
           cmd' \in {NoCommand} \cup Claiming,
           restic' \in {restic, TRUE},
           cmd'.at = "claim" => restic',
           UNCHANGED <<script, row, repo, token, joined>>,
           code' \in {code, "expired"},
           lost' = lost \/ lost' = (lost \/ cmd.at = "save"),
           cmd.at = "save" => lost'
    PROVE  AdoptInv'
  <1>1. AdoptTypes'
    BY DEF AdoptInv, AdoptTypes
  <1>2. cmd'.at \notin After
    BY DEF NoCommand, Claiming, Before, After
  <1>3. lost => lost'
    OBVIOUS
  <1>4. (code = "spent" => restic /\ (token \/ cmd.at = "save" \/ lost))'
    BY <1>3 DEF AdoptInv, AdoptTypes
  <1> QED
    BY <1>1, <1>2, <1>4 DEF AdoptInv, After, AdoptTypes

LEMMA CommandInv ==
    AdoptInv /\ ((\E root \in BOOLEAN : Recon(root))
            \/ (\E root, withCode, force \in BOOLEAN : AdoptEnrol(root, withCode, force))
            \/ (\E force \in BOOLEAN : EnrolCmd(force)) \/ Declined
            \/ SeedAdoptedPlan \/ Measure \/ ServerSteps \/ FetchRestic \/ ClaimRefused \/ Killed)
        => AdoptInv'
  <1> USE DEF atServer, onDisk, Goto, Continue, Stop
  <1> SUFFICES ASSUME AdoptInv PROVE
            (\E root \in BOOLEAN : Recon(root))
            \/ (\E root, withCode, force \in BOOLEAN : AdoptEnrol(root, withCode, force))
            \/ (\E force \in BOOLEAN : EnrolCmd(force)) \/ Declined
            \/ SeedAdoptedPlan \/ Measure \/ ServerSteps \/ FetchRestic \/ ClaimRefused \/ Killed
            => AdoptInv'
    OBVIOUS
  <1>a. AdoptTypes
    BY DEF AdoptInv
  <1>n. NoCommand.at = "idle" /\ "idle" \notin After
    BY DEF NoCommand, After
  <1>1. ASSUME NEW root \in BOOLEAN, Recon(root) PROVE AdoptInv'
    BY <1>1, <1>n, BeforeClaim, <1>a DEF Recon
  <1>2. ASSUME NEW root \in BOOLEAN, NEW withCode \in BOOLEAN, NEW force \in BOOLEAN,
               AdoptEnrol(root, withCode, force)
        PROVE  AdoptInv'
    <2>1. Assembled(withCode) \in Claiming /\ Assembled(withCode).at = "seed"
      BY <1>a DEF Assembled, Claiming, Before, AdoptTypes
    <2>2. cmd' \in {NoCommand} \cup Claiming /\ cmd'.at # "claim"
      BY <1>2, <1>n, <2>1 DEF AdoptEnrol
    <2> QED
      BY <1>2, <1>n, <2>2, BeforeClaim DEF AdoptEnrol
  <1>3. ASSUME NEW force \in BOOLEAN, EnrolCmd(force) PROVE AdoptInv'
    <2>1. cmd' \in Claiming /\ cmd'.at = "fetch"
      BY <1>3 DEF EnrolCmd, Claiming, Before
    <2> QED
      BY <1>3, <1>n, <2>1, BeforeClaim DEF EnrolCmd
  <1>4. CASE Declined
    BY <1>4, <1>n, BeforeClaim DEF Declined
  <1>5. CASE SeedAdoptedPlan
    <2>1. cmd' \in Claiming /\ cmd'.at = "measure"
      BY <1>5, <1>a, Parts, Moves DEF SeedAdoptedPlan, Before
    <2> QED
      BY <1>5, <2>1, BeforeClaim DEF SeedAdoptedPlan
  <1>6. CASE Measure
    <2>1. cmd' \in Claiming /\ cmd'.at \in {"fetch", "steps"}
      BY <1>6, <1>a, Parts, Moves DEF Measure, Before
    <2> QED
      BY <1>6, <2>1, BeforeClaim DEF Measure
  <1>7. CASE ServerSteps
    BY <1>7, <1>n, BeforeClaim DEF ServerSteps
  <1>8. CASE FetchRestic
    <2>1. CASE restic' = TRUE /\ Continue("claim")
      <3>1. cmd' \in Claiming /\ cmd.at = "fetch"
        BY <1>8, <2>1, <1>a, Parts, Moves DEF FetchRestic, Before
      <3> QED
        BY <1>8, <2>1, <3>1, BeforeClaim DEF FetchRestic
    <2>2. CASE Stop /\ UNCHANGED restic
      BY <1>8, <2>2, <1>n, BeforeClaim DEF FetchRestic
    <2> QED
      BY <1>8, <2>1, <2>2 DEF FetchRestic
  <1>9. CASE ClaimRefused
    BY <1>9, <1>n, BeforeClaim DEF ClaimRefused, AfterRefusal
  <1>10. CASE Killed
    BY <1>10, <1>n, BeforeClaim DEF Killed
  <1> QED
    BY <1>1, <1>2, <1>3, <1>4, <1>5, <1>6, <1>7, <1>8, <1>9, <1>10

(* From the claim on. *)
LEMMA ClaimInv == AdoptInv /\ ClaimAccepted => AdoptInv'
  <1> SUFFICES ASSUME AdoptInv, ClaimAccepted PROVE AdoptInv'
    OBVIOUS
  <1>1. /\ cmd \in Claiming /\ row \in ServerRow /\ restic /\ AdoptTypes
        /\ cmd.names \in {None, row.url}
        /\ code' = "spent"
        /\ UNCHANGED <<script, row, repo, token, restic, joined>>
    BY Parts DEF ClaimAccepted, Mismatched, AdoptInv, AdoptTypes, Before, onDisk
  <1>2. CASE Stop /\ lost' = TRUE
    BY <1>1, <1>2 DEF AdoptInv, AdoptTypes, Stop, NoCommand, After
  <1>3. CASE /\ cmd' = [at |-> "save", names |-> cmd.names, adopting |-> cmd.adopting,
                        url |-> row.url, mayCreate |-> ~row.adopted]
             /\ UNCHANGED lost
    <2>1. cmd' \in Joining
      BY <1>1, <1>3 DEF Claiming, Joining, After, ServerRow
    <2>2. /\ cmd'.at = "save" /\ cmd'.names \in {None, cmd'.url}
          /\ cmd'.mayCreate => cmd'.url = Fresh
      BY <1>1, <1>3 DEF ServerRow
    <2> QED
      BY <1>1, <1>3, <2>1, <2>2 DEF AdoptInv, AdoptTypes
  <1> QED
    BY <1>2, <1>3 DEF ClaimAccepted, Goto

LEMMA AfterInv ==
    AdoptInv /\ (SaveToken \/ StorePlan \/ EnsureRepository \/ Verify) => AdoptInv'
  <1> SUFFICES ASSUME AdoptInv, SaveToken \/ StorePlan \/ EnsureRepository \/ Verify PROVE AdoptInv'
    OBVIOUS
  <1> USE DEF atServer, onDisk, Continue, Stop
  <1>a. AdoptTypes /\ cmd \in Joining
    BY Parts DEF AdoptInv, SaveToken, StorePlan, EnsureRepository, Verify, After
  <1>1. CASE SaveToken
    <2>1. /\ cmd' \in Joining /\ cmd'.at = "store" /\ cmd'.url = cmd.url
          /\ cmd'.mayCreate = cmd.mayCreate
      BY <1>1, <1>a, MovesOn DEF SaveToken, After
    <2>2. joined' = [url |-> cmd.url, names |-> cmd.names] /\ token' = TRUE
            /\ cmd.names \in {None, cmd.url}
      BY <1>1 DEF SaveToken, AdoptInv
    <2>3. joined' \in [url : Repository, names : Repository \cup {None}]
            /\ joined'.names \in {None, joined'.url}
      BY <1>a, <2>2 DEF Joining
    <2> QED
      BY <1>1, <2>1, <2>2, <2>3 DEF SaveToken, AdoptInv, AdoptTypes, After
  <1>2. CASE StorePlan
    <2>1. /\ cmd' \in Joining /\ cmd'.at = "ensure" /\ cmd'.url = cmd.url
          /\ cmd'.mayCreate = cmd.mayCreate
      BY <1>2, <1>a, MovesOn DEF StorePlan, After
    <2> QED
      BY <1>2, <2>1 DEF StorePlan, AdoptInv, AdoptTypes, After
  <1>3. CASE EnsureRepository
    <2>1. \/ cmd' = NoCommand
          \/ /\ cmd' \in Joining /\ cmd'.at = "verify" /\ cmd'.url = cmd.url
             /\ cmd'.mayCreate = cmd.mayCreate
      BY <1>3, <1>a, MovesOn DEF EnsureRepository, After
    <2>2. /\ cmd.mayCreate => cmd.url = Fresh
          /\ cmd.at = "ensure"
      BY <1>3 DEF EnsureRepository, AdoptInv, After
    <2>3. /\ repo' \in [Repository -> {"absent", "history", "created"}]
          /\ repo'[Legacy] = "history" /\ repo'[Beside] = "absent"
      BY <1>3, <1>a, <2>2, AdoptionAssumption
      DEF EnsureRepository, Created, AdoptInv, AdoptTypes, Repository, Joining
    <2> QED
      BY <1>3, <2>1, <2>2, <2>3 DEF EnsureRepository, AdoptInv, AdoptTypes, After, NoCommand
  <1>4. CASE Verify
    BY <1>4 DEF Verify, AdoptInv, AdoptTypes, After, NoCommand
  <1> QED
    BY <1>1, <1>2, <1>3, <1>4

LEMMA AdoptInvStep == AdoptInv /\ [AdoptNext]_adoptVars => AdoptInv'
  <1>1. AdoptInv /\ UNCHANGED adoptVars => AdoptInv'
    BY DEF AdoptInv, AdoptTypes, adoptVars
  <1> QED
    BY <1>1, ServerInv, CommandInv, ClaimInv, AfterInv DEF AdoptNext, Enrols

LEMMA AdoptInvAlways == AdoptSpec => []AdoptInv
  BY AdoptInvInit, AdoptInvStep, PTL DEF AdoptSpec

(* A machine that said where it has been writing is enrolled there, and    *)
(* neither the old history nor the bucket adopted with it is touched,      *)
(* whatever the administrator does between a code and its claim.           *)
THEOREM OldHistoryIsContinued == AdoptSpec => []HistoryIsContinued
  <1>1. AdoptInv => HistoryIsContinued
    BY DEF AdoptInv, HistoryIsContinued
  <1> QED
    BY <1>1, AdoptInvAlways, PTL

(* A code is spent only by a machine that has restic, and the token or is  *)
(* about to; refusals and failed downloads leave it good.                  *)
THEOREM NoCodeIsWasted == AdoptSpec => []CodesAreNotWasted
  <1>1. AdoptInv => CodesAreNotWasted
    BY DEF AdoptInv, CodesAreNotWasted
  <1> QED
    BY <1>1, AdoptInvAlways, PTL
=============================================================================
