-------------------------- MODULE DisclosureProofs --------------------------
(***************************************************************************)
(* Theorems about Disclosure, for any number of readers, entries and       *)
(* readings: an access page raises no alarm about a record nobody touched, *)
(* unless another page has written down a longer one meanwhile; and what   *)
(* it says has not been altered has not, on a server that alters anything. *)
(***************************************************************************)
EXTENDS Disclosure, TLAPS, SequenceTheorems, NaturalsInduction, WellFoundedInduction

(***************************************************************************)
(* The oldest of some chain lengths.                                       *)
(***************************************************************************)
LEMMA OldestIsIn ==
    ASSUME NEW S \in SUBSET Nat, S # {}
    PROVE  OldestOf(S) \in S
  <1>1. PICK m \in S : \A y \in S : ~ (<<y, m>> \in OpToRel(<, Nat))
    BY WFMin, NatLessThanWellFounded, Zenon
  <1>2. \A y \in S : ~ (y < m)
    BY <1>1, Zenon DEF OpToRel
  <1>3. \A y \in S : m <= y
    BY <1>2
  <1> QED
    BY <1>3 DEF OldestOf

(***************************************************************************)
(* What a chain nobody damaged is, and what was ever read off one.         *)
(***************************************************************************)
Hash == Seq(Body)
Row == [prev : Hash, hash : Hash]
Sighting == [count : Nat, head : Hash]

TypeInv ==
    /\ chain \in Seq(Row)
    /\ shown \in Seq(Sighting)
    /\ DOMAIN reading = Reader
    /\ reading = [r \in Reader |-> reading[r]]

ChainInv == \A i \in 1..Len(chain) : chain[i].prev = HashAt(i - 1)

KeptInv ==
    \A c \in DOMAIN kept : /\ c \in 0..Len(chain)
                           /\ kept[c] = HashAt(c)
                           /\ \E i \in 1..Len(shown) : shown[i].count = c

ShownInv == \A i \in 1..Len(shown) : shown[i].count \in 0..Len(chain)

\* An answer that was true when it was given: the chain has only grown since.
TrueAnswer(log) ==
    /\ log.count \in 0..Len(chain)
    /\ log.head = HashAt(log.count)
    /\ DOMAIN log.rows = {n \in 1..log.count : n > log.count - Limit}
    /\ \A i \in DOMAIN log.rows : log.rows[i] = chain[i]

\* Whoever was written down before the answer was not ahead of it.
ReadingInv(r) ==
    reading[r].at \in {"listed", "judged"} =>
        /\ TrueAnswer(reading[r].log)
        /\ reading[r].began \in 0..Len(shown)
        /\ \A i \in 1..reading[r].began : shown[i].count <= reading[r].log.count

JudgedInv(r) ==
    reading[r].at = "judged" =>
        /\ reading[r].upTo \in 0..Len(shown)
        /\ Wrong(reading[r].report.verdict) =>
              /\ reading[r].report.verdict = "shrunk"
              /\ \E i \in 1..reading[r].upTo : shown[i].count > reading[r].log.count

Untouched ==
    /\ TypeInv /\ ChainInv /\ KeptInv /\ ShownInv
    /\ \A r \in Reader : ReadingInv(r) /\ JudgedInv(r)

Inv == tampers \in Nat /\ (tampers = 0 => Untouched)

(***************************************************************************)
(* The check of a true answer.                                             *)
(***************************************************************************)
LEMMA TrueAnswerIsLinked ==
    ASSUME TypeInv, ChainInv, NEW log, TrueAnswer(log)
    PROVE  Linked(log)
  <1>1. Limit \in Nat \ {0}
    BY DisclosureAssumption
  <1>2. log.count \in Nat /\ log.count <= Len(chain) /\ Len(chain) \in Nat
    BY DEF TrueAnswer, TypeInv
  <1>3. log.count # 0 => log.count \in DOMAIN log.rows
    BY <1>1, <1>2 DEF TrueAnswer
  <1>4. DOMAIN log.rows = {} => log.count = 0 /\ log.head = Empty
    BY <1>3 DEF TrueAnswer, HashAt
  <1>5. log.count \in DOMAIN log.rows => log.rows[log.count].hash = log.head
    BY <1>2 DEF TrueAnswer, HashAt
  <1>6. ASSUME NEW i \in DOMAIN log.rows, i - 1 \in DOMAIN log.rows
        PROVE  log.rows[i].prev = log.rows[i - 1].hash
    <2>1. i \in 1..Len(chain) /\ i - 1 \in 1..Len(chain)
      BY <1>2, <1>6 DEF TrueAnswer
    <2>2. chain[i].prev = HashAt(i - 1) /\ HashAt(i - 1) = chain[i - 1].hash
      BY <2>1 DEF ChainInv, HashAt
    <2> QED
      BY <1>6, <2>2 DEF TrueAnswer
  <1> QED
    BY <1>4, <1>5, <1>6 DEF Linked

LEMMA TrueAnswerIsNotAccused ==
    ASSUME TypeInv, ChainInv, KeptInv, NEW log, TrueAnswer(log),
           Wrong(Check(log, kept).verdict)
    PROVE  /\ Check(log, kept).verdict = "shrunk"
           /\ \E i \in 1..Len(shown) : shown[i].count > log.count
  <1> DEFINE short == Missing(log, kept)
             moved == {c \in Reached(log, kept) : log.rows[c].hash # kept[c]}
  <1>1. Linked(log)
    BY TrueAnswerIsLinked
  <1>2. moved = {}
    <2> SUFFICES ASSUME NEW c \in Reached(log, kept)
                 PROVE  log.rows[c].hash = kept[c]
      OBVIOUS
    <2>1. c \in DOMAIN kept /\ c \in DOMAIN log.rows
      BY DEF Reached
    <2>2. log.rows[c] = chain[c] /\ c # 0
      BY <2>1 DEF TrueAnswer
    <2>3. kept[c] = chain[c].hash
      BY <2>1, <2>2 DEF KeptInv, HashAt
    <2> QED
      BY <2>2, <2>3
  <1>3. short \in SUBSET Nat /\ short \subseteq DOMAIN kept
    BY DEF Missing, KeptInv
  <1>4. short # {}
    <2> SUFFICES ASSUME short = {} PROVE FALSE
      OBVIOUS
    <2>1. short \cup moved = {}
      BY <1>2
    <2>2. CASE Reached(log, kept) # {}
      <3>1. Check(log, kept) =
              [verdict |-> "agrees", against |-> OldestOf(Reached(log, kept))]
        BY <1>1, <2>1, <2>2 DEF Check
      <3> QED
        BY <3>1 DEF Wrong
    <2>3. CASE Reached(log, kept) = {}
      <3>1. Check(log, kept) =
              [verdict |-> IF DOMAIN kept = {} THEN "first-look" ELSE "unproven"]
        BY <1>1, <2>1, <2>3 DEF Check
      <3> QED
        BY <3>1 DEF Wrong
    <2> QED
      BY <2>2, <2>3
  <1>5. OldestOf(short) \in short
    BY <1>3, <1>4, OldestIsIn
  <1>6. short \cup moved = short
    BY <1>2
  <1>7. Check(log, kept) = [verdict |-> "shrunk"]
    <2>1. short \cup moved # {} /\ OldestOf(short \cup moved) \in short
      BY <1>4, <1>5, <1>6
    <2> QED
      BY <1>1, <2>1 DEF Check
  <1>8. PICK c \in short : TRUE
    BY <1>4
  <1>9. PICK i \in 1..Len(shown) : shown[i].count = c
    BY <1>3, <1>8 DEF KeptInv
  <1>10. log.count < c
    BY <1>8 DEF Missing
  <1>11. c \in Nat /\ log.count \in Nat
    BY <1>3, <1>8 DEF TrueAnswer
  <1> QED
    BY <1>7, <1>9, <1>10, <1>11

(***************************************************************************)
(* The record grows, and everything that was read off it stays true.       *)
(***************************************************************************)
LEMMA HashTyped ==
    ASSUME TypeInv, NEW c \in 0..Len(chain)
    PROVE  HashAt(c) \in Hash
  <1>1. CASE c = 0
    BY <1>1 DEF HashAt, Empty, Hash
  <1>2. CASE c # 0
    <2>1. c \in 1..Len(chain)
      BY <1>2 DEF TypeInv
    <2>2. chain[c] \in Row
      BY <2>1 DEF TypeInv
    <2> QED
      BY <1>2, <2>2 DEF HashAt, Row
  <1> QED
    BY <1>1, <1>2

LEMMA GrowthKeeps ==
    ASSUME Untouched, Discloses
    PROVE  Untouched'
  <1>1. PICK b \in Body : chain' = Append(chain, RowAfter(HashAt(Len(chain)), b))
    BY DEF Discloses
  <1> DEFINE n == Len(chain)
             row == RowAfter(HashAt(n), b)
  <1>2. n \in Nat /\ chain \in Seq(Row)
    BY DEF Untouched, TypeInv
  <1>3. HashAt(n) \in Hash
    BY <1>2, HashTyped DEF Untouched
  <1>4. row \in Row /\ row.prev = HashAt(n)
    BY <1>3 DEF RowAfter, Row, Hash
  <1> HIDE DEF row
  <1>5. chain' = Append(chain, row)
    BY <1>1 DEF row
  <1>6. /\ chain' \in Seq(Row)
        /\ Len(chain') = n + 1
        /\ \A i \in 1..n : chain'[i] = chain[i]
        /\ chain'[n + 1] = row
    BY <1>2, <1>4, <1>5, AppendProperties
  <1>7. UNCHANGED <<tampers, kept, reading, shown>>
    BY DEF Discloses
  <1>8. \A c \in 0..n : HashAt(c)' = HashAt(c)
    BY <1>6 DEF HashAt
  <1>9. TypeInv'
    BY <1>6, <1>7 DEF Untouched, TypeInv
  <1>10. ChainInv'
    <2> SUFFICES ASSUME NEW i \in 1..(n + 1) PROVE chain'[i].prev = HashAt(i - 1)'
      BY <1>6 DEF ChainInv
    <2>1. CASE i = n + 1
      BY <1>2, <1>4, <1>6, <1>8, <2>1
    <2>2. CASE i # n + 1
      <3>1. i \in 1..n /\ i - 1 \in 0..n
        BY <1>2, <2>2
      <3> QED
        BY <1>6, <1>8, <3>1 DEF Untouched, ChainInv
    <2> QED
      BY <2>1, <2>2
  <1>11. KeptInv'
    BY <1>2, <1>6, <1>7, <1>8 DEF Untouched, KeptInv
  <1>12. ShownInv'
    BY <1>2, <1>6, <1>7 DEF Untouched, ShownInv
  <1>13. \A log : TrueAnswer(log) => TrueAnswer(log)'
    <2> SUFFICES ASSUME NEW log, TrueAnswer(log) PROVE TrueAnswer(log)'
      OBVIOUS
    <2>1. log.count \in 0..n
      BY DEF TrueAnswer
    <2>2. \A i \in DOMAIN log.rows : i \in 1..n
      BY <1>2, <2>1 DEF TrueAnswer
    <2> QED
      BY <1>2, <1>6, <1>8, <2>1, <2>2 DEF TrueAnswer
  <1>14. ASSUME NEW r \in Reader PROVE ReadingInv(r)' /\ JudgedInv(r)'
    <2>1. ReadingInv(r) /\ JudgedInv(r)
      BY DEF Untouched
    <2>2. ReadingInv(r)'
      BY <1>7, <1>13, <2>1 DEF ReadingInv
    <2>3. JudgedInv(r)'
      BY <1>7, <2>1 DEF JudgedInv
    <2> QED
      BY <2>2, <2>3
  <1> QED
    BY <1>9, <1>10, <1>11, <1>12, <1>14 DEF Untouched

(***************************************************************************)
(* The three steps of a page.                                              *)
(***************************************************************************)
\* A page's step changes what it holds itself, and not the record.
LEMMA OthersKeep ==
    ASSUME Untouched, NEW r \in Reader, NEW state, reading' = [reading EXCEPT ![r] = state],
           UNCHANGED <<chain, shown>>,
           NEW q \in Reader, q # r
    PROVE  ReadingInv(q)' /\ JudgedInv(q)'
  <1>1. reading'[q] = reading[q]
    BY DEF Untouched, TypeInv
  <1>2. ReadingInv(q) /\ JudgedInv(q)
    BY DEF Untouched
  <1> QED
    BY <1>1, <1>2 DEF ReadingInv, JudgedInv, TrueAnswer, HashAt

LEMMA ListKeeps ==
    ASSUME Untouched, NEW r \in Reader, List(r)
    PROVE  Untouched'
  <1> DEFINE state == [at |-> "listed", log |-> Answer, began |-> Len(shown)]
  <1>1. reading' = [reading EXCEPT ![r] = state] /\ UNCHANGED <<chain, tampers, kept, shown>>
    BY DEF List
  <1>2. reading'[r] = state
    BY <1>1 DEF Untouched, TypeInv
  <1>3. Len(chain) \in Nat /\ Len(shown) \in Nat /\ DOMAIN chain = 1..Len(chain)
    BY DEF Untouched, TypeInv
  <1>4. TrueAnswer(Answer)
    BY <1>3 DEF TrueAnswer, Answer
  <1>5. \A i \in 1..Len(shown) : shown[i].count <= Answer.count
    BY <1>3 DEF Untouched, ShownInv, Answer
  <1>6. ReadingInv(r)' /\ JudgedInv(r)'
    <2>1. TrueAnswer(Answer)'
      BY <1>1, <1>4 DEF TrueAnswer, HashAt, Answer
    <2>2. Answer' = Answer
      BY <1>1 DEF Answer, HashAt
    <2> HIDE DEF state
    <2>3. state.at = "listed" /\ state.log = Answer /\ state.began = Len(shown)
      BY DEF state
    <2> QED
      BY <1>1, <1>2, <1>3, <1>5, <2>1, <2>2, <2>3 DEF ReadingInv, JudgedInv
  <1>7. \A q \in Reader \ {r} : ReadingInv(q)' /\ JudgedInv(q)'
    BY <1>1, OthersKeep
  <1>8. TypeInv' /\ ChainInv' /\ KeptInv' /\ ShownInv'
    BY <1>1 DEF Untouched, TypeInv, ChainInv, KeptInv, ShownInv, HashAt
  <1> QED
    BY <1>6, <1>7, <1>8 DEF Untouched

LEMMA JudgeKeeps ==
    ASSUME Untouched, NEW r \in Reader, Judge(r)
    PROVE  Untouched'
  <1> DEFINE log == reading[r].log
             state == [at |-> "judged", log |-> log, began |-> reading[r].began,
                       upTo |-> Len(shown), report |-> Check(log, kept)]
  <1>1. reading' = [reading EXCEPT ![r] = state] /\ UNCHANGED <<chain, tampers, kept, shown>>
    BY DEF Judge
  <1>2. reading'[r] = state
    BY <1>1 DEF Untouched, TypeInv
  <1>3. /\ TrueAnswer(log)
        /\ reading[r].began \in 0..Len(shown)
        /\ \A i \in 1..reading[r].began : shown[i].count <= log.count
    BY DEF Judge, Untouched, ReadingInv
  <1>4. Wrong(Check(log, kept).verdict) =>
          /\ Check(log, kept).verdict = "shrunk"
          /\ \E i \in 1..Len(shown) : shown[i].count > log.count
    BY <1>3, TrueAnswerIsNotAccused DEF Untouched
  <1>5. Len(shown) \in Nat
    BY DEF Untouched, TypeInv
  <1>6. /\ state.at = "judged" /\ state.log = log /\ state.began = reading[r].began
        /\ state.upTo = Len(shown) /\ state.report = Check(log, kept)
    OBVIOUS
  <1> HIDE DEF state, log
  <1>7. ReadingInv(r)'
    <2>1. TrueAnswer(log) => TrueAnswer(state.log)'
      BY <1>1, <1>6 DEF TrueAnswer, HashAt, log, state
    <2> QED
      BY <1>1, <1>2, <1>3, <1>6, <2>1 DEF ReadingInv, TrueAnswer, HashAt
  <1>8. JudgedInv(r)'
    BY <1>1, <1>2, <1>4, <1>5, <1>6 DEF JudgedInv
  <1>9. \A q \in Reader \ {r} : ReadingInv(q)' /\ JudgedInv(q)'
    BY <1>1, OthersKeep
  <1>10. TypeInv' /\ ChainInv' /\ KeptInv' /\ ShownInv'
    BY <1>1 DEF Untouched, TypeInv, ChainInv, KeptInv, ShownInv, HashAt
  <1> QED
    BY <1>7, <1>8, <1>9, <1>10 DEF Untouched

LEMMA RememberKeeps ==
    ASSUME Untouched, NEW r \in Reader, Remember(r)
    PROVE  Untouched'
  <1> DEFINE log == reading[r].log
             seen == [count |-> log.count, head |-> log.head]
  <1>1. /\ kept' = Remembered(log.count, log.head) /\ shown' = Append(shown, seen)
        /\ reading' = [reading EXCEPT ![r] = Idle] /\ UNCHANGED <<chain, tampers>>
    BY DEF Remember, server
  <1>2. TrueAnswer(log)
    BY DEF Remember, Untouched, ReadingInv
  <1>3. Len(chain) \in Nat /\ Len(shown) \in Nat /\ shown \in Seq(Sighting)
    BY DEF Untouched, TypeInv
  <1>4. log.count \in 0..Len(chain) /\ log.head = HashAt(log.count) /\ log.head \in Hash
    BY <1>2, HashTyped DEF TrueAnswer, Untouched
  <1> HIDE DEF log
  <1>5. seen \in Sighting /\ seen.count = log.count
    BY <1>3, <1>4 DEF Sighting
  <1> HIDE DEF seen
  <1>6. /\ shown' \in Seq(Sighting)
        /\ Len(shown') = Len(shown) + 1
        /\ \A i \in 1..Len(shown) : shown'[i] = shown[i]
        /\ shown'[Len(shown) + 1] = seen
    BY <1>1, <1>3, <1>5, AppendProperties
  <1>7. TypeInv' /\ ChainInv'
    BY <1>1, <1>6 DEF Untouched, TypeInv, ChainInv, HashAt
  <1>8. ShownInv'
    BY <1>1, <1>3, <1>4, <1>5, <1>6 DEF Untouched, ShownInv
  <1>9. KeptInv'
    <2> SUFFICES ASSUME NEW c \in DOMAIN kept'
                 PROVE  /\ c \in 0..Len(chain)
                        /\ kept'[c] = HashAt(c)
                        /\ \E i \in 1..Len(shown') : shown'[i].count = c
      BY <1>1 DEF KeptInv, HashAt
    <2>1. CASE c \in DOMAIN kept
      <3>1. kept'[c] = kept[c]
        BY <1>1, <2>1 DEF Remembered
      <3>2. PICK i \in 1..Len(shown) : shown[i].count = c
        BY <2>1 DEF Untouched, KeptInv
      <3>3. i \in 1..Len(shown') /\ shown'[i].count = c
        BY <1>3, <1>6, <3>2
      <3> QED
        BY <2>1, <3>1, <3>3 DEF Untouched, KeptInv
    <2>2. CASE c \notin DOMAIN kept
      <3>1. c = log.count /\ kept'[c] = log.head
        BY <1>1, <2>2 DEF Remembered
      <3>2. Len(shown) + 1 \in 1..Len(shown') /\ shown'[Len(shown) + 1].count = c
        BY <1>3, <1>5, <1>6, <3>1
      <3> QED
        BY <1>4, <3>1, <3>2
    <2> QED
      BY <2>1, <2>2
  <1>10. ASSUME NEW q \in Reader PROVE ReadingInv(q)' /\ JudgedInv(q)'
    <2>1. CASE q = r
      <3>1. reading'[r].at = "idle"
        BY <1>1 DEF Untouched, TypeInv, Idle
      <3> QED
        BY <2>1, <3>1 DEF ReadingInv, JudgedInv
    <2>2. CASE q # r
      <3>1. reading'[q] = reading[q]
        BY <1>1, <2>2 DEF Untouched, TypeInv
      <3>2. ReadingInv(q) /\ JudgedInv(q)
        BY DEF Untouched
      <3>3. \A x : TrueAnswer(x) => TrueAnswer(x)'
        BY <1>1 DEF TrueAnswer, HashAt
      <3>4. ReadingInv(q)'
        BY <1>3, <1>6, <3>1, <3>2, <3>3 DEF ReadingInv
      <3>5. JudgedInv(q)'
        BY <1>3, <1>6, <3>1, <3>2 DEF JudgedInv
      <3> QED
        BY <3>4, <3>5
    <2> QED
      BY <2>1, <2>2
  <1> QED
    BY <1>7, <1>8, <1>9, <1>10 DEF Untouched

(***************************************************************************)
(* A page that calls the record broken, rewritten or shorter has a cause:  *)
(* the record was damaged, or another page had listed a longer one, written *)
(* down after this one was listed (Check, Remember).                       *)
(***************************************************************************)
THEOREM NoFalseAlarm == DiscSpec => []AlarmsHaveACause
  <1>1. DiscInit => Inv
    BY DEF DiscInit, Inv, Untouched, TypeInv, ChainInv, KeptInv, ShownInv, ReadingInv,
           JudgedInv, Idle, HashAt
  <1>2. Inv /\ [DiscNext]_discVars => Inv'
    <2> SUFFICES ASSUME Inv, [DiscNext]_discVars PROVE Inv'
      OBVIOUS
    <2>1. CASE Tampered
      BY <2>1 DEF Tampered, Inv
    <2>2. CASE Discloses
      <3>1. tampers' = tampers
        BY <2>2 DEF Discloses
      <3> QED
        BY <2>2, <3>1, GrowthKeeps DEF Inv
    <2>3. ASSUME NEW r \in Reader, List(r) \/ Judge(r) \/ Remember(r) PROVE Inv'
      <3>1. tampers' = tampers
        BY <2>3 DEF List, Judge, Remember, server
      <3> QED
        BY <2>3, <3>1, ListKeeps, JudgeKeeps, RememberKeeps DEF Inv
    <2>4. CASE UNCHANGED discVars
      <3>1. tampers' = tampers /\ (Untouched => Untouched')
        BY <2>4 DEF discVars, Untouched, TypeInv, ChainInv, KeptInv, ShownInv, ReadingInv,
                    JudgedInv, TrueAnswer, HashAt
      <3> QED
        BY <3>1 DEF Inv
    <2> QED
      BY <2>1, <2>2, <2>3, <2>4 DEF DiscNext
  <1>3. Inv => AlarmsHaveACause
    <2> SUFFICES ASSUME Inv, tampers = 0, NEW r \in Judged,
                        Wrong(reading[r].report.verdict)
                 PROVE  /\ reading[r].report.verdict = "shrunk"
                        /\ \E i \in (reading[r].began + 1)..reading[r].upTo :
                              shown[i].count > reading[r].log.count
      BY DEF AlarmsHaveACause, Inv
    <2>1. r \in Reader /\ reading[r].at = "judged" /\ Untouched
      BY DEF Judged, Inv
    <2>2. /\ reading[r].report.verdict = "shrunk"
          /\ reading[r].upTo \in 0..Len(shown)
          /\ \E i \in 1..reading[r].upTo : shown[i].count > reading[r].log.count
      BY <2>1 DEF Untouched, JudgedInv
    <2>3. PICK i \in 1..reading[r].upTo : shown[i].count > reading[r].log.count
      BY <2>2
    <2>4. /\ reading[r].began \in 0..Len(shown)
          /\ \A j \in 1..reading[r].began : shown[j].count <= reading[r].log.count
          /\ reading[r].log.count \in Nat
      BY <2>1 DEF Untouched, ReadingInv, TrueAnswer
    <2>5. shown[i].count \in Nat /\ Len(shown) \in Nat
      BY <2>1, <2>2, <2>3 DEF Untouched, ShownInv, TypeInv
    <2>6. i > reading[r].began
      BY <2>2, <2>3, <2>4, <2>5
    <2>7. i \in (reading[r].began + 1)..reading[r].upTo
      BY <2>2, <2>3, <2>4, <2>5, <2>6
    <2> QED
      BY <2>2, <2>3, <2>7
  <1> QED
    BY <1>1, <1>2, <1>3, PTL DEF DiscSpec

(***************************************************************************)
(* What damage cannot do.  Whatever is lost, patched or rewritten, a row   *)
(* still hashes as many entries as lie below it, and links to a hash of    *)
(* all but the last of them.                                               *)
(***************************************************************************)
Covers(hash, n) == hash \in Hash /\ Len(hash) = n

WellHashed(i, row) ==
    /\ Covers(row.hash, i) /\ Covers(row.prev, i - 1)
    /\ \A k \in 1..(i - 1) : row.prev[k] = row.hash[k]

RowsInv ==
    /\ chain \in Seq(Row)
    /\ \A i \in 1..Len(chain) : WellHashed(i, chain[i])

AnswerInv(log) ==
    /\ log.count \in Nat /\ Covers(log.head, log.count)
    /\ DOMAIN log.rows = {n \in 1..log.count : n > log.count - Limit}
    /\ \A i \in DOMAIN log.rows : WellHashed(i, log.rows[i])

(* What is kept of a length is the head that was shown first.              *)
SightingsInv ==
    /\ shown \in Seq(Sighting)
    /\ \A i \in 1..Len(shown) : Covers(shown[i].head, shown[i].count)
    /\ DOMAIN kept = {shown[i].count : i \in 1..Len(shown)}
    /\ \A i \in FirstShown(Len(shown)) : kept[shown[i].count] = shown[i].head

Below(log, report, n) ==
    report.verdict = "agrees" =>
        \A i \in FirstShown(n) :
            shown[i].count >= report.against => IsPrefix(shown[i].head, log.head)

PageInv(r) ==
    /\ reading[r].at \in {"listed", "judged"} => AnswerInv(reading[r].log)
    /\ reading[r].at = "judged" =>
          /\ reading[r].upTo \in 0..Len(shown)
          /\ Below(reading[r].log, reading[r].report, reading[r].upTo)

ReadInv ==
    /\ DOMAIN reading = Reader
    /\ reading = [r \in Reader |-> reading[r]]
    /\ \A r \in Reader : PageInv(r)

Damaged == RowsInv /\ SightingsInv /\ ReadInv

(***************************************************************************)
(* The rows of an answer that links up lie below its head.                 *)
(***************************************************************************)
LEMMA LinkedLiesBelow ==
    ASSUME NEW log, AnswerInv(log), Linked(log), NEW i \in DOMAIN log.rows
    PROVE  \A k \in 1..i : log.rows[i].hash[k] = log.head[k]
  <1> DEFINE Agree(j) == \A k \in 1..j : log.rows[j].hash[k] = log.head[k]
             Off == {d \in Nat : log.count - d \in DOMAIN log.rows /\ ~ Agree(log.count - d)}
  <1>1. /\ log.count \in Nat /\ Limit \in Nat \ {0}
        /\ DOMAIN log.rows = {n \in 1..log.count : n > log.count - Limit}
    BY DisclosureAssumption DEF AnswerInv
  <1>2. Off = {}
    <2> SUFFICES ASSUME Off # {} PROVE FALSE
      OBVIOUS
    <2>1. Off \in SUBSET Nat
      OBVIOUS
    <2>2. PICK d \in Off : \A y \in Off : ~ (<<y, d>> \in OpToRel(<, Nat))
      BY <2>1, WFMin, NatLessThanWellFounded, Zenon
    <2>3. \A y \in Off : ~ (y < d)
      BY <2>1, <2>2, Zenon DEF OpToRel
    <2>4. d \in Nat /\ log.count - d \in DOMAIN log.rows /\ ~ Agree(log.count - d)
      OBVIOUS
    <2> DEFINE j == log.count - d
    <2>5. CASE d = 0
      <3>1. j = log.count
        BY <1>1, <2>5
      <3>2. log.rows[j].hash = log.head
        BY <2>4, <3>1 DEF Linked
      <3> QED
        BY <2>4, <3>2
    <2>6. CASE d # 0
      <3>1. d - 1 \in Nat /\ d - 1 < d /\ log.count - (d - 1) = j + 1
        BY <1>1, <2>4, <2>6
      <3>2. j \in 1..log.count /\ j + 1 \in DOMAIN log.rows /\ (j + 1) - 1 = j
        BY <1>1, <2>4, <3>1
      <3>3. Agree(j + 1)
        BY <2>3, <3>1, <3>2
      <3>4. log.rows[j + 1].prev = log.rows[j].hash
        BY <2>4, <3>2 DEF Linked
      <3>5. \A k \in 1..j : log.rows[j + 1].prev[k] = log.rows[j + 1].hash[k]
        BY <3>2 DEF AnswerInv, WellHashed
      <3>6. Agree(j)
        <4> SUFFICES ASSUME NEW k \in 1..j PROVE log.rows[j].hash[k] = log.head[k]
          OBVIOUS
        <4>1. k \in 1..(j + 1)
          BY <3>2
        <4> QED
          BY <3>3, <3>4, <3>5, <4>1
      <3> QED
        BY <2>4, <3>6
    <2> QED
      BY <2>5, <2>6
  <1>3. log.count - i \in Nat /\ log.count - (log.count - i) = i
    BY <1>1
  <1>4. Agree(i)
    BY <1>2, <1>3
  <1> QED
    BY <1>4

LEMMA PrefixOf ==
    ASSUME NEW s \in Hash, NEW t \in Hash, Len(s) <= Len(t),
           \A k \in 1..Len(s) : s[k] = t[k]
    PROVE  IsPrefix(s, t)
  <1> DEFINE n == Len(s)
  <1>1. n \in Nat /\ Len(t) \in Nat
    BY DEF Hash
  <1>2. \A k \in 1..n : s[k] \in Body /\ t[k] \in Body
    BY <1>1 DEF Hash
  <1>3. /\ SubSeq(s, 1, n) \in Seq(Body) /\ Len(SubSeq(s, 1, n)) = n
        /\ \A k \in 1..n : SubSeq(s, 1, n)[k] = s[k]
    BY <1>1, <1>2, SubSeqProperties
  <1>4. /\ SubSeq(t, 1, n) \in Seq(Body) /\ Len(SubSeq(t, 1, n)) = n
        /\ \A k \in 1..n : SubSeq(t, 1, n)[k] = t[k]
    BY <1>1, <1>2, SubSeqProperties
  <1>5. SubSeq(s, 1, n) = SubSeq(t, 1, n)
    BY <1>3, <1>4, SeqEqual
  <1> QED
    BY <1>5 DEF IsPrefix

(* What the check makes of the kept heads, when it says they agree.        *)
LEMMA AgreedLiesBelow ==
    ASSUME SightingsInv, NEW log, AnswerInv(log)
    PROVE  Below(log, Check(log, kept), Len(shown))
  <1> DEFINE short == Missing(log, kept)
             moved == {c \in Reached(log, kept) : log.rows[c].hash # kept[c]}
             far   == Reached(log, kept)
  <1> SUFFICES ASSUME Check(log, kept).verdict = "agrees",
                      NEW i \in FirstShown(Len(shown)),
                      shown[i].count >= Check(log, kept).against
               PROVE  IsPrefix(shown[i].head, log.head)
    BY DEF Below
  <1>1. Linked(log) /\ short \cup moved = {} /\ far # {}
    <2>1. CASE ~ Linked(log)
      BY <2>1 DEF Check
    <2>2. CASE Linked(log) /\ short \cup moved # {}
      <3>1. Check(log, kept) = [verdict |-> IF OldestOf(short \cup moved) \in short
                                            THEN "shrunk" ELSE "rewritten"]
        BY <2>2 DEF Check
      <3> QED
        BY <3>1
    <2>3. CASE Linked(log) /\ short \cup moved = {} /\ far = {}
      <3>1. Check(log, kept) =
              [verdict |-> IF DOMAIN kept = {} THEN "first-look" ELSE "unproven"]
        BY <2>3 DEF Check
      <3> QED
        BY <3>1
    <2> QED
      BY <2>1, <2>2, <2>3
  <1>2. Check(log, kept).against = OldestOf(far)
    BY <1>1 DEF Check
  <1>3. /\ log.count \in Nat /\ Limit \in Nat \ {0} /\ Covers(log.head, log.count)
        /\ DOMAIN log.rows = {n \in 1..log.count : n > log.count - Limit}
    BY DisclosureAssumption DEF AnswerInv
  <1>4. OldestOf(far) \in DOMAIN log.rows
    <2>1. far \in SUBSET Nat
      BY <1>3 DEF Reached
    <2> QED
      BY <1>1, <2>1, OldestIsIn DEF Reached
  <1> DEFINE c == shown[i].count
  <1>5. /\ i \in 1..Len(shown) /\ c \in Nat /\ Covers(shown[i].head, c)
        /\ c \in DOMAIN kept /\ kept[c] = shown[i].head
    <2>1. i \in 1..Len(shown)
      BY DEF FirstShown
    <2>2. c \in Nat
      <3>1. shown \in Seq(Sighting)
        BY DEF SightingsInv
      <3>2. shown[i] \in Sighting
        BY <2>1, <3>1
      <3> QED
        BY <3>2 DEF Sighting
    <2>3. Covers(shown[i].head, c) /\ c \in DOMAIN kept
      BY <2>1 DEF SightingsInv
    <2>4. kept[c] = shown[i].head
      BY DEF SightingsInv
    <2> QED
      BY <2>1, <2>2, <2>3, <2>4
  <1>6. c \in DOMAIN log.rows
    <2>1. c # 0
      BY <1>2, <1>3, <1>4, <1>5
    <2>2. ~ (log.count < c)
      BY <1>1, <1>5, <2>1 DEF Missing
    <2> QED
      BY <1>2, <1>3, <1>4, <1>5, <2>2
  <1>7. log.rows[c].hash = shown[i].head
    BY <1>1, <1>5, <1>6 DEF Reached
  <1>8. \A k \in 1..c : shown[i].head[k] = log.head[k]
    BY <1>1, <1>6, <1>7, LinkedLiesBelow
  <1>9. c <= log.count
    BY <1>3, <1>6
  <1> QED
    BY <1>3, <1>5, <1>8, <1>9, PrefixOf DEF Covers

(***************************************************************************)
(* What the server holds after it grew, or was damaged.                    *)
(***************************************************************************)
LEMMA HashCovers ==
    ASSUME RowsInv, NEW n \in 0..Len(chain)
    PROVE  Covers(HashAt(n), n)
  <1>1. CASE n = 0
    BY <1>1 DEF HashAt, Empty, Covers, Hash
  <1>2. CASE n # 0
    <2>1. n \in 1..Len(chain)
      BY <1>2 DEF RowsInv
    <2> QED
      BY <1>2, <2>1 DEF RowsInv, HashAt, WellHashed
  <1> QED
    BY <1>1, <1>2

LEMMA RowAfterCovers ==
    ASSUME NEW n \in Nat, NEW hash, Covers(hash, n), NEW b \in Body
    PROVE  RowAfter(hash, b) \in Row /\ WellHashed(n + 1, RowAfter(hash, b))
  <1>1. hash \in Seq(Body) /\ Len(hash) = n
    BY DEF Covers, Hash
  <1>2. /\ Append(hash, b) \in Seq(Body) /\ Len(Append(hash, b)) = n + 1
        /\ \A k \in 1..n : Append(hash, b)[k] = hash[k]
    BY <1>1, AppendProperties
  <1>3. n + 1 - 1 = n
    OBVIOUS
  <1> QED
    BY <1>1, <1>2, <1>3 DEF RowAfter, Row, WellHashed, Covers, Hash

LEMMA GrowthKeepsRows ==
    ASSUME RowsInv, Discloses
    PROVE  RowsInv'
  <1> DEFINE n == Len(chain)
  <1>1. PICK b \in Body : chain' = Append(chain, RowAfter(HashAt(n), b))
    BY DEF Discloses
  <1>2. n \in Nat /\ chain \in Seq(Row)
    BY DEF RowsInv
  <1>3. Covers(HashAt(n), n)
    BY <1>2, HashCovers
  <1>4. PICK row : row = RowAfter(HashAt(n), b)
    OBVIOUS
  <1>5. row \in Row /\ WellHashed(n + 1, row)
    BY <1>2, <1>3, <1>4, RowAfterCovers
  <1>6. /\ chain' \in Seq(Row) /\ Len(chain') = n + 1 /\ chain'[n + 1] = row
        /\ \A i \in 1..n : chain'[i] = chain[i]
    BY <1>1, <1>2, <1>4, <1>5, AppendProperties
  <1>7. ASSUME NEW i \in 1..(n + 1) PROVE WellHashed(i, chain'[i])
    <2>1. CASE i = n + 1
      BY <1>5, <1>6, <2>1
    <2>2. CASE i # n + 1
      <3>1. i \in 1..n
        BY <1>2, <2>2
      <3> QED
        BY <1>6, <3>1 DEF RowsInv
    <2> QED
      BY <2>1, <2>2
  <1> QED
    BY <1>6, <1>7 DEF RowsInv, WellHashed, Covers

LEMMA PatchKeepsRows ==
    ASSUME RowsInv, NEW i \in DOMAIN chain, NEW b \in Body, chain' = Patched(i, b)
    PROVE  RowsInv'
  <1>1. i \in 1..Len(chain) /\ chain \in Seq(Row)
    BY DEF RowsInv
  <1>2. Covers(chain[i].prev, i - 1) /\ i - 1 \in Nat /\ i - 1 + 1 = i
    BY <1>1 DEF RowsInv, WellHashed
  <1>3. PICK row : row = RowAfter(chain[i].prev, b)
    OBVIOUS
  <1>4. row \in Row /\ WellHashed(i, row)
    BY <1>2, <1>3, RowAfterCovers
  <1>5. chain' = [chain EXCEPT ![i] = row]
    BY <1>3 DEF Patched
  <1>6. /\ chain' \in Seq(Row) /\ Len(chain') = Len(chain)
        /\ \A j \in 1..Len(chain) : chain'[j] = IF j = i THEN row ELSE chain[j]
    BY <1>1, <1>4, <1>5, ExceptSeq
  <1>7. \A j \in 1..Len(chain') : WellHashed(j, chain'[j])
    BY <1>4, <1>6 DEF RowsInv
  <1> QED
    BY <1>6, <1>7 DEF RowsInv, WellHashed, Covers

LEMMA RewriteKeepsRows ==
    ASSUME RowsInv, NEW i \in DOMAIN chain, NEW b \in Body, chain' = Rewritten(i, b)
    PROVE  RowsInv'
  <1> DEFINE n == Len(chain)
             Below1(j) == chain[i].prev \o <<b>> \o SubSeq(chain[j].hash, i + 1, j)
             After(j) == [prev |-> Front(Below1(j)), hash |-> Below1(j)]
  <1>1. n \in Nat /\ i \in 1..n /\ chain \in Seq(Row) /\ DOMAIN chain = 1..n
    BY DEF RowsInv
  <1>2. chain[i].prev \in Seq(Body) /\ Len(chain[i].prev) = i - 1
    BY <1>1 DEF RowsInv, WellHashed, Covers, Hash
  <1>3. <<b>> \in Seq(Body) /\ Len(<<b>>) = 1
    OBVIOUS
  <1>4. ASSUME NEW j \in i..n PROVE After(j) \in Row /\ WellHashed(j, After(j))
    <2>1. j \in 1..n /\ i + 1 \in Int /\ j \in Int
      BY <1>1, <1>4
    <2>2. chain[j].hash \in Seq(Body) /\ Len(chain[j].hash) = j
      BY <2>1 DEF RowsInv, WellHashed, Covers, Hash
    <2>3. \A k \in (i + 1)..j : chain[j].hash[k] \in Body
      BY <1>1, <2>1, <2>2
    <2>4. PICK above : above = SubSeq(chain[j].hash, i + 1, j)
      OBVIOUS
    <2>5. above \in Seq(Body) /\ Len(above) = j - i
      <3>1. Len(above) = IF i + 1 <= j THEN j - (i + 1) + 1 ELSE 0
        BY <2>1, <2>3, <2>4, SubSeqProperties
      <3>2. above \in Seq(Body)
        BY <2>1, <2>3, <2>4, SubSeqProperties
      <3> QED
        BY <1>1, <1>4, <3>1, <3>2
    <2>6. PICK start : start = chain[i].prev \o <<b>>
      OBVIOUS
    <2>7. start \in Seq(Body) /\ Len(start) = i
      <3>1. start \in Seq(Body) /\ Len(start) = Len(chain[i].prev) + Len(<<b>>)
        BY <1>2, <1>3, <2>6, ConcatProperties
      <3> QED
        BY <1>1, <1>2, <1>3, <3>1
    <2>8. PICK below : below = start \o above
      OBVIOUS
    <2>9. below \in Seq(Body) /\ Len(below) = j
      <3>1. below \in Seq(Body) /\ Len(below) = Len(start) + Len(above)
        BY <2>5, <2>7, <2>8, ConcatProperties
      <3> QED
        BY <1>1, <2>1, <2>5, <2>7, <3>1
    <2>10. After(j) = [prev |-> SubSeq(below, 1, j - 1), hash |-> below]
      BY <2>4, <2>6, <2>8, <2>9 DEF Front
    <2>11. \A k \in 1..(j - 1) : below[k] \in Body
      BY <2>1, <2>9
    <2>12. PICK front : front = SubSeq(below, 1, j - 1)
      OBVIOUS
    <2>13. /\ front \in Seq(Body)
           /\ Len(front) = IF 1 <= j - 1 THEN (j - 1) - 1 + 1 ELSE 0
           /\ \A k \in 1..((j - 1) - 1 + 1) : front[k] = below[1 + k - 1]
      BY <2>1, <2>11, <2>12, SubSeqProperties
    <2>14. Len(front) = j - 1
      BY <2>1, <2>13
    <2>15. \A k \in 1..(j - 1) : front[k] = below[k]
      BY <2>1, <2>13
    <2>16. After(j).prev = front /\ After(j).hash = below
      BY <2>10, <2>12
    <2>17. WellHashed(j, After(j))
      BY <2>9, <2>13, <2>14, <2>15, <2>16 DEF WellHashed, Covers, Hash
    <2>18. After(j) \in Row
      BY <2>9, <2>10, <2>12, <2>13 DEF Row, Hash
    <2> QED
      BY <2>17, <2>18
  <1>5. chain' = [j \in 1..n |-> IF j < i THEN chain[j] ELSE After(j)]
    BY <1>1 DEF Rewritten
  <1> HIDE DEF After
  <1>6. ASSUME NEW j \in 1..n PROVE chain'[j] \in Row /\ WellHashed(j, chain'[j])
    <2>1. CASE j < i
      <3>1. chain'[j] = chain[j]
        BY <1>5, <2>1
      <3> QED
        BY <1>1, <3>1 DEF RowsInv
    <2>2. CASE ~ (j < i)
      <3>1. chain'[j] = After(j) /\ j \in i..n
        BY <1>1, <1>5, <2>2
      <3> QED
        BY <1>4, <3>1
    <2> QED
      BY <2>1, <2>2
  <1>7. chain' \in Seq(Row) /\ Len(chain') = n
    BY <1>1, <1>5, <1>6
  <1> QED
    BY <1>6, <1>7 DEF RowsInv, WellHashed, Covers

LEMMA DamageKeepsRows ==
    ASSUME RowsInv, Tampered
    PROVE  RowsInv'
  <1>1. PICK i \in DOMAIN chain :
            \/ chain' = SubSeq(chain, 1, i - 1)
            \/ \E b \in Body : chain' \in {Patched(i, b), Rewritten(i, b)}
    BY DEF Tampered
  <1>2. CASE chain' = SubSeq(chain, 1, i - 1)
    <2>1. i \in 1..Len(chain) /\ Len(chain) \in Nat /\ chain \in Seq(Row)
      BY DEF RowsInv
    <2>2. \A j \in 1..(i - 1) : chain[j] \in Row /\ j \in 1..Len(chain)
      BY <2>1
    <2>3. /\ chain' \in Seq(Row)
          /\ Len(chain') = IF 1 <= i - 1 THEN (i - 1) - 1 + 1 ELSE 0
          /\ \A j \in 1..((i - 1) - 1 + 1) : chain'[j] = chain[1 + j - 1]
      BY <1>2, <2>1, <2>2, SubSeqProperties
    <2>4. Len(chain') = i - 1 /\ \A j \in 1..(i - 1) : chain'[j] = chain[j]
      BY <2>1, <2>3
    <2>5. \A j \in 1..Len(chain') : WellHashed(j, chain'[j])
      BY <2>2, <2>4 DEF RowsInv
    <2> QED
      BY <2>3, <2>5 DEF RowsInv, WellHashed, Covers
  <1>3. CASE \E b \in Body : chain' \in {Patched(i, b), Rewritten(i, b)}
    BY <1>3, PatchKeepsRows, RewriteKeepsRows
  <1> QED
    BY <1>1, <1>2, <1>3

(***************************************************************************)
(* The three steps of a page, on a record in any state.                    *)
(***************************************************************************)
LEMMA AnswerIsSound ==
    ASSUME RowsInv
    PROVE  AnswerInv(Answer)
  <1>1. Len(chain) \in Nat /\ DOMAIN chain = 1..Len(chain)
    BY DEF RowsInv
  <1>2. Covers(HashAt(Len(chain)), Len(chain))
    BY <1>1, HashCovers
  <1>3. /\ Answer.count = Len(chain) /\ Answer.head = HashAt(Len(chain))
        /\ DOMAIN Answer.rows = {n \in 1..Len(chain) : n > Len(chain) - Limit}
        /\ \A i \in DOMAIN Answer.rows : Answer.rows[i] = chain[i]
    BY <1>1 DEF Answer
  <1> QED
    BY <1>1, <1>2, <1>3 DEF AnswerInv, RowsInv

\* What a page holds is judged by what was shown before it, which stays.
LEMMA PagesKeep ==
    ASSUME ReadInv, NEW r \in Reader, shown' = shown, reading'[r] = reading[r]
    PROVE  PageInv(r)'
  <1>1. PageInv(r)
    BY DEF ReadInv
  <1>2. \A log, report, n : Below(log, report, n)' = Below(log, report, n)
    BY DEF Below, FirstShown
  <1>3. \A log : AnswerInv(log)' = AnswerInv(log)
    BY DEF AnswerInv, WellHashed, Covers
  <1> QED
    BY <1>1, <1>2, <1>3 DEF PageInv

LEMMA ListKeepsAll ==
    ASSUME Damaged, NEW r \in Reader, List(r)
    PROVE  Damaged'
  <1>1. /\ reading' = [reading EXCEPT ![r] =
              [at |-> "listed", log |-> Answer, began |-> Len(shown)]]
        /\ UNCHANGED <<chain, tampers, kept, shown>>
    BY DEF List
  <1>2. PICK answer : answer = Answer
    OBVIOUS
  <1>3. AnswerInv(answer)
    BY <1>2, AnswerIsSound DEF Damaged
  <1>4. reading'[r] = [at |-> "listed", log |-> answer, began |-> Len(shown)]
    BY <1>1, <1>2 DEF Damaged, ReadInv
  <1>5. PageInv(r)'
    BY <1>3, <1>4 DEF PageInv, AnswerInv, WellHashed, Covers
  <1>6. \A q \in Reader \ {r} : PageInv(q)'
    <2> SUFFICES ASSUME NEW q \in Reader \ {r} PROVE PageInv(q)'
      OBVIOUS
    <2>1. reading'[q] = reading[q]
      BY <1>1 DEF Damaged, ReadInv
    <2> QED
      BY <1>1, <2>1, PagesKeep DEF Damaged
  <1>7. DOMAIN reading' = Reader /\ reading' = [q \in Reader |-> reading'[q]]
    BY <1>1 DEF Damaged, ReadInv
  <1>8. RowsInv' /\ SightingsInv'
    BY <1>1 DEF Damaged, RowsInv, SightingsInv, FirstShown, WellHashed, Covers
  <1> QED
    BY <1>5, <1>6, <1>7, <1>8 DEF Damaged, ReadInv

LEMMA JudgeKeepsAll ==
    ASSUME Damaged, NEW r \in Reader, Judge(r)
    PROVE  Damaged'
  <1>1. PICK log, report : log = reading[r].log /\ report = Check(log, kept)
    OBVIOUS
  <1>2. /\ reading' = [reading EXCEPT ![r] =
              [at |-> "judged", log |-> log, began |-> reading[r].began,
               upTo |-> Len(shown), report |-> report]]
        /\ UNCHANGED <<chain, tampers, kept, shown>>
    BY <1>1 DEF Judge
  <1>3. AnswerInv(log)
    BY <1>1 DEF Damaged, ReadInv, PageInv, Judge
  <1>4. Below(log, report, Len(shown))
    BY <1>1, <1>3, AgreedLiesBelow DEF Damaged
  <1>5. /\ reading'[r].at = "judged" /\ reading'[r].log = log
        /\ reading'[r].upTo = Len(shown) /\ reading'[r].report = report
    BY <1>2 DEF Damaged, ReadInv
  <1>6. PageInv(r)'
    <2>1. Len(shown) \in 0..Len(shown)
      BY DEF Damaged, SightingsInv
    <2>2. Below(log, report, Len(shown))'
      BY <1>2, <1>4 DEF Below, FirstShown
    <2>3. AnswerInv(log)'
      BY <1>3 DEF AnswerInv, WellHashed, Covers
    <2> QED
      BY <1>2, <1>5, <2>1, <2>2, <2>3 DEF PageInv
  <1>7. \A q \in Reader \ {r} : PageInv(q)'
    <2> SUFFICES ASSUME NEW q \in Reader \ {r} PROVE PageInv(q)'
      OBVIOUS
    <2>1. reading'[q] = reading[q]
      BY <1>2 DEF Damaged, ReadInv
    <2> QED
      BY <1>2, <2>1, PagesKeep DEF Damaged
  <1>8. DOMAIN reading' = Reader /\ reading' = [q \in Reader |-> reading'[q]]
    BY <1>2 DEF Damaged, ReadInv
  <1>9. RowsInv' /\ SightingsInv'
    BY <1>2 DEF Damaged, RowsInv, SightingsInv, FirstShown, WellHashed, Covers
  <1> QED
    BY <1>6, <1>7, <1>8, <1>9 DEF Damaged, ReadInv

LEMMA RememberKeepsAll ==
    ASSUME Damaged, NEW r \in Reader, Remember(r)
    PROVE  Damaged'
  <1>1. PICK log : log = reading[r].log
    OBVIOUS
  <1>2. PICK seen : seen = [count |-> log.count, head |-> log.head]
    OBVIOUS
  <1> DEFINE n == Len(shown)
  <1>3. /\ kept' = Remembered(log.count, log.head) /\ shown' = Append(shown, seen)
        /\ reading' = [reading EXCEPT ![r] = Idle] /\ UNCHANGED <<chain, tampers>>
    BY <1>1, <1>2 DEF Remember, server
  <1>4. AnswerInv(log)
    BY <1>1 DEF Damaged, ReadInv, PageInv, Remember
  <1>5. seen \in Sighting /\ Covers(seen.head, seen.count)
    BY <1>2, <1>4 DEF AnswerInv, Covers, Sighting
  <1>6. n \in Nat /\ shown \in Seq(Sighting)
    BY DEF Damaged, SightingsInv
  <1>7. /\ shown' \in Seq(Sighting) /\ Len(shown') = n + 1 /\ shown'[n + 1] = seen
        /\ \A i \in 1..n : shown'[i] = shown[i]
    BY <1>3, <1>5, <1>6, AppendProperties
  <1>8. \A m \in 0..n : FirstShown(m)' = FirstShown(m)
    <2> SUFFICES ASSUME NEW m \in 0..n, NEW i \in 1..m
                 PROVE  (\A j \in 1..(i - 1) : shown'[j].count # shown'[i].count)
                          <=> (\A j \in 1..(i - 1) : shown[j].count # shown[i].count)
      BY DEF FirstShown
    <2>1. i \in 1..n /\ \A j \in 1..(i - 1) : j \in 1..n
      BY <1>6
    <2> QED
      BY <1>7, <2>1
  <1>9. SightingsInv'
    <2>1. \A i \in 1..(n + 1) : Covers(shown'[i].head, shown'[i].count)
      <3> SUFFICES ASSUME NEW i \in 1..(n + 1)
                   PROVE  Covers(shown'[i].head, shown'[i].count)
        OBVIOUS
      <3>1. i = n + 1 \/ i \in 1..n
        BY <1>6
      <3> QED
        BY <1>5, <1>7, <3>1 DEF Damaged, SightingsInv
    <2>2. DOMAIN kept' = {shown'[i].count : i \in 1..(n + 1)}
      <3>1. DOMAIN kept' = {shown[i].count : i \in 1..n} \cup {log.count}
        BY <1>3 DEF Remembered, Damaged, SightingsInv
      <3>2. 1..(n + 1) = 1..n \cup {n + 1}
        BY <1>6
      <3> QED
        BY <1>2, <1>7, <3>1, <3>2
    <2>3. ASSUME NEW i \in 1..(n + 1),
                 \A j \in 1..(i - 1) : shown'[j].count # shown'[i].count
          PROVE  kept'[shown'[i].count] = shown'[i].head
      <3>1. CASE i = n + 1
        <4>1. shown'[i] = seen /\ (i - 1) = n
          BY <1>6, <1>7, <3>1
        <4>2. log.count \notin DOMAIN kept
          BY <1>2, <1>7, <2>3, <4>1 DEF Damaged, SightingsInv
        <4>3. kept'[log.count] = log.head
          BY <1>3, <4>2 DEF Remembered
        <4> QED
          BY <1>2, <4>1, <4>3
      <3>2. CASE i # n + 1
        <4>1. i \in 1..n /\ \A j \in 1..(i - 1) : j \in 1..n
          BY <1>6, <3>2
        <4>2. i \in FirstShown(n)
          BY <1>7, <2>3, <4>1 DEF FirstShown
        <4>3. kept[shown[i].count] = shown[i].head /\ shown[i].count \in DOMAIN kept
          BY <4>1, <4>2 DEF Damaged, SightingsInv
        <4>4. kept'[shown[i].count] = kept[shown[i].count]
          BY <1>3, <4>3 DEF Remembered
        <4> QED
          BY <1>7, <4>1, <4>3, <4>4
      <3> QED
        BY <3>1, <3>2
    <2>4. \A i \in FirstShown(Len(shown))' : kept'[shown'[i].count] = shown'[i].head
      BY <1>7, <2>3 DEF FirstShown
    <2> QED
      BY <1>7, <2>1, <2>2, <2>4 DEF SightingsInv, Covers
  <1>10. ASSUME NEW q \in Reader PROVE PageInv(q)'
    <2>1. CASE q = r
      <3>1. reading'[r].at = "idle"
        BY <1>3 DEF Damaged, ReadInv, Idle
      <3> QED
        BY <2>1, <3>1 DEF PageInv
    <2>2. CASE q # r
      <3>1. reading'[q] = reading[q] /\ PageInv(q)
        BY <1>3, <2>2 DEF Damaged, ReadInv
      <3>2. \A x : AnswerInv(x)' = AnswerInv(x)
        BY DEF AnswerInv, WellHashed, Covers
      <3>3. ASSUME reading[q].at = "judged"
            PROVE  /\ reading[q].upTo \in 0..(n + 1)
                   /\ Below(reading[q].log, reading[q].report, reading[q].upTo)'
        <4> DEFINE m == reading[q].upTo
        <4>1. m \in 0..n /\ Below(reading[q].log, reading[q].report, m)
          BY <3>1, <3>3 DEF PageInv
        <4>2. PICK a, b, k : a = reading[q].log /\ b = reading[q].report /\ k = m
          OBVIOUS
        <4>3. FirstShown(k)' = FirstShown(k) /\ \A i \in FirstShown(k) : i \in 1..n
          BY <1>6, <1>8, <4>1, <4>2, SMTT(30) DEF FirstShown
        <4>4. Below(a, b, k)'
          BY <1>7, <4>1, <4>2, <4>3 DEF Below
        <4> QED
          BY <1>6, <3>1, <4>1, <4>2, <4>4 DEF Below, FirstShown
      <3> QED
        BY <1>7, <3>1, <3>2, <3>3 DEF PageInv
    <2> QED
      BY <2>1, <2>2
  <1>11. DOMAIN reading' = Reader /\ reading' = [q \in Reader |-> reading'[q]]
    BY <1>3 DEF Damaged, ReadInv
  <1>12. RowsInv'
    BY <1>3 DEF Damaged, RowsInv, WellHashed, Covers
  <1> QED
    BY <1>9, <1>10, <1>11, <1>12 DEF Damaged, ReadInv

(***************************************************************************)
(* "This record has not been altered since": when the page says so of a    *)
(* day, every head this machine was shown first, from that length on, lies *)
(* below the one it is shown now (Check, Remember), whatever was lost,     *)
(* patched or rewritten on the server and however pages overlap.           *)
(***************************************************************************)
THEOREM VouchedHolds == DiscSpec => []Vouched
  <1>1. DiscInit => Damaged
    <2> SUFFICES ASSUME DiscInit PROVE Damaged
      OBVIOUS
    <2>1. RowsInv
      BY DEF DiscInit, RowsInv
    <2>2. SightingsInv
      BY DEF DiscInit, SightingsInv, FirstShown
    <2>3. ReadInv
      BY DEF DiscInit, ReadInv, PageInv, Idle
    <2> QED
      BY <2>1, <2>2, <2>3 DEF Damaged
  <1>2. Damaged /\ [DiscNext]_discVars => Damaged'
    <2> SUFFICES ASSUME Damaged, [DiscNext]_discVars PROVE Damaged'
      OBVIOUS
    <2>1. ASSUME RowsInv', UNCHANGED <<kept, reading, shown>> PROVE Damaged'
      <3>1. \A q \in Reader : PageInv(q)'
        BY <2>1, PagesKeep DEF Damaged
      <3>2. SightingsInv'
        BY <2>1 DEF Damaged, SightingsInv, FirstShown, Covers
      <3> QED
        BY <2>1, <3>1, <3>2 DEF Damaged, ReadInv
    <2>2. CASE Discloses
      BY <2>1, <2>2, GrowthKeepsRows DEF Damaged, Discloses
    <2>3. CASE Tampered
      BY <2>1, <2>3, DamageKeepsRows DEF Damaged, Tampered
    <2>4. ASSUME NEW r \in Reader, List(r) \/ Judge(r) \/ Remember(r) PROVE Damaged'
      BY <2>4, ListKeepsAll, JudgeKeepsAll, RememberKeepsAll
    <2>5. CASE UNCHANGED discVars
      BY <2>1, <2>5 DEF discVars, Damaged, RowsInv, WellHashed, Covers
    <2> QED
      BY <2>2, <2>3, <2>4, <2>5 DEF DiscNext
  <1>3. Damaged => Vouched
    BY DEF Damaged, ReadInv, PageInv, Below, Vouched, Judged
  <1> QED
    BY <1>1, <1>2, <1>3, PTL DEF DiscSpec

=============================================================================
