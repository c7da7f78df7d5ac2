------------------------------ MODULE Disclosure ------------------------------
(***************************************************************************)
(* The record of who was given the password of a machine's backups, which  *)
(* the server keeps as a chain of hashes, and the machine's own check that *)
(* what it is shown today still contains what it was shown before:         *)
(* disclosurebus, its table disclosuredb and the access page.              *)
(*                                                                         *)
(* A hash is the sequence of the bodies it covers: two of them are equal   *)
(* exactly when nothing below differs.  The server appends, and it may     *)
(* also lose entries (a restored database), rewrite one and every hash     *)
(* after it, or patch one and leave the others.  Several pages may be      *)
(* served at once, and each of them is three steps: it lists the trail,    *)
(* reads the kept heads, and writes the new head down.                     *)
(***************************************************************************)
EXTENDS Integers, FiniteSets, Sequences, SequencesExt

CONSTANTS Reader,       \* requests for the access page
          Body,         \* what an entry may say
          MaxCount,     \* bound: the longest chain
          Limit,        \* how many entries the server returns
          MaxTampers,   \* bound: how often the server's record is damaged
          MaxReads      \* bound: how many readings end

ASSUME DisclosureAssumption ==
    /\ MaxCount \in Nat \ {0} /\ Limit \in Nat \ {0}
    /\ MaxTampers \in Nat /\ MaxReads \in Nat

VARIABLES chain,        \* the server's rows: what each hashes to, and links to
          tampers,      \* how often it was damaged
          kept,         \* disclosure_witness: chain length -> hash
          reading       \* Reader -> where the request is and what it holds

(* The history the properties speak of: every head written down, in order. *)
VARIABLE shown

server == <<chain, tampers>>
discVars == <<chain, tampers, kept, reading, shown>>

Empty == <<>>
Idle == [at |-> "idle"]
Verdicts == {"first-look", "agrees", "unproven", "shrunk", "rewritten", "broken"}
Wrong(v) == v \in {"shrunk", "rewritten", "broken"}

DiscInit ==
    /\ chain = <<>> /\ tampers = 0
    /\ kept = <<>> /\ shown = <<>>
    /\ reading = [r \in Reader |-> Idle]

(***************************************************************************)
(* The server.                                                             *)
(***************************************************************************)
HashAt(i) == IF i = 0 THEN Empty ELSE chain[i].hash
RowAfter(hash, body) == [prev |-> hash, hash |-> Append(hash, body)]

Discloses ==
    /\ Len(chain) < MaxCount
    /\ \E b \in Body : chain' = Append(chain, RowAfter(HashAt(Len(chain)), b))
    /\ UNCHANGED <<tampers, kept, reading, shown>>

(* A row says something else, and nothing after it is recomputed. *)
Patched(i, body) == [chain EXCEPT ![i] = RowAfter(chain[i].prev, body)]

(* A row says something else, and every hash after it follows. *)
Rewritten(i, body) ==
    [j \in DOMAIN chain |->
        IF j < i THEN chain[j]
        ELSE LET below == chain[i].prev \o <<body>> \o SubSeq(chain[j].hash, i + 1, j)
             IN  [prev |-> Front(below), hash |-> below]]

Tampered ==
    /\ tampers < MaxTampers
    /\ tampers' = tampers + 1
    /\ \E i \in DOMAIN chain :
          \/ chain' = SubSeq(chain, 1, i - 1)
          \/ \E b \in Body \ {Last(chain[i].hash)} :
                chain' \in {Patched(i, b), Rewritten(i, b)}
    /\ UNCHANGED <<kept, reading, shown>>

(* What the server answers: the whole count, the head, the newest entries. *)
Answer ==
    [count |-> Len(chain), head |-> HashAt(Len(chain)),
     rows  |-> [i \in {n \in DOMAIN chain : n > Len(chain) - Limit} |-> chain[i]]]

(***************************************************************************)
(* The check.                                                              *)
(***************************************************************************)
Linked(log) ==
    /\ DOMAIN log.rows = {} => log.count = 0 /\ log.head = Empty
    /\ log.count \in DOMAIN log.rows => log.rows[log.count].hash = log.head
    /\ \A i \in DOMAIN log.rows :
          i - 1 \in DOMAIN log.rows => log.rows[i].prev = log.rows[i - 1].hash

(* The kept heads the answer reaches back to: only these can be tested. *)
Reached(log, heads) == DOMAIN heads \cap DOMAIN log.rows
OldestOf(counts) == CHOOSE c \in counts : \A d \in counts : c <= d

(* A mutant: the head the chain ends with is one entry short of itself. *)
MissingOffByOne(log, heads) == {c \in DOMAIN heads \ {0} : log.count <= c}

(* The kept heads of a longer chain than this one. *)
Missing(log, heads) == {c \in DOMAIN heads \ {0} : log.count < c}

(* The kept heads are walked oldest first and the first bad one decides. *)
Check(log, heads) ==
    LET short == Missing(log, heads)
        moved == {c \in Reached(log, heads) : log.rows[c].hash # heads[c]}
    IN  IF ~Linked(log) THEN [verdict |-> "broken"]
        ELSE IF short \cup moved # {}
             THEN [verdict |-> IF OldestOf(short \cup moved) \in short
                               THEN "shrunk" ELSE "rewritten"]
        ELSE IF Reached(log, heads) # {}
             THEN [verdict |-> "agrees", against |-> OldestOf(Reached(log, heads))]
        ELSE [verdict |-> IF DOMAIN heads = {} THEN "first-look" ELSE "unproven"]

(***************************************************************************)
(* The access page.                                                        *)
(***************************************************************************)
List(r) ==
    /\ reading[r].at = "idle"
    /\ Len(shown) < MaxReads
    /\ reading' = [reading EXCEPT ![r] = [at |-> "listed", log |-> Answer, began |-> Len(shown)]]
    /\ UNCHANGED <<chain, tampers, kept, shown>>

(* "upTo" is how many readings had ended when the verdict was reached. *)
Judge(r) ==
    /\ reading[r].at = "listed"
    /\ reading' = [reading EXCEPT ![r] =
          [at |-> "judged", log |-> @.log, began |-> @.began, upTo |-> Len(shown),
           report |-> Check(@.log, kept)]]
    /\ UNCHANGED <<chain, tampers, kept, shown>>

(* A mutant: the sighting of today replaces the one of the first day. *)
RememberedLast(count, hash) ==
    [c \in DOMAIN kept \cup {count} |-> IF c = count THEN hash ELSE kept[c]]

(* Written down whatever the verdict; a count already there is left alone. *)
Remembered(count, hash) ==
    [c \in DOMAIN kept \cup {count} |-> IF c \in DOMAIN kept THEN kept[c] ELSE hash]

Remember(r) ==
    /\ reading[r].at = "judged"
    /\ LET log == reading[r].log IN
          /\ kept' = Remembered(log.count, log.head)
          /\ shown' = Append(shown, [count |-> log.count, head |-> log.head])
    /\ reading' = [reading EXCEPT ![r] = Idle]
    /\ UNCHANGED server

DiscNext ==
    \/ Discloses
    \/ Tampered
    \/ \E r \in Reader : List(r) \/ Judge(r) \/ Remember(r)

DiscSpec == DiscInit /\ [][DiscNext]_discVars

(***************************************************************************)
(* Properties.                                                             *)
(***************************************************************************)
Judged == {r \in Reader : reading[r].at = "judged"}

(* The first time a chain of this length was shown, among the first n. *)
FirstShown(n) ==
    {i \in 1..n : \A j \in 1..(i - 1) : shown[j].count # shown[i].count}

(* "This record has not been altered since": when the page says so of a    *)
(* day, every head the machine was shown for the first time, from that     *)
(* length on, is still below the head it is shown now, whatever was lost,  *)
(* rewritten or patched and whichever readings overlapped.                 *)
Vouched ==
    \A r \in Judged :
        LET report == reading[r].report IN
        report.verdict = "agrees" =>
            \A i \in FirstShown(reading[r].upTo) :
                shown[i].count >= report.against =>
                    IsPrefix(shown[i].head, reading[r].log.head)

(* A record that was never touched is never called broken or rewritten,    *)
(* and is called shorter only by a page that listed it before another page *)
(* wrote down what it had grown to.                                        *)
AlarmsHaveACause ==
    \A r \in Judged :
        LET read == reading[r] IN
        Wrong(read.report.verdict) =>
            \/ tampers > 0
            \/ /\ read.report.verdict = "shrunk"
               /\ \E i \in (read.began + 1)..read.upTo : shown[i].count > read.log.count

(* What the comment on VerdictShrunk says: a chain shorter than this       *)
(* machine has already seen it be is evidence that entries were removed.   *)
(* Two pages open at once refute it.                                       *)
ShrunkIsEvidence ==
    \A r \in Judged : reading[r].report.verdict = "shrunk" => tampers > 0
===============================================================================
