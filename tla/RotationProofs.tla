--------------------------- MODULE RotationProofs ---------------------------
(***************************************************************************)
(* Theorems about Rotation, for any number of buckets on offer, of         *)
(* processes and of losses: nothing moves and nothing is created unasked,  *)
(* a request never outlives the move it led to, and a card counts as       *)
(* issued only for a bucket whose card somebody holds; with at most two    *)
(* buckets on offer or being moved to, the machine always has a bucket in  *)
(* use from which a file came back; and with at most one, the moves are    *)
(* those of BucketHandover.                                                *)
(***************************************************************************)
EXTENDS Rotation, TLAPS, SequenceTheorems, FiniteSetTheorems, NaturalsInduction,
        WellFoundedInduction

(***************************************************************************)
(* The first and the last row of a kind.                                   *)
(***************************************************************************)
LEMMA MinIsIn ==
    ASSUME NEW S \in SUBSET Nat, S # {}
    PROVE  Min(S) \in S /\ \A y \in S : Min(S) =< y
  <1>1. PICK m \in S : \A y \in S : ~ (<<y, m>> \in OpToRel(<, Nat))
    BY WFMin, NatLessThanWellFounded, Zenon
  <1>2. \A y \in S : ~ (y < m)
    BY <1>1, Zenon DEF OpToRel
  <1>3. \A y \in S : m =< y
    BY <1>2
  <1> QED
    BY <1>3 DEF Min

LEMMA MaxIsIn ==
    ASSUME NEW n \in Nat, NEW S \in SUBSET (1..n), S # {}
    PROVE  Max(S) \in S /\ \A y \in S : Max(S) >= y
  <1> DEFINE T == {n - x : x \in S}
  <1>1. T \in SUBSET Nat /\ T # {}
    <2>1. \A x \in S : n - x \in Nat
      OBVIOUS
    <2>2. PICK x \in S : TRUE
      OBVIOUS
    <2>3. n - x \in T
      BY <2>2
    <2> QED
      BY <2>1, <2>3
  <1>2. PICK m \in T : \A y \in T : ~ (<<y, m>> \in OpToRel(<, Nat))
    BY <1>1, WFMin, NatLessThanWellFounded, Zenon
  <1>3. \A y \in T : ~ (y < m)
    BY <1>1, <1>2, Zenon DEF OpToRel
  <1>4. PICK x \in S : m = n - x
    BY <1>2
  <1>5. \A y \in S : x >= y
    BY <1>3, <1>4
  <1> QED
    BY <1>5 DEF Max

LEMMA InDomain ==
    ASSUME NEW rs \in Seq(Repo), NEW states
    PROVE  /\ In(rs, states) \in SUBSET (1..Len(rs))
           /\ In(rs, states) \in SUBSET (DOMAIN rs)
           /\ Len(rs) \in Nat
           /\ In(rs, states) \in SUBSET Nat
  BY DEF In

LEMMA NewestIn ==
    ASSUME NEW rs \in Seq(Repo), NEW states, NEW S \in SUBSET In(rs, states)
    PROVE  /\ Newest(S) = 0 \/ Newest(S) \in S
           /\ S # {} => Newest(S) \in S
           /\ Newest(S) # 0 => /\ Newest(S) \in DOMAIN rs
                               /\ rs[Newest(S)].state \in states
  <1>1. S \in SUBSET (1..Len(rs)) /\ Len(rs) \in Nat
    BY InDomain
  <1>2. S # {} => Max(S) \in S
    BY <1>1, MaxIsIn
  <1> QED
    BY <1>2 DEF Newest, In

(* Where the machine writes: a row in use.                                 *)
LEMMA CurrentIsThere ==
    ASSUME NEW rs \in Seq(Repo), In(rs, {"active", "cutting-over"}) # {}
    PROVE  /\ Current(rs) \in DOMAIN rs
           /\ rs[Current(rs)].state \in {"active", "cutting-over"}
           /\ rs[Current(rs)] \in Repo
           /\ CuttingOver(rs) <=> In(rs, {"cutting-over"}) # {}
  <1>1. CASE In(rs, {"cutting-over"}) # {}
    <2>1. Current(rs) \in In(rs, {"cutting-over"})
      BY <1>1, InDomain, MinIsIn DEF Current
    <2> QED
      BY <1>1, <2>1 DEF In, CuttingOver
  <1>2. CASE In(rs, {"cutting-over"}) = {}
    <2>1. In(rs, {"active"}) # {}
      BY <1>2 DEF In
    <2>2. Current(rs) \in In(rs, {"active"})
      BY <1>2, <2>1, NewestIn DEF Current
    <2> QED
      BY <1>2, <2>2 DEF In, CuttingOver
  <1> QED
    BY <1>1, <1>2

LEMMA OfferedIsThere ==
    ASSUME NEW rs \in Seq(Repo), Offered(rs) # 0
    PROVE  Offered(rs) \in DOMAIN rs /\ rs[Offered(rs)].state = "offered"
  <1> DEFINE S == In(rs, {"offered"})
  <1>1. S \in SUBSET In(rs, {"offered"})
    OBVIOUS
  <1>2. Newest(S) # 0 => Newest(S) \in DOMAIN rs /\ rs[Newest(S)].state \in {"offered"}
    BY <1>1, NewestIn, Zenon
  <1> QED
    BY <1>2 DEF Offered

LEMMA PreviousIsThere ==
    ASSUME NEW rs \in Seq(Repo), NEW c, PreviousTo(rs, c) # 0
    PROVE  /\ PreviousTo(rs, c) \in DOMAIN rs
           /\ rs[PreviousTo(rs, c)].state \in {"active", "cutting-over"}
           /\ PreviousTo(rs, c) # c
  <1> DEFINE S == In(rs, {"active", "cutting-over"}) \ {c}
  <1>1. S \in SUBSET In(rs, {"active", "cutting-over"})
    OBVIOUS
  <1>2. /\ Newest(S) # 0 => /\ Newest(S) \in DOMAIN rs
                              /\ rs[Newest(S)].state \in {"active", "cutting-over"}
        /\ Newest(S) = 0 \/ Newest(S) \in S
    BY <1>1, NewestIn, Zenon
  <1> QED
    BY <1>2 DEF PreviousTo

(***************************************************************************)
(* One row replaced by another.                                            *)
(***************************************************************************)
LEMMA RowReplaced ==
    ASSUME NEW rs \in Seq(Repo), NEW i \in DOMAIN rs, NEW r \in Repo
    PROVE  /\ [rs EXCEPT ![i] = r] \in Seq(Repo)
           /\ DOMAIN [rs EXCEPT ![i] = r] = DOMAIN rs
           /\ \A j \in DOMAIN rs : [rs EXCEPT ![i] = r][j] = IF j = i THEN r ELSE rs[j]
  <1>1. i \in 1..Len(rs)
    OBVIOUS
  <1> QED
    BY <1>1, ExceptSeq, Zenon

(* What the reports and marks of the server leave alone.                   *)
Marked(rs, new) ==
    /\ new \in Seq(Repo)
    /\ DOMAIN new = DOMAIN rs
    /\ \A i \in DOMAIN rs : /\ new[i].url = rs[i].url
                            /\ new[i].state = rs[i].state
                            /\ new[i].adopted = rs[i].adopted

LEMMA CardIssuedMarks ==
    ASSUME NEW rs \in Seq(Repo), In(rs, {"active", "cutting-over"}) # {}, NEW url
    PROVE  /\ Marked(rs, CardIssued(rs, url))
           /\ \A i \in DOMAIN rs :
                CardIssued(rs, url)[i].card => rs[i].card \/ rs[i].url = url
  <1> DEFINE c == Current(rs)
             r == [rs[c] EXCEPT !.card = TRUE]
  <1>1. CASE rs[c].url = url
    <2>1. c \in DOMAIN rs /\ rs[c] \in Repo
      BY CurrentIsThere
    <2>2. r \in Repo /\ r.url = rs[c].url /\ r.state = rs[c].state /\ r.adopted = rs[c].adopted
      BY <2>1 DEF Repo
    <2>3. CardIssued(rs, url) = [rs EXCEPT ![c] = r]
      BY <1>1 DEF CardIssued
    <2> HIDE DEF c, r
    <2> QED
      BY <1>1, <2>1, <2>2, <2>3, RowReplaced DEF Marked
  <1>2. CASE rs[c].url # url
    BY <1>2 DEF CardIssued, Marked
  <1> QED
    BY <1>1, <1>2

LEMMA NoteRunMarks ==
    ASSUME NEW rs \in Seq(Repo), NEW e \in Event
    PROVE  /\ Marked(rs, NoteRun(rs, e))
           /\ \A i \in DOMAIN rs : NoteRun(rs, e)[i].card = rs[i].card
  <1> DEFINE S == Find(rs, e.url)
             i == Min(S)
             r == [rs[i] EXCEPT !.snapshot = TRUE, !.verified = @ \/ e.verified]
  <1>1. CASE S = {}
    BY <1>1 DEF NoteRun, Marked
  <1>2. CASE S # {}
    <2>1. S \in SUBSET Nat /\ S \in SUBSET (DOMAIN rs)
      BY DEF Find
    <2>2. i \in DOMAIN rs
      BY <1>2, <2>1, MinIsIn
    <2>3. rs[i] \in Repo
      BY <2>2
    <2>4. (rs[i].verified \/ e.verified) \in BOOLEAN
      OBVIOUS
    <2>5. /\ r \in Repo /\ r.url = rs[i].url /\ r.state = rs[i].state
          /\ r.adopted = rs[i].adopted /\ r.card = rs[i].card
      BY <2>3, <2>4 DEF Repo
    <2>6. NoteRun(rs, e) = [rs EXCEPT ![i] = r]
      BY <1>2 DEF NoteRun
    <2> HIDE DEF i, r, S
    <2> QED
      BY <2>2, <2>5, <2>6, RowReplaced DEF Marked
  <1> QED
    BY <1>1, <1>2

LEMMA OldBucketMarks ==
    ASSUME NEW rs \in Seq(Repo), NEW url
    PROVE  /\ Marked(rs, OldBucket(rs, url))
           /\ \A i \in DOMAIN rs : OldBucket(rs, url)[i].card = rs[i].card
  <1> DEFINE old == PreviousTo(rs, Current(rs))
             r == [rs[old] EXCEPT !.released = TRUE]
  <1>1. CASE OldBucket(rs, url) = rs
    BY <1>1 DEF Marked
  <1>2. CASE OldBucket(rs, url) # rs
    <2>1. old # 0 /\ OldBucket(rs, url) = [rs EXCEPT ![old] = r]
      BY <1>2 DEF OldBucket
    <2>2. old \in DOMAIN rs
      BY <2>1, PreviousIsThere
    <2>3. rs[old] \in Repo
      BY <2>2
    <2>4. /\ r \in Repo /\ r.url = rs[old].url /\ r.state = rs[old].state
          /\ r.adopted = rs[old].adopted /\ r.card = rs[old].card
      BY <2>3 DEF Repo
    <2> HIDE DEF old, r
    <2> QED
      BY <2>1, <2>2, <2>4, RowReplaced DEF Marked
  <1> QED
    BY <1>1, <1>2

(***************************************************************************)
(* The inductive invariant.  acc: the buckets somebody accepted; held: the *)
(* buckets whose card is on paper, or was vouched for.                     *)
(***************************************************************************)
RowInv(rs, acc, held) ==
    /\ rs \in Seq(Repo)
    /\ In(rs, {"active", "cutting-over"}) # {}
    /\ \A i \in DOMAIN rs : /\ rs[i].state = "cutting-over" => rs[i].url \in acc
                            /\ rs[i].state # "offered" => rs[i].url \in acc \cup {Home}
                            /\ rs[i].card => rs[i].url \in held
                            /\ rs[i].adopted => rs[i].url \in Adopted
                            /\ rs[i].url \in Adopted => rs[i].adopted

\* A run that may create was sent to where it is, and nobody knew of a snapshot there.
MayCreate ==
    \A p \in Process : run[p].step \in {"open", "init"} =>
        run[p].url \in accepted \ Adopted /\ ~run[p].heard

Inv ==
    /\ TypeOK
    /\ RowInv(rows, accepted, paper \cup vouched)
    /\ onPage \in paper \cup {None}
    /\ asked => In(rows, {"cutting-over"}) = {}
    /\ MayCreate

LEMMA MarkedKeeps ==
    ASSUME NEW rs, NEW new, NEW acc, NEW acc2, NEW held, NEW held2,
           RowInv(rs, acc, held), Marked(rs, new), acc \subseteq acc2, held \subseteq held2,
           \A i \in DOMAIN rs : new[i].card => rs[i].card \/ rs[i].url \in held2
    PROVE  /\ RowInv(new, acc2, held2)
           /\ \A states : In(new, states) = In(rs, states)
  <1>1. \A states : In(new, states) = In(rs, states)
    BY DEF In, Marked
  <1>2. In(new, {"active", "cutting-over"}) # {}
    BY <1>1 DEF RowInv
  <1> QED
    BY <1>1, <1>2 DEF RowInv, Marked

LEMMA CutOverKeeps ==
    ASSUME NEW rs, NEW acc, NEW held, NEW url \in acc, RowInv(rs, acc, held)
    PROVE  RowInv(CutOver(rs, url), acc, held)
  <1> DEFINE o == Offered(rs)
             r == [rs[o] EXCEPT !.state = "cutting-over"]
             new == CutOver(rs, url)
  <1>0. rs \in Seq(Repo)
    BY DEF RowInv
  <1>1. CASE new = rs
    BY <1>1
  <1>2. CASE new # rs
    <2>1. o # 0 /\ rs[o].url = url /\ new = [rs EXCEPT ![o] = r]
      BY <1>2 DEF CutOver
    <2>2. o \in DOMAIN rs /\ rs[o] \in Repo
      BY <1>0, <2>1, OfferedIsThere
    <2>3. /\ r \in Repo /\ r.url = url /\ r.state = "cutting-over"
          /\ r.adopted = rs[o].adopted /\ r.card = rs[o].card
      BY <2>1, <2>2 DEF Repo, State
    <2> HIDE DEF o, r, new
    <2>4. /\ new \in Seq(Repo) /\ DOMAIN new = DOMAIN rs
          /\ \A j \in DOMAIN rs : new[j] = IF j = o THEN r ELSE rs[j]
      BY <1>0, <2>1, <2>2, <2>3, RowReplaced
    <2>5. o \in In(new, {"active", "cutting-over"})
      BY <2>2, <2>3, <2>4 DEF In
    <2> QED
      BY <2>1, <2>2, <2>3, <2>4, <2>5 DEF RowInv, new
  <1> QED
    BY <1>1, <1>2

WithOffer(rs, b) == Append(rs, NewRow(b, "offered"))

LEMMA OfferKeeps ==
    ASSUME NEW rs, NEW acc, NEW held, NEW b \in Bucket, RowInv(rs, acc, held)
    PROVE  /\ RowInv(WithOffer(rs, b), acc, held)
           /\ In(WithOffer(rs, b), {"cutting-over"}) = In(rs, {"cutting-over"})
  <1> DEFINE new == WithOffer(rs, b)
  <1> DEFINE r == NewRow(b, "offered")
  <1>1. rs \in Seq(Repo)
    BY DEF RowInv
  <1>2. (b \in Adopted) \in BOOLEAN
    OBVIOUS
  <1>3. r \in Repo /\ r.url = b /\ r.state = "offered" /\ ~r.card /\ (r.adopted <=> b \in Adopted)
    BY <1>2 DEF NewRow, Repo, State
  <1> HIDE DEF r, new
  <1>4. /\ new \in Seq(Repo)
        /\ DOMAIN new = DOMAIN rs \cup {Len(rs) + 1}
        /\ \A i \in DOMAIN rs : new[i] = rs[i]
        /\ new[Len(rs) + 1] = r
    <2>1. new = Append(rs, r)
      BY DEF r, new, WithOffer
    <2>2. Len(new) = Len(rs) + 1 /\ Len(rs) \in Nat
      BY <1>1, <1>3, <2>1
    <2>3. new \in Seq(Repo) /\ \A i \in 1..Len(rs) : new[i] = rs[i]
      BY <1>1, <1>3, <2>1
    <2>4. new[Len(rs) + 1] = r
      BY <1>1, <1>3, <2>1
    <2>5. DOMAIN new = 1..(Len(rs) + 1) /\ DOMAIN rs = 1..Len(rs)
      BY <1>1, <2>2, <2>3
    <2> QED
      BY <2>2, <2>3, <2>4, <2>5
  <1>5. \A states : In(rs, states) \subseteq In(new, states)
    BY <1>4 DEF In
  <1>6. In(new, {"cutting-over"}) = In(rs, {"cutting-over"})
    BY <1>3, <1>4 DEF In
  <1>7. In(new, {"active", "cutting-over"}) # {}
    BY <1>5 DEF RowInv
  <1> QED
    BY <1>3, <1>4, <1>6, <1>7 DEF RowInv, new

LEMMA RetireKeeps ==
    ASSUME NEW rs, NEW acc, NEW held, RowInv(rs, acc, held), CuttingOver(rs),
           NEW c, c = Current(rs), NEW old, old = PreviousTo(rs, c), old # 0,
           NEW new, new = [rs EXCEPT ![old].state = "retired", ![c].state = "active"]
    PROVE  RowInv(new, acc, held)
  <1> DEFINE ro == [rs[old] EXCEPT !.state = "retired"]
             rc == [rs[c] EXCEPT !.state = "active"]
             mid == [rs EXCEPT ![old] = ro]
  <1>1. rs \in Seq(Repo) /\ In(rs, {"active", "cutting-over"}) # {}
    BY DEF RowInv
  <1>2. c \in DOMAIN rs /\ rs[c] \in Repo
    BY <1>1, CurrentIsThere
  <1>3. old \in DOMAIN rs /\ old # c /\ rs[old].state \in {"active", "cutting-over"}
    BY <1>1, PreviousIsThere
  <1>4. rs[old] \in Repo
    BY <1>1, <1>3
  <1>5. ro \in Repo /\ ro.state = "retired" /\ ro.url = rs[old].url
        /\ ro.card = rs[old].card /\ ro.adopted = rs[old].adopted
    BY <1>4 DEF Repo, State
  <1>6. rc \in Repo /\ rc.state = "active" /\ rc.url = rs[c].url
        /\ rc.card = rs[c].card /\ rc.adopted = rs[c].adopted
    BY <1>2 DEF Repo, State
  <1>7. new = [mid EXCEPT ![c] = rc]
    BY <1>1, <1>2, <1>3
  <1>8. rs[c].state = "cutting-over"
    BY DEF CuttingOver
  <1> HIDE DEF ro, rc
  <1>9. /\ mid \in Seq(Repo) /\ DOMAIN mid = DOMAIN rs
        /\ \A j \in DOMAIN rs : mid[j] = IF j = old THEN ro ELSE rs[j]
    BY <1>1, <1>3, <1>5, RowReplaced
  <1> HIDE DEF mid
  <1>10. /\ new \in Seq(Repo) /\ DOMAIN new = DOMAIN rs
         /\ \A j \in DOMAIN rs : new[j] = IF j = c THEN rc ELSE mid[j]
    <2>1. c \in DOMAIN mid
      BY <1>2, <1>9
    <2>2. /\ [mid EXCEPT ![c] = rc] \in Seq(Repo)
          /\ DOMAIN [mid EXCEPT ![c] = rc] = DOMAIN mid
          /\ \A j \in DOMAIN mid : [mid EXCEPT ![c] = rc][j] = IF j = c THEN rc ELSE mid[j]
      BY <1>6, <1>9, <2>1, RowReplaced
    <2> QED
      BY <1>7, <1>9, <2>2
  <1>11. \A j \in DOMAIN rs : new[j] = IF j = c THEN rc ELSE IF j = old THEN ro ELSE rs[j]
    BY <1>9, <1>10
  <1>12. c \in In(new, {"active", "cutting-over"})
    BY <1>2, <1>6, <1>10, <1>11 DEF In
  <1>13. ASSUME NEW i \in DOMAIN new
         PROVE  /\ new[i].state = "cutting-over" => new[i].url \in acc
                /\ new[i].state # "offered" => new[i].url \in acc \cup {Home}
                /\ new[i].card => new[i].url \in held
                /\ new[i].adopted => new[i].url \in Adopted
                /\ new[i].url \in Adopted => new[i].adopted
    <2>1. CASE i = c
      <3>1. new[i] = rc
        BY <1>10, <1>11, <2>1
      <3> QED
        BY <1>2, <1>6, <1>8, <3>1 DEF RowInv
    <2>2. CASE i = old
      <3>1. new[i] = ro
        BY <1>3, <1>10, <1>11, <2>2
      <3> QED
        BY <1>3, <1>5, <3>1 DEF RowInv
    <2>3. CASE i # c /\ i # old
      <3>1. new[i] = rs[i] /\ i \in DOMAIN rs
        BY <1>10, <1>11, <2>3
      <3> QED
        BY <3>1 DEF RowInv
    <2> QED
      BY <2>1, <2>2, <2>3
  <1>14. new \in Seq(Repo) /\ In(new, {"active", "cutting-over"}) # {}
    BY <1>10, <1>12
  <1> QED
    BY <1>13, <1>14 DEF RowInv

(***************************************************************************)
(* The invariant holds at the start, and every action keeps it.            *)
(***************************************************************************)
LEMMA InvInit == Init => Inv
  <1> SUFFICES ASSUME Init PROVE Inv
    OBVIOUS
  <1> DEFINE r == NewRow(Home, "active")
  <1>1. r \in Repo /\ r.url = Home /\ r.state = "active" /\ ~r.card /\ ~r.adopted
    <2>1. (Home \in Adopted) \in BOOLEAN
      OBVIOUS
    <2> QED
      BY <2>1, RotationAssumption DEF NewRow, Repo, State
  <1>2. Home \notin Adopted /\ Home \in Bucket
    BY RotationAssumption
  <1> HIDE DEF r
  <1>3. rows = <<r>>
    BY DEF Init, r
  <1>4. rows \in Seq(Repo) /\ DOMAIN rows = {1} /\ rows[1] = r
    BY <1>1, <1>3
  <1>5. 1 \in In(rows, {"active", "cutting-over"}) /\ In(rows, {"cutting-over"}) = {}
    BY <1>1, <1>4 DEF In
  <1>6. RowInv(rows, accepted, paper \cup vouched)
    BY <1>1, <1>2, <1>4, <1>5 DEF RowInv
  <1>7. NoRun \in Run
    BY RotationAssumption DEF NoRun, Run, Step, State
  <1>8. run \in [Process -> Run] /\ MayCreate
    BY <1>7 DEF Init, MayCreate, NoRun
  <1>9. TypeOK
    BY <1>4, <1>8 DEF Init, TypeOK
  <1> QED
    BY <1>5, <1>6, <1>8, <1>9 DEF Inv, Init

LEMMA OfferedURLTyped ==
    ASSUME NEW rs \in Seq(Repo)
    PROVE  OfferedURL(rs) \in Bucket \cup {None}
  <1>1. CASE Offered(rs) = 0
    BY <1>1 DEF OfferedURL
  <1>2. CASE Offered(rs) # 0
    <2>1. Offered(rs) \in DOMAIN rs
      BY <1>2, OfferedIsThere
    <2>2. rs[Offered(rs)] \in Repo
      BY <2>1
    <2> QED
      BY <1>2, <2>2 DEF OfferedURL, Repo
  <1> QED
    BY <1>1, <1>2

\* What a step of the server, the page or the cards has to show: it leaves the runs alone.
LEMMA RunsAlone ==
    ASSUME Inv, UNCHANGED run, accepted \subseteq accepted'
    PROVE  MayCreate'
  BY DEF Inv, MayCreate

LEMMA WorldKeeps ==
    ASSUME Inv, World
    PROVE  Inv'
  <1>1. CASE Retire
    <2>1. RowInv(rows', accepted, paper \cup vouched)
      BY <1>1, RetireKeeps DEF Retire, Inv
    <2>2. CuttingOver(rows) /\ In(rows, {"active", "cutting-over"}) # {} /\ rows \in Seq(Repo)
      BY <1>1 DEF Retire, Inv, RowInv
    <2>3. ~asked
      BY <2>2, CurrentIsThere DEF Inv
    <2>4. TypeOK'
      BY <1>1, <2>1 DEF Retire, Inv, TypeOK, RowInv, server, cards
    <2>5. MayCreate'
      BY <1>1, RunsAlone DEF Retire
    <2> QED
      BY <1>1, <2>1, <2>3, <2>4, <2>5 DEF Retire, Inv, cards
  <1>2. ASSUME NEW b \in Bucket, Offer(b) PROVE Inv'
    <2>1. /\ RowInv(rows', accepted, paper \cup vouched)
          /\ In(rows', {"cutting-over"}) = In(rows, {"cutting-over"})
      <3>1. RowInv(rows, accepted, paper \cup vouched)
        BY DEF Inv
      <3>2. rows' = WithOffer(rows, b)
        BY <1>2 DEF Offer, WithOffer
      <3> QED
        BY <3>1, <3>2, OfferKeeps, Zenon
    <2>2. TypeOK'
      BY <1>2, <2>1 DEF Offer, Inv, TypeOK, RowInv, cards
    <2>3. MayCreate'
      BY <1>2, RunsAlone DEF Offer
    <2> QED
      BY <1>2, <2>1, <2>2, <2>3 DEF Offer, Inv, cards
  <1>3. ASSUME NEW b \in Bucket, Empty(b) PROVE Inv'
    <2>1. TypeOK'
      BY <1>3 DEF Empty, Inv, TypeOK, server, cards
    <2>2. MayCreate'
      BY <1>3, RunsAlone DEF Empty
    <2> QED
      BY <1>3, <2>1, <2>2 DEF Empty, Inv, server, cards
  <1> QED
    BY <1>1, <1>2, <1>3 DEF World

LEMMA PageKeeps ==
    ASSUME Inv, Page
    PROVE  Inv'
  <1>1. rows \in Seq(Repo) /\ In(rows, {"active", "cutting-over"}) # {}
    BY DEF Inv, RowInv
  <1>2. OfferedURL(rows) \in Bucket \cup {None}
    BY <1>1, OfferedURLTyped
  <1>3. CASE PollState
    <2>1. TypeOK'
      BY <1>2, <1>3 DEF PollState, Inv, TypeOK, server, cards
    <2>2. MayCreate'
      BY <1>3, RunsAlone DEF PollState
    <2> QED
      BY <1>3, <2>1, <2>2 DEF PollState, Inv, server, cards
  <1>4. CASE RequestRotation
    <2>1. In(rows, {"cutting-over"}) = {}
      BY <1>1, <1>4, CurrentIsThere DEF RequestRotation, MayAsk
    <2>2. TypeOK'
      BY <1>2, <1>4 DEF RequestRotation, Inv, TypeOK, cards
    <2>3. MayCreate'
      BY <1>4, RunsAlone DEF RequestRotation
    <2> QED
      BY <1>4, <2>1, <2>2, <2>3 DEF RequestRotation, Inv, cards
  <1>5. CASE Accept
    <2>1. shown \in Bucket /\ accepted' = accepted \cup {shown}
      BY <1>5 DEF Accept, Inv, TypeOK
    <2>2. \A held : RowInv(rows, accepted, held) => RowInv(rows, accepted', held)
      BY <2>1 DEF RowInv
    <2>3. RowInv(rows, accepted', paper \cup vouched)
      BY <2>2 DEF Inv
    <2>4. RowInv(CutOver(rows, shown), accepted', paper \cup vouched)
      BY <2>1, <2>3, CutOverKeeps
    <2>5. rows' = rows \/ rows' = CutOver(rows, shown)
      BY <1>5 DEF Accept, server
    <2>6. RowInv(rows', accepted', paper \cup vouched)
      BY <2>3, <2>4, <2>5
    <2>7. asked' \in BOOLEAN /\ (asked' => asked /\ rows' = rows)
      <3>1. asked \in BOOLEAN
        BY DEF Inv, TypeOK
      <3>2. CASE UNCHANGED <<server, shown>>
        BY <3>1, <3>2 DEF server
      <3>3. CASE asked' = StillAsked(rows, rows')
        BY <3>1, <3>3, Zenon DEF StillAsked
      <3> QED
        BY <1>5, <3>2, <3>3 DEF Accept
    <2>8. rows' \in Seq(Repo)
      BY <2>6 DEF RowInv
    <2>9. shown' \in Bucket \cup {None}
      BY <1>5, <2>1, <2>8, OfferedURLTyped DEF Accept, server
    <2>10. TypeOK'
      BY <1>5, <2>1, <2>7, <2>8, <2>9 DEF Accept, Inv, TypeOK, cards
    <2>11. MayCreate'
      BY <1>5, RunsAlone DEF Accept
    <2>12. UNCHANGED cards
      BY <1>5 DEF Accept
    <2> QED
      BY <2>6, <2>7, <2>10, <2>11, <2>12 DEF Inv, cards
  <1> QED
    BY <1>3, <1>4, <1>5 DEF Page

LEMMA CardKeeps ==
    ASSUME Inv, Card
    PROVE  Inv'
  <1> DEFINE c == Current(rows)
             url == rows[c].url
  <1>1. rows \in Seq(Repo) /\ In(rows, {"active", "cutting-over"}) # {}
    BY DEF Inv, RowInv
  <1>2. url \in Bucket
    BY <1>1, CurrentIsThere DEF Repo
  <1>3. CASE PrintCard
    <2>1. onPage' = url /\ paper' = paper \cup {url}
      BY <1>3 DEF PrintCard
    <2>2. RowInv(rows, accepted, paper' \cup vouched)
      BY <2>1 DEF Inv, RowInv
    <2> HIDE DEF url
    <2>3. TypeOK'
      BY <1>2, <1>3, <2>1 DEF PrintCard, Inv, TypeOK, server
    <2>4. MayCreate'
      BY <1>3, RunsAlone DEF PrintCard
    <2> QED
      BY <1>3, <2>1, <2>2, <2>3, <2>4 DEF PrintCard, Inv, server
  <1>4. CASE CardPrinted
    <2>1. onPage \in paper
      BY <1>4 DEF CardPrinted, Inv
    <2>2. /\ Marked(rows, CardIssued(rows, onPage))
          /\ \A i \in DOMAIN rows :
               CardIssued(rows, onPage)[i].card => rows[i].card \/ rows[i].url = onPage
      BY <1>1, CardIssuedMarks
    <2>3. /\ RowInv(CardIssued(rows, onPage), accepted, paper \cup vouched)
          /\ \A states : In(CardIssued(rows, onPage), states) = In(rows, states)
      <3> DEFINE held == paper \cup vouched
      <3>1. RowInv(rows, accepted, held)
        BY DEF Inv
      <3>2. \A i \in DOMAIN rows :
               CardIssued(rows, onPage)[i].card => rows[i].card \/ rows[i].url \in held
        BY <2>1, <2>2
      <3> HIDE DEF held
      <3>3. /\ RowInv(CardIssued(rows, onPage), accepted, held)
            /\ \A states : In(CardIssued(rows, onPage), states) = In(rows, states)
        BY <2>2, <3>1, <3>2, MarkedKeeps, Zenon
      <3> QED
        BY <3>3, Zenon DEF held
    <2>4. /\ RowInv(rows', accepted, paper \cup vouched)
          /\ In(rows', {"cutting-over"}) = In(rows, {"cutting-over"})
      BY <1>4, <2>3 DEF CardPrinted, Inv
    <2>5. TypeOK'
      BY <1>4, <2>4 DEF CardPrinted, Inv, TypeOK, RowInv
    <2>6. MayCreate'
      BY <1>4, RunsAlone DEF CardPrinted
    <2> QED
      BY <1>4, <2>4, <2>5, <2>6 DEF CardPrinted, Inv
  <1>5. CASE ConfirmCardPrinted
    <2>1. rows' = CardIssued(rows, url) /\ vouched' = vouched \cup {url}
      BY <1>5 DEF ConfirmCardPrinted
    <2> HIDE DEF url
    <2>2. /\ Marked(rows, rows')
          /\ \A i \in DOMAIN rows : rows'[i].card => rows[i].card \/ rows[i].url = url
      BY <1>1, <2>1, CardIssuedMarks
    <2>3. /\ RowInv(rows', accepted, paper \cup vouched')
          /\ \A states : In(rows', states) = In(rows, states)
      BY <2>1, <2>2, MarkedKeeps DEF Inv
    <2>4. TypeOK'
      BY <1>2, <1>5, <2>1, <2>3 DEF ConfirmCardPrinted, Inv, TypeOK, RowInv
    <2>5. MayCreate'
      BY <1>5, RunsAlone DEF ConfirmCardPrinted
    <2> QED
      BY <1>5, <2>3, <2>4, <2>5 DEF ConfirmCardPrinted, Inv
  <1> QED
    BY <1>3, <1>4, <1>5 DEF Card

(***************************************************************************)
(* The steps of a run.  Those that leave the server alone first.           *)
(***************************************************************************)
LEMMA RowsAlone ==
    ASSUME Inv, UNCHANGED <<server, cards, accepted>>, TypeOK', MayCreate'
    PROVE  Inv'
  BY DEF Inv, server, cards

\* A run that goes on, or ends, with the bucket it was sent to.
LEMMA RunTyped ==
    ASSUME TypeOK, NEW p \in Process,
           NEW step \in Step, NEW good \in BOOLEAN
    PROVE  /\ Goes(p, step) => run' \in [Process -> Run]
           /\ Ends(p) => run' \in [Process -> Run]
           /\ [run EXCEPT ![p].step = step, ![p].verified = good] \in [Process -> Run]
  <1>1. run[p] \in Run
    BY DEF TypeOK
  <1>2. [run[p] EXCEPT !.step = step] \in Run
    BY <1>1 DEF Run
  <1>3. NoRun \in Run
    BY RotationAssumption DEF NoRun, Run, Step, State
  <1>4. [run[p] EXCEPT !.step = step, !.verified = good] \in Run
    BY <1>1 DEF Run
  <1> QED
    BY <1>2, <1>3, <1>4 DEF TypeOK, Goes, Ends

\* A run past its creation, or none, has nothing left to create.
LEMMA RunMayCreate ==
    ASSUME Inv, NEW p \in Process, accepted' = accepted,
           \/ Ends(p)
           \/ \E step \in Step \ {"open", "init"} : Goes(p, step)
           \/ run[p].step = "open" /\ Goes(p, "init")
           \/ UNCHANGED run
    PROVE  MayCreate'
  <1> SUFFICES ASSUME NEW q \in Process, run'[q].step \in {"open", "init"}
               PROVE  run'[q].url \in accepted \ Adopted /\ ~run'[q].heard
    BY DEF MayCreate
  <1>1. run \in [Process -> Run] /\ MayCreate
    BY DEF Inv, TypeOK
  <1>2. CASE q # p
    <2>1. run'[q] = run[q]
      BY <1>1, <1>2 DEF Ends, Goes
    <2> QED
      BY <1>1, <2>1 DEF MayCreate
  <1>3. CASE q = p /\ Ends(p)
    BY <1>1, <1>3 DEF Ends, NoRun
  <1>4. CASE q = p /\ \E step \in Step \ {"open", "init"} : Goes(p, step)
    BY <1>1, <1>4 DEF Goes
  <1>5. CASE q = p /\ run[p].step = "open" /\ Goes(p, "init")
    <2>1. run[p] \in Run
      BY <1>1
    <2>2. run'[p] = [run[p] EXCEPT !.step = "init"]
      BY <1>1, <1>5 DEF Goes
    <2>3. run'[p].url = run[p].url /\ run'[p].heard = run[p].heard
      BY <2>1, <2>2 DEF Run
    <2> QED
      BY <1>1, <1>5, <2>3 DEF MayCreate
  <1>6. CASE UNCHANGED run
    BY <1>1, <1>6 DEF MayCreate
  <1> QED
    BY <1>2, <1>3, <1>4, <1>5, <1>6

LEMMA FetchKeeps ==
    ASSUME Inv, NEW p \in Process, Fetch(p)
    PROVE  Inv'
  <1> DEFINE i == Current(rows)
             c == rows[i]
             new == [step |-> IF ExpectEmpty(c) THEN "open" ELSE "backup", url |-> c.url,
                     state |-> c.state, permitted |-> ExpectEmpty(c), verified |-> FALSE,
                     heard |-> c.snapshot]
  <1>1. i \in DOMAIN rows /\ c \in Repo
    BY CurrentIsThere DEF Inv, RowInv
  <1>2. /\ c.state = "cutting-over" => c.url \in accepted
        /\ c.url \in Adopted => c.adopted
    BY <1>1 DEF Inv, RowInv
  <1>3. run' = [run EXCEPT ![p] = new]
    BY DEF Fetch
  <1> HIDE DEF i
  <1>4. ExpectEmpty(c) => c.url \in accepted \ Adopted /\ ~c.snapshot
    BY <1>2 DEF ExpectEmpty
  <1>5. ExpectEmpty(c) \in BOOLEAN
    BY DEF ExpectEmpty
  <1>6. new \in Run
    BY <1>1, <1>5 DEF Run, Repo, Step
  <1>7. new.step \in {"open", "init"} => new.url \in accepted \ Adopted /\ ~new.heard
    BY <1>4
  <1> HIDE DEF new
  <1>8. run \in [Process -> Run]
    BY DEF Inv, TypeOK
  <1>9. TypeOK'
    BY <1>3, <1>6, <1>8 DEF Fetch, Inv, TypeOK, server, cards
  <1>10. MayCreate'
    BY <1>3, <1>7, <1>8 DEF Fetch, Inv, MayCreate
  <1> QED
    BY <1>9, <1>10, RowsAlone DEF Fetch

LEMMA QuietStepKeeps ==
    ASSUME Inv, NEW p \in Process,
           \/ Open(p) \/ Create(p) \/ ReadBack(p) \/ Backup(p) \/ GiveUp(p)
    PROVE  Inv'
  <1>1. /\ \/ Ends(p)
           \/ \E step \in Step \ {"open", "init"} : Goes(p, step)
           \/ run[p].step = "open" /\ Goes(p, "init")
        /\ accepted' = accepted
        /\ UNCHANGED <<server, shown, outbox, cards, accepted, lost>>
    BY DEF Open, Create, ReadBack, Backup, GiveUp, At, Step
  <1>2. MayCreate'
    BY <1>1, RunMayCreate
  <1>3. run' \in [Process -> Run]
    <2>1. TypeOK /\ "init" \in Step
      BY DEF Inv, Step
    <2>2. \A step \in Step : Goes(p, step) => run' \in [Process -> Run]
      BY <2>1, RunTyped
    <2>3. Ends(p) => run' \in [Process -> Run]
      BY <2>1, RunTyped
    <2> QED
      BY <1>1, <2>1, <2>2, <2>3
  <1>4. content' \in [Bucket -> {"absent", "empty", "unproven", "proven"}]
    BY DEF Open, Create, ReadBack, Backup, GiveUp, Inv, TypeOK
  <1>5. TypeOK'
    BY <1>1, <1>3, <1>4 DEF Inv, TypeOK, server, cards
  <1> QED
    BY <1>1, <1>2, <1>5, RowsAlone

LEMMA VerifyKeeps ==
    ASSUME Inv, NEW p \in Process, NEW good \in BOOLEAN, Verify(p, good)
    PROVE  Inv'
  <1>1. run \in [Process -> Run] /\ run[p] \in Run /\ MayCreate
    BY DEF Inv, TypeOK
  <1>2. run' = [run EXCEPT ![p].step = "report", ![p].verified = good]
    BY DEF Verify
  <1>3. run' \in [Process -> Run]
    <2>1. "report" \in Step /\ TypeOK
      BY DEF Inv, Step
    <2>2. [run EXCEPT ![p].step = "report", ![p].verified = good] \in [Process -> Run]
      BY <2>1, RunTyped, Zenon
    <2> QED
      BY <1>2, <2>2
  <1>4. \A q \in Process : run'[q].step \in {"open", "init"} => run'[q] = run[q]
    BY <1>1, <1>2 DEF Run
  <1>5. MayCreate'
    BY <1>1, <1>4 DEF Verify, MayCreate
  <1>6. [url |-> run[p].url, verified |-> good] \in Event
    BY <1>1 DEF Run, Event
  <1>7. content' \in [Bucket -> {"absent", "empty", "unproven", "proven"}]
    BY DEF Verify, Inv, TypeOK
  <1>8. TypeOK'
    BY <1>3, <1>6, <1>7 DEF Verify, Inv, TypeOK, server, cards
  <1> QED
    BY <1>5, <1>8, RowsAlone DEF Verify

\* A report, or a call about the old bucket, only marks rows.
LEMMA MarksKeep ==
    ASSUME Inv, Marked(rows, rows'), \A i \in DOMAIN rows : rows'[i].card = rows[i].card,
           UNCHANGED <<asked, content, shown, cards, accepted, lost>>,
           run' \in [Process -> Run], outbox' \subseteq Event, MayCreate'
    PROVE  Inv'
  <1>1. \A held : RowInv(rows, accepted, held) =>
           /\ RowInv(rows', accepted, held)
           /\ \A states : In(rows', states) = In(rows, states)
    BY MarkedKeeps
  <1>2. /\ RowInv(rows', accepted, paper \cup vouched)
        /\ In(rows', {"cutting-over"}) = In(rows, {"cutting-over"})
    BY <1>1 DEF Inv
  <1>3. TypeOK'
    BY <1>2 DEF Inv, TypeOK, RowInv, cards
  <1> QED
    BY <1>2, <1>3 DEF Inv, cards

LEMMA SendMarks ==
    ASSUME Inv, NEW e \in Event, NEW got, NEW acknowledged, Send(e, got, acknowledged)
    PROVE  /\ Marked(rows, rows')
           /\ \A i \in DOMAIN rows : rows'[i].card = rows[i].card
           /\ outbox' \subseteq Event
  <1>1. rows \in Seq(Repo) /\ outbox \subseteq Event
    BY DEF Inv, TypeOK
  <1>2. CASE rows' = rows
    BY <1>1, <1>2 DEF Send, Marked
  <1>3. CASE rows' = NoteRun(rows, e)
    BY <1>1, <1>3, NoteRunMarks DEF Send
  <1> QED
    BY <1>2, <1>3 DEF Send

LEMMA ReportKeeps ==
    ASSUME Inv, NEW p \in Process, NEW got, NEW acknowledged, Report(p, got, acknowledged)
    PROVE  Inv'
  <1>1. run[p] \in Run
    BY DEF Inv, TypeOK
  <1>2. [url |-> run[p].url, verified |-> run[p].verified] \in Event
    BY <1>1 DEF Run, Event
  <1>3. /\ Marked(rows, rows')
        /\ \A i \in DOMAIN rows : rows'[i].card = rows[i].card
        /\ outbox' \subseteq Event
    BY <1>2, SendMarks DEF Report
  <1>4. Goes(p, "release") \/ Ends(p)
    BY DEF Report
  <1>5. run' \in [Process -> Run]
    BY <1>4, RunTyped DEF Inv, Step
  <1>6. MayCreate'
    BY <1>4, RunMayCreate DEF Report, Step
  <1> QED
    BY <1>3, <1>5, <1>6, MarksKeep DEF Report

LEMMA FlushKeeps ==
    ASSUME Inv, NEW e \in outbox, NEW acknowledged, Flush(e, acknowledged)
    PROVE  Inv'
  <1>1. e \in Event /\ run \in [Process -> Run]
    BY DEF Inv, TypeOK
  <1>2. /\ Marked(rows, rows')
        /\ \A i \in DOMAIN rows : rows'[i].card = rows[i].card
        /\ outbox' \subseteq Event
    BY <1>1, SendMarks DEF Flush
  <1>3. MayCreate'
    BY RunsAlone DEF Flush
  <1> QED
    BY <1>1, <1>2, <1>3, MarksKeep DEF Flush

LEMMA ReleaseKeeps ==
    ASSUME Inv, NEW p \in Process, NEW got, ReleaseOldBucket(p, got)
    PROVE  Inv'
  <1>1. rows \in Seq(Repo)
    BY DEF Inv, TypeOK
  <1>2. Marked(rows, rows') /\ \A i \in DOMAIN rows : rows'[i].card = rows[i].card
    <2>1. CASE rows' = rows
      BY <1>1, <2>1 DEF Marked
    <2>2. CASE rows' = OldBucket(rows, run[p].url)
      BY <1>1, <2>2, OldBucketMarks
    <2> QED
      BY <2>1, <2>2 DEF ReleaseOldBucket
  <1>3. run' \in [Process -> Run]
    BY RunTyped DEF ReleaseOldBucket, Inv, Step
  <1>4. MayCreate'
    BY RunMayCreate DEF ReleaseOldBucket
  <1>5. outbox' \subseteq Event
    BY DEF ReleaseOldBucket, Inv, TypeOK
  <1> QED
    BY <1>2, <1>3, <1>4, <1>5, MarksKeep DEF ReleaseOldBucket

LEMMA InvNext == Inv /\ [Next]_vars => Inv'
  <1> SUFFICES ASSUME Inv, [Next]_vars PROVE Inv'
    OBVIOUS
  <1>1. CASE World
    BY <1>1, WorldKeeps
  <1>2. CASE Page
    BY <1>2, PageKeeps
  <1>3. CASE Card
    BY <1>3, CardKeeps
  <1>4. CASE Flusher
    BY <1>4, FlushKeeps DEF Flusher
  <1>5. ASSUME NEW p \in Process, RunStep(p) PROVE Inv'
    BY <1>5, FetchKeeps, QuietStepKeeps, VerifyKeeps, ReleaseKeeps, ReportKeeps DEF RunStep
  <1>6. CASE UNCHANGED vars
    BY <1>6 DEF vars, Inv, TypeOK, MayCreate
  <1> QED
    BY <1>1, <1>2, <1>3, <1>4, <1>5, <1>6 DEF Next

(***************************************************************************)
(* What it says.                                                           *)
(***************************************************************************)
LEMMA InvAlways == Spec => []Inv
  <1> QED
    BY InvInit, InvNext, PTL DEF Spec

\* The server's rows, the runs, the cards and the page stay well-formed: there is always
\* a row the machine can be sent to.
THEOREM TypeCorrect == Spec => []TypeOK
  <1>1. Inv => TypeOK
    BY DEF Inv
  <1> QED
    BY <1>1, InvAlways, PTL

\* The machine writes where somebody sent it by name (cutover), however many buckets are
\* on offer or being moved to.
THEOREM OnlyWhereAsked == Spec => []NothingMovesUnasked
  <1>1. Inv => NothingMovesUnasked
    <2> SUFFICES ASSUME Inv PROVE rows[Current(rows)].url \in accepted \cup {Home}
      BY DEF NothingMovesUnasked
    <2>1. /\ Current(rows) \in DOMAIN rows
          /\ rows[Current(rows)].state \in {"active", "cutting-over"}
      BY CurrentIsThere DEF Inv, RowInv
    <2> QED
      BY <2>1 DEF Inv, RowInv
  <1> QED
    BY <1>1, InvAlways, PTL

\* A request for a fresh bucket is closed by the move it led to, so the owner can ask
\* again (cutover).
THEOREM RequestsEnd == Spec => []RequestsGetAnswered
  <1>1. Inv => RequestsGetAnswered
    BY CurrentIsThere DEF Inv, RowInv, RequestsGetAnswered
  <1> QED
    BY <1>1, InvAlways, PTL

\* A card counts as issued only for the bucket it was printed for, or that somebody
\* vouched for on the command line (card-issued).
THEOREM OnlyPaperCounts == Spec => []IssuedIsOnPaper
  <1>1. Inv => IssuedIsOnPaper
    <2> SUFFICES ASSUME Inv, CardState(rows) = "issued"
                 PROVE  rows[Current(rows)].url \in paper \cup vouched
      BY DEF IssuedIsOnPaper
    <2>1. Current(rows) \in DOMAIN rows
      BY CurrentIsThere DEF Inv, RowInv
    <2>2. rows[Current(rows)].card
      BY DEF CardState
    <2> QED
      BY <2>1, <2>2 DEF Inv, RowInv
  <1> QED
    BY <1>1, InvAlways, PTL

\* Of a step of the machine only Create makes a repository, and only for a run that was
\* sent to an empty bucket (openRepository, expectEmpty).
LEMMA StepCreates ==
    ASSUME Inv, [Next]_vars, NEW b \in Bucket, content[b] = "absent", content'[b] # "absent"
    PROVE  \E p \in Process : run[p].step = "init" /\ run[p].url = b
  <1>1. content # content'
    OBVIOUS
  <1>2. content \in [Bucket -> {"absent", "empty", "unproven", "proven"}]
    BY DEF Inv, TypeOK
  <1>3. ~World
    BY <1>1, <1>2 DEF World, Retire, Offer, Empty
  <1>4. ~Page /\ ~Card /\ ~Flusher /\ ~UNCHANGED vars
    BY <1>1 DEF Page, PollState, RequestRotation, Accept, Card, PrintCard, CardPrinted,
                ConfirmCardPrinted, Flusher, Flush, vars
  <1>5. PICK p \in Process : RunStep(p)
    BY <1>3, <1>4 DEF Next
  <1>6. ~Fetch(p) /\ ~Open(p) /\ ~ReadBack(p) /\ ~GiveUp(p)
    BY <1>1 DEF Fetch, Open, ReadBack, GiveUp
  <1>7. /\ \A good \in BOOLEAN : ~ReleaseOldBucket(p, good)
        /\ \A got, acknowledged \in BOOLEAN : ~Report(p, got, acknowledged)
    BY <1>1 DEF ReleaseOldBucket, Report
  <1>8. ~Backup(p)
    BY <1>2 DEF Backup, Found
  <1>9. \A good \in BOOLEAN : ~Verify(p, good)
    BY <1>2 DEF Verify, Found
  <1>10. Create(p)
    BY <1>5, <1>6, <1>7, <1>8, <1>9 DEF RunStep
  <1> QED
    BY <1>2, <1>10 DEF Create, At

\* A repository is created only in a bucket somebody accepted, that came with no history,
\* by a run whose fetch found the server without word of a snapshot in it.
THEOREM CreatedWhereSent == Spec => CreatedOnlyWhereSent
  <1> DEFINE A == \A b \in Bucket : content[b] = "absent" /\ content'[b] # "absent" =>
                     /\ b \in accepted \ Adopted
                     /\ \E p \in Process : run[p].url = b /\ ~run[p].heard
  <1>1. Inv /\ [Next]_vars => A
    <2> SUFFICES ASSUME Inv, [Next]_vars, NEW b \in Bucket,
                        content[b] = "absent", content'[b] # "absent"
                 PROVE  /\ b \in accepted \ Adopted
                        /\ \E p \in Process : run[p].url = b /\ ~run[p].heard
      OBVIOUS
    <2>1. PICK p \in Process : run[p].step = "init" /\ run[p].url = b
      BY StepCreates
    <2> QED
      BY <2>1 DEF Inv, MayCreate
  <1>2. Inv /\ [Next]_vars => [A]_vars
    BY <1>1
  <1> HIDE DEF A
  <1>3. Spec => [][A]_vars
    BY <1>2, InvAlways, PTL DEF Spec
  <1> QED
    BY <1>3 DEF CreatedOnlyWhereSent, A

(***************************************************************************)
(* A proven bucket is never let go of.                                     *)
(***************************************************************************)
InUse(rs) == In(rs, {"active", "cutting-over"})
Waiting(rs) == In(rs, {"offered", "cutting-over"})

\* No three buckets are on offer or being moved to.
NoThree(rs) == \A a, b, c \in Waiting(rs) : a = b \/ b = c \/ a = c

\* A bucket that is being moved to and was let go of at once, because the machine was
\* sent to an older offer after all, is the next to be retired.
LetGo(rs) ==
    /\ \A i \in DOMAIN rs : rs[i].released => rs[i].state # "offered"
    /\ \A a \in In(rs, {"cutting-over"}) : rs[a].released =>
          /\ \E b \in In(rs, {"cutting-over"}) : b < a
          /\ \A m \in InUse(rs) : m <= a

Proven(b) == content[b] = "proven"

\* What the server, a report or a run says was read back, was.
Truthful ==
    /\ \A i \in DOMAIN rows : rows[i].verified => Proven(rows[i].url)
    /\ \A e \in outbox : e.verified => Proven(e.url)
    /\ \A p \in Process : At(p, "report") /\ run[p].verified => Proven(run[p].url)

\* One bucket is proven, and nobody has let go of it.
Kept == \E i \in InUse(rows) : ~rows[i].released /\ Proven(rows[i].url)

ProtectedInv == NoThree(rows) /\ LetGo(rows) /\ (lost = {} => Truthful /\ Kept)

(* What the marks of the server leave alone beside: which rows are let go  *)
(* of, and which were read back.                                           *)
Alike(rs, new) ==
    /\ DOMAIN new = DOMAIN rs
    /\ \A i \in DOMAIN rs : /\ new[i].url = rs[i].url /\ new[i].state = rs[i].state
                            /\ new[i].released = rs[i].released

LEMMA CardIssuedAlike ==
    ASSUME NEW rs \in Seq(Repo), In(rs, {"active", "cutting-over"}) # {}, NEW url
    PROVE  /\ Alike(rs, CardIssued(rs, url))
           /\ \A i \in DOMAIN rs : CardIssued(rs, url)[i].verified = rs[i].verified
  <1>1. PICK c : c = Current(rs)
    OBVIOUS
  <1>2. c \in DOMAIN rs /\ rs[c] \in Repo
    BY <1>1, CurrentIsThere
  <1>3. PICK r : r = [rs[c] EXCEPT !.card = TRUE]
    OBVIOUS
  <1>4. /\ r \in Repo /\ r.url = rs[c].url /\ r.state = rs[c].state
        /\ r.released = rs[c].released /\ r.verified = rs[c].verified
    BY <1>2, <1>3 DEF Repo
  <1>5. CardIssued(rs, url) = rs \/ CardIssued(rs, url) = [rs EXCEPT ![c] = r]
    BY <1>1, <1>3 DEF CardIssued
  <1>6. /\ DOMAIN [rs EXCEPT ![c] = r] = DOMAIN rs
        /\ \A j \in DOMAIN rs : [rs EXCEPT ![c] = r][j] = IF j = c THEN r ELSE rs[j]
    BY <1>2, <1>4, RowReplaced
  <1> QED
    BY <1>4, <1>5, <1>6 DEF Alike

LEMMA NoteRunAlike ==
    ASSUME NEW rs \in Seq(Repo), NEW e \in Event
    PROVE  /\ Alike(rs, NoteRun(rs, e))
           /\ \A i \in DOMAIN rs : NoteRun(rs, e)[i].verified =>
                rs[i].verified \/ (e.verified /\ rs[i].url = e.url)
  <1>1. PICK S, i : S = Find(rs, e.url) /\ i = Min(S)
    OBVIOUS
  <1>2. CASE S = {}
    BY <1>1, <1>2 DEF NoteRun, Alike
  <1>3. CASE S # {}
    <2>1. S \in SUBSET Nat
      BY <1>1 DEF Find
    <2>2. i \in S
      BY <1>1, <1>3, <2>1, MinIsIn
    <2>3. i \in DOMAIN rs /\ rs[i].url = e.url /\ rs[i] \in Repo
      BY <1>1, <2>2 DEF Find
    <2>4. PICK r : r = [rs[i] EXCEPT !.snapshot = TRUE, !.verified = @ \/ e.verified]
      OBVIOUS
    <2>5. (rs[i].verified \/ e.verified) \in BOOLEAN
      OBVIOUS
    <2>6. r \in Repo
      BY <2>3, <2>4, <2>5 DEF Repo
    <2>7. r.url = rs[i].url /\ r.state = rs[i].state /\ r.released = rs[i].released
      BY <2>3, <2>4 DEF Repo
    <2>8. r.verified = (rs[i].verified \/ e.verified)
      BY <2>3, <2>4 DEF Repo
    <2>9. NoteRun(rs, e) = [rs EXCEPT ![i] = r]
      BY <1>1, <1>3, <2>4 DEF NoteRun
    <2>10. /\ DOMAIN NoteRun(rs, e) = DOMAIN rs
           /\ \A j \in DOMAIN rs : NoteRun(rs, e)[j] = IF j = i THEN r ELSE rs[j]
      BY <2>3, <2>6, <2>9, RowReplaced
    <2>11. Alike(rs, NoteRun(rs, e))
      BY <2>7, <2>10 DEF Alike
    <2>12. ASSUME NEW j \in DOMAIN rs, NoteRun(rs, e)[j].verified
           PROVE  rs[j].verified \/ (e.verified /\ rs[j].url = e.url)
      BY <2>3, <2>8, <2>10, <2>12
    <2> QED
      BY <2>11, <2>12
  <1> QED
    BY <1>2, <1>3

(* The first row that is cutting over, and the last one in use beside it.  *)
LEMMA CurrentIsFirst ==
    ASSUME NEW rs \in Seq(Repo), CuttingOver(rs), In(rs, {"active", "cutting-over"}) # {}
    PROVE  /\ Current(rs) \in In(rs, {"cutting-over"})
           /\ \A b \in In(rs, {"cutting-over"}) : Current(rs) <= b
  <1>1. In(rs, {"cutting-over"}) # {}
    BY CurrentIsThere
  <1>2. In(rs, {"cutting-over"}) \in SUBSET Nat
    BY InDomain
  <1> QED
    BY <1>1, <1>2, MinIsIn DEF Current

LEMMA PreviousIsLast ==
    ASSUME NEW rs \in Seq(Repo), NEW c, PreviousTo(rs, c) # 0
    PROVE  /\ PreviousTo(rs, c) \in InUse(rs) \ {c}
           /\ \A m \in InUse(rs) \ {c} : m <= PreviousTo(rs, c)
  <1>1. PICK S : S = InUse(rs) \ {c}
    OBVIOUS
  <1>2. S \in SUBSET (1..Len(rs)) /\ Len(rs) \in Nat
    BY <1>1, InDomain DEF InUse
  <1>3. PreviousTo(rs, c) = Newest(S)
    BY <1>1 DEF PreviousTo, InUse
  <1>4. S # {} /\ Newest(S) = Max(S)
    BY <1>3 DEF Newest
  <1>5. Max(S) \in S /\ \A y \in S : Max(S) >= y
    BY <1>2, <1>4, MaxIsIn
  <1>6. \A y \in S : y \in Nat
    BY <1>2
  <1> QED
    BY <1>1, <1>3, <1>4, <1>5, <1>6

(* A bucket being moved to is one nobody has let go of, if it is current.  *)
LEMMA CurrentIsHeld ==
    ASSUME NEW rs \in Seq(Repo), CuttingOver(rs), In(rs, {"active", "cutting-over"}) # {},
           LetGo(rs)
    PROVE  ~rs[Current(rs)].released
  <1>1. /\ Current(rs) \in In(rs, {"cutting-over"})
        /\ \A b \in In(rs, {"cutting-over"}) : Current(rs) <= b
    BY CurrentIsFirst
  <1>2. \A b \in In(rs, {"cutting-over"}) : b \in Nat
    BY InDomain
  <1> QED
    BY <1>1, <1>2 DEF LetGo

(* What the server's operations make of the rows.                          *)
LEMMA AlikeKeeps ==
    ASSUME NEW rs, NEW new, Alike(rs, new), NoThree(rs), LetGo(rs)
    PROVE  NoThree(new) /\ LetGo(new) /\ InUse(new) = InUse(rs)
  <1>1. \A states : In(new, states) = In(rs, states)
    BY DEF Alike, In
  <1>2. NoThree(new)
    BY <1>1 DEF NoThree, Waiting
  <1>3. LetGo(new)
    <2>1. \A i \in DOMAIN new : new[i].released => new[i].state # "offered"
      BY DEF Alike, LetGo
    <2>2. ASSUME NEW a \in In(new, {"cutting-over"}), new[a].released
          PROVE  /\ \E b \in In(new, {"cutting-over"}) : b < a
                 /\ \A m \in InUse(new) : m <= a
      <3>1. a \in In(rs, {"cutting-over"}) /\ a \in DOMAIN rs
        BY <1>1, <2>2 DEF In
      <3>2. rs[a].released
        BY <2>2, <3>1 DEF Alike
      <3> QED
        BY <1>1, <3>1, <3>2 DEF LetGo, InUse
    <2> QED
      BY <2>1, <2>2 DEF LetGo
  <1> QED
    BY <1>1, <1>2, <1>3 DEF InUse

LEMMA CutOverHolds ==
    ASSUME NEW rs \in Seq(Repo), NEW url, NoThree(rs), LetGo(rs)
    PROVE  /\ NoThree(CutOver(rs, url)) /\ LetGo(CutOver(rs, url))
           /\ DOMAIN CutOver(rs, url) = DOMAIN rs
           /\ InUse(rs) \subseteq InUse(CutOver(rs, url))
           /\ \A i \in DOMAIN rs : /\ CutOver(rs, url)[i].url = rs[i].url
                                   /\ CutOver(rs, url)[i].released = rs[i].released
                                   /\ CutOver(rs, url)[i].verified = rs[i].verified
  <1>1. PICK o, new : o = Offered(rs) /\ new = CutOver(rs, url)
    OBVIOUS
  <1>2. CASE new = rs
    BY <1>1, <1>2
  <1>3. CASE new # rs
    <2>1. PICK r : r = [rs[o] EXCEPT !.state = "cutting-over"]
      OBVIOUS
    <2>2. o # 0 /\ new = [rs EXCEPT ![o] = r]
      BY <1>1, <1>3, <2>1 DEF CutOver
    <2>3. o \in DOMAIN rs /\ rs[o] \in Repo /\ rs[o].state = "offered"
      BY <1>1, <2>2, OfferedIsThere
    <2>4. /\ r \in Repo /\ r.url = rs[o].url /\ r.state = "cutting-over"
          /\ r.released = rs[o].released /\ r.verified = rs[o].verified
      BY <2>1, <2>3 DEF Repo, State
    <2>5. /\ DOMAIN new = DOMAIN rs
          /\ \A j \in DOMAIN rs : new[j] = IF j = o THEN r ELSE rs[j]
      BY <2>2, <2>3, <2>4, RowReplaced
    <2>6. Waiting(new) = Waiting(rs)
      BY <2>3, <2>4, <2>5 DEF Waiting, In
    <2>7. NoThree(new)
      BY <2>6 DEF NoThree
    <2>8. InUse(rs) \subseteq InUse(new)
      BY <2>3, <2>4, <2>5 DEF InUse, In
    <2>9. ~rs[o].released
      BY <2>3 DEF LetGo
    <2>10. LetGo(new)
      <3>1. \A i \in DOMAIN new : new[i].released => new[i].state # "offered"
        BY <2>3, <2>4, <2>5 DEF LetGo
      <3>2. ASSUME NEW a \in In(new, {"cutting-over"}), new[a].released
            PROVE  FALSE
        <4>1. a # o /\ a \in DOMAIN rs /\ rs[a].state = "cutting-over" /\ rs[a].released
          BY <2>4, <2>5, <2>9, <3>2 DEF In
        <4>2. a \in In(rs, {"cutting-over"})
          BY <4>1 DEF In
        <4>3. PICK b \in In(rs, {"cutting-over"}) : b < a
          BY <4>1, <4>2 DEF LetGo
        <4>4. a \in Waiting(rs) /\ b \in Waiting(rs) /\ o \in Waiting(rs) /\ b # a
          <5>1. a \in Nat /\ b \in Nat
            BY <4>2, InDomain
          <5> QED
            BY <2>3, <4>2, <4>3, <5>1 DEF Waiting, In
        <4>5. b # o
          BY <2>3, <4>3 DEF In
        <4> QED
          BY <4>1, <4>4, <4>5 DEF NoThree
      <3> QED
        BY <3>1, <3>2 DEF LetGo
    <2> QED
      BY <1>1, <2>4, <2>5, <2>7, <2>8, <2>10
  <1> QED
    BY <1>2, <1>3

\* The rows when the old one is retired.
Retired(rs) ==
    [rs EXCEPT ![PreviousTo(rs, Current(rs))].state = "retired", ![Current(rs)].state = "active"]

LEMMA RetireHolds ==
    ASSUME NEW rs \in Seq(Repo), In(rs, {"active", "cutting-over"}) # {}, CuttingOver(rs),
           NoThree(rs), LetGo(rs), PreviousTo(rs, Current(rs)) # 0
    PROVE  /\ NoThree(Retired(rs)) /\ LetGo(Retired(rs))
           /\ DOMAIN Retired(rs) = DOMAIN rs
           /\ InUse(Retired(rs)) = InUse(rs) \ {PreviousTo(rs, Current(rs))}
           /\ \A i \in DOMAIN rs : /\ Retired(rs)[i].url = rs[i].url
                                   /\ Retired(rs)[i].released = rs[i].released
                                   /\ Retired(rs)[i].verified = rs[i].verified
  <1>0. PICK c, old, new : /\ c = Current(rs) /\ old = PreviousTo(rs, c) /\ new = Retired(rs)
                           /\ old # 0
                           /\ new = [rs EXCEPT ![old].state = "retired", ![c].state = "active"]
    BY DEF Retired
  <1>1. /\ c \in In(rs, {"cutting-over"}) /\ \A b \in In(rs, {"cutting-over"}) : c <= b
        /\ c \in DOMAIN rs /\ rs[c] \in Repo /\ rs[c].state = "cutting-over"
    BY <1>0, CurrentIsFirst, CurrentIsThere DEF In
  <1>2. /\ old \in InUse(rs) \ {c} /\ \A m \in InUse(rs) \ {c} : m <= old
        /\ old \in DOMAIN rs /\ rs[old] \in Repo
    BY <1>0, PreviousIsLast DEF InUse, In
  <1>3. PICK ro, rc : /\ ro = [rs[old] EXCEPT !.state = "retired"]
                      /\ rc = [rs[c] EXCEPT !.state = "active"]
    OBVIOUS
  <1>4. /\ ro \in Repo /\ ro.state = "retired" /\ ro.url = rs[old].url
        /\ ro.released = rs[old].released /\ ro.verified = rs[old].verified
    BY <1>2, <1>3 DEF Repo, State
  <1>5. /\ rc \in Repo /\ rc.state = "active" /\ rc.url = rs[c].url
        /\ rc.released = rs[c].released /\ rc.verified = rs[c].verified
    BY <1>1, <1>3 DEF Repo, State
  <1>6. PICK mid : mid = [rs EXCEPT ![old] = ro]
    OBVIOUS
  <1>7. new = [mid EXCEPT ![c] = rc]
    BY <1>0, <1>1, <1>2, <1>3, <1>6
  <1>8. /\ mid \in Seq(Repo) /\ DOMAIN mid = DOMAIN rs
        /\ \A j \in DOMAIN rs : mid[j] = IF j = old THEN ro ELSE rs[j]
    BY <1>2, <1>4, <1>6, RowReplaced
  <1>9. /\ DOMAIN new = DOMAIN rs
        /\ \A j \in DOMAIN rs : new[j] = IF j = c THEN rc ELSE mid[j]
    BY <1>1, <1>5, <1>7, <1>8, RowReplaced
  <1>10. \A j \in DOMAIN rs : new[j] = IF j = c THEN rc ELSE IF j = old THEN ro ELSE rs[j]
    BY <1>8, <1>9
  <1>11. Waiting(new) \subseteq Waiting(rs) \ {c, old}
    BY <1>4, <1>5, <1>9, <1>10 DEF Waiting, In
  <1>12. InUse(new) = InUse(rs) \ {old}
    <2>1. new[c] = rc /\ new[old] = ro /\ old # c
      BY <1>1, <1>2, <1>10
    <2>2. ASSUME NEW i \in DOMAIN rs
          PROVE  new[i].state \in {"active", "cutting-over"}
                    <=> rs[i].state \in {"active", "cutting-over"} /\ i # old
      <3>1. CASE i = c
        BY <1>1, <1>5, <2>1, <3>1
      <3>2. CASE i = old
        BY <1>4, <2>1, <3>2
      <3>3. CASE i # c /\ i # old
        BY <1>10, <3>3
      <3> QED
        BY <3>1, <3>2, <3>3
    <2> QED
      BY <1>9, <2>2 DEF InUse, In
  <1>13. NoThree(new)
    BY <1>11 DEF NoThree
  <1>14. \A i \in DOMAIN rs : /\ new[i].url = rs[i].url
                              /\ new[i].released = rs[i].released
                              /\ new[i].verified = rs[i].verified
    BY <1>4, <1>5, <1>10
  <1>15. LetGo(new)
    <2>1. \A i \in DOMAIN new : new[i].released => new[i].state # "offered"
      BY <1>4, <1>5, <1>9, <1>10 DEF LetGo
    <2>2. ASSUME NEW a \in In(new, {"cutting-over"}), new[a].released
          PROVE  FALSE
      <3>1. a \in DOMAIN rs /\ a # c /\ a # old /\ rs[a].state = "cutting-over" /\ rs[a].released
        BY <1>4, <1>5, <1>9, <1>10, <2>2 DEF In
      <3>2. a \in In(rs, {"cutting-over"}) /\ a \in InUse(rs)
        BY <3>1 DEF In, InUse
      <3>3. \A m \in InUse(rs) : m <= a
        BY <3>1, <3>2 DEF LetGo
      <3>4. a <= old /\ old <= a
        BY <1>2, <3>1, <3>2, <3>3
      <3>5. a \in Nat /\ old \in Nat
        BY <1>2, <3>2, InDomain DEF InUse
      <3> QED
        BY <3>1, <3>4, <3>5
    <2> QED
      BY <2>1, <2>2 DEF LetGo
  <1> QED
    BY <1>0, <1>9, <1>12, <1>13, <1>14, <1>15

LEMMA OldBucketHolds ==
    ASSUME NEW rs \in Seq(Repo), In(rs, {"active", "cutting-over"}) # {}, NEW url,
           NoThree(rs), LetGo(rs)
    PROVE  /\ NoThree(OldBucket(rs, url)) /\ LetGo(OldBucket(rs, url))
           /\ DOMAIN OldBucket(rs, url) = DOMAIN rs
           /\ InUse(OldBucket(rs, url)) = InUse(rs)
           /\ \A i \in DOMAIN rs : /\ OldBucket(rs, url)[i].url = rs[i].url
                                   /\ OldBucket(rs, url)[i].verified = rs[i].verified
           /\ \/ OldBucket(rs, url) = rs
              \/ /\ Current(rs) \in InUse(rs) /\ rs[Current(rs)].verified
                 /\ ~OldBucket(rs, url)[Current(rs)].released
  <1>1. PICK c, old, new : c = Current(rs) /\ old = PreviousTo(rs, c) /\ new = OldBucket(rs, url)
    OBVIOUS
  <1>2. CASE new = rs
    BY <1>1, <1>2
  <1>3. CASE new # rs
    <2>1. PICK r : r = [rs[old] EXCEPT !.released = TRUE]
      OBVIOUS
    <2>2. /\ CuttingOver(rs) /\ rs[c].verified /\ old # 0
          /\ new = [rs EXCEPT ![old] = r]
      BY <1>1, <1>3, <2>1 DEF OldBucket
    <2>3. /\ old \in InUse(rs) \ {c} /\ \A m \in InUse(rs) \ {c} : m <= old
          /\ old \in DOMAIN rs /\ rs[old] \in Repo
          /\ rs[old].state \in {"active", "cutting-over"}
      BY <1>1, <2>2, PreviousIsLast DEF InUse, In
    <2>4. /\ r \in Repo /\ r.url = rs[old].url /\ r.state = rs[old].state
          /\ r.verified = rs[old].verified
      BY <2>1, <2>3 DEF Repo
    <2>5. /\ DOMAIN new = DOMAIN rs
          /\ \A j \in DOMAIN rs : new[j] = IF j = old THEN r ELSE rs[j]
      BY <2>2, <2>3, <2>4, RowReplaced
    <2>6. \A states : In(new, states) = In(rs, states)
      BY <2>4, <2>5 DEF In
    <2>7. /\ c \in In(rs, {"cutting-over"}) /\ \A b \in In(rs, {"cutting-over"}) : c <= b
          /\ c \in DOMAIN rs
      BY <1>1, <2>2, CurrentIsFirst, CurrentIsThere
    <2>8. ~new[c].released
      BY <1>1, <2>2, <2>3, <2>5, <2>7, CurrentIsHeld
    <2>9. LetGo(new)
      <3>1. \A i \in DOMAIN new : new[i].released => new[i].state # "offered"
        BY <2>3, <2>4, <2>5 DEF LetGo
      <3>2. ASSUME NEW a \in In(new, {"cutting-over"}), new[a].released
            PROVE  /\ \E b \in In(new, {"cutting-over"}) : b < a
                   /\ \A m \in InUse(new) : m <= a
        <4>1. CASE a = old
          <5>1. c \in Nat /\ old \in Nat /\ c <= old /\ c # old
            BY <2>3, <2>6, <2>7, <3>2, <4>1, InDomain
          <5>2. \A m \in InUse(rs) : m <= old
            BY <2>3, <5>1
          <5> QED
            BY <2>6, <2>7, <4>1, <5>1, <5>2 DEF InUse
        <4>2. CASE a # old
          <5>1. a \in In(rs, {"cutting-over"}) /\ rs[a].released
            BY <2>5, <2>6, <3>2, <4>2 DEF In
          <5> QED
            BY <2>6, <5>1 DEF LetGo, InUse
        <4> QED
          BY <4>1, <4>2
      <3> QED
        BY <3>1, <3>2 DEF LetGo
    <2>10. NoThree(new) /\ InUse(new) = InUse(rs)
      BY <2>6 DEF NoThree, Waiting, InUse
    <2>11. c \in InUse(rs)
      BY <2>7 DEF InUse, In
    <2> QED
      BY <1>1, <2>2, <2>4, <2>5, <2>8, <2>9, <2>10, <2>11
  <1> QED
    BY <1>2, <1>3

LEMMA OfferHolds ==
    ASSUME NEW rs \in Seq(Repo), NEW b \in Bucket, NoThree(rs), LetGo(rs),
           Cardinality(Waiting(rs)) < 2
    PROVE  /\ NoThree(WithOffer(rs, b)) /\ LetGo(WithOffer(rs, b))
           /\ DOMAIN WithOffer(rs, b) = DOMAIN rs \cup {Len(rs) + 1}
           /\ InUse(WithOffer(rs, b)) = InUse(rs)
           /\ \A i \in DOMAIN rs : WithOffer(rs, b)[i] = rs[i]
           /\ ~WithOffer(rs, b)[Len(rs) + 1].verified
  <1>1. PICK new, r : new = WithOffer(rs, b) /\ r = NewRow(b, "offered")
    OBVIOUS
  <1>2. r \in Repo /\ r.state = "offered" /\ ~r.verified /\ ~r.released
    <2>1. (b \in Adopted) \in BOOLEAN
      OBVIOUS
    <2> QED
      BY <1>1, <2>1 DEF NewRow, Repo, State
  <1>3. new = Append(rs, r)
    BY <1>1 DEF WithOffer
  <1>4. /\ Len(rs) \in Nat /\ DOMAIN new = DOMAIN rs \cup {Len(rs) + 1}
        /\ \A i \in DOMAIN rs : new[i] = rs[i]
        /\ new[Len(rs) + 1] = r
    <2>1. /\ new \in Seq(Repo) /\ Len(new) = Len(rs) + 1 /\ Len(rs) \in Nat
          /\ \A i \in 1..Len(rs) : new[i] = rs[i]
          /\ new[Len(rs) + 1] = r
      BY <1>2, <1>3, AppendProperties
    <2>2. DOMAIN new = 1..(Len(rs) + 1) /\ DOMAIN rs = 1..Len(rs)
      BY <2>1
    <2> QED
      BY <2>1, <2>2
  <1>5. InUse(new) = InUse(rs) /\ In(new, {"cutting-over"}) = In(rs, {"cutting-over"})
    BY <1>2, <1>4 DEF InUse, In
  <1>6. Waiting(new) = Waiting(rs) \cup {Len(rs) + 1}
    BY <1>2, <1>4 DEF Waiting, In
  <1>7. \A x, y \in Waiting(rs) : x = y
    <2> SUFFICES ASSUME NEW x \in Waiting(rs), NEW y \in Waiting(rs), x # y PROVE FALSE
      OBVIOUS
    <2>1. IsFiniteSet(Waiting(rs))
      <3>1. Waiting(rs) \subseteq 1..Len(rs) /\ IsFiniteSet(1..Len(rs))
        BY <1>4, InDomain, FS_Interval DEF Waiting
      <3> QED
        BY <3>1, FS_Subset
    <2>2. IsFiniteSet({y}) /\ Cardinality({y}) = 1
      BY FS_Singleton
    <2>3. Cardinality({y} \cup {x}) = 2
      <3>1. x \notin {y}
        OBVIOUS
      <3>2. Cardinality({y} \cup {x}) = Cardinality({y}) + 1
        BY <2>2, <3>1, FS_AddElement
      <3>3. 1 + 1 = 2
        OBVIOUS
      <3> QED
        BY <2>2, <3>2, <3>3, ZenonT(60)
    <2>4. {y} \cup {x} \subseteq Waiting(rs)
      OBVIOUS
    <2>5. Cardinality({y} \cup {x}) <= Cardinality(Waiting(rs))
      BY <2>1, <2>4, FS_Subset
    <2>6. Cardinality(Waiting(rs)) \in Nat
      BY <2>1, FS_CardinalityType
    <2>7. 2 <= Cardinality(Waiting(rs))
      BY <2>3, <2>5, Zenon
    <2>8. \A m \in Nat : 2 <= m => ~(m < 2)
      OBVIOUS
    <2> QED
      BY <2>6, <2>7, <2>8, Zenon
  <1>8. NoThree(new)
    BY <1>6, <1>7 DEF NoThree
  <1>9. LetGo(new)
    <2>1. \A i \in DOMAIN new : new[i].released => new[i].state # "offered"
      BY <1>2, <1>4 DEF LetGo
    <2>2. ASSUME NEW a \in In(new, {"cutting-over"}), new[a].released
          PROVE  /\ \E x \in In(new, {"cutting-over"}) : x < a
                 /\ \A m \in InUse(new) : m <= a
      <3>1. a \in In(rs, {"cutting-over"}) /\ a \in DOMAIN rs
        BY <1>5, <2>2 DEF In
      <3>2. rs[a].released
        BY <1>4, <2>2, <3>1
      <3> QED
        BY <1>5, <3>1, <3>2 DEF LetGo
    <2> QED
      BY <2>1, <2>2 DEF LetGo
  <1> QED
    BY <1>1, <1>2, <1>4, <1>5, <1>8, <1>9

(***************************************************************************)
(* What is proven stays proven, unless somebody empties a bucket.          *)
(***************************************************************************)
LEMMA ProvenStays ==
    ASSUME Inv, [Next]_vars, lost' = {}
    PROVE  lost = {} /\ \A b \in Bucket : content[b] = "proven" => content'[b] = "proven"
  <1>1. content \in [Bucket -> {"absent", "empty", "unproven", "proven"}]
    BY DEF Inv, TypeOK
  <1>2. CASE UNCHANGED <<content, lost>>
    BY <1>2
  <1>3. ASSUME NEW p \in Process, Create(p) \/ Backup(p)
        PROVE  lost = {} /\ \A b \in Bucket : content[b] = "proven" => content'[b] = "proven"
    BY <1>1, <1>3 DEF Create, Backup, Found
  <1>4. ASSUME NEW p \in Process, NEW good \in BOOLEAN, Verify(p, good)
        PROVE  lost = {} /\ \A b \in Bucket : content[b] = "proven" => content'[b] = "proven"
    <2>1. content' = [content EXCEPT ![run[p].url] = IF good THEN "proven" ELSE @]
      BY <1>4 DEF Verify
    <2>2. ASSUME NEW b \in Bucket, content[b] = "proven" PROVE content'[b] = "proven"
      BY <1>1, <2>1, <2>2
    <2> QED
      BY <1>4, <2>2 DEF Verify
  <1>5. ASSUME NEW b \in Bucket, Empty(b) PROVE FALSE
    BY <1>5 DEF Empty
  <1>6. CASE World
    BY <1>2, <1>5, <1>6 DEF World, Retire, Offer
  <1>7. CASE Page \/ Card \/ Flusher \/ UNCHANGED vars
    BY <1>2, <1>7 DEF Page, PollState, RequestRotation, Accept, Card, PrintCard, CardPrinted,
                      ConfirmCardPrinted, Flusher, Flush, vars
  <1>8. ASSUME NEW p \in Process, RunStep(p)
        PROVE  lost = {} /\ \A b \in Bucket : content[b] = "proven" => content'[b] = "proven"
    <2>1. CASE Fetch(p) \/ Open(p) \/ ReadBack(p) \/ GiveUp(p)
      BY <1>2, <2>1 DEF Fetch, Open, ReadBack, GiveUp
    <2>2. ASSUME NEW good \in BOOLEAN, ReleaseOldBucket(p, good) PROVE UNCHANGED <<content, lost>>
      BY <2>2 DEF ReleaseOldBucket
    <2>3. ASSUME NEW got \in BOOLEAN, NEW acknowledged \in BOOLEAN, Report(p, got, acknowledged)
          PROVE  UNCHANGED <<content, lost>>
      BY <2>3 DEF Report
    <2> QED
      BY <1>2, <1>3, <1>4, <1>8, <2>1, <2>2, <2>3 DEF RunStep
  <1> QED
    BY <1>6, <1>7, <1>8 DEF Next

(* A report says "verified" of what was: it is written when it is true.    *)
LEMMA ReportsStayTrue ==
    ASSUME Inv, ProtectedInv, [Next]_vars, lost' = {}
    PROVE  /\ \A e \in outbox' : e.verified => content'[e.url] = "proven"
           /\ \A q \in Process : run'[q].step = "report" /\ run'[q].verified
                => content'[run'[q].url] = "proven"
  <1>1. /\ lost = {} /\ \A b \in Bucket : content[b] = "proven" => content'[b] = "proven"
        /\ \A e \in outbox : e.verified => content[e.url] = "proven"
        /\ \A q \in Process : run[q].step = "report" /\ run[q].verified
             => content[run[q].url] = "proven"
    BY ProvenStays DEF ProtectedInv, Truthful, Proven, At
  <1>2. /\ run \in [Process -> Run] /\ outbox \subseteq Event
        /\ content \in [Bucket -> {"absent", "empty", "unproven", "proven"}]
    BY DEF Inv, TypeOK
  <1>3. \A q \in Process : run[q].url \in Bucket
    BY <1>2 DEF Run
  <1>4. \A e \in outbox : e.url \in Bucket
    BY <1>2 DEF Event
  <1>5. ASSUME outbox' \subseteq outbox,
               \A q \in Process : run'[q] = run[q] \/ run'[q].step # "report"
        PROVE  /\ \A e \in outbox' : e.verified => content'[e.url] = "proven"
               /\ \A q \in Process : run'[q].step = "report" /\ run'[q].verified
                    => content'[run'[q].url] = "proven"
    BY <1>1, <1>3, <1>4, <1>5
  <1>6. CASE World \/ Page \/ Card \/ UNCHANGED vars
    <2>1. UNCHANGED <<outbox, run>>
      BY <1>6 DEF World, Retire, Offer, Empty, Page, PollState, RequestRotation, Accept, Card,
                  PrintCard, CardPrinted, ConfirmCardPrinted, vars
    <2> QED
      BY <1>5, <2>1
  <1>7. CASE Flusher
    <2>1. outbox' \subseteq outbox /\ UNCHANGED run
      BY <1>7 DEF Flusher, Flush, Send
    <2> QED
      BY <1>5, <2>1
  <1>8. ASSUME NEW p \in Process, RunStep(p), \A good \in BOOLEAN : ~Verify(p, good)
        PROVE  outbox' \subseteq outbox /\ \A q \in Process : run'[q] = run[q] \/ run'[q].step # "report"
    <2>1. ASSUME NEW step \in Step \ {"report"}, Goes(p, step)
          PROVE  \A q \in Process : run'[q] = run[q] \/ run'[q].step # "report"
      BY <1>2, <2>1 DEF Goes, Run
    <2>2. ASSUME Ends(p) PROVE \A q \in Process : run'[q] = run[q] \/ run'[q].step # "report"
      BY <1>2, <2>2 DEF Ends, NoRun
    <2>3. CASE Fetch(p)
      <3> DEFINE c == rows[Current(rows)]
                 r == [step |-> IF ExpectEmpty(c) THEN "open" ELSE "backup", url |-> c.url,
                       state |-> c.state, permitted |-> ExpectEmpty(c), verified |-> FALSE,
                       heard |-> c.snapshot]
      <3>1. run' = [run EXCEPT ![p] = r] /\ r.step # "report"
        BY <2>3 DEF Fetch
      <3> HIDE DEF r
      <3>2. \A q \in Process : run'[q] = run[q] \/ run'[q].step # "report"
        BY <1>2, <3>1
      <3> QED
        BY <2>3, <3>2 DEF Fetch
    <2>4. CASE Open(p) \/ Create(p) \/ ReadBack(p) \/ Backup(p)
      <3>1. PICK step \in Step \ {"report"} : Goes(p, step)
        BY <2>4 DEF Open, Create, ReadBack, Backup, Step
      <3>2. UNCHANGED outbox
        BY <2>4 DEF Open, Create, ReadBack, Backup
      <3> QED
        BY <2>1, <3>1, <3>2
    <2>5. CASE GiveUp(p)
      BY <2>2, <2>5 DEF GiveUp
    <2>6. ASSUME NEW got \in BOOLEAN, ReleaseOldBucket(p, got)
          PROVE  UNCHANGED outbox /\ Ends(p)
      BY <2>6 DEF ReleaseOldBucket
    <2>7. ASSUME NEW got \in BOOLEAN, NEW acknowledged \in BOOLEAN, Report(p, got, acknowledged)
          PROVE  outbox' \subseteq outbox /\ (Goes(p, "release") \/ Ends(p))
      BY <2>7 DEF Report, Send
    <2>8. "release" \in Step \ {"report"}
      BY DEF Step
    <2> QED
      BY <1>8, <2>1, <2>2, <2>3, <2>4, <2>5, <2>6, <2>7, <2>8 DEF RunStep
  <1>9. ASSUME NEW p \in Process, NEW good \in BOOLEAN, Verify(p, good)
        PROVE  /\ \A e \in outbox' : e.verified => content'[e.url] = "proven"
               /\ \A q \in Process : run'[q].step = "report" /\ run'[q].verified
                    => content'[run'[q].url] = "proven"
    <2>1. /\ run' = [run EXCEPT ![p].step = "report", ![p].verified = good]
          /\ outbox' = outbox \cup {[url |-> run[p].url, verified |-> good]}
          /\ content' = [content EXCEPT ![run[p].url] = IF good THEN "proven" ELSE @]
      BY <1>9 DEF Verify
    <2>2. good => content'[run[p].url] = "proven"
      BY <1>2, <1>3, <2>1
    <2>3. ASSUME NEW e \in outbox', e.verified PROVE content'[e.url] = "proven"
      BY <1>1, <1>4, <2>1, <2>2, <2>3
    <2>4. run[p] \in Run
      BY <1>2
    <2>5. run'[p].url = run[p].url /\ run'[p].verified = good
      BY <1>2, <2>1, <2>4 DEF Run
    <2>6. ASSUME NEW q \in Process, run'[q].step = "report", run'[q].verified
          PROVE  content'[run'[q].url] = "proven"
      <3>1. CASE q = p
        BY <2>2, <2>5, <2>6, <3>1
      <3>2. CASE q # p
        <4>1. run'[q] = run[q]
          BY <1>2, <2>1, <3>2
        <4> QED
          BY <1>1, <1>3, <2>6, <4>1
      <3> QED
        BY <3>1, <3>2
    <2> QED
      BY <2>3, <2>6
  <1> QED
    BY <1>5, <1>6, <1>7, <1>8, <1>9 DEF Next, RunStep

(* The rest of the argument is about the rows.                             *)
LEMMA RowsSuffice ==
    ASSUME Inv, ProtectedInv, [Next]_vars, NoThree(rows'), LetGo(rows'),
           lost' = {} =>
             /\ \A i \in DOMAIN rows' : rows'[i].verified => content'[rows'[i].url] = "proven"
             /\ \E i \in InUse(rows') : ~rows'[i].released /\ content'[rows'[i].url] = "proven"
    PROVE  ProtectedInv'
  <1>1. lost' = {} => Truthful'
    BY ReportsStayTrue DEF Truthful, Proven, At
  <1>2. lost' = {} => Kept'
    BY DEF Kept, Proven, InUse, In
  <1>3. NoThree(rows)' /\ LetGo(rows)'
    BY DEF NoThree, LetGo, Waiting, InUse, In
  <1> QED
    BY <1>1, <1>2, <1>3 DEF ProtectedInv

\* The kept bucket is still in use, and whatever is marked as verified was.
LEMMA RowsGoOn ==
    ASSUME Inv, ProtectedInv, [Next]_vars, NoThree(rows'), LetGo(rows'),
           DOMAIN rows' = DOMAIN rows,
           \A i \in DOMAIN rows : /\ rows'[i].url = rows[i].url
                                  /\ rows'[i].released = rows[i].released,
           \A i \in InUse(rows) : ~rows[i].released => i \in InUse(rows'),
           lost' = {} =>
             \A i \in DOMAIN rows : rows'[i].verified => rows[i].verified \/ Proven(rows[i].url)
    PROVE  ProtectedInv'
  <1>1. ASSUME lost' = {}
        PROVE  /\ \A i \in DOMAIN rows' : rows'[i].verified => content'[rows'[i].url] = "proven"
               /\ \E i \in InUse(rows') : ~rows'[i].released /\ content'[rows'[i].url] = "proven"
    <2>1. /\ lost = {} /\ \A b \in Bucket : content[b] = "proven" => content'[b] = "proven"
          /\ Truthful /\ Kept
      BY <1>1, ProvenStays DEF ProtectedInv
    <2>2. \A i \in DOMAIN rows : rows[i].url \in Bucket
      <3>1. rows \in Seq(Repo)
        BY DEF Inv, TypeOK
      <3>2. \A i \in DOMAIN rows : rows[i] \in Repo
        BY <3>1
      <3> QED
        BY <3>2 DEF Repo
    <2>3. ASSUME NEW i \in DOMAIN rows', rows'[i].verified
          PROVE  content'[rows'[i].url] = "proven"
      BY <1>1, <2>1, <2>2, <2>3 DEF Truthful, Proven
    <2>4. PICK i \in InUse(rows) : ~rows[i].released /\ content[rows[i].url] = "proven"
      BY <2>1 DEF Kept, Proven
    <2>5. i \in DOMAIN rows
      BY <2>4 DEF InUse, In
    <2>6. i \in InUse(rows') /\ ~rows'[i].released /\ content'[rows'[i].url] = "proven"
      BY <2>1, <2>2, <2>4, <2>5
    <2> QED
      BY <2>3, <2>6
  <1> QED
    BY <1>1, RowsSuffice

\* A step that leaves the rows as they are, but for cards, snapshots and verifications.
LEMMA AlikeGoesOn ==
    ASSUME Inv, ProtectedInv, [Next]_vars, Alike(rows, rows'),
           lost' = {} =>
             \A i \in DOMAIN rows : rows'[i].verified => rows[i].verified \/ Proven(rows[i].url)
    PROVE  ProtectedInv'
  <1>1. NoThree(rows') /\ LetGo(rows') /\ InUse(rows') = InUse(rows)
    BY AlikeKeeps DEF ProtectedInv
  <1> QED
    BY <1>1, RowsGoOn DEF Alike

LEMMA SameRowsHold ==
    ASSUME Inv, ProtectedInv, [Next]_vars, UNCHANGED rows
    PROVE  ProtectedInv'
  <1>1. Alike(rows, rows')
    BY DEF Alike
  <1> QED
    BY <1>1, AlikeGoesOn

LEMMA WorldHolds ==
    ASSUME Inv, ProtectedInv, World, MaxWaiting <= 2
    PROVE  ProtectedInv'
  <1>1. rows \in Seq(Repo) /\ In(rows, {"active", "cutting-over"}) # {} /\ [Next]_vars
    BY DEF Inv, RowInv, Next
  <1>2. NoThree(rows) /\ LetGo(rows)
    BY DEF ProtectedInv
  <1>3. CASE Retire
    <2>1. PICK c, old : c = Current(rows) /\ old = PreviousTo(rows, c)
      OBVIOUS
    <2>2. /\ CuttingOver(rows) /\ old # 0 /\ rows[old].released
          /\ rows' = [rows EXCEPT ![old].state = "retired", ![c].state = "active"]
      BY <1>3, <2>1 DEF Retire
    <2>3. /\ NoThree(rows') /\ LetGo(rows')
          /\ DOMAIN rows' = DOMAIN rows
          /\ InUse(rows') = InUse(rows) \ {old}
          /\ \A i \in DOMAIN rows : /\ rows'[i].url = rows[i].url
                                    /\ rows'[i].released = rows[i].released
                                    /\ rows'[i].verified = rows[i].verified
      <3>1. rows' = Retired(rows)
        BY <2>1, <2>2 DEF Retired
      <3>2. old = PreviousTo(rows, Current(rows)) /\ PreviousTo(rows, Current(rows)) # 0
        BY <2>1, <2>2
      <3>3. /\ NoThree(Retired(rows)) /\ LetGo(Retired(rows))
            /\ DOMAIN Retired(rows) = DOMAIN rows
            /\ InUse(Retired(rows)) = InUse(rows) \ {PreviousTo(rows, Current(rows))}
            /\ \A i \in DOMAIN rows : /\ Retired(rows)[i].url = rows[i].url
                                      /\ Retired(rows)[i].released = rows[i].released
                                      /\ Retired(rows)[i].verified = rows[i].verified
        BY <1>1, <1>2, <2>2, <3>2, RetireHolds
      <3> QED
        BY <3>1, <3>2, <3>3
    <2>4. \A i \in InUse(rows) : ~rows[i].released => i \in InUse(rows')
      BY <2>2, <2>3
    <2> QED
      BY <1>1, <2>3, <2>4, RowsGoOn
  <1>4. ASSUME NEW b \in Bucket, Offer(b) PROVE ProtectedInv'
    <2>1. rows' = WithOffer(rows, b)
      BY <1>4 DEF Offer, WithOffer
    <2>2. Cardinality(Waiting(rows)) < 2
      <3>1. IsFiniteSet(Waiting(rows))
        <4>1. Waiting(rows) \subseteq 1..Len(rows) /\ Len(rows) \in Nat
          BY <1>1, InDomain DEF Waiting
        <4>2. IsFiniteSet(1..Len(rows))
          BY <4>1, FS_Interval
        <4> QED
          BY <4>1, <4>2, FS_Subset
      <3>2. Cardinality(Waiting(rows)) \in Nat /\ Cardinality(Waiting(rows)) < MaxWaiting
        BY <1>4, <3>1, FS_CardinalityType DEF Offer, Waiting
      <3> QED
        <4>1. \A n \in Nat : n < MaxWaiting => n < 2
          <5>1. MaxWaiting \in Nat
            BY RotationAssumption, Zenon
          <5> QED
            BY <5>1
        <4> QED
          BY <3>2, <4>1, Zenon
    <2>3. /\ NoThree(rows') /\ LetGo(rows')
          /\ DOMAIN rows' = DOMAIN rows \cup {Len(rows) + 1}
          /\ InUse(rows') = InUse(rows)
          /\ \A i \in DOMAIN rows : rows'[i] = rows[i]
          /\ ~rows'[Len(rows) + 1].verified
      BY <1>1, <1>2, <2>1, <2>2, OfferHolds
    <2>4. UNCHANGED <<content, lost>>
      BY <1>4 DEF Offer
    <2>5. ASSUME lost' = {}
          PROVE  /\ \A i \in DOMAIN rows' : rows'[i].verified => content'[rows'[i].url] = "proven"
                 /\ \E i \in InUse(rows') : ~rows'[i].released /\ content'[rows'[i].url] = "proven"
      <3>1. Truthful /\ Kept
        BY <2>4, <2>5 DEF ProtectedInv
      <3>2. \A i \in DOMAIN rows' : rows'[i].verified => content'[rows'[i].url] = "proven"
        BY <2>3, <2>4, <3>1 DEF Truthful, Proven
      <3>3. PICK i \in InUse(rows) : ~rows[i].released /\ content[rows[i].url] = "proven"
        BY <3>1 DEF Kept, Proven
      <3>4. i \in DOMAIN rows
        BY <3>3 DEF InUse, In
      <3> QED
        BY <2>3, <2>4, <3>2, <3>3, <3>4
    <2> QED
      BY <1>1, <2>3, <2>5, RowsSuffice
  <1>5. ASSUME NEW b \in Bucket, Empty(b) PROVE ProtectedInv'
    BY <1>1, <1>5, SameRowsHold DEF Empty, server
  <1> QED
    BY <1>3, <1>4, <1>5 DEF World

LEMMA PageAndCardsHold ==
    ASSUME Inv, ProtectedInv, Page \/ Card
    PROVE  ProtectedInv'
  <1>1. rows \in Seq(Repo) /\ In(rows, {"active", "cutting-over"}) # {} /\ [Next]_vars
    BY DEF Inv, RowInv, Next
  <1>2. NoThree(rows) /\ LetGo(rows)
    BY DEF ProtectedInv
  <1>3. ASSUME NEW url, rows' = CardIssued(rows, url) PROVE ProtectedInv'
    <2>1. /\ Alike(rows, rows')
          /\ \A i \in DOMAIN rows : rows'[i].verified = rows[i].verified
      BY <1>1, <1>3, CardIssuedAlike
    <2> QED
      BY <1>1, <2>1, AlikeGoesOn
  <1>4. ASSUME NEW url, rows' = CutOver(rows, url) PROVE ProtectedInv'
    <2>1. /\ NoThree(rows') /\ LetGo(rows') /\ DOMAIN rows' = DOMAIN rows
          /\ InUse(rows) \subseteq InUse(rows')
          /\ \A i \in DOMAIN rows : /\ rows'[i].url = rows[i].url
                                    /\ rows'[i].released = rows[i].released
                                    /\ rows'[i].verified = rows[i].verified
      BY <1>1, <1>2, <1>4, CutOverHolds
    <2> QED
      BY <1>1, <2>1, RowsGoOn
  <1>5. CASE UNCHANGED rows
    BY <1>1, <1>5, SameRowsHold
  <1>6. CASE Page
    BY <1>4, <1>5, <1>6 DEF Page, PollState, RequestRotation, Accept, server
  <1>7. CASE Card
    BY <1>3, <1>5, <1>7 DEF Card, PrintCard, CardPrinted, ConfirmCardPrinted, server
  <1> QED
    BY <1>6, <1>7

LEMMA SendHolds ==
    ASSUME Inv, ProtectedInv, [Next]_vars, UNCHANGED lost, NEW e \in Event, NEW got, NEW acknowledged,
           Send(e, got, acknowledged), lost = {} /\ e.verified => Proven(e.url)
    PROVE  ProtectedInv'
  <1>1. rows \in Seq(Repo)
    BY DEF Inv, TypeOK
  <1>2. CASE rows' = NoteRun(rows, e)
    <2>1. /\ Alike(rows, rows')
          /\ \A i \in DOMAIN rows : rows'[i].verified =>
               rows[i].verified \/ (e.verified /\ rows[i].url = e.url)
      BY <1>1, <1>2, NoteRunAlike
    <2> QED
      BY <2>1, AlikeGoesOn
  <1>3. CASE UNCHANGED rows
    BY <1>3, SameRowsHold
  <1> QED
    BY <1>2, <1>3 DEF Send

LEMMA ReleaseHolds ==
    ASSUME Inv, ProtectedInv, [Next]_vars, NEW p \in Process, NEW got, ReleaseOldBucket(p, got)
    PROVE  ProtectedInv'
  <1>1. rows \in Seq(Repo) /\ In(rows, {"active", "cutting-over"}) # {}
    BY DEF Inv, RowInv
  <1>2. NoThree(rows) /\ LetGo(rows) /\ UNCHANGED <<content, lost>>
    BY DEF ProtectedInv, ReleaseOldBucket
  <1>3. CASE UNCHANGED rows
    BY <1>3, SameRowsHold
  <1>4. CASE rows' = OldBucket(rows, run[p].url) /\ rows' # rows
    <2>1. /\ NoThree(rows') /\ LetGo(rows')
          /\ DOMAIN rows' = DOMAIN rows /\ InUse(rows') = InUse(rows)
          /\ \A i \in DOMAIN rows : /\ rows'[i].url = rows[i].url
                                    /\ rows'[i].verified = rows[i].verified
          /\ Current(rows) \in InUse(rows) /\ rows[Current(rows)].verified
          /\ ~rows'[Current(rows)].released
      BY <1>1, <1>2, <1>4, OldBucketHolds
    <2>2. ASSUME lost' = {}
          PROVE  /\ \A i \in DOMAIN rows' : rows'[i].verified => content'[rows'[i].url] = "proven"
                 /\ \E i \in InUse(rows') : ~rows'[i].released /\ content'[rows'[i].url] = "proven"
      <3>1. \A i \in DOMAIN rows : rows[i].verified => content[rows[i].url] = "proven"
        BY <1>2, <2>2 DEF ProtectedInv, Truthful, Proven
      <3>2. PICK c : c = Current(rows)
        OBVIOUS
      <3>3. c \in DOMAIN rows /\ c \in InUse(rows') /\ ~rows'[c].released
        BY <2>1, <3>2 DEF InUse, In
      <3>4. content'[rows'[c].url] = "proven"
        BY <1>2, <2>1, <3>1, <3>2, <3>3
      <3> QED
        BY <1>2, <2>1, <3>1, <3>3, <3>4
    <2> QED
      BY <2>1, <2>2, RowsSuffice
  <1> QED
    BY <1>3, <1>4 DEF ReleaseOldBucket

LEMMA RunsHold ==
    ASSUME Inv, ProtectedInv, NEW p \in Process, RunStep(p)
    PROVE  ProtectedInv'
  <1>1. [Next]_vars
    BY DEF Next
  <1>2. CASE Fetch(p) \/ Open(p) \/ Create(p) \/ ReadBack(p) \/ Backup(p) \/ GiveUp(p)
    <2>1. UNCHANGED rows
      BY <1>2 DEF Fetch, Open, Create, ReadBack, Backup, GiveUp, server
    <2> QED
      BY <1>1, <2>1, SameRowsHold
  <1>3. ASSUME NEW good \in BOOLEAN, Verify(p, good) PROVE ProtectedInv'
    <2>1. UNCHANGED rows
      BY <1>3 DEF Verify, server
    <2> QED
      BY <1>1, <2>1, SameRowsHold
  <1>4. ASSUME NEW got \in BOOLEAN, ReleaseOldBucket(p, got) PROVE ProtectedInv'
    BY <1>1, <1>4, ReleaseHolds
  <1>5. ASSUME NEW got \in BOOLEAN, NEW acknowledged \in BOOLEAN, Report(p, got, acknowledged)
        PROVE  ProtectedInv'
    <2>1. run[p] \in Run
      BY DEF Inv, TypeOK
    <2>2. PICK e : e = [url |-> run[p].url, verified |-> run[p].verified]
      OBVIOUS
    <2>3. e \in Event
      BY <2>1, <2>2 DEF Run, Event
    <2>4. lost = {} /\ e.verified => Proven(e.url)
      BY <1>5, <2>2 DEF ProtectedInv, Truthful, Report
    <2>5. Send(e, got, acknowledged) /\ UNCHANGED lost
      BY <1>5, <2>2 DEF Report
    <2> QED
      BY <1>1, <2>3, <2>4, <2>5, SendHolds
  <1> QED
    BY <1>2, <1>3, <1>4, <1>5 DEF RunStep

LEMMA FlusherHolds ==
    ASSUME Inv, ProtectedInv, Flusher
    PROVE  ProtectedInv'
  <1>1. [Next]_vars
    BY DEF Next
  <1>2. PICK e \in outbox, acknowledged \in BOOLEAN : Flush(e, acknowledged)
    BY DEF Flusher
  <1>3. e \in Event
    BY DEF Inv, TypeOK
  <1>4. lost = {} /\ e.verified => Proven(e.url)
    BY DEF ProtectedInv, Truthful
  <1>5. Send(e, TRUE, acknowledged) /\ UNCHANGED lost
    BY <1>2 DEF Flush
  <1> QED
    BY <1>1, <1>3, <1>4, <1>5, SendHolds

LEMMA ProtectedInit == Init => ProtectedInv
  <1> SUFFICES ASSUME Init PROVE ProtectedInv
    OBVIOUS
  <1>1. PICK r : r = NewRow(Home, "active")
    OBVIOUS
  <1>2. r.state = "active" /\ r.url = Home /\ ~r.verified /\ ~r.released
    BY <1>1 DEF NewRow
  <1>3. DOMAIN rows = {1} /\ rows[1] = r
    BY <1>1 DEF Init
  <1>4. In(rows, {"cutting-over"}) = {} /\ Waiting(rows) = {} /\ InUse(rows) = {1}
    BY <1>2, <1>3 DEF In, Waiting, InUse
  <1>5. NoThree(rows) /\ LetGo(rows)
    BY <1>2, <1>3, <1>4 DEF NoThree, LetGo
  <1>6. Truthful
    BY <1>2, <1>3 DEF Init, Truthful, At, NoRun
  <1>7. content[Home] = "proven"
    BY RotationAssumption DEF Init
  <1>8. Kept
    BY <1>2, <1>3, <1>4, <1>7 DEF Kept, Proven
  <1> QED
    BY <1>5, <1>6, <1>8 DEF ProtectedInv

LEMMA ProtectedNext ==
    ASSUME MaxWaiting <= 2
    PROVE  Inv /\ ProtectedInv /\ [Next]_vars => ProtectedInv'
  <1> SUFFICES ASSUME Inv, ProtectedInv, [Next]_vars PROVE ProtectedInv'
    OBVIOUS
  <1>1. CASE UNCHANGED vars
    BY <1>1, SameRowsHold DEF vars
  <1> QED
    BY <1>1, WorldHolds, PageAndCardsHold, FlusherHolds, RunsHold DEF Next

\* While an administrator keeps at most two buckets on offer or being moved to at a time,
\* and nobody empties one, there is always a bucket that has not been retired and holds a
\* snapshot that was read back: adminRetire lets go only of a bucket that old-bucket has
\* released, and old-bucket releases one only for a verified successor.  With three, what
\* is released can be the bucket that was verified: the assumption is needed.
THEOREM OldBucketIsKept ==
    ASSUME MaxWaiting <= 2
    PROVE  Spec => []Protected
  <1>1. Init => ProtectedInv
    BY ProtectedInit
  <1>2. Inv /\ ProtectedInv /\ [Next]_vars => ProtectedInv'
    BY ProtectedNext
  <1>3. ProtectedInv => Protected
    BY DEF ProtectedInv, Kept, Proven, InUse, In, Protected, State
  <1> QED
    BY <1>1, <1>2, <1>3, InvAlways, PTL DEF Spec

(***************************************************************************)
(* One bucket on offer at a time: the hand-over.                           *)
(***************************************************************************)
\* What BucketHandover sees of the rows.
Writes(rs) == rs[Current(rs)].url
InState(rs, states) == {rs[i].url : i \in In(rs, states)}
NotRetired == State \ {"retired"}
Verified(rs) == {rs[i].url : i \in {j \in DOMAIN rs : rs[j].verified}}
Released(rs) == {rs[i].url : i \in {j \in DOMAIN rs : rs[j].released}}

\* At most one bucket is in use and settled in, and at most one comes after it; what
\* was let go of is on its way out.
OneAtATime(rs) ==
    /\ \A i, j \in DOMAIN rs : rs[i].url = rs[j].url => i = j
    /\ \A a, b \in Waiting(rs) : a = b
    /\ \A a, b \in In(rs, {"active"}) : a = b
    /\ \A i \in DOMAIN rs : rs[i].released =>
          \/ rs[i].state = "retired"
          \/ rs[i].state = "active" /\ CuttingOver(rs) /\ rs[Current(rs)].verified

LEMMA AlikeLooksAlike ==
    ASSUME NEW rs, NEW new, Alike(rs, new)
    PROVE  /\ \A states : In(new, states) = In(rs, states)
           /\ \A states : InState(new, states) = InState(rs, states)
           /\ Current(new) = Current(rs)
           /\ Released(new) = Released(rs)
  <1>1. \A states : In(new, states) = In(rs, states)
    BY DEF Alike, In
  <1>2. \A states : InState(new, states) = InState(rs, states)
    BY <1>1 DEF Alike, InState, In
  <1>3. Current(new) = Current(rs)
    BY <1>1 DEF Current
  <1>4. Released(new) = Released(rs)
    BY DEF Alike, Released
  <1> QED
    BY <1>1, <1>2, <1>3, <1>4

\* Marks of the server leave it at that.
LEMMA AlikeOneAtATime ==
    ASSUME NEW rs \in Seq(Repo), In(rs, {"active", "cutting-over"}) # {}, NEW new,
           Alike(rs, new), OneAtATime(rs),
           \A i \in DOMAIN rs : rs[i].verified => new[i].verified
    PROVE  /\ OneAtATime(new)
           /\ Writes(new) = Writes(rs) /\ CuttingOver(new) = CuttingOver(rs)
  <1>1. Current(rs) \in DOMAIN rs
    BY CurrentIsThere
  <1>2. /\ \A states : In(new, states) = In(rs, states)
        /\ Current(new) = Current(rs)
    BY AlikeLooksAlike
  <1>3. Writes(new) = Writes(rs) /\ CuttingOver(new) = CuttingOver(rs)
    BY <1>1, <1>2 DEF Alike, Writes, CuttingOver
  <1>4. /\ \A i, j \in DOMAIN new : new[i].url = new[j].url => i = j
        /\ \A a, b \in Waiting(new) : a = b
        /\ \A a, b \in In(new, {"active"}) : a = b
    BY <1>2 DEF Alike, OneAtATime, Waiting
  <1>5. ASSUME NEW i \in DOMAIN new, new[i].released
        PROVE  \/ new[i].state = "retired"
               \/ new[i].state = "active" /\ CuttingOver(new) /\ new[Current(new)].verified
    BY <1>1, <1>2, <1>3, <1>5 DEF Alike, OneAtATime
  <1> QED
    BY <1>3, <1>4, <1>5 DEF OneAtATime

\* During a move: the bucket moved to, the one moved off, and no other.
LEMMA MovingIsBetweenTwo ==
    ASSUME NEW rs \in Seq(Repo), In(rs, {"active", "cutting-over"}) # {}, OneAtATime(rs),
           CuttingOver(rs), NEW c, c = Current(rs), NEW old, old = PreviousTo(rs, c), old # 0
    PROVE  /\ c \in DOMAIN rs /\ old \in DOMAIN rs /\ c # old
           /\ rs[c].state = "cutting-over" /\ rs[old].state = "active"
           /\ \A i \in DOMAIN rs : rs[i].state # "retired" => i = c \/ i = old
           /\ InState(rs, NotRetired) = {rs[c].url, rs[old].url}
           /\ rs[c].url # rs[old].url
  <1>1. c \in DOMAIN rs /\ rs[c].state = "cutting-over"
    BY CurrentIsThere DEF CuttingOver
  <1>2. /\ old \in DOMAIN rs /\ rs[old].state \in {"active", "cutting-over"} /\ old # c
    BY PreviousIsThere
  <1>3. rs[old].state = "active"
    BY <1>1, <1>2 DEF OneAtATime, Waiting, In
  <1>4. ASSUME NEW i \in DOMAIN rs, rs[i].state # "retired"
        PROVE  i = c \/ i = old
    <2>1. rs[i] \in Repo
      OBVIOUS
    <2>2. rs[i].state \in {"active", "offered", "cutting-over"}
      BY <1>4, <2>1 DEF Repo, State
    <2> QED
      BY <1>1, <1>2, <1>3, <2>2 DEF OneAtATime, Waiting, In
  <1>5. In(rs, NotRetired) = {c, old}
    BY <1>1, <1>2, <1>3, <1>4 DEF In, NotRetired, State
  <1>6. InState(rs, NotRetired) = {rs[c].url, rs[old].url}
    BY <1>5 DEF InState
  <1>7. rs[c].url # rs[old].url
    BY <1>1, <1>2 DEF OneAtATime
  <1> QED
    BY <1>1, <1>2, <1>3, <1>4, <1>6, <1>7

\* Between two moves there is the bucket in use, and perhaps one on offer.
LEMMA SettledIn ==
    ASSUME NEW rs \in Seq(Repo), In(rs, {"active", "cutting-over"}) # {}, OneAtATime(rs),
           ~CuttingOver(rs), NEW c, c = Current(rs)
    PROVE  /\ c \in DOMAIN rs /\ rs[c].state = "active"
           /\ \A i \in DOMAIN rs : rs[i].state \notin {"retired", "offered"} => i = c
           /\ \A i \in DOMAIN rs : rs[i].released => rs[i].state = "retired"
  <1>1. c \in DOMAIN rs /\ rs[c].state = "active" /\ In(rs, {"cutting-over"}) = {}
    BY CurrentIsThere DEF CuttingOver
  <1>2. ASSUME NEW i \in DOMAIN rs, rs[i].state \notin {"retired", "offered"}
        PROVE  i = c
    <2>1. rs[i] \in Repo
      OBVIOUS
    <2>2. rs[i].state = "active"
      BY <1>1, <1>2, <2>1 DEF Repo, State, In
    <2> QED
      BY <1>1, <2>2 DEF OneAtATime, In
  <1> QED
    BY <1>1, <1>2 DEF OneAtATime

\* What each operation of the server is to the hand-over.
LEMMA OfferIsOffer ==
    ASSUME NEW rs \in Seq(Repo), In(rs, {"active", "cutting-over"}) # {}, OneAtATime(rs),
           Waiting(rs) = {}, NEW b \in Bucket, Find(rs, b) = {}
    PROVE  LET new == WithOffer(rs, b) IN
           /\ OneAtATime(new)
           /\ Writes(new) = Writes(rs) /\ CuttingOver(new) = CuttingOver(rs)
           /\ b \notin InState(rs, NotRetired) \cup InState(rs, {"retired"})
           /\ InState(new, NotRetired) = InState(rs, NotRetired) \cup {b}
           /\ InState(new, {"retired"}) = InState(rs, {"retired"})
           /\ Verified(new) = Verified(rs) /\ Released(new) = Released(rs)
  <1>1. PICK new, r : new = WithOffer(rs, b) /\ r = NewRow(b, "offered")
    OBVIOUS
  <1>2. r \in Repo /\ r.url = b /\ r.state = "offered" /\ ~r.verified /\ ~r.released
    <2>1. (b \in Adopted) \in BOOLEAN
      OBVIOUS
    <2> QED
      BY <1>1, <2>1 DEF NewRow, Repo, State
  <1>3. PICK n : n = Len(rs) + 1
    OBVIOUS
  <1>4. /\ n \notin DOMAIN rs /\ DOMAIN new = DOMAIN rs \cup {n}
        /\ \A i \in DOMAIN rs : new[i] = rs[i]
        /\ new[n] = r
    <2>1. /\ new \in Seq(Repo) /\ Len(new) = Len(rs) + 1 /\ Len(rs) \in Nat
          /\ \A i \in 1..Len(rs) : new[i] = rs[i]
          /\ new[Len(rs) + 1] = r
      BY <1>1, <1>2, AppendProperties DEF WithOffer
    <2>2. DOMAIN new = 1..(Len(rs) + 1) /\ DOMAIN rs = 1..Len(rs)
      BY <2>1
    <2> QED
      BY <1>3, <2>1, <2>2
  <1>5. \A states : "offered" \notin states => In(new, states) = In(rs, states)
    BY <1>2, <1>4 DEF In
  <1>6. In(new, NotRetired) = In(rs, NotRetired) \cup {n} /\ Waiting(new) = {n}
    BY <1>2, <1>4 DEF In, NotRetired, State, Waiting
  <1>7. /\ In(new, {"cutting-over"}) = In(rs, {"cutting-over"})
        /\ In(new, {"active"}) = In(rs, {"active"})
        /\ In(new, {"retired"}) = In(rs, {"retired"})
    BY <1>5
  <1>8. Current(new) = Current(rs) /\ Current(rs) \in DOMAIN rs
    BY <1>7, CurrentIsThere DEF Current
  <1>9. Writes(new) = Writes(rs) /\ CuttingOver(new) = CuttingOver(rs)
    BY <1>4, <1>8 DEF Writes, CuttingOver
  <1>10. \A i \in DOMAIN rs : rs[i].url # b
    BY DEF Find
  <1>11. InState(new, NotRetired) = InState(rs, NotRetired) \cup {b}
    BY <1>2, <1>4, <1>6 DEF InState, In
  <1>12. InState(new, {"retired"}) = InState(rs, {"retired"})
    BY <1>4, <1>7 DEF InState, In
  <1>13. Verified(new) = Verified(rs) /\ Released(new) = Released(rs)
    BY <1>2, <1>4 DEF Verified, Released
  <1>14. b \notin InState(rs, NotRetired) \cup InState(rs, {"retired"})
    BY <1>10 DEF InState, In
  <1>15. OneAtATime(new)
    <2>1. \A x, y \in DOMAIN new : new[x].url = new[y].url => x = y
      BY <1>2, <1>4, <1>10 DEF OneAtATime
    <2>2. ASSUME NEW x \in DOMAIN new, new[x].released
          PROVE  \/ new[x].state = "retired"
                 \/ new[x].state = "active" /\ CuttingOver(new) /\ new[Current(new)].verified
      BY <1>2, <1>4, <1>8, <1>9, <2>2 DEF OneAtATime
    <2> QED
      BY <1>6, <1>7, <2>1, <2>2 DEF OneAtATime
  <1> QED
    BY <1>1, <1>9, <1>11, <1>12, <1>13, <1>14, <1>15

LEMMA CutOverIsAccept ==
    ASSUME NEW rs \in Seq(Repo), In(rs, {"active", "cutting-over"}) # {}, OneAtATime(rs),
           NEW url, CutOver(rs, url) # rs
    PROVE  LET new == CutOver(rs, url) IN
           /\ OneAtATime(new)
           /\ ~CuttingOver(rs) /\ CuttingOver(new)
           /\ InState(rs, NotRetired) = {Writes(rs), url} /\ url # Writes(rs)
           /\ Writes(new) = url
           /\ InState(new, NotRetired) = InState(rs, NotRetired)
           /\ InState(new, {"retired"}) = InState(rs, {"retired"})
           /\ Verified(new) = Verified(rs) /\ Released(new) = Released(rs)
  <1>1. PICK c, o, new, r : /\ c = Current(rs) /\ o = Offered(rs) /\ new = CutOver(rs, url)
                            /\ r = [rs[o] EXCEPT !.state = "cutting-over"]
    OBVIOUS
  <1>2. o # 0 /\ rs[o].url = url /\ new = [rs EXCEPT ![o] = r]
    BY <1>1 DEF CutOver
  <1>3. o \in DOMAIN rs /\ rs[o] \in Repo /\ rs[o].state = "offered"
    BY <1>1, <1>2, OfferedIsThere
  <1>4. /\ r \in Repo /\ r.url = rs[o].url /\ r.state = "cutting-over"
        /\ r.released = rs[o].released /\ r.verified = rs[o].verified
    BY <1>1, <1>3 DEF Repo, State
  <1>5. /\ DOMAIN new = DOMAIN rs
        /\ \A j \in DOMAIN rs : new[j] = IF j = o THEN r ELSE rs[j]
    BY <1>2, <1>3, <1>4, RowReplaced
  <1>6. ~CuttingOver(rs)
    <2>1. CuttingOver(rs) => c \in DOMAIN rs /\ rs[c].state = "cutting-over"
      BY <1>1, CurrentIsThere DEF CuttingOver
    <2> QED
      BY <1>3, <2>1 DEF OneAtATime, Waiting, In
  <1>7. /\ c \in DOMAIN rs /\ rs[c].state = "active" /\ c # o
        /\ \A i \in DOMAIN rs : rs[i].state \notin {"retired", "offered"} => i = c
        /\ \A i \in DOMAIN rs : rs[i].released => rs[i].state = "retired"
    BY <1>1, <1>3, <1>6, SettledIn
  <1>8. \A i \in DOMAIN rs : rs[i].state = "offered" => i = o
    BY <1>3 DEF OneAtATime, Waiting, In
  <1>9. In(rs, NotRetired) = {c, o} /\ In(new, NotRetired) = {c, o}
    BY <1>3, <1>4, <1>5, <1>7, <1>8 DEF In, NotRetired, State
  <1>10. In(new, {"cutting-over"}) = {o} /\ In(new, {"retired"}) = In(rs, {"retired"})
         /\ In(new, {"active"}) \subseteq In(rs, {"active"}) /\ Waiting(new) = {o}
    BY <1>3, <1>4, <1>5, <1>7, <1>8 DEF In, Waiting
  <1>11. Current(new) = o
    <2>1. o \in Nat
      BY <1>3
    <2> QED
      BY <1>10, <2>1, MinIsIn DEF Current
  <1>12. CuttingOver(new) /\ Writes(new) = url
    BY <1>2, <1>3, <1>4, <1>5, <1>11 DEF CuttingOver, Writes
  <1>13. Writes(rs) = rs[c].url /\ url # Writes(rs)
    BY <1>1, <1>2, <1>3, <1>7 DEF Writes, OneAtATime
  <1>14. InState(rs, NotRetired) = {Writes(rs), url}
    BY <1>2, <1>9, <1>13 DEF InState
  <1>15. /\ InState(new, NotRetired) = InState(rs, NotRetired)
         /\ InState(new, {"retired"}) = InState(rs, {"retired"})
    BY <1>3, <1>4, <1>5, <1>7, <1>9, <1>10 DEF InState, In
  <1>16. Verified(new) = Verified(rs) /\ Released(new) = Released(rs)
    BY <1>3, <1>4, <1>5 DEF Verified, Released
  <1>17. OneAtATime(new)
    <2>1. \A i, j \in DOMAIN new : new[i].url = new[j].url => i = j
      BY <1>4, <1>5 DEF OneAtATime
    <2>2. ASSUME NEW i \in DOMAIN new, new[i].released PROVE new[i].state = "retired"
      BY <1>3, <1>4, <1>5, <1>7, <2>2
    <2> QED
      BY <1>10, <2>1, <2>2 DEF OneAtATime
  <1> QED
    BY <1>1, <1>6, <1>12, <1>13, <1>14, <1>15, <1>16, <1>17

LEMMA OneInUse ==
    ASSUME NEW new, NEW c \in DOMAIN new,
           \A i \in DOMAIN new : new[i].state = IF i = c THEN "active" ELSE "retired"
    PROVE  /\ In(new, NotRetired) = {c} /\ In(new, {"active", "cutting-over"}) = {c}
           /\ In(new, {"active"}) = {c} /\ In(new, {"cutting-over"}) = {} /\ Waiting(new) = {}
  <1>1. \A states : "active" \in states /\ "retired" \notin states => In(new, states) = {c}
    BY DEF In
  <1>2. In(new, {"cutting-over"}) = {} /\ Waiting(new) = {}
    BY DEF In, Waiting
  <1> QED
    BY <1>1, <1>2 DEF NotRetired, State

LEMMA SameMarks ==
    ASSUME NEW rs, NEW new, DOMAIN new = DOMAIN rs,
           \A i \in DOMAIN rs : /\ new[i].url = rs[i].url
                                /\ new[i].released = rs[i].released
                                /\ new[i].verified = rs[i].verified
    PROVE  Verified(new) = Verified(rs) /\ Released(new) = Released(rs)
  <1>1. {j \in DOMAIN new : new[j].verified} = {j \in DOMAIN rs : rs[j].verified}
    OBVIOUS
  <1>2. {j \in DOMAIN new : new[j].released} = {j \in DOMAIN rs : rs[j].released}
    OBVIOUS
  <1>3. \A S \in SUBSET (DOMAIN rs) : {new[i].url : i \in S} = {rs[i].url : i \in S}
    OBVIOUS
  <1> QED
    BY <1>1, <1>2, <1>3 DEF Verified, Released

LEMMA RetireIsLetGo ==
    ASSUME NEW rs \in Seq(Repo), In(rs, {"active", "cutting-over"}) # {}, OneAtATime(rs),
           CuttingOver(rs), NEW c, c = Current(rs), NEW old, old = PreviousTo(rs, c), old # 0,
           rs[old].released,
           NEW new, new = Retired(rs)
    PROVE  /\ OneAtATime(new)
           /\ ~CuttingOver(new) /\ Writes(new) = Writes(rs)
           /\ Writes(rs) \in Verified(rs) /\ rs[old].url \in Released(rs)
           /\ rs[old].url # Writes(rs) /\ InState(rs, NotRetired) = {Writes(rs), rs[old].url}
           /\ InState(new, NotRetired) = {Writes(rs)}
           /\ InState(new, {"retired"}) = InState(rs, {"retired"}) \cup {rs[old].url}
           /\ Verified(new) = Verified(rs) /\ Released(new) = Released(rs)
  <1>1. /\ c \in DOMAIN rs /\ old \in DOMAIN rs /\ c # old
        /\ rs[c].state = "cutting-over" /\ rs[old].state = "active"
        /\ \A i \in DOMAIN rs : rs[i].state # "retired" => i = c \/ i = old
        /\ InState(rs, NotRetired) = {rs[c].url, rs[old].url}
        /\ rs[c].url # rs[old].url
    BY MovingIsBetweenTwo
  <1>2. PICK ro, rc, mid : /\ ro = [rs[old] EXCEPT !.state = "retired"]
                           /\ rc = [rs[c] EXCEPT !.state = "active"]
                           /\ mid = [rs EXCEPT ![old] = ro]
    OBVIOUS
  <1>3. rs[c] \in Repo /\ rs[old] \in Repo
    BY <1>1
  <1>4. /\ ro \in Repo /\ ro.state = "retired" /\ ro.url = rs[old].url
        /\ ro.released = rs[old].released /\ ro.verified = rs[old].verified
    BY <1>2, <1>3 DEF Repo, State
  <1>5. /\ rc \in Repo /\ rc.state = "active" /\ rc.url = rs[c].url
        /\ rc.released = rs[c].released /\ rc.verified = rs[c].verified
    BY <1>2, <1>3 DEF Repo, State
  <1>6. new = [mid EXCEPT ![c] = rc]
    <2>1. new = [rs EXCEPT ![old].state = "retired", ![c].state = "active"]
      BY DEF Retired
    <2> QED
      BY <1>1, <1>2, <2>1
  <1>7. /\ mid \in Seq(Repo) /\ DOMAIN mid = DOMAIN rs
        /\ \A j \in DOMAIN rs : mid[j] = IF j = old THEN ro ELSE rs[j]
    BY <1>1, <1>2, <1>4, RowReplaced
  <1>8. /\ new \in Seq(Repo) /\ DOMAIN new = DOMAIN rs
        /\ \A j \in DOMAIN rs : new[j] = IF j = c THEN rc ELSE mid[j]
    <2>1. c \in DOMAIN mid
      BY <1>1, <1>7
    <2>2. /\ [mid EXCEPT ![c] = rc] \in Seq(Repo)
          /\ DOMAIN [mid EXCEPT ![c] = rc] = DOMAIN mid
          /\ \A j \in DOMAIN mid : [mid EXCEPT ![c] = rc][j] = IF j = c THEN rc ELSE mid[j]
      BY <1>5, <1>7, <2>1, RowReplaced
    <2> QED
      BY <1>6, <1>7, <2>2
  <1>9. \A j \in DOMAIN rs : new[j] = IF j = c THEN rc ELSE IF j = old THEN ro ELSE rs[j]
    BY <1>7, <1>8
  <1>10. new[c] = rc /\ new[old] = ro
    BY <1>1, <1>9
  <1>11. \A i \in DOMAIN rs : i # c /\ i # old => new[i] = rs[i] /\ rs[i].state = "retired"
    BY <1>1, <1>9
  <1>12. /\ In(new, NotRetired) = {c} /\ In(new, {"active", "cutting-over"}) = {c}
         /\ In(new, {"active"}) = {c} /\ In(new, {"cutting-over"}) = {} /\ Waiting(new) = {}
         /\ In(new, {"retired"}) = In(rs, {"retired"}) \cup {old}
    <2>1. \A i \in DOMAIN rs : new[i].state = IF i = c THEN "active" ELSE "retired"
      BY <1>4, <1>5, <1>10, <1>11
    <2>2. /\ In(new, NotRetired) = {c} /\ In(new, {"active", "cutting-over"}) = {c}
          /\ In(new, {"active"}) = {c} /\ In(new, {"cutting-over"}) = {} /\ Waiting(new) = {}
      <3>1. c \in DOMAIN new
        BY <1>1, <1>8
      <3>2. \A i \in DOMAIN new : new[i].state = IF i = c THEN "active" ELSE "retired"
        BY <1>8, <2>1
      <3> QED
        BY <3>1, <3>2, OneInUse
    <2>3. \A i \in DOMAIN rs : i # c <=> rs[i].state = "retired" \/ i = old
      BY <1>1
    <2>4. In(new, {"retired"}) = In(rs, {"retired"}) \cup {old}
      BY <1>1, <1>8, <2>1, <2>3 DEF In
    <2> QED
      BY <2>2, <2>4
  <1>13. Current(new) = c /\ ~CuttingOver(new)
    <2>1. Current(new) \in DOMAIN new /\ (CuttingOver(new) <=> In(new, {"cutting-over"}) # {})
      BY <1>8, <1>12, CurrentIsThere
    <2>2. Current(new) \in In(new, {"active"})
      <3>1. rs \in Seq(Repo) /\ new[Current(new)].state \in {"active", "cutting-over"}
        BY <1>8, <1>12, CurrentIsThere
      <3> QED
        BY <1>12, <2>1, <3>1 DEF In
    <2> QED
      BY <1>12, <2>1, <2>2
  <1>14. Writes(rs) = rs[c].url /\ Writes(new) = rs[c].url
    BY <1>1, <1>5, <1>10, <1>13 DEF Writes
  <1>15. rs[c].verified
    BY <1>1 DEF OneAtATime
  <1>16. Writes(rs) \in Verified(rs) /\ rs[old].url \in Released(rs)
    BY <1>1, <1>14, <1>15 DEF Verified, Released
  <1>17. /\ InState(new, NotRetired) = {Writes(rs)}
         /\ InState(new, {"retired"}) = InState(rs, {"retired"}) \cup {rs[old].url}
    <2>1. InState(new, NotRetired) = {Writes(rs)}
      <3>1. new[c].url = Writes(rs)
        BY <1>5, <1>10, <1>14
      <3>2. \A i : i \in In(new, NotRetired) <=> i = c
        BY <1>12
      <3> QED
        BY <3>1, <3>2 DEF InState
    <2>2. \A i \in In(rs, {"retired"}) : new[i].url = rs[i].url
      BY <1>1, <1>11 DEF In
    <2>3. InState(new, {"retired"}) = InState(rs, {"retired"}) \cup {rs[old].url}
      <3>1. new[old].url = rs[old].url
        BY <1>4, <1>10
      <3>2. \A i : i \in In(new, {"retired"}) <=> i \in In(rs, {"retired"}) \/ i = old
        BY <1>12
      <3>3. \A x : x \in InState(new, {"retired"}) <=>
               x \in InState(rs, {"retired"}) \/ x = rs[old].url
        BY <2>2, <3>1, <3>2 DEF InState
      <3> QED
        BY <3>3
    <2> QED
      BY <2>1, <2>3
  <1>18. \A i \in DOMAIN rs : /\ new[i].url = rs[i].url
                               /\ new[i].released = rs[i].released
                               /\ new[i].verified = rs[i].verified
    BY <1>4, <1>5, <1>10, <1>11
  <1>19. Verified(new) = Verified(rs) /\ Released(new) = Released(rs)
    BY <1>8, <1>18, SameMarks
  <1>20. OneAtATime(new)
    <2>1. \A i, j \in DOMAIN new : new[i].url = new[j].url => i = j
      BY <1>8, <1>18 DEF OneAtATime
    <2>2. ASSUME NEW i \in DOMAIN new, new[i].released PROVE new[i].state = "retired"
      <3>1. ~rs[c].released
        BY <1>1 DEF OneAtATime
      <3> QED
        BY <1>4, <1>8, <1>10, <1>11, <1>18, <2>2, <3>1
    <2> QED
      BY <1>12, <2>1, <2>2 DEF OneAtATime
  <1> QED
    BY <1>1, <1>13, <1>14, <1>16, <1>17, <1>19, <1>20

LEMMA NoteRunIsProve ==
    ASSUME NEW rs \in Seq(Repo), In(rs, {"active", "cutting-over"}) # {}, OneAtATime(rs),
           NEW e \in Event
    PROVE  LET new == NoteRun(rs, e) IN
           /\ Alike(rs, new) /\ OneAtATime(new)
           /\ Writes(new) = Writes(rs) /\ CuttingOver(new) = CuttingOver(rs)
           /\ \/ Verified(new) = Verified(rs)
              \/ /\ e.url \in InState(rs, NotRetired) \cup InState(rs, {"retired"})
                 /\ Verified(new) = Verified(rs) \cup {e.url}
  <1>1. PICK new : new = NoteRun(rs, e)
    OBVIOUS
  <1>2. /\ Alike(rs, new)
        /\ \A i \in DOMAIN rs : new[i].verified =>
             rs[i].verified \/ (e.verified /\ rs[i].url = e.url)
    BY <1>1, NoteRunAlike
  <1>3. \A i \in DOMAIN rs : rs[i].verified => new[i].verified
    <2>1. PICK S, i : S = Find(rs, e.url) /\ i = Min(S)
      OBVIOUS
    <2>2. CASE S = {}
      BY <1>1, <2>1, <2>2 DEF NoteRun
    <2>3. CASE S # {}
      <3>1. S \in SUBSET Nat /\ S \in SUBSET (DOMAIN rs)
        BY <2>1 DEF Find
      <3>2. i \in DOMAIN rs
        BY <2>1, <2>3, <3>1, MinIsIn
      <3>3. PICK r : r = [rs[i] EXCEPT !.snapshot = TRUE, !.verified = @ \/ e.verified]
        OBVIOUS
      <3>4. rs[i] \in Repo /\ (rs[i].verified \/ e.verified) \in BOOLEAN
        BY <3>2
      <3>5. r \in Repo /\ r.verified = (rs[i].verified \/ e.verified)
        BY <3>3, <3>4 DEF Repo
      <3>6. new = [rs EXCEPT ![i] = r]
        BY <1>1, <2>1, <2>3, <3>3 DEF NoteRun
      <3>7. \A j \in DOMAIN rs : new[j] = IF j = i THEN r ELSE rs[j]
        BY <3>2, <3>5, <3>6, RowReplaced
      <3> QED
        BY <3>5, <3>7
    <2> QED
      BY <2>2, <2>3
  <1>4. OneAtATime(new) /\ Writes(new) = Writes(rs) /\ CuttingOver(new) = CuttingOver(rs)
    BY <1>2, <1>3, AlikeOneAtATime
  <1>5. CASE \A i \in DOMAIN rs : new[i].verified => rs[i].verified
    <2>1. Verified(new) = Verified(rs)
      BY <1>2, <1>3, <1>5 DEF Verified, Alike
    <2> QED
      BY <1>1, <1>2, <1>4, <2>1
  <1>6. CASE \E i \in DOMAIN rs : new[i].verified /\ ~rs[i].verified
    <2>1. PICK i \in DOMAIN rs : new[i].verified /\ ~rs[i].verified
      BY <1>6
    <2>2. rs[i].url = e.url
      BY <1>2, <2>1
    <2>3. \A j \in DOMAIN rs : new[j].verified <=> rs[j].verified \/ j = i
      BY <1>2, <1>3, <2>1, <2>2 DEF OneAtATime
    <2>4. Verified(new) = Verified(rs) \cup {e.url}
      BY <1>2, <2>2, <2>3 DEF Verified, Alike
    <2>5. rs[i].state \in State
      <3>1. rs[i] \in Repo
        OBVIOUS
      <3> QED
        BY <3>1 DEF Repo
    <2>6. e.url \in InState(rs, NotRetired) \cup InState(rs, {"retired"})
      BY <2>2, <2>5 DEF InState, In, NotRetired
    <2> QED
      BY <1>1, <1>2, <1>4, <2>4, <2>6
  <1> QED
    BY <1>5, <1>6

LEMMA OldBucketIsFree ==
    ASSUME NEW rs \in Seq(Repo), In(rs, {"active", "cutting-over"}) # {}, OneAtATime(rs),
           NEW url, OldBucket(rs, url) # rs
    PROVE  LET new == OldBucket(rs, url) IN
           /\ OneAtATime(new)
           /\ CuttingOver(rs) /\ CuttingOver(new) /\ Writes(new) = Writes(rs)
           /\ Writes(rs) \in Verified(rs)
           /\ \E b : /\ b # Writes(rs) /\ InState(rs, NotRetired) = {Writes(rs), b}
                     /\ Released(new) = Released(rs) \cup {b}
           /\ \A states : InState(new, states) = InState(rs, states)
           /\ Verified(new) = Verified(rs)
  <1>1. PICK c, old, new, r : /\ c = Current(rs) /\ old = PreviousTo(rs, c)
                              /\ new = OldBucket(rs, url)
                              /\ r = [rs[old] EXCEPT !.released = TRUE]
    OBVIOUS
  <1>2. /\ CuttingOver(rs) /\ rs[c].verified /\ old # 0
        /\ new = [rs EXCEPT ![old] = r]
    BY <1>1 DEF OldBucket
  <1>3. /\ c \in DOMAIN rs /\ old \in DOMAIN rs /\ c # old
        /\ rs[c].state = "cutting-over" /\ rs[old].state = "active"
        /\ InState(rs, NotRetired) = {rs[c].url, rs[old].url}
        /\ rs[c].url # rs[old].url
    BY <1>1, <1>2, MovingIsBetweenTwo
  <1>4. rs[old] \in Repo
    BY <1>3
  <1>5. /\ r \in Repo /\ r.url = rs[old].url /\ r.state = rs[old].state
        /\ r.verified = rs[old].verified /\ r.released
    BY <1>1, <1>4 DEF Repo
  <1>6. /\ DOMAIN new = DOMAIN rs
        /\ \A j \in DOMAIN rs : new[j] = IF j = old THEN r ELSE rs[j]
    BY <1>2, <1>3, <1>5, RowReplaced
  <1>7. \A j \in DOMAIN rs : /\ new[j].url = rs[j].url /\ new[j].state = rs[j].state
                              /\ new[j].verified = rs[j].verified
                              /\ new[j].released <=> rs[j].released \/ j = old
    BY <1>5, <1>6
  <1>8. \A states : In(new, states) = In(rs, states)
    BY <1>6, <1>7 DEF In
  <1>9. Current(new) = c
    BY <1>1, <1>8 DEF Current
  <1>10. CuttingOver(new) /\ Writes(new) = Writes(rs) /\ Writes(rs) = rs[c].url
    <2>1. new[c].state = "cutting-over" /\ new[c].url = rs[c].url
      <3>1. new[c] = rs[c]
        BY <1>3, <1>6
      <3> QED
        BY <1>3, <3>1
    <2>2. CuttingOver(new)
      BY <1>9, <2>1 DEF CuttingOver
    <2>3. Writes(new) = rs[c].url /\ Writes(rs) = rs[c].url
      BY <1>1, <1>9, <2>1 DEF Writes
    <2> QED
      BY <2>2, <2>3
  <1>11. Writes(rs) \in Verified(rs) /\ Verified(new) = Verified(rs)
    BY <1>2, <1>3, <1>6, <1>7, <1>10 DEF Verified
  <1>12. \A states : InState(new, states) = InState(rs, states)
    <2> SUFFICES ASSUME NEW states PROVE InState(new, states) = InState(rs, states)
      OBVIOUS
    <2>1. In(new, states) = In(rs, states)
      BY <1>8
    <2>2. ASSUME NEW i \in In(rs, states) PROVE new[i].url = rs[i].url
      <3>1. i \in DOMAIN rs
        BY DEF In
      <3> QED
        BY <1>5, <1>6, <3>1
    <2> QED
      BY <2>1, <2>2 DEF InState
  <1>13. Released(new) = Released(rs) \cup {rs[old].url}
    BY <1>3, <1>6, <1>7 DEF Released
  <1>14. OneAtATime(new)
    <2>1. ASSUME NEW i \in DOMAIN new, new[i].released
          PROVE  \/ new[i].state = "retired"
                 \/ new[i].state = "active" /\ CuttingOver(new) /\ new[Current(new)].verified
      BY <1>2, <1>3, <1>6, <1>7, <1>9, <1>10, <2>1 DEF OneAtATime
    <2>2. \A i, j \in DOMAIN new : new[i].url = new[j].url => i = j
      BY <1>6, <1>7 DEF OneAtATime
    <2>3. /\ \A a, b \in Waiting(new) : a = b
          /\ \A a, b \in In(new, {"active"}) : a = b
      BY <1>8, ZenonT(60) DEF OneAtATime, Waiting
    <2> QED
      BY <2>1, <2>2, <2>3, ZenonT(60) DEF OneAtATime
  <1> QED
    BY <1>1, <1>2, <1>3, <1>10, <1>11, <1>12, <1>13, <1>14, ZenonT(60)

\* At most one bucket waits, so that another is offered only when none does.
LEMMA NoneWaits ==
    ASSUME NEW rs \in Seq(Repo), MaxWaiting <= 1, Cardinality(Waiting(rs)) < MaxWaiting
    PROVE  Waiting(rs) = {}
  <1>1. IsFiniteSet(Waiting(rs))
    <2>1. Waiting(rs) \subseteq 1..Len(rs) /\ Len(rs) \in Nat
      BY InDomain DEF Waiting
    <2>2. IsFiniteSet(1..Len(rs))
      BY <2>1, FS_Interval
    <2> QED
      BY <2>1, <2>2, FS_Subset
  <1>2. Cardinality(Waiting(rs)) \in Nat /\ Cardinality(Waiting(rs)) < MaxWaiting
    BY <1>1, FS_CardinalityType
  <1>3. \A n \in Nat : n < MaxWaiting => n = 0
    <2>1. MaxWaiting \in Nat
      BY RotationAssumption, Zenon
    <2> QED
      BY <2>1
  <1>4. Cardinality(Waiting(rs)) = 0
    BY <1>2, <1>3, Zenon
  <1> QED
    BY <1>1, <1>4, FS_EmptySet

\* The state of the hand-over, and what it is after a step.
HandedOver == OneAtATime(rows)

LEMMA Now ==
    /\ rows[Current(rows)].url = Writes(rows)
    /\ URLs(In(rows, State \ {"retired"})) = InState(rows, NotRetired)
    /\ URLs(In(rows, {"retired"})) = InState(rows, {"retired"})
    /\ URLs({i \in DOMAIN rows : rows[i].verified}) = Verified(rows)
    /\ URLs({i \in DOMAIN rows : rows[i].released}) = Released(rows)
  BY DEF Writes, URLs, InState, NotRetired, Verified, Released

LEMMA Then ==
    /\ (rows[Current(rows)].url)' = Writes(rows')
    /\ URLs(In(rows, State \ {"retired"}))' = InState(rows', NotRetired)
    /\ URLs(In(rows, {"retired"}))' = InState(rows', {"retired"})
    /\ URLs({i \in DOMAIN rows : rows[i].verified})' = Verified(rows')
    /\ URLs({i \in DOMAIN rows : rows[i].released})' = Released(rows')
    /\ CuttingOver(rows)' = CuttingOver(rows')
    /\ HandedOver' = OneAtATime(rows')
  <1>1. Current(rows)' = Current(rows')
    BY DEF Current, Newest, In, Min, Max
  <1>2. (rows[Current(rows)].url)' = Writes(rows')
    BY <1>1 DEF Writes
  <1>3. /\ URLs(In(rows, State \ {"retired"}))' = InState(rows', NotRetired)
        /\ URLs(In(rows, {"retired"}))' = InState(rows', {"retired"})
        /\ URLs({i \in DOMAIN rows : rows[i].verified})' = Verified(rows')
        /\ URLs({i \in DOMAIN rows : rows[i].released})' = Released(rows')
    BY DEF URLs, In, InState, NotRetired, State, Verified, Released
  <1>4. CuttingOver(rows)' = CuttingOver(rows')
    BY <1>1 DEF CuttingOver
  <1>5. HandedOver' = OneAtATime(rows')
    BY <1>1, <1>4 DEF HandedOver, OneAtATime, Waiting, In
  <1> QED
    BY <1>2, <1>3, <1>4, <1>5

\* What no promise is about: the machine, the owner and the buckets are where they were.
Still ==
    /\ Writes(rows') = Writes(rows) /\ CuttingOver(rows') = CuttingOver(rows)
    /\ \A states : InState(rows', states) = InState(rows, states)
    /\ Released(rows') = Released(rows)

LEMMA StillStutters ==
    ASSUME Still, Verified(rows') = Verified(rows), UNCHANGED <<accepted, asked>>
    PROVE  UNCHANGED Handover!vars
  BY Now, Then DEF Still, Handover!vars

LEMMA SameRowsStill ==
    ASSUME UNCHANGED rows
    PROVE  Still /\ Verified(rows') = Verified(rows) /\ (HandedOver => HandedOver')
  BY Then DEF Still, HandedOver

\* A card recorded for a bucket.
LEMMA CardsStutter ==
    ASSUME Inv, HandedOver, Card
    PROVE  HandedOver' /\ UNCHANGED Handover!vars
  <1>1. rows \in Seq(Repo) /\ In(rows, {"active", "cutting-over"}) # {}
    BY DEF Inv, RowInv
  <1>2. UNCHANGED <<accepted, asked>>
    BY DEF Card, PrintCard, CardPrinted, ConfirmCardPrinted, server
  <1>3. CASE UNCHANGED rows
    BY <1>2, <1>3, SameRowsStill, StillStutters
  <1>4. ASSUME NEW url, rows' = CardIssued(rows, url)
        PROVE  HandedOver' /\ UNCHANGED Handover!vars
    <2>1. /\ Alike(rows, rows')
          /\ \A i \in DOMAIN rows : rows'[i].verified = rows[i].verified
      BY <1>1, <1>4, CardIssuedAlike
    <2>2. /\ \A states : InState(rows', states) = InState(rows, states)
          /\ Released(rows') = Released(rows)
      BY <2>1, AlikeLooksAlike
    <2>3. OneAtATime(rows') /\ Writes(rows') = Writes(rows) /\ CuttingOver(rows') = CuttingOver(rows)
      BY <1>1, <2>1, AlikeOneAtATime DEF HandedOver
    <2>4. Verified(rows') = Verified(rows)
      BY <2>1, SameMarks DEF Alike
    <2> QED
      BY <1>2, <2>2, <2>3, <2>4, StillStutters, Then DEF Still
  <1> QED
    BY <1>3, <1>4 DEF Card, PrintCard, CardPrinted, ConfirmCardPrinted, server

\* The administrator offers one, or retires one.
LEMMA WorldHandsOver ==
    ASSUME MaxWaiting <= 1, Inv, HandedOver, World
    PROVE  HandedOver' /\ [Handover!Next]_(Handover!vars)
  <1>1. rows \in Seq(Repo) /\ In(rows, {"active", "cutting-over"}) # {}
    BY DEF Inv, RowInv
  <1>2. ASSUME NEW b \in Bucket, Offer(b)
        PROVE  HandedOver' /\ Handover!Next
    <2>1. /\ rows' = WithOffer(rows, b) /\ Find(rows, b) = {}
          /\ Cardinality(Waiting(rows)) < MaxWaiting /\ UNCHANGED <<accepted, asked>>
      BY <1>2 DEF Offer, WithOffer, Waiting
    <2>2. Waiting(rows) = {}
      BY <1>1, <2>1, NoneWaits
    <2>3. /\ OneAtATime(rows')
          /\ Writes(rows') = Writes(rows) /\ CuttingOver(rows') = CuttingOver(rows)
          /\ b \notin InState(rows, NotRetired) \cup InState(rows, {"retired"})
          /\ InState(rows', NotRetired) = InState(rows, NotRetired) \cup {b}
          /\ InState(rows', {"retired"}) = InState(rows, {"retired"})
          /\ Verified(rows') = Verified(rows) /\ Released(rows') = Released(rows)
      BY <1>1, <2>1, <2>2, OfferIsOffer DEF HandedOver
    <2>4. Handover!Offer(b)
      BY <2>1, <2>3, Now, Then DEF Handover!Offer
    <2> QED
      BY <2>3, <2>4, Then DEF Handover!Next
  <1>3. CASE Retire
    <2>1. PICK c, old : c = Current(rows) /\ old = PreviousTo(rows, c)
      OBVIOUS
    <2>2. /\ CuttingOver(rows) /\ old # 0 /\ rows[old].released /\ rows' = Retired(rows)
          /\ UNCHANGED <<accepted, asked>>
      BY <1>3, <2>1 DEF Retire, Retired
    <2>3. PICK b : b = rows[old].url
      OBVIOUS
    <2>4. /\ OneAtATime(rows')
          /\ ~CuttingOver(rows') /\ Writes(rows') = Writes(rows)
          /\ Writes(rows) \in Verified(rows) /\ b \in Released(rows)
          /\ b # Writes(rows) /\ InState(rows, NotRetired) = {Writes(rows), b}
          /\ InState(rows', NotRetired) = {Writes(rows)}
          /\ InState(rows', {"retired"}) = InState(rows, {"retired"}) \cup {b}
          /\ Verified(rows') = Verified(rows) /\ Released(rows') = Released(rows)
      BY <1>1, <2>1, <2>2, <2>3, RetireIsLetGo DEF HandedOver
    <2>5. b \in Bucket
      <3>1. rows[old] \in Repo
        BY <1>1, <2>1, <2>2, PreviousIsThere
      <3> QED
        BY <2>3, <3>1 DEF Repo
    <2>6. (CuttingOver(rows'))  = FALSE
      BY <2>4 DEF CuttingOver
    <2>7. Handover!LetGo(b)
      BY <2>2, <2>4, <2>6, Now, Then DEF Handover!LetGo
    <2> QED
      BY <2>4, <2>5, <2>7, Then DEF Handover!Next
  <1>4. ASSUME NEW b \in Bucket, Empty(b)
        PROVE  HandedOver' /\ UNCHANGED Handover!vars
    BY <1>4, SameRowsStill, StillStutters DEF Empty, server
  <1> QED
    BY <1>2, <1>3, <1>4 DEF World

\* The owner asks, and the owner accepts.
LEMMA PageHandsOver ==
    ASSUME Inv, HandedOver, Page
    PROVE  HandedOver' /\ [Handover!Next]_(Handover!vars)
  <1>1. /\ rows \in Seq(Repo) /\ In(rows, {"active", "cutting-over"}) # {}
        /\ asked \in BOOLEAN /\ shown \in Bucket \cup {None}
    BY DEF Inv, RowInv, TypeOK
  <1>2. CASE PollState
    BY <1>2, SameRowsStill, StillStutters DEF PollState, server
  <1>3. CASE RequestRotation
    <2>1. /\ ~CuttingOver(rows) /\ Offered(rows) = 0 /\ asked' = TRUE
          /\ UNCHANGED <<rows, accepted>>
      BY <1>3 DEF RequestRotation, MayAsk
    <2>2. PICK c : c = Current(rows)
      OBVIOUS
    <2>3. /\ c \in DOMAIN rows /\ rows[c].state = "active"
          /\ \A i \in DOMAIN rows : rows[i].state \notin {"retired", "offered"} => i = c
      BY <1>1, <2>1, <2>2, SettledIn DEF HandedOver
    <2>4. In(rows, {"offered"}) = {}
      <3>1. In(rows, {"offered"}) # {} => Newest(In(rows, {"offered"})) \in DOMAIN rows
        <4>1. In(rows, {"offered"}) # {} => Newest(In(rows, {"offered"})) \in In(rows, {"offered"})
          BY <1>1, NewestIn
        <4> QED
          BY <4>1 DEF In
      <3>2. 0 \notin DOMAIN rows
        BY <1>1
      <3> QED
        BY <2>1, <3>1, <3>2 DEF Offered
    <2>5. In(rows, NotRetired) = {c}
      BY <2>3, <2>4 DEF In, NotRetired, State
    <2>6. InState(rows, NotRetired) = {Writes(rows)}
      BY <2>2, <2>5 DEF InState, Writes
    <2>7. /\ Still /\ Verified(rows') = Verified(rows) /\ HandedOver'
      BY <2>1, SameRowsStill
    <2>8. Handover!Ask
      BY <2>1, <2>6, <2>7, Now, Then DEF Still, Handover!Ask
    <2> QED
      BY <2>7, <2>8 DEF Handover!Next
  <1>4. CASE Accept
    <2>1. shown \in Bucket /\ accepted' = accepted \cup {shown}
      BY <1>1, <1>4 DEF Accept
    <2>2. CASE rows' = rows /\ asked' = asked
      <3>1. Still /\ Verified(rows') = Verified(rows) /\ HandedOver'
        BY <2>2, SameRowsStill
      <3>2. Handover!Agree(shown)
        BY <2>1, <2>2, <3>1, Now, Then DEF Still, Handover!Agree
      <3> QED
        BY <2>1, <3>1, <3>2 DEF Handover!Next
    <2>3. CASE rows' = CutOver(rows, shown) /\ rows' # rows /\ asked' = FALSE
      <3>1. /\ OneAtATime(rows')
            /\ ~CuttingOver(rows) /\ CuttingOver(rows')
            /\ InState(rows, NotRetired) = {Writes(rows), shown} /\ shown # Writes(rows)
            /\ Writes(rows') = shown
            /\ InState(rows', NotRetired) = InState(rows, NotRetired)
            /\ InState(rows', {"retired"}) = InState(rows, {"retired"})
            /\ Verified(rows') = Verified(rows) /\ Released(rows') = Released(rows)
        BY <1>1, <2>3, CutOverIsAccept DEF HandedOver
      <3>2. CuttingOver(rows') = TRUE
        BY <3>1 DEF CuttingOver
      <3>3. Handover!Accept(shown)
        BY <2>1, <2>3, <3>1, <3>2, Now, Then DEF Handover!Accept
      <3> QED
        BY <2>1, <3>1, <3>3, Then DEF Handover!Next
    <2>4. \/ rows' = rows /\ asked' = asked
          \/ rows' = CutOver(rows, shown) /\ rows' # rows /\ asked' = FALSE
      <3>1. \/ rows' = rows /\ asked' = asked
            \/ rows' = CutOver(rows, shown) /\ asked' = (asked /\ rows' = rows)
        BY <1>4 DEF Accept, StillAsked, server
      <3> QED
        BY <1>1, <3>1
    <2> QED
      BY <2>2, <2>3, <2>4
  <1> QED
    BY <1>2, <1>3, <1>4 DEF Page

\* Word of a run arrives, or does not.
LEMMA SendHandsOver ==
    ASSUME Inv, HandedOver, NEW e \in Event, NEW got, NEW acknowledged,
           Send(e, got, acknowledged), UNCHANGED <<accepted, asked>>
    PROVE  HandedOver' /\ [Handover!Next]_(Handover!vars)
  <1>1. rows \in Seq(Repo) /\ In(rows, {"active", "cutting-over"}) # {}
    BY DEF Inv, RowInv
  <1>2. CASE UNCHANGED rows
    BY <1>2, SameRowsStill, StillStutters
  <1>3. CASE rows' = NoteRun(rows, e)
    <2>1. /\ Alike(rows, rows') /\ OneAtATime(rows')
          /\ Writes(rows') = Writes(rows) /\ CuttingOver(rows') = CuttingOver(rows)
          /\ \/ Verified(rows') = Verified(rows)
             \/ /\ e.url \in InState(rows, NotRetired) \cup InState(rows, {"retired"})
                /\ Verified(rows') = Verified(rows) \cup {e.url}
      BY <1>1, <1>3, NoteRunIsProve DEF HandedOver
    <2>2. Still
      BY <2>1, AlikeLooksAlike DEF Still
    <2>3. CASE Verified(rows') = Verified(rows)
      BY <2>1, <2>2, <2>3, StillStutters, Then
    <2>4. CASE /\ e.url \in InState(rows, NotRetired) \cup InState(rows, {"retired"})
               /\ Verified(rows') = Verified(rows) \cup {e.url}
      <3>1. e.url \in Bucket
        BY DEF Event
      <3>2. Handover!Prove(e.url)
        BY <2>2, <2>4, Now, Then DEF Still, Handover!Prove
      <3> QED
        BY <2>1, <3>1, <3>2, Then DEF Handover!Next
    <2> QED
      BY <2>1, <2>3, <2>4
  <1> QED
    BY <1>2, <1>3 DEF Send

\* The machine says that it is finished with the bucket it moved off.
LEMMA ReleaseHandsOver ==
    ASSUME Inv, HandedOver, NEW p \in Process, NEW got, ReleaseOldBucket(p, got)
    PROVE  HandedOver' /\ [Handover!Next]_(Handover!vars)
  <1>1. /\ rows \in Seq(Repo) /\ In(rows, {"active", "cutting-over"}) # {}
        /\ UNCHANGED <<accepted, asked>>
    BY DEF Inv, RowInv, ReleaseOldBucket
  <1>2. CASE UNCHANGED rows
    BY <1>1, <1>2, SameRowsStill, StillStutters
  <1>3. CASE rows' = OldBucket(rows, run[p].url) /\ rows' # rows
    <2>1. /\ OneAtATime(rows')
          /\ CuttingOver(rows) /\ CuttingOver(rows') /\ Writes(rows') = Writes(rows)
          /\ Writes(rows) \in Verified(rows)
          /\ \E b : /\ b # Writes(rows) /\ InState(rows, NotRetired) = {Writes(rows), b}
                    /\ Released(rows') = Released(rows) \cup {b}
          /\ \A states : InState(rows', states) = InState(rows, states)
          /\ Verified(rows') = Verified(rows)
      BY <1>1, <1>3, OldBucketIsFree DEF HandedOver
    <2>2. PICK b : /\ b # Writes(rows) /\ InState(rows, NotRetired) = {Writes(rows), b}
                   /\ Released(rows') = Released(rows) \cup {b}
      BY <2>1
    <2>3. b \in Bucket
      <3>1. \A i \in DOMAIN rows : rows[i].url \in Bucket
        <4>1. \A i \in DOMAIN rows : rows[i] \in Repo
          BY <1>1
        <4> QED
          BY <4>1 DEF Repo
      <3>2. b \in InState(rows, NotRetired)
        BY <2>2
      <3> QED
        BY <3>1, <3>2 DEF InState, In
    <2>4. CuttingOver(rows') = CuttingOver(rows)
      BY <2>1 DEF CuttingOver
    <2>5. Handover!Free(b)
      BY <1>1, <2>1, <2>2, <2>4, Now, Then DEF Handover!Free
    <2> QED
      BY <2>1, <2>3, <2>5, Then DEF Handover!Next
  <1> QED
    BY <1>2, <1>3 DEF ReleaseOldBucket

LEMMA RunsHandOver ==
    ASSUME Inv, HandedOver, NEW p \in Process, RunStep(p)
    PROVE  HandedOver' /\ [Handover!Next]_(Handover!vars)
  <1>1. CASE \/ Fetch(p) \/ Open(p) \/ Create(p) \/ ReadBack(p) \/ Backup(p) \/ GiveUp(p)
             \/ \E good \in BOOLEAN : Verify(p, good)
    <2>1. UNCHANGED <<rows, accepted, asked>>
      BY <1>1 DEF Fetch, Open, Create, ReadBack, Backup, GiveUp, Verify, server
    <2> QED
      BY <2>1, SameRowsStill, StillStutters
  <1>2. ASSUME NEW got \in BOOLEAN, ReleaseOldBucket(p, got)
        PROVE  HandedOver' /\ [Handover!Next]_(Handover!vars)
    BY <1>2, ReleaseHandsOver
  <1>3. ASSUME NEW got \in BOOLEAN, NEW acknowledged \in BOOLEAN, Report(p, got, acknowledged)
        PROVE  HandedOver' /\ [Handover!Next]_(Handover!vars)
    <2>1. run[p] \in Run
      BY DEF Inv, TypeOK
    <2>2. PICK e : e = [url |-> run[p].url, verified |-> run[p].verified]
      OBVIOUS
    <2>3. e \in Event
      BY <2>1, <2>2 DEF Run, Event
    <2>4. Send(e, got, acknowledged) /\ UNCHANGED <<accepted, asked>>
      BY <1>3, <2>2 DEF Report
    <2> QED
      BY <2>3, <2>4, SendHandsOver
  <1> QED
    BY <1>1, <1>2, <1>3 DEF RunStep

LEMMA FlusherHandsOver ==
    ASSUME Inv, HandedOver, Flusher
    PROVE  HandedOver' /\ [Handover!Next]_(Handover!vars)
  <1>1. PICK e \in outbox, acknowledged \in BOOLEAN : Flush(e, acknowledged)
    BY DEF Flusher
  <1>2. e \in Event
    BY DEF Inv, TypeOK
  <1>3. Send(e, TRUE, acknowledged) /\ UNCHANGED <<accepted, asked>>
    BY <1>1 DEF Flush
  <1> QED
    BY <1>2, <1>3, SendHandsOver

LEMMA HandedOverInit == Init => HandedOver /\ Handover!Init
  <1> SUFFICES ASSUME Init PROVE HandedOver /\ Handover!Init
    OBVIOUS
  <1>1. PICK r : r = NewRow(Home, "active")
    OBVIOUS
  <1>2. r.state = "active" /\ r.url = Home /\ ~r.verified /\ ~r.released
    BY <1>1 DEF NewRow
  <1>3. DOMAIN rows = {1} /\ rows[1] = r
    BY <1>1 DEF Init
  <1>4. /\ In(rows, NotRetired) = {1} /\ In(rows, {"retired"}) = {} /\ Waiting(rows) = {}
        /\ In(rows, {"active"}) = {1}
    BY <1>2, <1>3 DEF In, Waiting, NotRetired, State
  <1>5. HandedOver
    BY <1>2, <1>3, <1>4 DEF HandedOver, OneAtATime
  <1>6. Current(rows) = 1 /\ ~CuttingOver(rows)
    <2>1. rows \in Seq(Repo) /\ In(rows, {"active", "cutting-over"}) # {}
      BY InvInit DEF Inv, RowInv
    <2>2. Current(rows) \in DOMAIN rows
      BY <2>1, CurrentIsThere
    <2> QED
      BY <1>2, <1>3, <2>2 DEF CuttingOver
  <1>7. /\ Writes(rows) = Home /\ InState(rows, NotRetired) = {Home}
        /\ InState(rows, {"retired"}) = {} /\ Verified(rows) = {} /\ Released(rows) = {}
    BY <1>2, <1>3, <1>4, <1>6 DEF Writes, InState, Verified, Released
  <1> QED
    BY <1>5, <1>6, <1>7, Now DEF Init, Handover!Init

LEMMA HandedOverNext ==
    ASSUME MaxWaiting <= 1
    PROVE  Inv /\ HandedOver /\ [Next]_vars => HandedOver' /\ [Handover!Next]_(Handover!vars)
  <1> SUFFICES ASSUME Inv, HandedOver, [Next]_vars
               PROVE  HandedOver' /\ [Handover!Next]_(Handover!vars)
    OBVIOUS
  <1>1. CASE UNCHANGED vars
    BY <1>1, SameRowsStill, StillStutters DEF vars
  <1>2. CASE Card
    BY <1>2, CardsStutter
  <1> QED
    BY <1>1, <1>2, WorldHandsOver, PageHandsOver, FlusherHandsOver, RunsHandOver DEF Next

\* While an administrator keeps at most one bucket on offer or being moved to at a time,
\* the machine is handed over as BucketHandover has it, whatever is lost, late, repeated
\* or out of date on the way: it writes only where its owner agreed, one bucket at a time;
\* what it moves off is released for a verified successor and by name, retired only then,
\* and never comes back; and the owner's request is answered by the bucket he accepts.
THEOREM HandsOver ==
    ASSUME MaxWaiting <= 1
    PROVE  Spec => ImplementsHandover
  <1>1. Init => HandedOver /\ Handover!Init
    BY HandedOverInit
  <1>2. Inv /\ HandedOver /\ [Next]_vars => HandedOver' /\ [Handover!Next]_(Handover!vars)
    BY HandedOverNext
  <1> QED
    BY <1>1, <1>2, InvAlways, PTL DEF Spec, ImplementsHandover, Handover!Spec

\* Nor is the machine then ever sent back to a bucket it has said it is finished with,
\* which with two on offer it is: what it moves off is the older one (previousTo).
THEOREM NeverHandedBack ==
    ASSUME MaxWaiting <= 1
    PROVE  Spec => []NotHandedBack
  <1>1. Init => HandedOver
    BY HandedOverInit
  <1>2. Inv /\ HandedOver /\ [Next]_vars => HandedOver'
    BY HandedOverNext
  <1>3. Inv /\ HandedOver => NotHandedBack
    <2> SUFFICES ASSUME Inv, HandedOver, NEW c, c = Current(rows), rows[c].released
                 PROVE  FALSE
      BY DEF NotHandedBack
    <2>1. rows \in Seq(Repo) /\ In(rows, {"active", "cutting-over"}) # {}
      BY DEF Inv, RowInv
    <2>2. c \in DOMAIN rows /\ rows[c].state \in {"active", "cutting-over"}
      BY <2>1, CurrentIsThere
    <2>3. rows[c].state = "active" /\ CuttingOver(rows)
      BY <2>2 DEF HandedOver, OneAtATime
    <2> QED
      BY <2>3 DEF CuttingOver
  <1> QED
    BY <1>1, <1>2, <1>3, InvAlways, PTL DEF Spec

=============================================================================
