------------------------------ MODULE Rotation ------------------------------
(***************************************************************************)
(* Moving a machine to a fresh bucket: the owner asks, an administrator    *)
(* provisions and offers, the owner accepts on the status page, the next   *)
(* backups create the repository and fill it, the machine says it has      *)
(* finished with the old bucket, a person retires it.  With it, the page   *)
(* the owner keeps on paper to get the files back without anybody's help.  *)
(*                                                                         *)
(* The server is the one beside the tests (eumaeusstub): its rows, and what*)
(* it decides from the runs it has heard of.  The machine's half is        *)
(* cmd/sion-backup/rotate.go and runBackup.  A bucket is what restic finds *)
(* in it.  Every call may be lost, or its answer; a run may die anywhere;  *)
(* the report of a run may arrive long after it, more than once and out of *)
(* order; the server's rows may change at any moment of a run.             *)
(*                                                                         *)
(* Left out: credentials, sizes, dates (of a date only whether it is set), *)
(* and the harness's own operation that points a machine at a wrong URL: a *)
(* bucket that somebody emptied gives the same picture.                    *)
(***************************************************************************)
EXTENDS Integers, Sequences, FiniteSetsExt

CONSTANTS
    Bucket,     \* the buckets there will ever be, named by their URLs
    Home,       \* the one the machine is enrolled with
    Adopted,    \* those that come with somebody's history in them
    Process,    \* what takes backups: "daemon", "run"
    Printer,    \* how a card is recorded: "page" (page or terminal), "--printed"
    MaxWaiting, \* bound: buckets on offer or being moved to, at a time
    MaxLost     \* bound: buckets that somebody empties

ASSUME RotationAssumption ==
    /\ Home \in Bucket /\ Adopted \subseteq Bucket \ {Home}
    /\ "" \notin Bucket
    /\ Process # {} /\ Printer \subseteq {"page", "--printed"}
    /\ MaxWaiting \in Nat /\ MaxLost \in Nat

None == ""

VARIABLES
    rows,       \* the server's repositories, oldest first
    asked,      \* a rotation request is open
    content,    \* content[b]: what restic finds in bucket b
    shown,      \* the offer on the status page, or None
    run,        \* run[p]: the backup of process p
    outbox,     \* finished runs whose report has not been acknowledged
    paper,      \* the buckets whose card the owner has on paper
    onPage,     \* the bucket of the card on the screen, or None
    accepted,   \* history: buckets somebody clicked to accept
    vouched,    \* history: buckets recorded by `sion-backup card --printed`
    lost        \* history: buckets somebody emptied

server  == <<rows, asked>>
cards   == <<paper, onPage, vouched>>
vars    == <<rows, asked, content, shown, run, outbox, paper, onPage, accepted,
             vouched, lost>>

State == {"active", "offered", "cutting-over", "retired"}

Repo == [url : Bucket, state : State, adopted : BOOLEAN, snapshot : BOOLEAN,
         verified : BOOLEAN, card : BOOLEAN, released : BOOLEAN]

Step == {"idle", "open", "init", "readback", "backup", "verify", "report", "release"}

\* heard is a history variable: what the server knew of the bucket at the fetch.
Run == [step : Step, url : Bucket, state : State, permitted : BOOLEAN,
        verified : BOOLEAN, heard : BOOLEAN]

Event == [url : Bucket, verified : BOOLEAN]

TypeOK ==
    /\ rows \in Seq(Repo)
    /\ asked \in BOOLEAN
    /\ content \in [Bucket -> {"absent", "empty", "unproven", "proven"}]
    /\ shown \in Bucket \cup {None}
    /\ run \in [Process -> Run]
    /\ outbox \subseteq Event
    /\ paper \subseteq Bucket /\ onPage \in Bucket \cup {None}
    /\ accepted \subseteq Bucket /\ vouched \subseteq Bucket /\ lost \subseteq Bucket

NewRow(b, state) ==
    [url |-> b, state |-> state, adopted |-> b \in Adopted, snapshot |-> FALSE,
     verified |-> FALSE, card |-> FALSE, released |-> FALSE]

NoRun == [step |-> "idle", url |-> Home, state |-> "active", permitted |-> FALSE,
          verified |-> FALSE, heard |-> FALSE]

Init ==
    /\ rows = <<NewRow(Home, "active")>>
    /\ asked = FALSE
    /\ content = [b \in Bucket |-> IF b \in Adopted \cup {Home} THEN "proven" ELSE "absent"]
    /\ shown = None
    /\ run = [p \in Process |-> NoRun]
    /\ outbox = {}
    /\ paper = {} /\ onPage = None
    /\ accepted = {} /\ vouched = {} /\ lost = {}

-----------------------------------------------------------------------------
(* What the server reads out of its rows.  0 stands for "no such row".     *)

In(rs, states) == {i \in DOMAIN rs : rs[i].state \in states}

Newest(is) == IF is = {} THEN 0 ELSE Max(is)

\* The repository the machine writes to: the first that is cutting over, or else
\* the last that is active.  An offered one never is.
Current(rs) ==
    IF In(rs, {"cutting-over"}) # {} THEN Min(In(rs, {"cutting-over"}))
                                     ELSE Newest(In(rs, {"active"}))

\* The newest bucket that waits to be accepted.
Offered(rs) == Newest(In(rs, {"offered"}))

OfferedURL(rs) == IF Offered(rs) = 0 THEN None ELSE rs[Offered(rs)].url

Find(rs, url) == {i \in DOMAIN rs : rs[i].url = url}

\* A mistake (see below): the window is never closed.
ExpectEmptyWhileCuttingOver(r) == r.state = "cutting-over" /\ ~r.adopted

\* The permission to create a repository.
ExpectEmpty(r) == r.state = "cutting-over" /\ ~r.adopted /\ ~r.snapshot

\* The bucket the machine moves off: the last row still in use that is not c.
PreviousTo(rs, c) == Newest(In(rs, {"active", "cutting-over"}) \ {c})

CardState(rs) ==
    IF rs[Current(rs)].card THEN "issued"
    ELSE IF \E i \in In(rs, {"retired"}) : rs[i].card THEN "superseded" ELSE "never"

CuttingOver(rs) == rs[Current(rs)].state = "cutting-over"

-----------------------------------------------------------------------------
(* Mistakes this code could plausibly have made.  No specification uses    *)
(* them: each stands for one definition below in a mutated specification.  *)

\* A retry is answered by the standing offer, whatever the machine named.
AcceptWhateverIsOffered(rs, url) ==
    LET o == Offered(rs) IN
    IF CuttingOver(rs) \/ o = 0 THEN rs ELSE [rs EXCEPT ![o].state = "cutting-over"]

\* The request stays open when it has been answered.
AskStaysOpen(before, after) == asked

\* The machine is believed: it says so only after a run that was read back.
OldBucketTrustsTheMachine(rs, url) ==
    LET old == PreviousTo(rs, Current(rs)) IN
    IF CuttingOver(rs) /\ old # 0 THEN [rs EXCEPT ![old].released = TRUE] ELSE rs

\* A card marks the current bucket as covered, whichever bucket it names.
CardForWhateverIsCurrent(rs, url) == [rs EXCEPT ![Current(rs)].card = TRUE]

-----------------------------------------------------------------------------
(* What the server does with the calls of the machine.  A refusal leaves   *)
(* the rows as they are.                                                   *)

\* POST rotation-request.  There is no permission to check.
MayAsk(rs) == ~asked /\ ~CuttingOver(rs) /\ Offered(rs) = 0

\* POST cutover.  Accepting what is being moved to already is a success.
CutOver(rs, url) ==
    LET o == Offered(rs) IN
    IF o # 0 /\ rs[o].url = url /\ ~(CuttingOver(rs) /\ rs[Current(rs)].url = url)
    THEN [rs EXCEPT ![o].state = "cutting-over"] ELSE rs

\* An accepted offer answers the request it came from.
StillAsked(before, after) == asked /\ after = before

\* POST old-bucket.  url is the bucket the machine writes to now.
OldBucket(rs, url) ==
    LET c == Current(rs)
        old == PreviousTo(rs, c)
    IN  IF CuttingOver(rs) /\ rs[c].url = url /\ rs[c].verified /\ old # 0
        THEN [rs EXCEPT ![old].released = TRUE] ELSE rs

\* POST card-issued.
CardIssued(rs, url) ==
    IF rs[Current(rs)].url = url THEN [rs EXCEPT ![Current(rs)].card = TRUE] ELSE rs

\* POST runs, for a run that has a snapshot.
NoteRun(rs, e) ==
    IF Find(rs, e.url) = {} THEN rs
    ELSE LET i == Min(Find(rs, e.url)) IN
         [rs EXCEPT ![i].snapshot = TRUE, ![i].verified = @ \/ e.verified]

-----------------------------------------------------------------------------
(* The administrator, and the world.                                       *)

\* A bucket is provisioned and offered, under a URL that is new.
Offer(b) ==
    /\ Find(rows, b) = {}
    /\ Cardinality(In(rows, {"offered", "cutting-over"})) < MaxWaiting
    /\ rows' = Append(rows, NewRow(b, "offered"))
    /\ UNCHANGED <<asked, content, shown, run, outbox, cards, accepted, lost>>

\* The superseded row is retired and its successor promoted.  That the machine
\* has said it is finished with it is not checked by the code: it is what the
\* person at /fleet waits for.
Retire ==
    LET c == Current(rows)
        old == PreviousTo(rows, c)
    IN  /\ CuttingOver(rows) /\ old # 0 /\ rows[old].released
        /\ rows' = [rows EXCEPT ![old].state = "retired", ![c].state = "active"]
        /\ UNCHANGED <<asked, content, shown, run, outbox, cards, accepted, lost>>

\* Somebody empties a bucket.
Empty(b) ==
    /\ content[b] # "absent" /\ Cardinality(lost \cup {b}) <= MaxLost
    /\ content' = [content EXCEPT ![b] = "absent"]
    /\ lost' = lost \cup {b}
    /\ UNCHANGED <<server, shown, run, outbox, cards, accepted>>

-----------------------------------------------------------------------------
(* The status page.                                                        *)

\* The daemon, or a page that has just changed something, asks for the state.
PollState ==
    /\ shown' = OfferedURL(rows)
    /\ UNCHANGED <<server, content, run, outbox, cards, accepted, lost>>

\* The owner asks for a fresh bucket.  A refusal changes nothing.
RequestRotation ==
    /\ MayAsk(rows)
    /\ asked' = TRUE
    /\ shown' \in {shown, OfferedURL(rows)}
    /\ UNCHANGED <<rows, content, run, outbox, cards, accepted, lost>>

\* The owner accepts what the page shows, which may be long out of date.  The call
\* may be lost on the way; the page is refreshed only if it was answered.
Accept ==
    /\ shown # None
    /\ accepted' = accepted \cup {shown}
    /\ \/ UNCHANGED <<server, shown>>
       \/ /\ rows' = CutOver(rows, shown)
          /\ asked' = StillAsked(rows, rows')
          /\ shown' \in {shown, OfferedURL(rows')}
    /\ UNCHANGED <<content, run, outbox, cards, lost>>

\* A card is assembled from a credential fetch, and comes out of a printer.
PrintCard ==
    /\ "page" \in Printer
    /\ onPage' = rows[Current(rows)].url
    /\ paper' = paper \cup {onPage'}
    /\ UNCHANGED <<server, content, shown, run, outbox, accepted, vouched, lost>>

\* "I have printed it": recorded for the bucket the card on the screen names.
CardPrinted ==
    /\ onPage # None
    /\ onPage' = None
    /\ rows' \in {rows, CardIssued(rows, onPage)}
    /\ UNCHANGED <<asked, content, shown, run, outbox, paper, vouched, accepted, lost>>

\* `sion-backup card --printed`, run by somebody who holds a card: recorded for
\* the bucket the server names now.
ConfirmCardPrinted ==
    /\ "--printed" \in Printer /\ paper # {}
    /\ LET url == rows[Current(rows)].url IN
         /\ rows' = CardIssued(rows, url)
         /\ vouched' = vouched \cup {url}
    /\ UNCHANGED <<asked, content, shown, run, outbox, paper, onPage, accepted, lost>>

-----------------------------------------------------------------------------
(* A backup.  It lives with what the server said at its fetch.             *)

At(p, step) == run[p].step = step

Goes(p, step) == run' = [run EXCEPT ![p].step = step]

Ends(p) == run' = [run EXCEPT ![p] = NoRun]

Found(p) == content[run[p].url] # "absent"

\* The URL, the state and the permission are one answer.
Fetch(p) ==
    LET c == rows[Current(rows)] IN
    /\ At(p, "idle")
    /\ run' = [run EXCEPT ![p] =
         [step |-> IF ExpectEmpty(c) THEN "open" ELSE "backup", url |-> c.url,
          state |-> c.state, permitted |-> ExpectEmpty(c), verified |-> FALSE,
          heard |-> c.snapshot]]
    /\ UNCHANGED <<server, content, shown, outbox, cards, accepted, lost>>

\* Ensure, for a run that was permitted to create: is anything there?
Open(p) ==
    /\ At(p, "open")
    /\ Goes(p, IF Found(p) THEN "backup" ELSE "init")
    /\ UNCHANGED <<server, content, shown, outbox, cards, accepted, lost>>

\* restic init, which refuses when a repository has appeared meanwhile.
Create(p) ==
    /\ At(p, "init") /\ ~Found(p)
    /\ content' = [content EXCEPT ![run[p].url] = "empty"]
    /\ Goes(p, "readback")
    /\ UNCHANGED <<server, shown, outbox, cards, accepted, lost>>

ReadBack(p) ==
    /\ At(p, "readback") /\ Found(p)
    /\ Goes(p, "backup")
    /\ UNCHANGED <<server, content, shown, outbox, cards, accepted, lost>>

\* restic backup has written a snapshot.
Backup(p) ==
    /\ At(p, "backup") /\ Found(p)
    /\ content' = [content EXCEPT ![run[p].url] = IF @ = "proven" THEN @ ELSE "unproven"]
    /\ Goes(p, "verify")
    /\ UNCHANGED <<server, shown, outbox, cards, accepted, lost>>

\* The snapshot was read back, or it could not be; the finished run is recorded.
Verify(p, good) ==
    /\ At(p, "verify") /\ (good => Found(p))
    /\ content' = [content EXCEPT ![run[p].url] = IF good THEN "proven" ELSE @]
    /\ run' = [run EXCEPT ![p].step = "report", ![p].verified = good]
    /\ outbox' = outbox \cup {[url |-> run[p].url, verified |-> good]}
    /\ UNCHANGED <<server, shown, cards, accepted, lost>>

\* The report arrives and is acknowledged, arrives, or does neither.
Send(e, got, acknowledged) ==
    /\ acknowledged => got
    /\ rows' = IF got THEN NoteRun(rows, e) ELSE rows
    /\ outbox' = IF acknowledged THEN outbox \ {e} ELSE outbox

\* A mistake: only the run that filled the bucket lets the old one go.
ReportReleasesOnce(p, got, acknowledged) ==
    /\ At(p, "report")
    /\ Send([url |-> run[p].url, verified |-> run[p].verified], got, acknowledged)
    /\ IF run[p].verified /\ run[p].permitted THEN Goes(p, "release") ELSE Ends(p)
    /\ UNCHANGED <<asked, content, shown, cards, accepted, lost>>

\* What comes after the report, sent or not.
Report(p, got, acknowledged) ==
    /\ At(p, "report")
    /\ Send([url |-> run[p].url, verified |-> run[p].verified], got, acknowledged)
    /\ IF run[p].verified /\ run[p].state = "cutting-over" THEN Goes(p, "release") ELSE Ends(p)
    /\ UNCHANGED <<asked, content, shown, cards, accepted, lost>>

\* The flusher sends what is left, in any order.
Flush(e, acknowledged) ==
    /\ e \in outbox
    /\ Send(e, TRUE, acknowledged)
    /\ UNCHANGED <<asked, content, shown, run, cards, accepted, lost>>

\* The machine says it is finished with the bucket it moved off.
ReleaseOldBucket(p, got) ==
    /\ At(p, "release")
    /\ rows' = IF got THEN OldBucket(rows, run[p].url) ELSE rows
    /\ Ends(p)
    /\ UNCHANGED <<asked, content, shown, outbox, cards, accepted, lost>>

\* The run fails, or its process dies.  No snapshot of it is reported, unless it
\* was recorded before.
GiveUp(p) ==
    /\ run[p].step # "idle"
    /\ Ends(p)
    /\ UNCHANGED <<server, content, shown, outbox, cards, accepted, lost>>

-----------------------------------------------------------------------------
World   == Retire \/ \E b \in Bucket : Offer(b) \/ Empty(b)
Page    == PollState \/ RequestRotation \/ Accept
Card    == PrintCard \/ CardPrinted \/ ConfirmCardPrinted
Flusher == \E e \in outbox, acknowledged \in BOOLEAN : Flush(e, acknowledged)

RunStep(p) ==
    \/ Fetch(p) \/ Open(p) \/ Create(p) \/ ReadBack(p) \/ Backup(p) \/ GiveUp(p)
    \/ \E good \in BOOLEAN : Verify(p, good) \/ ReleaseOldBucket(p, good)
    \/ \E got, acknowledged \in BOOLEAN : Report(p, got, acknowledged)

Next == World \/ Page \/ Card \/ Flusher \/ \E p \in Process : RunStep(p)

\* The scheduler takes one backup after another, and each ends.  Nobody else has to do
\* anything.
Fairness == \A p \in Process : WF_vars(RunStep(p))

Spec == Init /\ [][Next]_vars /\ Fairness

-----------------------------------------------------------------------------
(* Properties.                                                             *)

\* Unless somebody empties a bucket, there is at every moment one that has not been
\* retired and from which a snapshot was read back: the old bucket is let go of only
\* when the new one has proved itself (old-bucket's refusals, adminRetire).
Protected == lost = {} => \E i \in In(rows, State \ {"retired"}) : content[rows[i].url] = "proven"

\* A repository is created only in a bucket somebody accepted, which came with no
\* history, by a run whose fetch found the server without word of any snapshot there;
\* wherever a snapshot is known to be, an empty bucket stays empty and the run fails
\* (openRepository, expectEmpty).
CreatedOnlyWhereSent ==
    [][\A b \in Bucket : content[b] = "absent" /\ content'[b] # "absent" =>
           /\ b \in accepted \ Adopted
           /\ \E p \in Process : run[p].url = b /\ ~run[p].heard]_vars

\* The machine is never sent to a bucket that nobody accepted by its name, whatever
\* was offered while the page was out of date (cutover).
NothingMovesUnasked == rows[Current(rows)].url \in accepted \cup {Home}

\* A request is open only while the machine is in its steady state; otherwise it could
\* never ask again (cutover resets it, adminRetire promotes).
RequestsGetAnswered == asked => ~CuttingOver(rows)

\* The server says a card was issued for the current bucket only if the owner has that
\* bucket's card on paper, or somebody vouched for it with `card --printed`
\* (cardPrinted, card-issued).
IssuedIsOnPaper ==
    CardState(rows) = "issued" => rows[Current(rows)].url \in paper \cup vouched

\* A card that names another bucket cannot mark the current one as covered
\* (machinebus/rotation.go:211, of every way a card is recorded).
CardNamesItsBucket == CardState(rows) = "issued" => rows[Current(rows)].url \in paper

\* When the server says "superseded", and the owner is told that the page he holds opens
\* nothing any more and should be destroyed, there is no bucket in use whose card was
\* recorded as issued (cardState, eumaeusstub/rotation.go:151).
SupersededPaperIsDead ==
    CardState(rows) = "superseded" => \A i \in In(rows, State \ {"retired"}) : ~rows[i].card

\* A machine that is being moved gets there, from wherever the failures, crashes and lost
\* calls of its earlier backups have left it, once they stop: its new bucket gets verified,
\* the server comes to know, and the old one is released (openRepository, releaseOldBucket:
\* "retried after every verified run rather than being remembered as done").
Failure ==
    \E p \in Process :
        \/ GiveUp(p) \/ Verify(p, FALSE) \/ ReleaseOldBucket(p, FALSE)
        \/ Report(p, FALSE, FALSE) \/ Report(p, TRUE, FALSE)

Moving(i) == CuttingOver(rows) /\ Current(rows) = i

MoveCompletes ==
    <>[][~Failure]_vars =>
        \A i \in 1..Cardinality(Bucket) :
            Moving(i) ~> \/ lost # {} \/ ~Moving(i)
                         \/ PreviousTo(rows, i) # 0 /\ rows[PreviousTo(rows, i)].released

-----------------------------------------------------------------------------
(* What all this is for, while one bucket at a time is on offer.            *)

URLs(is) == {rows[i].url : i \in is}

Handover == INSTANCE BucketHandover WITH
    writes <- rows[Current(rows)].url,
    kept   <- URLs(In(rows, State \ {"retired"})),
    gone   <- URLs(In(rows, {"retired"})),
    agreed <- accepted,
    proved <- URLs({i \in DOMAIN rows : rows[i].verified}),
    freed  <- URLs({i \in DOMAIN rows : rows[i].released}),
    moving <- CuttingOver(rows)

\* The owner, the server and the machine hand the machine over from bucket to bucket
\* as BucketHandover has it, whatever is lost, late or out of order on the way.  With
\* two buckets on offer they do not: see NotHandedBack.
ImplementsHandover == Handover!Spec

\* The bucket the machine moves off is an older one ("the newest non-retired row older
\* than the one it is moving onto", eumaeusstub/rotation.go:456), so that the machine is
\* never sent back to a bucket it has said it is finished with.
NotHandedBack == ~rows[Current(rows)].released

=============================================================================
