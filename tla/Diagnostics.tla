------------------------------ MODULE Diagnostics -----------------------------
(***************************************************************************)
(* The reports a machine sends about itself failing: diagbus, and the      *)
(* directory of files it keeps them in, diagfile.  A process on its way    *)
(* out writes one; the daemon's flusher, a foreground run or the report    *)
(* command sends what waits, oldest first.  The directory has no lock, so  *)
(* every file operation of every process is a step of its own.             *)
(*                                                                         *)
(* A report is the number of the moment it tells of, which is how its file *)
(* is named: lower is older.                                               *)
(***************************************************************************)
EXTENDS Integers, FiniteSets, FiniteSetsExt

CONSTANTS Process,      \* processes that share the directory
          MaxReports,   \* bound: how many failures there are to tell of
          Keep,         \* how many files a trim leaves
          MaxFaults     \* bound: lost calls, failed file operations, spoilt files, deaths

ASSUME DiagnosticsAssumption ==
    MaxReports \in Nat /\ Keep \in Nat \ {0} /\ MaxFaults \in Nat

VARIABLES files,        \* the names in the directory
          old,          \* reports of up to this one are past MaxAge
          at,           \* Process -> what it is doing, and with which files
          last,         \* the moment of the newest failure
          spoilt,       \* Report -> what is wrong with its file
          faults

(* What the properties speak of: which reports were renamed into place,    *)
(* which the server has, or has refused as malformed, and how many files   *)
(* were left behind by a trim that was skipped, cut short or could not     *)
(* remove.                                                                 *)
VARIABLES stored, heard, untrimmed

ghost == <<stored, heard, untrimmed>>
diagVars == <<files, old, at, last, spoilt, faults, ghost>>

Report == 1..MaxReports
AtRest == [step |-> "idle"]

DiagInit ==
    /\ files = {} /\ old = 0 /\ last = 0 /\ faults = 0
    /\ spoilt = [r \in Report |-> "no"]
    /\ at = [p \in Process |-> AtRest]
    /\ stored = {} /\ heard = {} /\ untrimmed = 0

Becomes(p, state) == at' = [at EXCEPT ![p] = state]
Fault == faults < MaxFaults /\ faults' = faults + 1

(***************************************************************************)
(* Recording: Business.Record, Store.Put and its trim.                     *)
(***************************************************************************)
(* The report is written under a name no listing returns. *)
Record(p) ==
    /\ at[p].step = "idle"
    /\ last < MaxReports
    /\ last' = last + 1
    /\ Becomes(p, [step |-> "written", report |-> last'])
    /\ UNCHANGED <<files, old, spoilt, faults, ghost>>

Rename(p) ==
    /\ at[p].step = "written"
    /\ files' = files \cup {at[p].report}
    /\ stored' = stored \cup {at[p].report}
    /\ Becomes(p, [step |-> "trim"])
    /\ UNCHANGED <<old, last, spoilt, faults, heard, untrimmed>>

(* A mutant: the oldest are the ones kept. *)
SurplusNewest(names) == {n \in names : Cardinality({m \in names : m < n}) >= Keep}

(* All but the newest Keep of the names a listing returned. *)
Surplus(names) == {n \in names : Cardinality({m \in names : m > n}) >= Keep}

TrimList(p) ==
    /\ at[p].step = "trim"
    /\ Becomes(p, [step |-> "trimming", remove |-> Surplus(files)])
    /\ UNCHANGED <<files, old, last, spoilt, faults, ghost>>

TrimRemove(p) ==
    /\ at[p].step = "trimming"
    /\ \/ /\ at[p].remove # {}
          /\ files' = files \ {Min(at[p].remove)}
          /\ Becomes(p, [at[p] EXCEPT !.remove = @ \ {Min(@)}])
       \/ /\ at[p].remove = {}
          /\ Becomes(p, AtRest)
          /\ UNCHANGED files
    /\ UNCHANGED <<old, last, spoilt, faults, ghost>>

(* Without a listing there is no trim, and a file that cannot be removed   *)
(* stays; neither is anybody's business.                                   *)
TrimFails(p) ==
    /\ Fault
    /\ untrimmed' = untrimmed + 1
    /\ \/ at[p].step = "trim" /\ Becomes(p, AtRest)
       \/ /\ at[p].step = "trimming" /\ at[p].remove # {}
          /\ Becomes(p, [at[p] EXCEPT !.remove = @ \ {Min(@)}])
    /\ UNCHANGED <<files, old, last, spoilt, stored, heard>>

(***************************************************************************)
(* Sending: Business.Flush over Store.List and Store.Remove.               *)
(***************************************************************************)
FlushLists(p) ==
    /\ at[p].step = "idle"
    /\ files # {}
    /\ Becomes(p, [step |-> "reading", names |-> files, batch |-> {}])
    /\ UNCHANGED <<files, old, last, spoilt, faults, ghost>>

(* Each name is read in turn: one that has gone meanwhile is passed over;  *)
(* one that does not parse, or is too old, is deleted; one that cannot be  *)
(* read ends the flush, and what has been read is not sent.                *)
Removed(n) == spoilt[n] = "garbled" \/ n <= old

FlushReads(p) ==
    /\ at[p].step = "reading"
    /\ at[p].names # {}
    /\ LET n == Min(at[p].names) IN
          IF n \in files /\ spoilt[n] = "unreadable"
          THEN Becomes(p, AtRest) /\ UNCHANGED files
          ELSE /\ Becomes(p, [at[p] EXCEPT !.names = @ \ {n},
                                !.batch = IF n \in files /\ ~Removed(n) THEN @ \cup {n} ELSE @])
               /\ files' = IF Removed(n) THEN files \ {n} ELSE files
    /\ UNCHANGED <<old, last, spoilt, faults, ghost>>

(* It should be deleted and cannot be: it is passed over, this time.       *)
ReadRemoveFails(p) ==
    /\ at[p].step = "reading"
    /\ at[p].names # {}
    /\ Min(at[p].names) \in files
    /\ Removed(Min(at[p].names)) /\ spoilt[Min(at[p].names)] # "unreadable"
    /\ Fault
    /\ Becomes(p, [at[p] EXCEPT !.names = @ \ {Min(@)}])
    /\ UNCHANGED <<files, old, last, spoilt, ghost>>

FlushSends(p) ==
    /\ at[p].step = "reading"
    /\ at[p].names = {}
    /\ Becomes(p, IF at[p].batch = {} THEN AtRest
                  ELSE [step |-> "sending", batch |-> at[p].batch])
    /\ UNCHANGED <<files, old, last, spoilt, faults, ghost>>

(* A call that cannot be answered ends the flush, heard or not. *)
SendFails(p) ==
    /\ at[p].step = "sending"
    /\ Fault
    /\ heard' \in {heard, heard \cup {Min(at[p].batch)}}
    /\ Becomes(p, AtRest)
    /\ UNCHANGED <<files, old, last, spoilt, stored, untrimmed>>

(* A mutant: a refused report stays, and ends the flush. *)
RefusedStays(p, accepted) ==
    IF accepted THEN [step |-> "remove", batch |-> at[p].batch] ELSE AtRest

(* Accepted, or refused as malformed: either way it is to be removed. *)
Answered(p, accepted) == [step |-> "remove", batch |-> at[p].batch]

Sent(p) ==
    /\ at[p].step = "sending"
    /\ spoilt[Min(at[p].batch)] # "forbidden"
    /\ heard' = heard \cup {Min(at[p].batch)}
    /\ \E accepted \in BOOLEAN : Becomes(p, Answered(p, accepted))
    /\ UNCHANGED <<files, old, last, spoilt, faults, stored, untrimmed>>

(* Any other refusal, for good as it may be, is an error like another: the *)
(* flush ends with the report where it was, ahead of the rest.             *)
Forbidden(p) ==
    /\ at[p].step = "sending"
    /\ spoilt[Min(at[p].batch)] = "forbidden"
    /\ Becomes(p, AtRest)
    /\ UNCHANGED <<files, old, last, spoilt, faults, ghost>>

(* A file already gone is as good as removed. *)
RemoveSent(p) ==
    /\ at[p].step = "remove"
    /\ files' = files \ {Min(at[p].batch)}
    /\ LET rest == at[p].batch \ {Min(at[p].batch)} IN
          Becomes(p, IF rest = {} THEN AtRest ELSE [step |-> "sending", batch |-> rest])
    /\ UNCHANGED <<old, last, spoilt, faults, ghost>>

(* It was sent and could not be removed: it will be sent again. *)
RemoveFails(p) ==
    /\ at[p].step = "remove"
    /\ Fault
    /\ Becomes(p, AtRest)
    /\ UNCHANGED <<files, old, last, spoilt, ghost>>

(***************************************************************************)
(* A process dies, a file is spoilt, and time passes.                      *)
(***************************************************************************)
(* One that cannot write or rename its report loses it as if it had died.  *)
Dies(p) ==
    /\ at[p] # AtRest
    /\ Fault
    /\ untrimmed' = untrimmed + IF at[p].step \in {"trim", "trimming"} THEN 1 ELSE 0
    /\ Becomes(p, AtRest)
    /\ UNCHANGED <<files, old, last, spoilt, stored, heard>>

(* A file that was not on the disk yet when the power went does not parse; *)
(* one that another account wrote, or on a bad sector, cannot be read; and *)
(* one that is too large, or comes from a machine that is no longer known, *)
(* will never be taken by the server.                                      *)
Spoils ==
    /\ Fault
    /\ \E r \in files, how \in {"garbled", "unreadable", "forbidden"} :
          /\ spoilt[r] = "no"
          /\ spoilt' = [spoilt EXCEPT ![r] = how]
    /\ UNCHANGED <<files, old, at, last, ghost>>

Ages ==
    /\ old < last
    /\ old' = old + 1
    /\ UNCHANGED <<files, at, last, spoilt, faults, ghost>>

Writes(p) == Rename(p) \/ TrimList(p) \/ TrimRemove(p)
Flushes(p) == FlushLists(p) \/ FlushReads(p) \/ FlushSends(p) \/ Sent(p) \/ Forbidden(p)
                  \/ RemoveSent(p)
Failures(p) == TrimFails(p) \/ ReadRemoveFails(p) \/ SendFails(p) \/ RemoveFails(p) \/ Dies(p)

DiagNext ==
    \/ \E p \in Process : Record(p) \/ Writes(p) \/ Flushes(p) \/ Failures(p)
    \/ Spoils
    \/ Ages

(* A process that runs goes on, and there is always another flush: the     *)
(* daemon's flusher is a ticker, and a command sends what it finds.        *)
DiagFairness == \A p \in Process : WF_diagVars(Writes(p) \/ Flushes(p))

DiagSpec == DiagInit /\ [][DiagNext]_diagVars /\ DiagFairness

(***************************************************************************)
(* Properties.                                                             *)
(***************************************************************************)
Finishing == {p \in Process : at[p].step \in {"trim", "trimming"}}

(* A report that is in place leaves the directory only because the server  *)
(* has it or refuses it as malformed, because it is a month old or its     *)
(* file does not parse, or because Keep newer ones were put in place after *)
(* it: not by two trims removing on two listings, nor by a flush that      *)
(* works from a listing made before.  And a machine that crashes in a loop *)
(* does not fill its disk: there are Keep reports, one more for each       *)
(* process that is between storing its own and the end of its trim, and    *)
(* one for each trim that was skipped or each removal of one that failed.  *)
NothingIsLost ==
    /\ \A r \in stored \ files :
          \/ r \in heard
          \/ r <= old \/ spoilt[r] = "garbled"
          \/ Cardinality({s \in stored : s > r}) >= Keep
    /\ Cardinality(files) <= Keep + Cardinality(Finishing) + untrimmed

(* What holds a queue up for good: a file that cannot be read, wherever it *)
(* is in the queue and however old, until Keep newer ones push it out; and *)
(* at its head one the server will never take, until it is a month old.    *)
Blocked ==
    \/ \E r \in files : spoilt[r] = "unreadable"
    \/ files # {} /\ spoilt[Min(files)] = "forbidden" /\ Min(files) > old

(* Once machines stop failing to reach the server nothing is left waiting, *)
(* unless the queue is blocked: a malformed report, one that does not      *)
(* parse and one that is too old do not hold up those behind them.         *)
Drains == <>[](files = {} \/ Blocked)
===============================================================================
