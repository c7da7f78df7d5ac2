---------------------------- MODULE FleetLedger ----------------------------
(***************************************************************************)
(* What fleetbus promises (business/domain/fleet/fleetbus/fleetbus.go,     *)
(* the package comment): every backup attempt that got an outcome is told  *)
(* to the fleet dashboard, at least once, eventually, and the machine only *)
(* stops trying once the dashboard has it.  The one exception the code     *)
(* makes is written down as an action of its own, Drop.                    *)
(*                                                                         *)
(* BackupRuns is shown to implement this module.                           *)
(***************************************************************************)
CONSTANTS
    Attempt,    \* every attempt to take a backup, in the machine's lifetime
    Verdict,    \* the outcomes a run with an identity can end with
    Open,       \* an attempt with no outcome (yet, or ever)
    Nameless    \* a failed start that ended before it was given a run UUID

VARIABLES
    ended,      \* ended[a]: how attempt a ended
    known,      \* the attempts whose outcome the dashboard has
    settled     \* the attempts the machine will not speak of again

vars == <<ended, known, settled>>

TypeOK ==
    /\ ended \in [Attempt -> Verdict \cup {Open, Nameless}]
    /\ known \subseteq Attempt
    /\ settled \subseteq Attempt

Init ==
    /\ ended = [a \in Attempt |-> Open]
    /\ known = {}
    /\ settled = {}

\* The machine writes an attempt's outcome, once and for all.
Close(a) ==
    /\ ended[a] = Open
    /\ \E v \in Verdict \cup {Nameless} : ended' = [ended EXCEPT ![a] = v]
    /\ UNCHANGED <<known, settled>>

\* The dashboard learns it.
Hear(a) ==
    /\ ended[a] \in Verdict
    /\ known' = known \cup {a}
    /\ UNCHANGED <<ended, settled>>

\* The machine writes down that the dashboard has it.
Settle(a) ==
    /\ a \in known
    /\ settled' = settled \cup {a}
    /\ UNCHANGED <<ended, known>>

\* The exception: an event the server can never accept is dropped.
Drop(a) ==
    /\ ended[a] = Nameless
    /\ settled' = settled \cup {a}
    /\ UNCHANGED <<ended, known>>

Next == \E a \in Attempt : Close(a) \/ Hear(a) \/ Settle(a) \/ Drop(a)

Fairness ==
    \A a \in Attempt : /\ WF_vars(Hear(a))
                       /\ WF_vars(Settle(a) \/ Drop(a))

\* What may happen, and what must.
Safety == Init /\ [][Next]_vars
Spec   == Safety /\ Fairness
=============================================================================
