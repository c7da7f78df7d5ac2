--------------------------- MODULE BucketHandover ---------------------------
(***************************************************************************)
(* What moving a machine to a fresh bucket promises, between a machine and *)
(* the people who own and run it, when one bucket at a time is on offer:   *)
(* it writes to one bucket, which changes only to one its owner has named; *)
(* no bucket is let go of but the one it has moved off, after it has said  *)
(* so, and it says so when a backup of the new one was read back; what is  *)
(* let go of never returns.                                                *)
(*                                                                         *)
(* Rotation is shown to implement this module.                             *)
(***************************************************************************)
CONSTANTS
    Bucket,     \* the buckets there will ever be
    Home        \* the one the machine is enrolled with

VARIABLES
    writes,     \* the bucket the machine writes to
    kept,       \* the buckets on offer or in use
    gone,       \* the buckets let go of
    agreed,     \* the buckets the owner has accepted by name
    proved,     \* the buckets known to have been read back
    freed,      \* the buckets the machine has said it is finished with
    asked,      \* the owner waits for an offer
    moving      \* the machine fills the bucket it writes to

vars == <<writes, kept, gone, agreed, proved, freed, asked, moving>>

Init ==
    /\ writes = Home /\ kept = {Home} /\ gone = {}
    /\ agreed = {} /\ proved = {} /\ freed = {}
    /\ ~asked /\ ~moving

\* A bucket never seen before is offered.
Offer(b) ==
    /\ b \notin kept \cup gone
    /\ kept' = kept \cup {b}
    /\ UNCHANGED <<writes, gone, agreed, proved, freed, asked, moving>>

\* The owner asks for one, when there is none.
Ask ==
    /\ kept = {writes}
    /\ asked' = TRUE
    /\ UNCHANGED <<writes, kept, gone, agreed, proved, freed, moving>>

\* The owner says yes, and nobody hears it; or is told that it is too late.
Agree(b) ==
    /\ agreed' = agreed \cup {b}
    /\ UNCHANGED <<writes, kept, gone, proved, freed, asked, moving>>

\* The owner says yes to what is on offer, which answers the request.
Accept(b) ==
    /\ kept = {writes, b} /\ b # writes /\ ~moving
    /\ agreed' = agreed \cup {b}
    /\ writes' = b /\ moving' = TRUE /\ asked' = FALSE
    /\ UNCHANGED <<kept, gone, proved, freed>>

\* Word arrives that a backup was read back, however late.
Prove(b) ==
    /\ b \in kept \cup gone
    /\ proved' = proved \cup {b}
    /\ UNCHANGED <<writes, kept, gone, agreed, freed, asked, moving>>

\* The machine is finished with the bucket it has moved off.
Free(b) ==
    /\ moving /\ writes \in proved
    /\ b # writes /\ kept = {writes, b}
    /\ freed' = freed \cup {b}
    /\ UNCHANGED <<writes, kept, gone, agreed, proved, asked, moving>>

\* A person lets go of it, and the move is over.
LetGo(b) ==
    /\ moving /\ writes \in proved
    /\ b \in freed /\ b # writes /\ kept = {writes, b}
    /\ kept' = {writes} /\ gone' = gone \cup {b}
    /\ moving' = FALSE
    /\ UNCHANGED <<writes, agreed, proved, freed, asked>>

Next ==
    \/ Ask
    \/ \E b \in Bucket :
          Offer(b) \/ Agree(b) \/ Accept(b) \/ Prove(b) \/ Free(b) \/ LetGo(b)

Spec == Init /\ [][Next]_vars
=============================================================================
