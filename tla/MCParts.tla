------------------------------- MODULE MCParts -------------------------------
(***************************************************************************)
(* Five parts of a machine that share no state: its diagnostic reports,    *)
(* the heads it keeps of its disclosure log, the taking over of an old     *)
(* backup, the counting of its folders, and its copy of restic.  A         *)
(* behaviour is one of the five, so that their states are added and not    *)
(* multiplied; the others stay in their initial states.                    *)
(***************************************************************************)
EXTENDS Diagnostics, Disclosure, Adoption, Survey, ResticInstall

VARIABLE about

SomeOffer == <<"documents">>

\* One machine, and one plan, for the parts that do not depend on them.
SomeMachine ==
    /\ disk = [p \in Place |-> "nothing"] /\ script = None /\ restic = FALSE
    /\ AdoptInit

SomePlan == settings = CHOOSE p \in Setting : TRUE

SomeBinary == binary = "none" /\ spare = "none"

Init ==
    /\ DiagInit /\ DiscInit /\ SurveyInit /\ InstallInit
    /\ \/ about \in {"diagnostics", "disclosure"} /\ SomeMachine /\ SomePlan /\ SomeBinary
       \/ about = "adoption" /\ AdoptInit /\ SomePlan /\ SomeBinary
       \/ about = "survey" /\ SomeMachine /\ SomeBinary
       \/ about = "restic" /\ SomeMachine /\ SomePlan

Next ==
    \/ about = "diagnostics" /\ DiagNext
       /\ UNCHANGED <<about, discVars, adoptVars, surveyVars, installVars>>
    \/ about = "disclosure" /\ DiscNext
       /\ UNCHANGED <<about, diagVars, adoptVars, surveyVars, installVars>>
    \/ about = "adoption" /\ AdoptNext
       /\ UNCHANGED <<about, diagVars, discVars, surveyVars, installVars>>
    \/ about = "survey" /\ SurveyNext
       /\ UNCHANGED <<about, diagVars, discVars, adoptVars, installVars>>
    \/ about = "restic" /\ InstallNext
       /\ UNCHANGED <<about, diagVars, discVars, adoptVars, surveyVars>>

vars == <<about, diagVars, discVars, adoptVars, surveyVars, installVars>>

Spec == Init /\ [][Next]_vars /\ DiagFairness
===============================================================================
