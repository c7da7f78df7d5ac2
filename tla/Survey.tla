-------------------------------- MODULE Survey --------------------------------
(***************************************************************************)
(* What the set-up page says a backup would come to: surveybus, and the    *)
(* requests that ask it.  The page has no script.  Every rendering of it   *)
(* asks for the sizes to be counted, if they have not been under these     *)
(* settings, and it reloads itself as long as something is being counted.  *)
(* One walk of the disk at a time serves all pages.                        *)
(***************************************************************************)
EXTENDS Naturals, Sequences, SequencesExt

CONSTANTS Tab,          \* requests for the set-up page served at once
          Offered,      \* the folders this machine offers, in their order
          Custom,       \* the choice that is somebody's own list
          Patterns,     \* what may be left out
          Junk,         \* the usual junk, all of which the page's box leaves out
          Lists,        \* lists of folders that may be saved
          NoList,
          MaxSaves      \* bound: how often the settings are changed

ASSUME SurveyAssumption ==
    /\ Offered \in Seq(STRING) /\ Custom \notin Range(Offered)
    /\ Junk \subseteq Patterns
    /\ NoList \notin Lists
    /\ MaxSaves \in Nat

VARIABLES settings,     \* what the plan says
          saves,
          sizes,        \* choice -> its size: how far, and under which shape
          walk,         \* the walk in progress: what is left of it
          upload,       \* how far the speed test is; it may have ended without a figure
          tab           \* Tab -> the request, and the page it ended in

surveyVars == <<settings, saves, sizes, walk, upload, tab>>

Style == Range(Offered) \cup {Custom}

(* The plan, of which a page was answered if it is confirmed or has a style. *)
Setting == [answered : BOOLEAN, excludes : SUBSET Patterns, list : Lists \cup {NoList}]

(* What folders are counted under. *)
Counting == [excludes : SUBSET Patterns, list : Lists \cup {NoList}]
AsItStands(plan) == [excludes |-> plan.excludes, list |-> plan.list]

(* What the page shows: until somebody answers, the box for the junk ticked. *)
Asked(plan) ==
    [AsItStands(plan) EXCEPT !.excludes = IF plan.answered THEN @ ELSE @ \cup Junk]

Unmeasured == [state |-> "unmeasured", shape |-> <<>>]
Resting == [walking |-> FALSE, todo |-> {}]
Blank == [at |-> "blank"]

(* A mutant: the folders only. *)
ShapeOfFolders(c, s) == IF c = Custom THEN <<s.list>> ELSE <<>>

(* What a size depends on.  Only one choice's folders can change. *)
ShapeOf(c, s) == IF c = Custom THEN <<s.excludes, s.list>> ELSE <<s.excludes>>

(* Somebody's own list is counted before what is offered. *)
Order(s) == IF s.list = NoList THEN Offered ELSE <<Custom>> \o Offered

SurveyInit ==
    /\ settings \in Setting /\ saves = 0
    /\ sizes = [c \in Style |-> Unmeasured]
    /\ walk = Resting
    /\ upload = "unmeasured"
    /\ tab = [t \in Tab |-> Blank]

Sizing == walk.walking

(***************************************************************************)
(* Business.Measure, whose part under the lock is one step.                *)
(***************************************************************************)
Todo(s) == {c \in Range(Order(s)) : sizes[c].shape # ShapeOf(c, s)}

Starts(s) == ~Sizing /\ Todo(s) # {}

Measured(s) ==
    IF Starts(s)
    THEN /\ walk' = [walking |-> TRUE, todo |-> Todo(s), under |-> s]
         /\ sizes' = [c \in Style |->
                IF c \in Todo(s)
                THEN [state |-> "measuring", shape |-> ShapeOf(c, s)]
                ELSE sizes[c]]
    ELSE UNCHANGED <<walk, sizes>>

(* What the others, being served meanwhile, will find instead of what they *)
(* asked for.                                                              *)
Overtaken(others) ==
    [t \in Tab |-> IF t \in others /\ tab[t].at = "render"
                   THEN [tab[t] EXCEPT !.overtaken = TRUE] ELSE tab[t]]

OthersThan(t, s) == IF Starts(s) THEN {u \in Tab \ {t} : tab[u].at = "render" /\ tab[u].read # s} ELSE {}

(***************************************************************************)
(* The set-up page.                                                        *)
(***************************************************************************)
Reads(t) ==
    /\ tab[t].at \in {"blank", "shown"}
    /\ tab' = [tab EXCEPT ![t] = [at |-> "measure", read |-> Asked(settings)]]
    /\ UNCHANGED <<settings, saves, sizes, walk, upload>>

(* The speed is tested once without being asked for. *)
Measures(t) ==
    /\ tab[t].at = "measure"
    /\ LET s == tab[t].read IN
          /\ Measured(s)
          /\ tab' = [Overtaken(OthersThan(t, s)) EXCEPT ![t] =
                [at |-> "render", read |-> s, overtaken |-> Sizing /\ walk.under # s]]
    /\ upload' = IF upload = "unmeasured" THEN "measuring" ELSE upload
    /\ UNCHANGED <<settings, saves>>

(* The page takes the figures one by one; what could come between them is   *)
(* either an end of counting, or sets "overtaken".                         *)
Measuring(figures) == \E c \in Style : figures[c].state = "measuring"

Renders(t) ==
    /\ tab[t].at = "render"
    /\ tab' = [tab EXCEPT ![t] =
          [at |-> "shown", read |-> @.read, overtaken |-> @.overtaken, figures |-> sizes,
           refresh |-> upload = "measuring" \/ Measuring(sizes), problem |-> FALSE]]
    /\ UNCHANGED <<settings, saves, sizes, walk, upload>>

(***************************************************************************)
(* Saving, by which the page is answered.  What was chosen is folded into  *)
(* the plan, and stored if all of it can be used.                          *)
(***************************************************************************)
Stores(plan) ==
    /\ saves < MaxSaves /\ plan.answered /\ plan.list # NoList
    /\ saves' = saves + 1
    /\ settings' = plan

Saves(t) ==
    /\ tab[t].at = "shown"
    /\ \E plan \in Setting : Stores(plan)
    /\ tab' = [tab EXCEPT ![t] = Blank]
    /\ UNCHANGED <<sizes, walk, upload>>

(* The folding may stop at the folders, before the rest. *)
Folded(plan) == plan.answered \/ plan = [settings EXCEPT !.list = plan.list]

(* A refused save is answered with a page too: what was chosen, beside the *)
(* figures there are.  It asks for no count and does not reload itself, so *)
(* that nobody's typing is thrown away.  If it was the confirming that     *)
(* failed, the plan is stored.                                             *)
Refused(t) ==
    /\ tab[t].at = "shown"
    /\ \E plan \in Setting :
          /\ Folded(plan)
          /\ tab' = [tab EXCEPT ![t] =
                [at |-> "shown", read |-> Asked(plan), overtaken |-> FALSE, figures |-> sizes,
                 refresh |-> FALSE, problem |-> TRUE]]
          /\ Stores(plan) \/ UNCHANGED <<settings, saves>>
    /\ UNCHANGED <<sizes, walk, upload>>

RetestSpeed ==
    /\ upload # "measuring"
    /\ upload' = "measuring"
    /\ UNCHANGED <<settings, saves, sizes, walk, tab>>

(* "Count again" does not stop a walk.  It forgets, and then measures under *)
(* the plan as it stands, junk or no junk.                                 *)
Remeasure(t) ==
    /\ tab[t].at = "shown"
    /\ sizes' = IF Sizing THEN sizes ELSE [c \in Style |-> Unmeasured]
    /\ tab' = [Overtaken(IF Sizing THEN {} ELSE Tab) EXCEPT ![t] =
                  [at |-> "recount", read |-> AsItStands(settings)]]
    /\ UNCHANGED <<settings, saves, walk, upload>>

Recounts(t) ==
    /\ tab[t].at = "recount"
    /\ Measured(tab[t].read)
    /\ tab' = [Overtaken(OthersThan(t, tab[t].read)) EXCEPT ![t] = Blank]
    /\ UNCHANGED <<settings, saves, upload>>

(***************************************************************************)
(* The goroutines.                                                         *)
(***************************************************************************)
(* One choice after another, in the order of the page. *)
WalkFinishes ==
    /\ Sizing
    /\ LET wanted == Order(walk.under) IN
       \E i \in DOMAIN wanted :
          /\ wanted[i] \in walk.todo
          /\ \A j \in 1..(i - 1) : wanted[j] \notin walk.todo
          /\ sizes' = [sizes EXCEPT ![wanted[i]] =
                [state |-> "measured", shape |-> ShapeOf(wanted[i], walk.under)]]
          /\ walk' = [walk EXCEPT !.todo = @ \ {wanted[i]}]
    /\ UNCHANGED <<settings, saves, upload, tab>>

(* The walk is over some time before it says so. *)
WalkEnds ==
    /\ Sizing /\ walk.todo = {}
    /\ walk' = Resting
    /\ UNCHANGED <<settings, saves, sizes, upload, tab>>

ProbeEnds ==
    /\ upload = "measuring"
    /\ upload' = "ended"
    /\ UNCHANGED <<settings, saves, sizes, walk, tab>>

SurveyNext ==
    \/ \E t \in Tab : Reads(t) \/ Measures(t) \/ Renders(t) \/ Remeasure(t) \/ Recounts(t)
    \/ \E t \in Tab : Saves(t) \/ Refused(t)
    \/ RetestSpeed
    \/ WalkFinishes \/ WalkEnds \/ ProbeEnds

SurveySpec == SurveyInit /\ [][SurveyNext]_surveyVars

(***************************************************************************)
(* Properties.                                                             *)
(***************************************************************************)
(* A page that was asked for, and has stopped reloading itself, shows of   *)
(* every choice on it a finished count made under the settings it shows;   *)
(* nobody decides what to back up by a figure that is for something else   *)
(* and will not change.  Except where it was overtaken while it was being  *)
(* served: a walk under other settings was in progress or began (of "Count *)
(* again" too, which asks for others than the page as long as nobody has   *)
(* answered it), or the figures were forgotten.                            *)
StillPageIsRight ==
    \A t \in Tab :
        tab[t].at = "shown" /\ ~tab[t].refresh /\ ~tab[t].overtaken /\ ~tab[t].problem =>
            \A c \in Range(Order(tab[t].read)) :
                tab[t].figures[c] = [state |-> "measured", shape |-> ShapeOf(c, tab[t].read)]

(* The same of every page, the answer to a refused save too: whoever ticks *)
(* a box is shown what that did, and not the old number.  The comment of   *)
(* effectiveExcludes says so of this page.                                 *)
BoxAndFigureAgree ==
    \A t \in Tab :
        tab[t].at = "shown" /\ ~tab[t].refresh /\ ~tab[t].overtaken =>
            \A c \in Range(Order(tab[t].read)) :
                tab[t].figures[c].state = "measured" =>
                    tab[t].figures[c].shape = ShapeOf(c, tab[t].read)
===============================================================================
