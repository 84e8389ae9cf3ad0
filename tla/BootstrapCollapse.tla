-------------------------- MODULE BootstrapCollapse --------------------------
(***************************************************************************)
(* The accordions of the pages: bootstrap's collapse.  A click on the      *)
(* heading of a group opens it and closes the one that was open, or closes *)
(* it.  Both take a transition, whose end finishes the work; clicks that   *)
(* come meanwhile are ignored, if they concern a group that moves.         *)
(*                                                                         *)
(* No page opens a group in its text: an open group has been opened by a   *)
(* click, and has its Collapse object.                                     *)
(***************************************************************************)
EXTENDS Integers, FiniteSets

CONSTANTS
    Groups,         \* the groups of an accordion
    MaxClicks       \* bound: clicks

VARIABLES
    opened,         \* the groups with the class in
    transitioning,  \* those whose Collapse object says that it moves
    ending,         \* for each, what it does at the end of the transition, if anything
    height,         \* "none", "auto", or "fixed" to what the text takes
    smooth,         \* the browser knows transitions
    nClicks

collapseVars == <<opened, transitioning, ending, height, smooth, nClicks>>

Active == opened    \* > .accordion-group > .in

\* transition: the work is finished at the end of the transition, or at once.
Transition(moved, event) ==
    /\ transitioning' = IF smooth THEN transitioning \cup moved ELSE transitioning
    /\ ending' = IF smooth THEN [g \in Groups |-> IF g \in moved THEN event[g] ELSE ending[g]] ELSE ending

\* Mutated: a group that is opening may be left open.
OpenGroupAnyway(g) ==
    LET hidden == Active \ transitioning
    IN  /\ g \notin transitioning \cup opened
        /\ opened' = (opened \cup {g}) \ hidden
        /\ Transition({g} \cup hidden, [other \in Groups |-> IF other = g THEN "show" ELSE "hide"])
        /\ height' = [other \in Groups |-> IF other \in hidden THEN "none"
                                           ELSE IF other # g THEN height[other]
                                           ELSE IF smooth THEN "fixed" ELSE "auto"]

\* show, which hides the active group unless that one moves
OpenGroup(g) ==
    /\ g \notin transitioning \cup opened
    /\ Active \cap transitioning = {}
    /\ opened' = {g}
    /\ Transition({g} \cup Active, [other \in Groups |-> IF other = g THEN "show" ELSE "hide"])
    /\ height' = [other \in Groups |-> IF other \in Active THEN "none"
                                       ELSE IF other # g THEN height[other]
                                       ELSE IF smooth THEN "fixed" ELSE "auto"]

\* hide
CloseGroup(g) ==
    /\ g \in opened \ transitioning
    /\ opened' = opened \ {g}
    /\ Transition({g}, [other \in Groups |-> "hide"])
    /\ height' = [height EXCEPT ![g] = "none"]

\* toggle, by a click on the heading of a group
ClickHeading(g) ==
    /\ nClicks < MaxClicks /\ nClicks' = nClicks + 1
    /\ OpenGroup(g) \/ CloseGroup(g)
    /\ UNCHANGED smooth

\* The end of the transition of a group, or of something in it: complete
GroupMoved(g) ==
    /\ ending[g] # "nothing"
    /\ transitioning' = transitioning \ {g}
    /\ ending' = [ending EXCEPT ![g] = "nothing"]
    /\ height' = IF ending[g] = "show" THEN [height EXCEPT ![g] = "auto"] ELSE height
    /\ UNCHANGED <<opened, smooth, nClicks>>

CollapseInit ==
    /\ opened = {} /\ transitioning = {} /\ ending = [g \in Groups |-> "nothing"]
    /\ height = [g \in Groups |-> "none"]
    /\ smooth \in BOOLEAN /\ nClicks = 0

CollapseNext == \E g \in Groups : ClickHeading(g) \/ GroupMoved(g)

-----------------------------------------------------------------------------
(* Properties. *)

\* However the clicks on the headings come while groups are opening and closing, at most one group of an
\* accordion is open, and a group that does not move has the height of its text if it is open and none if
\* it is not: a click never catches a group in the middle of another's work.
OneGroupOpen ==
    /\ Cardinality(opened) =< 1
    /\ \A g \in Groups \ transitioning : height[g] = IF g \in opened THEN "auto" ELSE "none"
=============================================================================
