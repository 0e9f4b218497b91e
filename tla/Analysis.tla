------------------------------ MODULE Analysis ------------------------------
(***************************************************************************)
(* The end of _analyze_class: the reach pass over an extraction, then the  *)
(* payload built from the same objects.                                    *)
(***************************************************************************)
EXTENDS ObjectGraph

CONSTANTS MaxGroupsPerClass, MaxGroups, MaxDepth

VARIABLES pc, queue, mask, lvl, group, reach,
          at, why, stack, cut, shown, place, reason, pending

reaching == <<pc, queue, mask, lvl, group, reach>>
building == <<at, why, stack, cut, shown, place, reason, pending>>
vars == <<graph, reaching, building>>

R == INSTANCE Reach
A == INSTANCE Anatomy

Begin(g) == graph = g /\ R!Idle /\ A!Idle
Init == \E g \in Graphs : Begin(g)

Compute == (R!Start \/ R!Work) /\ UNCHANGED building
Build   == pc = "done" /\ (A!Start \/ A!Work) /\ UNCHANGED reaching

Next == Compute \/ Build
Spec == Init /\ [][Next]_vars
FairSpec == Spec /\ WF_vars(Next)

-----------------------------------------------------------------------------
(* The properties of the two passes.                                        *)
MasksAreReachability == R!MasksAreReachability
ConesLookDown        == R!ConesLookDown
LargestSurvive       == R!LargestSurvive
GroupsAreBounded     == R!GroupsAreBounded
ShownOnce            == A!ShownOnce
CausesAreTrue        == A!CausesAreTrue
CutIsDeep            == A!CutIsDeep
Ends                 == <>(at = "done")
=============================================================================
