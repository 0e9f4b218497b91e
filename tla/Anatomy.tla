------------------------------ MODULE Anatomy ------------------------------
(***************************************************************************)
(* _anatomy_build of mat/payloads.py over one extraction: the aggregating  *)
(* walk from the sampled instances down to a depth limit, and the forest   *)
(* of what it did not show, grouped by why.  Aggregates are told apart by  *)
(* the group they are in; what is counted is which objects they show.      *)
(***************************************************************************)
EXTENDS ObjectGraph, SequencesExt

CONSTANT MaxDepth

VARIABLES
  at,       \* the loop: "idle", "walk", "classify", "next", "done"
  why,      \* the group being filled: "tree" or a cause
  stack,    \* <<object, depth>>, the last one is popped
  cut,      \* depthcut of the current walk
  shown,    \* how often an object has been counted
  place,    \* the group it was counted in
  reason,   \* causes of the leftover objects
  pending   \* causes whose group is to come

avars == <<graph, at, why, stack, cut, shown, place, reason, pending>>

Causes == {"depth", "slots", "outside", "cycle"}

Idle ==
  /\ at = "idle" /\ why = "tree" /\ stack = <<>> /\ cut = {}
  /\ shown = [o \in Objects |-> 0] /\ place = [o \in Objects |-> "none"]
  /\ reason = [o \in Objects |-> "none"] /\ pending = {}

Visited  == {o \in Objects : shown[o] > 0}
Leftover == Objects \ Visited

(* Objects counted in a group, and pushed at a depth. *)
Count(objs) ==
  /\ shown' = [o \in Objects |-> shown[o] + IF o \in objs THEN 1 ELSE 0]
  /\ place' = [o \in Objects |-> IF o \in objs THEN why' ELSE place[o]]
Frames(seq, depth) == [i \in DOMAIN seq |-> <<seq[i], depth>>]

Start ==
  /\ at = "idle" /\ at' = "walk" /\ why' = "tree"
  /\ Count(Roots) /\ stack' = Frames(graph.roots, 0)
  /\ UNCHANGED <<graph, cut, reason, pending>>

(* Mutant of Unseen: an object is shown under each of its holders. *)
UnseenBelow(o) == Succ(o) \ {o}
Unseen(o) == Succ(o) \ Visited

(* _agg_walk: the last object pushed is expanded, or cut at the limit. *)
Walk ==
  /\ at = "walk" /\ stack # <<>>
  /\ LET o == Last(stack)[1]
         depth == Last(stack)[2]
         below == Front(stack)
     IN IF depth >= MaxDepth
          THEN /\ cut' = IF Succ(o) # {} THEN cut \union {o} ELSE cut
               /\ stack' = below /\ UNCHANGED <<shown, place, why>>
          ELSE /\ UNCHANGED <<cut, why>> /\ Count(Unseen(o))
               /\ \E order \in SetToSeqs(Unseen(o)) :
                    stack' = below \o Frames(order, depth + 1)
  /\ UNCHANGED <<graph, at, reason, pending>>

(* Mutant of Beyond: what a cut object leads to is not told apart. *)
BeyondNothing == {}

Beyond == Leftover \intersect UNION {Succ(o) : o \in cut}

HasParent == Leftover \intersect UNION {Succ(o) : o \in Leftover}

(* Nothing in the set holds them. *)
Orphans == Leftover \ (Beyond \union HasParent)

(* The causes of what the tree does not show. *)
Classify ==
  /\ at = "walk" /\ stack = <<>> /\ why = "tree"
  /\ IF Leftover = {} THEN at' = "done" /\ UNCHANGED <<reason, pending>>
     ELSE /\ at' = "next"
          /\ reason' = [o \in Objects |->
               CASE o \in Beyond -> "depth"
                 [] o \in Orphans /\ graph.cls[o] \in graph.capped -> "slots"
                 [] o \in Orphans /\ graph.cls[o] \notin graph.capped -> "outside"
                 [] OTHER -> "none"]
          /\ pending' = {reason'[o] : o \in Leftover} \ {"none"}
  /\ UNCHANGED <<graph, why, stack, cut, shown, place>>

Seed(objs) ==
  /\ at' = "walk" /\ cut' = {} /\ Count(objs)
  /\ \E order \in SetToSeqs(objs) : stack' = Frames(order, 0)

(* groups.popitem(): the depth limit's group was made first. *)
NextGroup ==
  /\ at = "next" /\ pending # {}
  /\ \E w \in pending :
       /\ w = "depth" => pending = {"depth"}
       /\ why' = w /\ pending' = pending \ {w}
       /\ Seed({o \in Leftover : reason[o] = w})
  /\ UNCHANGED <<graph, reason>>

(* Clusters without an entry: any member is the seed. *)
NextCluster ==
  /\ at = "next" /\ pending = {}
  /\ IF Leftover = {} THEN at' = "done" /\ UNCHANGED <<why, cut, shown, place, stack>>
     ELSE /\ why' = "cycle"
          /\ \E o \in Leftover : Seed({o})
  /\ UNCHANGED <<graph, reason, pending>>

(* What the walk of a group has cut seeds the same group again. *)
Reseed ==
  /\ at = "walk" /\ stack = <<>> /\ why # "tree" /\ UNCHANGED why
  /\ IF Beyond = {} THEN at' = "next" /\ UNCHANGED <<cut, shown, place, stack>>
     ELSE Seed(Beyond)
  /\ UNCHANGED <<graph, reason, pending>>

Work == Walk \/ Classify \/ NextGroup \/ NextCluster \/ Reseed
Next == Start \/ Work

-----------------------------------------------------------------------------
(* "Each object is shown once": the tree and the groups of what it leaves   *)
(* out together count every object of the set, and none twice, whatever     *)
(* cycles, cut branches and lost holders there are; the sizes the payload   *)
(* reports add up to the set.                                               *)
ShownOnce ==
  /\ \A o \in Objects : shown[o] <= 1
  /\ at = "done" => \A o \in Objects : shown[o] = 1

(* A cause that is named is the cause: the tree has only what the sampled   *)
(* instances reach within the limit, what is beyond the limit is reached    *)
(* from them and in no cluster of its own, and an object whose holder is    *)
(* said to be lost has no holder in the set.                                *)
CausesAreTrue ==
  \A o \in Objects :
    /\ place[o] = "tree" => o \in Within(Roots, MaxDepth)
    /\ reason[o] = "depth" => o \in Reachable(Roots)
    /\ reason[o] \in {"slots", "outside"} => \A p \in Objects : o \notin Succ(p)
    /\ place[o] = "cycle" => o \notin Reachable(Roots)

(* Does not hold (README, "Claims that fail"): what is said to be beyond    *)
(* the depth limit is further from the sampled instances than that.         *)
CutIsDeep ==
  \A o \in Objects : reason[o] = "depth" => o \notin Within(Roots, MaxDepth)
=============================================================================
