------------------------------- MODULE Reach -------------------------------
(***************************************************************************)
(* compute() of mat/reach.py over one extraction: the fixpoint of root     *)
(* masks, the levels, the oriented cone sums of classes and of split       *)
(* groups, and the two caps that fold groups into residuals.               *)
(***************************************************************************)
EXTENDS ObjectGraph, FiniteSetsExt, SequencesExt

CONSTANTS MaxGroupsPerClass, MaxGroups

VARIABLES
  pc,     \* the loop compute() is in
  queue,  \* its worklist
  mask,   \* the roots known to reach an object
  lvl,    \* depth from the roots, -1 if not reached
  group,  \* the group of each object: gkey_of
  reach   \* what write_reach stores of the cones

results == <<mask, lvl, group, reach>>
vars == <<graph, pc, queue, results>>

Unlevelled == -1
Whole(c)         == [cls |-> c, holders |-> {}, rest |-> FALSE]
Copy(c, holders) == [cls |-> c, holders |-> holders, rest |-> FALSE]
Residual(c)      == [cls |-> c, holders |-> {}, rest |-> TRUE]

Idle ==
  /\ pc = "idle" /\ queue = <<>>
  /\ mask = [o \in Objects |-> {}] /\ lvl = [o \in Objects |-> Unlevelled]
  /\ group = [o \in Objects |-> Residual(0)]
  /\ reach = [o \in {} |-> <<>>]

Start ==
  /\ pc = "idle" /\ pc' = "mask" /\ queue' = graph.roots
  /\ mask' = [o \in Objects |-> {o} \intersect Roots]
  /\ UNCHANGED <<graph, lvl, group, reach>>

(* Mutant of Spread: an object is queued once. *)
SpreadOnce ==
  /\ pc = "mask" /\ queue # <<>>
  /\ LET u == Head(queue)
         gain == {v \in Succ(u) : mask[v] = {}}
     IN /\ mask' = [o \in Objects |-> IF o \in Succ(u) THEN mask[o] \union mask[u]
                                      ELSE mask[o]]
        /\ queue' = Tail(queue) \o SetToSeq(gain)
  /\ UNCHANGED <<graph, pc, lvl, group, reach>>

(* _root_reach: an object whose mask grows is queued again. *)
Spread ==
  /\ pc = "mask" /\ queue # <<>>
  /\ LET u == Head(queue)
         gain == {v \in Succ(u) : ~(mask[u] \subseteq mask[v])}
     IN /\ mask' = [o \in Objects |-> IF o \in gain THEN mask[o] \union mask[u]
                                      ELSE mask[o]]
        /\ queue' = Tail(queue) \o SetToSeq(gain)
  /\ UNCHANGED <<graph, pc, lvl, group, reach>>

StartLevels ==
  /\ pc = "mask" /\ queue = <<>>
  /\ pc' = "levels" /\ queue' = graph.roots
  /\ lvl' = [o \in Objects |-> IF o \in Roots THEN 0 ELSE Unlevelled]
  /\ UNCHANGED <<graph, mask, group, reach>>

(* _levels. *)
Level ==
  /\ pc = "levels" /\ queue # <<>>
  /\ LET u == Head(queue)
         new == {v \in Succ(u) : lvl[v] = Unlevelled}
     IN /\ lvl' = [o \in Objects |-> IF o \in new THEN lvl[u] + 1 ELSE lvl[o]]
        /\ queue' = Tail(queue) \o SetToSeq(new)
  /\ UNCHANGED <<graph, pc, mask, group, reach>>

-----------------------------------------------------------------------------
RootCls == graph.cls[Head(graph.roots)]
Holders(o) == {graph.cls[u] : u \in {u \in Objects : o \in Succ(u)}}

(* Objects by class and direct holder classes; the inspected class is one.  *)
KeyOf(o) ==
  IF graph.roots # <<>> /\ graph.cls[o] = RootCls THEN Whole(RootCls)
  ELSE Copy(graph.cls[o], Holders(o))

StartGroups ==
  /\ pc = "levels" /\ queue = <<>>
  /\ pc' = "caps" /\ group' = [o \in Objects |-> KeyOf(o)]
  /\ UNCHANGED <<graph, queue, mask, lvl, reach>>

GroupKeys   == {group[o] : o \in Objects}
KeysOf(c)   == {k \in GroupKeys : k.cls = c}
Members(k)  == {o \in Objects : group[o] = k}
Bytes(objs) == MapThenSumSet(LAMBDA o : Used[o], objs)
Size(k)     == Bytes(Members(k))

Fold(ks) == group' = [o \in Objects |-> IF group[o] \in ks
                                          THEN Residual(group[o].cls) ELSE group[o]]

(* The groups of a class beyond the M largest are folded into one residual. *)
Largest(ks, n) ==
  CHOOSE top \in kSubset(n, ks) :
    \A k \in top, l \in ks \ top : Size(k) >= Size(l)

OverM == {c \in Classes : Cardinality({k \in KeysOf(c) : ~k.rest}) > MaxGroupsPerClass}

FoldClass ==
  /\ pc = "caps"
  /\ \E c \in OverM : Fold(KeysOf(c) \ Largest(KeysOf(c), MaxGroupsPerClass))
  /\ UNCHANGED <<graph, pc, queue, mask, lvl, reach>>

(* Mutant of Victims: the groups of the inspected class are folded as well. *)
VictimsOfAll ==
  LET ks == {k \in GroupKeys : ~k.rest}
  IN {k \in ks : \A l \in ks : Size(l) >= Size(k)}

Victims ==
  LET ks == {k \in GroupKeys : ~k.rest /\ ~(graph.roots # <<>> /\ k.cls = RootCls)}
  IN {k \in ks : \A l \in ks : Size(l) >= Size(k)}

(* The global cap folds the smallest group of all, while there is one. *)
FoldSmallest ==
  /\ pc = "caps" /\ OverM = {} /\ Cardinality(GroupKeys) > MaxGroups
  /\ \E k \in Victims : Fold({k})
  /\ UNCHANGED <<graph, pc, queue, mask, lvl, reach>>

(* Mutant of Climbs: levels are not looked at. *)
NeverClimbs(u, v) == FALSE

(* A reference toward the roots: the ancestor carries its own weight. *)
Climbs(u, v) ==
  lvl[u] # Unlevelled /\ lvl[v] # Unlevelled /\ lvl[v] < lvl[u]

(* _cone_sums visits what the seeds reach without climbing. *)
Descents == [u \in Objects |-> {v \in Succ(u) : ~Climbs(u, v)}]
Cone(seeds) == Along(Descents, seeds, Cardinality(Objects))

Shared == {o \in Objects : Cardinality(mask[o]) >= 2}

Rows(seeds) == [rincl   |-> Bytes(Cone(seeds)),
                rshared |-> Bytes(Cone(seeds) \intersect Shared)]

MembersOfClass(c) == {o \in Objects : graph.cls[o] = c}

Sum ==
  /\ pc = "caps" /\ OverM = {}
  /\ Cardinality(GroupKeys) <= MaxGroups \/ Victims = {}
  /\ pc' = "done"
  /\ reach' = [c \in {graph.cls[o] : o \in Objects} |-> Rows(MembersOfClass(c))]
  /\ UNCHANGED <<graph, queue, mask, lvl, group>>

Work == Spread \/ StartLevels \/ Level \/ StartGroups \/ FoldClass \/ FoldSmallest \/ Sum
Next == Start \/ Work

-----------------------------------------------------------------------------
(* `shared` is root diversity: at the fixpoint an object's mask is exactly  *)
(* the sampled roots that reach it, over cycles and references upwards.     *)
MasksAreReachability ==
  pc \in {"levels", "caps", "done"} =>
    \A o \in Objects : mask[o] = {r \in Roots : o \in Reachable({r})}

(* "Who retains how much": the cone of a class never has an object nearer   *)
(* to the roots than the nearest instance of the class, so an object with a *)
(* reference to its owner does not absorb it; and the cut of those          *)
(* references loses nothing from the inspected class, whose inclusive size  *)
(* is all that its sampled instances reach, and all they share.             *)
Depth(o) == CHOOSE n \in 0..Cardinality(Objects) :
              /\ o \in Within(Roots, n)
              /\ n > 0 => o \notin Within(Roots, n - 1)
ConesLookDown ==
  pc = "done" =>
    /\ \A c \in DOMAIN reach :
         LET ms == MembersOfClass(c)
             above == {o \in Reachable(Roots) : \A m \in ms : Depth(o) < Depth(m)}
         IN ms \subseteq Reachable(Roots) =>
              reach[c].rincl <= Bytes(Reachable(ms) \ above)
    /\ (graph.roots # <<>> /\ MembersOfClass(RootCls) = Roots) =>
         /\ reach[RootCls].rincl = Bytes(Reachable(Roots))
         /\ reach[RootCls].rshared = Bytes(Shared)

(* "Per class the top-M groups by used bytes survive": after both caps no   *)
(* folded group was larger than one of its class that survived, and the     *)
(* inspected class, which is one group, is never folded.                    *)
LargestSurvive ==
  pc = "done" =>
    /\ \A k, l \in GroupKeys :
         (k.cls = l.cls /\ k.rest /\ ~l.rest) =>
           \A o \in Members(k) :
             Bytes({p \in Objects : KeyOf(p) = KeyOf(o)}) <= Size(l)
    /\ \A c \in Classes : Cardinality(KeysOf(c)) <= MaxGroupsPerClass + 1
    /\ graph.roots # <<>> => ~group[Head(graph.roots)].rest

(* Does not hold (README, "Claims that fail"): "bounded by MAX_GROUPS       *)
(* overall"; one group of each class is left in any case.                   *)
GroupsAreBounded == pc = "done" => Cardinality(GroupKeys) <= MaxGroups
=============================================================================
