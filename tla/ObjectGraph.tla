---------------------------- MODULE ObjectGraph ----------------------------
(***************************************************************************)
(* One anatomy extraction as anat_src hands it to the reach pass and to    *)
(* the payload: the objects of a retained set, the classes they are of,    *)
(* what they refer to, and the sampled instances (roots).  Labels are left *)
(* out.                                                                    *)
(***************************************************************************)
EXTENDS Naturals, FiniteSets, Sequences

CONSTANTS
  Objects,   \* object ids, numbers
  Used,      \* the bytes each of them takes
  Classes,   \* classes, numbers
  Graphs     \* the extractions looked at

Edges == Objects \X Objects

(* slots: outbounds(o), in the set; fields: its named references; arrays    *)
(* have only slots; capped: classes some array slot of which, beyond the    *)
(* extraction cap, may have held an element.                                *)
Extractions ==
  [slots : SUBSET Edges, fields : SUBSET Edges, arrays : SUBSET Objects,
   roots : Seq(Objects), cls : [Objects -> Classes], capped : SUBSET Classes]

ASSUME GraphAssumption ==
  /\ Objects \subseteq Nat \ {0} /\ IsFiniteSet(Objects) /\ Classes \subseteq Nat
  /\ Used \in [Objects -> Nat]
  /\ \A g \in Graphs : /\ g.slots \subseteq Edges /\ g.fields \subseteq Edges
                       /\ g.arrays \subseteq Objects
                       /\ g.cls \in [Objects -> Classes]
                       /\ g.capped \subseteq Classes
                       /\ g.roots \in Seq(Objects)

VARIABLES graph

Roots == {graph.roots[i] : i \in DOMAIN graph.roots}

Targets(refs, o) == {t \in Objects : <<o, t>> \in refs}

(* The adjacency both passes build: named references for instances, all     *)
(* outbounds for arrays and objects without any.                            *)
Succ(o) ==
  IF o \in graph.arrays \/ Targets(graph.fields, o) = {}
    THEN Targets(graph.slots, o)
    ELSE Targets(graph.fields, o)

(* Reference definitions: what is within n steps of a set along a graph,    *)
(* objects within n references of a set, and what is reachable from it.     *)
Along(adj, from, n) ==
  LET f[i \in 0..n] ==
        IF i = 0 THEN from ELSE f[i - 1] \union UNION {adj[o] : o \in f[i - 1]}
  IN f[n]
References == [o \in Objects |-> Succ(o)]
Within(from, n) == Along(References, from, n)
Reachable(from) == Within(from, Cardinality(Objects))
=============================================================================
