----------------------------- MODULE DecideLoop -----------------------------
(***************************************************************************)
(* Repeated evaluation of decide() over unchanging surroundings: one pass  *)
(* from any machine and any inputs, then the passes the store's            *)
(* `while rt.dirty` loop would add.  Between two passes only what the      *)
(* store itself does with the answer changes: the submitted jobs are live, *)
(* the one-shot allow_local is consumed, and the MAT queue is busy once a  *)
(* MAT job was queued.                                                     *)
(***************************************************************************)
EXTENDS Machine, Naturals

CONSTANTS
  InitialMachines,  \* the recorded machines the first pass may find
  InitialInputs     \* the inputs the first pass may get

ASSUME MachinesAssumption == InitialMachines \subseteq Machines
ASSUME InputsAssumption   == InitialInputs \subseteq Inputs

VARIABLES
  m,       \* the persisted machine
  in,      \* the inputs the next pass gets
  acts,    \* the actions of the last pass, as a set
  passes   \* 0 before the first pass, 1 after it, 2 after any later one

vars == <<m, in, acts, passes>>

ActionsIn(seq) == {seq[i] : i \in DOMAIN seq}

(* Mutant of LiveBy: the bootstrap's entry in _LIVE misspelt. *)
LiveByMisspelt(a) ==
  CASE a = A_ACQUIRE_DUMP -> {"dump"}
    [] a = A_ACQUIRE_DATA -> {"data"}
    [] a = A_ACQUIRE_INDEXES -> {"indexes"}
    [] a = A_BOOTSTRAP -> {"data", "index"}
    [] OTHER -> {}

(* The components a decided action makes live: its job's entry in _LIVE. *)
LiveBy(a) ==
  CASE a = A_ACQUIRE_DUMP    -> {"dump"}
    [] a = A_ACQUIRE_DATA    -> {"data"}
    [] a = A_ACQUIRE_INDEXES -> {"indexes"}
    [] a = A_BOOTSTRAP       -> {"data", "indexes"}
    [] OTHER                 -> {}

MatActions == {A_BOOTSTRAP, A_COMPACT}

After(i, done) ==
  [i EXCEPT !.live = @ \union UNION {LiveBy(a) : a \in done},
            !.allow_local = FALSE,
            !.mat_idle = @ /\ done \intersect MatActions = {}]

Init ==
  /\ m \in InitialMachines
  /\ in \in InitialInputs
  /\ acts = {}
  /\ passes = 0

Pass ==
  LET d == Decide(m, in)
      done == ActionsIn(d.acts)
  IN /\ m' = d.m
     /\ acts' = done
     /\ in' = After(in, done)
     /\ passes' = IF passes = 0 THEN 1 ELSE 2

Next == Pass

Spec == Init /\ [][Next]_vars

-----------------------------------------------------------------------------
TypeOK ==
  /\ m \in Machines
  /\ in \in Inputs
  /\ acts \subseteq ActionTags
  /\ passes \in 0..2

(* "DONE is earned by artifacts, not by the record" (validate): after any   *)
(* pass a component is DONE exactly when its artifacts are there; an index  *)
(* set is the exception in one direction only, a raw set with parse debris  *)
(* and no .zst keeps a DONE it already had but never earns one.             *)
DoneIsEarned ==
  passes > 0 =>
    /\ m.dump.s = DONE <=> in.obs.hprof
    /\ m.data.s = DONE <=> in.obs.data
    /\ m.indexes.s = DONE => in.obs.raws \/ ZstsOk(in.obs)
    /\ IdxOk(in.obs) => m.indexes.s = DONE

(* The answer of the sources decides what a component that is not stopped   *)
(* may be: an in-progress component of a wanted dump that a source offers   *)
(* has a live stage, or `data` is live and the index set waits for it.  A   *)
(* pass never parks a component in progress with nobody driving it.         *)
Offered(field) == Usable(in.remote) /\ in.remote[field]

InProgressIsDriven ==
  (passes > 0 /\ m.wanted) =>
    /\ m.dump.s \in IN_PROGRESS /\ Offered("hprof")
         => "dump" \in in.live
    /\ m.data.s \in IN_PROGRESS /\ Offered("data") => "data" \in in.live
    /\ m.indexes.s \in IN_PROGRESS /\ Offered("indexes")
         => in.live \intersect {"data", "indexes"} # {}

(* reconcile runs passes "until quiescent": when nothing but the store's    *)
(* own reaction changed, a further pass leaves the machine alone and        *)
(* starts nothing.  PARSE may repeat, it is a record of intent and starts   *)
(* no job; COMPACT may not, its job keeps the MAT queue busy.  One case is  *)
(* excluded: a bootstrap started over a recorded PARSING makes "indexes"    *)
(* live, and the next pass takes the bootstrap for that parse.              *)
BootstrapOverParse == m.indexes.s = PARSING /\ A_BOOTSTRAP \in acts

Settles ==
  [][(passes > 0 /\ ~BootstrapOverParse)
       => m' = m /\ acts' \subseteq {A_PARSE}]_vars

(* Only an explicit retry leaves ERROR and CANCELLED: a pass may promote    *)
(* such a component to DONE on its artifacts, and do nothing else to it.    *)
StopsAreSticky ==
  [][\A c \in COMPONENTS :
       Stopped(m[c].s) => \/ m'[c] = m[c]
                          \/ m'[c].s = DONE]_vars
=============================================================================
