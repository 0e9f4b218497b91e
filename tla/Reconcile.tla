----------------------------- MODULE Reconcile -----------------------------
(***************************************************************************)
(* The serialization protocol of FsDumpStore.reconcile for one dump: the   *)
(* dirty flag (threading.Event), the lock every caller tries without       *)
(* blocking, and the `while dirty` loop of whoever got it.  What a pass    *)
(* does is DumpStore's subject; here a pass observes and then decides, and *)
(* may raise in either.  One action per step another thread can come       *)
(* between.                                                                *)
(***************************************************************************)
CONSTANTS
  Threads,   \* request threads, job workers and timer threads
  Timers     \* those of Threads that call reconcile periodically

ASSUME TimersAssumption == Timers \subseteq Threads

VARIABLES
  pc,        \* where each thread is in reconcile()
  dirty,     \* rt.dirty
  lock,      \* the holder of rt.lock: a set with at most one thread
  pending,   \* threads whose event no pass has observed yet (history)
  lost       \* those of pending whose pass raised with their mark (history)

vars == <<pc, dirty, lock, pending, lost>>

PCs == {"idle", "posted", "try", "check", "clear", "observe", "decide",
        "release"}

Goto(t, to) == pc' = [pc EXCEPT ![t] = to]

Init ==
  /\ pc = [t \in Threads |-> "idle"]
  /\ dirty = FALSE
  /\ lock = {}
  /\ pending = {}
  /\ lost = {}

(* The event itself, before reconcile() is entered: a machine update, a    *)
(* new file, a published release; for a timer, time having passed.         *)
Post(t) ==
  /\ pc[t] = "idle"
  /\ pending' = pending \union {t}
  /\ lost' = lost \ {t}
  /\ Goto(t, "posted")
  /\ UNCHANGED <<dirty, lock>>

(* Mutant of SetDirty: the caller does not leave its mark. *)
SetNothing(t) ==
  /\ pc[t] = "posted"
  /\ Goto(t, "try")
  /\ UNCHANGED <<dirty, lock, pending, lost>>

SetDirty(t) ==
  /\ pc[t] = "posted"
  /\ dirty' = TRUE
  /\ Goto(t, "try")
  /\ UNCHANGED <<lock, pending, lost>>

(* Mutant of Acquire: the passes are not serialized. *)
AcquireAnyway(t) ==
  /\ pc[t] = "try"
  /\ lock' = {t}
  /\ Goto(t, "check")
  /\ UNCHANGED <<dirty, pending, lost>>

(* lock.acquire(blocking=False): the caller that does not get it returns,  *)
(* "a running pass sees the dirty flag and re-evaluates".                  *)
Acquire(t) ==
  /\ pc[t] = "try"
  /\ lock = {}
  /\ lock' = {t}
  /\ Goto(t, "check")
  /\ UNCHANGED <<dirty, pending, lost>>

GiveUp(t) ==
  /\ pc[t] = "try"
  /\ lock # {}
  /\ Goto(t, "idle")
  /\ UNCHANGED <<dirty, lock, pending, lost>>

(* Mutant of CheckDirty: the surroundings are observed ahead of the pass. *)
ObserveEarly(t) ==
  /\ pc[t] = "check"
  /\ Goto(t, IF dirty THEN "clear" ELSE "release")
  /\ pending' = IF dirty THEN {} ELSE pending
  /\ lost' = IF dirty THEN {} ELSE lost
  /\ UNCHANGED <<dirty, lock>>

(* while rt.dirty.is_set() *)
CheckDirty(t) ==
  /\ pc[t] = "check"
  /\ Goto(t, IF dirty THEN "clear" ELSE "release")
  /\ UNCHANGED <<dirty, lock, pending, lost>>

Clear(t) ==
  /\ pc[t] = "clear"
  /\ dirty' = FALSE
  /\ Goto(t, "observe")
  /\ UNCHANGED <<lock, pending, lost>>

(* _pass begins: the observation sees every event posted so far. *)
Observe(t) ==
  /\ pc[t] = "observe"
  /\ pending' = {}
  /\ lost' = {}
  /\ Goto(t, "decide")
  /\ UNCHANGED <<dirty, lock>>

(* Mutant of Decide: the flag is lowered at the end of the pass. *)
ClearLate(t) ==
  /\ pc[t] = "decide"
  /\ dirty' = FALSE
  /\ Goto(t, "check")
  /\ UNCHANGED <<lock, pending, lost>>

(* The rest of _pass, then the loop condition again. *)
Decide(t) ==
  /\ pc[t] = "decide"
  /\ Goto(t, "check")
  /\ UNCHANGED <<dirty, lock, pending, lost>>

(* _pass raises: in _observe already, which looks whether an archive of    *)
(* the manifest exists and then asks for its size while drop_index_set may *)
(* remove it, or later (the dump dir is gone, compact refuses, a source    *)
(* breaks).  The finally clause releases the lock, whatever the flag says. *)
(* A pass that had lowered the flag and not yet observed takes the marks   *)
(* it answered for with it.                                                *)
Raise(t) ==
  /\ pc[t] \in {"observe", "decide"}
  /\ lost' = IF pc[t] = "observe" /\ ~dirty
             THEN {p \in pending : pc[p] # "posted"}
             ELSE lost
  /\ Goto(t, "release")
  /\ UNCHANGED <<dirty, lock, pending>>

Release(t) ==
  /\ pc[t] = "release"
  /\ lock' = {}
  /\ Goto(t, "idle")
  /\ UNCHANGED <<dirty, pending, lost>>

Step(t) ==
  \/ SetDirty(t) \/ Acquire(t) \/ GiveUp(t) \/ CheckDirty(t) \/ Clear(t)
  \/ Observe(t) \/ Decide(t) \/ Raise(t) \/ Release(t)

Next == \E t \in Threads : Post(t) \/ Step(t)

Spec == Init /\ [][Next]_vars

(* A thread inside reconcile() runs on; the timers call it again and again *)
(* (kernel._timer_loop); nobody else has to.  And an observation made      *)
(* again and again does not raise every time: it raises when a member is   *)
(* removed between two of its system calls, and a removed set is built or  *)
(* downloaded anew before there is one to remove.                          *)
Fairness ==
  /\ \A t \in Threads : WF_vars(Step(t)) /\ SF_vars(Observe(t))
  /\ \A t \in Timers : WF_vars(Post(t))

FairSpec == Spec /\ Fairness

-----------------------------------------------------------------------------
TypeOK ==
  /\ pc \in [Threads -> PCs]
  /\ dirty \in BOOLEAN
  /\ lock \subseteq Threads
  /\ pending \subseteq Threads
  /\ lost \subseteq pending

InPass(t) == pc[t] \in {"clear", "observe", "decide"}

(* "Passes are serialized per dump": no two threads are inside _pass.       *)
PassesAreSerialized ==
  \A t, u \in Threads : InPass(t) /\ InPass(u) => t = u

(* An event no pass has observed leaves a mark that a pass will find: the   *)
(* flag is up, or its thread is about to raise it, or a pass that lowered   *)
(* the flag has yet to observe.  The one way to lose the mark is a pass     *)
(* that lowers the flag and raises before it has observed.  Clearing the    *)
(* flag after the observation, or raising it only when the lock was taken,  *)
(* would drop events here.                                                  *)
NoEventDropped ==
  \A p \in pending \ lost :
    \/ dirty
    \/ pc[p] = "posted"
    \/ \E t \in Threads : pc[t] = "observe"

(* What the code does not promise: that no mark is lost with a pass that    *)
(* raises.  Nobody evaluates such an event until the next caller or tick    *)
(* raises the flag again.                                                   *)
NoMarkIsLost == lost = {}

(* store.py:309 "the latest event always gets its evaluation": once every   *)
(* caller has returned, no event is left unevaluated.  A caller that finds  *)
(* the lock taken between the holder's last look at the flag and its        *)
(* release returns, and the holder does not look again.                     *)
NothingLeftBehind ==
  (\A t \in Threads : pc[t] = "idle") => pending = {}

(* The abstract specification, refined: an evaluation is a thread between   *)
(* the loop's test and the end of _pass.                                    *)
Abstract ==
  INSTANCE EventEvaluation
    WITH Sources <- Threads, evaluating <- \E t \in Threads : InPass(t)

ImplementsEvaluation == Abstract!ASafety
EveryEventIsEvaluated == Abstract!EveryEventIsEvaluated
=============================================================================
