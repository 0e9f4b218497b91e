-------------------------- MODULE ReconcileProofs --------------------------
(***************************************************************************)
(* Proofs about Reconcile, for every set of threads: type correctness,     *)
(* serialized passes, no dropped event, and the refinement of the          *)
(* abstract EventEvaluation (its safety part).                             *)
(***************************************************************************)
EXTENDS Reconcile, TLAPS

Holding(t) == pc[t] \in {"check", "clear", "observe", "decide", "release"}

(* What makes the two invariants inductive: rt.lock is held by exactly the *)
(* thread that is past its acquire.                                        *)
LockInv == \A t \in Threads : Holding(t) <=> lock = {t}

(* A lock set is empty or the singleton of its holder. *)
LockShape == lock = {} \/ \E t \in Threads : lock = {t}

IInv == TypeOK /\ LockShape /\ LockInv /\ NoEventDropped

-----------------------------------------------------------------------------
(* Reconcile's variables keep their types.  *)
THEOREM TypeCorrect == Spec => []TypeOK
<1>1. Init => TypeOK
  BY DEF Init, TypeOK, PCs
<1>2. TypeOK /\ [Next]_vars => TypeOK'
  <2> SUFFICES ASSUME TypeOK, [Next]_vars PROVE TypeOK'
    OBVIOUS
  <2> USE DEF TypeOK, PCs, Goto
  <2>1. ASSUME NEW t \in Threads, Post(t) PROVE TypeOK'
    BY <2>1 DEF Post
  <2>2. ASSUME NEW t \in Threads, SetDirty(t) PROVE TypeOK'
    BY <2>2 DEF SetDirty
  <2>3. ASSUME NEW t \in Threads, Acquire(t) \/ GiveUp(t) PROVE TypeOK'
    BY <2>3 DEF Acquire, GiveUp
  <2>4. ASSUME NEW t \in Threads, CheckDirty(t) PROVE TypeOK'
    BY <2>4 DEF CheckDirty
  <2>5. ASSUME NEW t \in Threads, Clear(t) \/ Observe(t) PROVE TypeOK'
    BY <2>5 DEF Clear, Observe
  <2>6. ASSUME NEW t \in Threads, Decide(t) \/ Raise(t) \/ Release(t)
        PROVE TypeOK'
    BY <2>6 DEF Decide, Raise, Release
  <2>7. CASE UNCHANGED vars
    BY <2>7 DEF vars
  <2>8. QED
    BY <2>1, <2>2, <2>3, <2>4, <2>5, <2>6, <2>7 DEF Next, Step
<1>3. QED
  BY <1>1, <1>2, PTL DEF Spec

-----------------------------------------------------------------------------
(* Every step keeps the lock with the one thread that is past acquire.  *)
LEMMA LockStep ==
  ASSUME TypeOK, LockShape, LockInv, [Next]_vars
  PROVE  LockShape' /\ LockInv'
<1> USE DEF TypeOK, LockShape, LockInv, Holding, Goto
<1>1. ASSUME NEW t \in Threads, Post(t) PROVE LockShape' /\ LockInv'
  BY <1>1 DEF Post
<1>2. ASSUME NEW t \in Threads, SetDirty(t) PROVE LockShape' /\ LockInv'
  BY <1>2 DEF SetDirty
<1>3. ASSUME NEW t \in Threads, Acquire(t) PROVE LockShape' /\ LockInv'
  BY <1>3 DEF Acquire
<1>4. ASSUME NEW t \in Threads, GiveUp(t) PROVE LockShape' /\ LockInv'
  BY <1>4 DEF GiveUp
<1>5. ASSUME NEW t \in Threads, CheckDirty(t) PROVE LockShape' /\ LockInv'
  BY <1>5 DEF CheckDirty
<1>6. ASSUME NEW t \in Threads, Clear(t) PROVE LockShape' /\ LockInv'
  BY <1>6 DEF Clear
<1>7. ASSUME NEW t \in Threads, Observe(t) PROVE LockShape' /\ LockInv'
  BY <1>7 DEF Observe
<1>8. ASSUME NEW t \in Threads, Decide(t) \/ Raise(t)
      PROVE LockShape' /\ LockInv'
  BY <1>8 DEF Decide, Raise
<1>9. ASSUME NEW t \in Threads, Release(t) PROVE LockShape' /\ LockInv'
  BY <1>9 DEF Release
<1>10. CASE UNCHANGED vars
  BY <1>10 DEF vars
<1>11. QED
  BY <1>1, <1>2, <1>3, <1>4, <1>5, <1>6, <1>7, <1>8, <1>9, <1>10
     DEF Next, Step

(* Every step that lowers the flag or returns leaves a pass behind that     *)
(* will observe the outstanding events.                                     *)
LEMMA EventStep ==
  ASSUME TypeOK, NoEventDropped, [Next]_vars
  PROVE  NoEventDropped'
<1> USE DEF TypeOK, NoEventDropped, Goto
<1>1. ASSUME NEW t \in Threads, Post(t) PROVE NoEventDropped'
  BY <1>1 DEF Post
<1>2. ASSUME NEW t \in Threads, SetDirty(t) PROVE NoEventDropped'
  BY <1>2 DEF SetDirty
<1>3. ASSUME NEW t \in Threads, Acquire(t) \/ GiveUp(t)
      PROVE NoEventDropped'
  BY <1>3 DEF Acquire, GiveUp
<1>4. ASSUME NEW t \in Threads, CheckDirty(t) PROVE NoEventDropped'
  BY <1>4 DEF CheckDirty
<1>5. ASSUME NEW t \in Threads, Clear(t) PROVE NoEventDropped'
  BY <1>5 DEF Clear
<1>6. ASSUME NEW t \in Threads, Observe(t) PROVE NoEventDropped'
  BY <1>6 DEF Observe
<1>7. ASSUME NEW t \in Threads, Decide(t) \/ Raise(t) \/ Release(t)
      PROVE NoEventDropped'
  BY <1>7 DEF Decide, Raise, Release
<1>8. CASE UNCHANGED vars
  BY <1>8 DEF vars
<1>9. QED
  BY <1>1, <1>2, <1>3, <1>4, <1>5, <1>6, <1>7, <1>8 DEF Next, Step

LEMMA InductiveInvariant == Spec => []IInv
<1>1. Init => IInv
  BY DEF Init, IInv, TypeOK, PCs, LockShape, LockInv, Holding, NoEventDropped
<1>2. TypeOK /\ TypeOK' /\ IInv /\ [Next]_vars => IInv'
  BY LockStep, EventStep DEF IInv
<1>3. QED
  BY <1>1, <1>2, TypeCorrect, PTL DEF Spec

-----------------------------------------------------------------------------
(* "Passes are serialized per dump", for any number of callers.  *)
THEOREM SerializedPasses == Spec => []PassesAreSerialized
<1>1. IInv => PassesAreSerialized
  BY DEF IInv, LockInv, Holding, PassesAreSerialized, InPass
<1>2. QED
  BY <1>1, InductiveInvariant, PTL

(* An event no pass has observed is never without a mark that makes one     *)
(* observe it, for any number of callers.                                   *)
THEOREM EventsAreMarked == Spec => []NoEventDropped
<1>1. IInv => NoEventDropped
  BY DEF IInv
<1>2. QED
  BY <1>1, InductiveInvariant, PTL

-----------------------------------------------------------------------------
(* reconcile() implements EventEvaluation: each step is an evaluation's     *)
(* begin, take-up or end, a post, or invisible.                             *)
THEOREM Refinement == Spec => ImplementsEvaluation
<1>1. Init => Abstract!AInit
  BY DEF Init, Abstract!AInit, InPass
<1>2. IInv /\ [Next]_vars => [Abstract!ANext]_(Abstract!avars)
  <2> SUFFICES ASSUME IInv, [Next]_vars
               PROVE  Abstract!ANext \/ UNCHANGED Abstract!avars
    OBVIOUS
  <2> DEFINE E == \E t \in Threads : InPass(t)
  <2> USE DEF IInv, TypeOK, Goto, InPass, LockInv, Holding, Abstract!avars
  <2>1. ASSUME NEW t \in Threads, Post(t) PROVE Abstract!APost(t)
    BY <2>1 DEF Post, Abstract!APost
  <2>2. ASSUME NEW t \in Threads,
               SetDirty(t) \/ Acquire(t) \/ GiveUp(t) \/ Clear(t) \/ Release(t)
        PROVE  UNCHANGED Abstract!avars
    BY <2>2 DEF SetDirty, Acquire, GiveUp, Clear, Release
  <2>3. ASSUME NEW t \in Threads, CheckDirty(t)
        PROVE  Abstract!ABegin \/ UNCHANGED Abstract!avars
    BY <2>3 DEF CheckDirty, Abstract!ABegin
  <2>4. ASSUME NEW t \in Threads, Observe(t) PROVE Abstract!ATakeUp
    BY <2>4 DEF Observe, Abstract!ATakeUp
  <2>5. ASSUME NEW t \in Threads, Decide(t) \/ Raise(t)
        PROVE  Abstract!AEnd
    BY <2>5 DEF Decide, Raise, Abstract!AEnd
  <2>6. CASE UNCHANGED vars
    BY <2>6 DEF vars
  <2>7. QED
    BY <2>1, <2>2, <2>3, <2>4, <2>5, <2>6 DEF Next, Step, Abstract!ANext
<1>3. QED
  BY <1>1, <1>2, InductiveInvariant, PTL
     DEF Spec, ImplementsEvaluation, Abstract!ASafety
=============================================================================
