-------------------------- MODULE EventEvaluation --------------------------
(***************************************************************************)
(* What reconcile() promises of one dump, with no lock and no flag: events *)
(* are posted by anybody at any time, evaluations run one at a time, an    *)
(* evaluation takes up every event posted before it began, and as long as  *)
(* events are outstanding another evaluation follows.                      *)
(***************************************************************************)
CONSTANT Sources   \* who posts events: request threads, stage jobs, timers

VARIABLES
  pending,     \* sources with an event no evaluation has taken up yet
  evaluating   \* an evaluation is running

avars == <<pending, evaluating>>

AInit == pending = {} /\ evaluating = FALSE

APost(p) == pending' = pending \union {p} /\ UNCHANGED evaluating

ABegin == ~evaluating /\ evaluating' = TRUE /\ UNCHANGED pending

ATakeUp == evaluating /\ pending' = {} /\ UNCHANGED evaluating

AEnd == evaluating /\ evaluating' = FALSE /\ UNCHANGED pending

ANext == (\E p \in Sources : APost(p)) \/ ABegin \/ ATakeUp \/ AEnd

(* store.py:309: "the latest event always gets its evaluation". *)
EveryEventIsEvaluated == \A p \in Sources : p \in pending ~> p \notin pending

ASafety == AInit /\ [][ANext]_avars
ASpec == ASafety /\ EveryEventIsEvaluated
=============================================================================
