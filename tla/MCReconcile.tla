---------------------------- MODULE MCReconcile ----------------------------
(***************************************************************************)
(* Reconcile with three threads: a request thread, a job worker and the    *)
(* timer are the three kinds of callers, and three is what it takes for a  *)
(* third caller to meet two that are in each other's way.                  *)
(***************************************************************************)
EXTENDS Reconcile
CONSTANTS request, worker, timer
MCThreads == {request, worker, timer}
MCTimers == {timer}

(* Reconcile without the passes that raise: what is left behind then is the *)
(* work of the threads' order alone.                                        *)
Undisturbed == Init /\ [][Next /\ \A t \in Threads : ~Raise(t)]_vars
=============================================================================
