-------------------------------- MODULE Jobs --------------------------------
(***************************************************************************)
(* The registry of jobs.py: one lock over the jobs, one queue and worker   *)
(* for MAT, one queue and a pool for downloads.  Callers are the threads   *)
(* that submit or cancel through HTTP; they act on snapshots.              *)
(***************************************************************************)
EXTENDS Naturals, FiniteSets, Sequences

CONSTANTS
  Works,     \* the identities (kind, dump, detail) of jobs
  Kind,      \* [Works -> JobKind]
  Callers,
  Workers,
  LaneOf,    \* [Workers -> queue]
  MaxJobs    \* bound: submissions looked at

(* Every worker has a queue, and every job a worker. *)
Staffed ==
  /\ LaneOf \in [Workers -> {"mat", "dl"}]
  /\ \A w \in Works : \E x \in Workers :
       LaneOf[x] = IF Kind[w] = "DOWNLOAD" THEN "dl" ELSE "mat"

VARIABLES
  jobs,      \* _jobs and _order: id -> [work, state]
  queued,    \* the queues of ids
  worker,    \* <<"get" | "taken" | "fn", id>>, or <<"dead", 0>>
  caller     \* <<"idle" | "put" | "cancel", id>>

vars == <<jobs, queued, worker, caller>>

Idle ==
  /\ jobs = <<>> /\ queued = [l \in {"mat", "dl"} |-> <<>>]
  /\ worker = [w \in Workers |-> <<"get", 0>>]
  /\ caller = [c \in Callers |-> <<"idle", 0>>]

Lane(work) == IF Kind[work] = "DOWNLOAD" THEN "dl" ELSE "mat"
Active(i)  == jobs[i].state \in {"QUEUED", "RUNNING"}
Set(i, s)  == jobs' = [jobs EXCEPT ![i].state = s]

(* Mutant of Register: a running job does not count as the same one. *)
RegisterUnlessQueued(c, work) ==
  /\ caller[c][1] = "idle" /\ UNCHANGED <<queued, worker>>
  /\ Len(jobs) < MaxJobs
  /\ \A i \in DOMAIN jobs : jobs[i] # [work |-> work, state |-> "QUEUED"]
  /\ jobs' = Append(jobs, [work |-> work, state |-> "QUEUED"])
  /\ caller' = [caller EXCEPT ![c] = <<"put", Len(jobs')>>]

(* submit() under the lock; an identical active job is returned instead.   *)
Register(c, work) ==
  /\ caller[c][1] = "idle" /\ UNCHANGED <<queued, worker>>
  /\ Len(jobs) < MaxJobs
  /\ \A i \in DOMAIN jobs : Active(i) => jobs[i].work # work
  /\ jobs' = Append(jobs, [work |-> work, state |-> "QUEUED"])
  /\ caller' = [caller EXCEPT ![c] = <<"put", Len(jobs')>>]

(* q.put() outside of it: ids may enter a queue out of order. *)
Put(c) ==
  /\ caller[c][1] = "put" /\ UNCHANGED <<jobs, worker>>
  /\ queued' = [queued EXCEPT ![Lane(jobs[caller[c][2]].work)] =
                  Append(@, caller[c][2])]
  /\ caller' = [caller EXCEPT ![c] = <<"idle", 0>>]

(* POST jobs/<id>/cancel reads a snapshot; cancel() looks again. *)
Snapshot(c, i) ==
  /\ caller[c][1] = "idle" /\ i \in DOMAIN jobs /\ jobs[i].state = "QUEUED"
  /\ caller' = [caller EXCEPT ![c] = <<"cancel", i>>]
  /\ UNCHANGED <<jobs, queued, worker>>

Cancel(c) ==
  /\ caller[c][1] = "cancel" /\ UNCHANGED <<queued, worker>>
  /\ IF jobs[caller[c][2]].state = "QUEUED" THEN Set(caller[c][2], "CANCELLED")
                                            ELSE UNCHANGED jobs
  /\ caller' = [caller EXCEPT ![c] = <<"idle", 0>>]

Take(w) ==
  LET l == LaneOf[w]
  IN /\ worker[w][1] = "get" /\ queued[l] # <<>>
     /\ worker' = [worker EXCEPT ![w] = <<"taken", Head(queued[l])>>]
     /\ queued' = [queued EXCEPT ![l] = Tail(@)]
     /\ UNCHANGED <<jobs, caller>>

(* Mutant of Enter: the worker does not look whether the job was cancelled. *)
EnterUnchecked(w) ==
  /\ worker[w][1] = "taken" /\ UNCHANGED <<queued, caller>>
  /\ Set(worker[w][2], "RUNNING")
  /\ worker' = [worker EXCEPT ![w][1] = "fn"]

(* Cancelled while queued: never runs. *)
Enter(w) ==
  /\ worker[w][1] = "taken" /\ UNCHANGED <<queued, caller>>
  /\ IF jobs[worker[w][2]].state = "CANCELLED"
       THEN worker' = [worker EXCEPT ![w] = <<"get", 0>>] /\ UNCHANGED jobs
       ELSE /\ Set(worker[w][2], "RUNNING")
            /\ worker' = [worker EXCEPT ![w][1] = "fn"]

(* Mutant of Leave: an exception of fn ends the worker. *)
LeaveOrDie(w) ==
  /\ worker[w][1] = "fn" /\ UNCHANGED <<queued, caller>>
  /\ \E s \in {"DONE", "FAILED", "CANCELLED"} :
       /\ Set(worker[w][2], s)
       /\ worker' = [worker EXCEPT ![w] =
                       IF s = "FAILED" THEN <<"dead", 0>> ELSE <<"get", 0>>]

(* fn returned, raised, or was aborted. *)
Leave(w) ==
  /\ worker[w][1] = "fn" /\ UNCHANGED <<queued, caller>>
  /\ \E s \in {"DONE", "FAILED", "CANCELLED"} : Set(worker[w][2], s)
  /\ worker' = [worker EXCEPT ![w] = <<"get", 0>>]

Ask(c) == \/ \E work \in Works : Register(c, work)
          \/ \E i \in 1..MaxJobs : Snapshot(c, i)
Go(c)  == Put(c) \/ Cancel(c)
Work(w) == Take(w) \/ Enter(w) \/ Leave(w)

Next == \/ \E c \in Callers : Ask(c) \/ Go(c)
        \/ \E w \in Workers : Work(w)

-----------------------------------------------------------------------------
(* "An identical active job is returned instead of duplicated": whatever    *)
(* callers, cancels and workers do between the two halves of submit(), no   *)
(* two jobs of one identity are active, and no job is in two places.        *)
OneActive ==
  /\ \A i, j \in DOMAIN jobs :
       (i # j /\ jobs[i].work = jobs[j].work) => ~(Active(i) /\ Active(j))
  /\ \A i \in DOMAIN jobs :
       jobs[i].state = "RUNNING" =>
         Cardinality({w \in Workers : worker[w] = <<"fn", i>>}) = 1

(* A job that has ended is not taken up again: one cancelled while it waits *)
(* in a queue, or before it got there, never runs.                          *)
EndedStays ==
  [][\A i \in DOMAIN jobs : ~Active(i) => jobs'[i] = jobs[i]]_vars

(* What has not come to an end. *)
Busy == \E i \in DOMAIN jobs : Active(i)
=============================================================================
