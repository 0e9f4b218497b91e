------------------------------ MODULE Services ------------------------------
(***************************************************************************)
(* The components that share no state, each in behaviours of its own: the  *)
(* product of their states would show nothing more.  `part` is the         *)
(* component a behaviour is about.                                         *)
(***************************************************************************)
EXTENDS ObjectGraph

CONSTANTS
  Works, Kind, Callers, Workers, LaneOf, MaxJobs,          \* Jobs
  Writers, ProcessOf, MaxCrashes,                          \* MetaStore
  Keys, Needs, ReadsDb, Requests, Wanted, Captures, MaxVersion,   \* PayloadCache
  Lanes, Probed, Due, ProbeTtl,                            \* Sources
  MaxGroupsPerClass, MaxGroups, MaxDepth                   \* Analysis

VARIABLES
  part, jobs, queued, worker, caller,
  file, tmp, lock, flock, writing, seen, stored, crashes,
  version, cache, loading, calls, asked, turn, answer,
  published, up, lookup, before, view, rows, expired, listed, probe, age, fits, fetch,
  served,
  pc, queue, mask, lvl, group, reach,
  at, why, stack, cut, shown, place, reason, pending

J == INSTANCE Jobs
F == INSTANCE MetaStore WITH at <- writing
P == INSTANCE PayloadCache
S == INSTANCE Sources
A == INSTANCE Analysis

ASSUME JobsAssumption    == J!Staffed
ASSUME WritersAssumption == F!Nobody \notin Writers
ASSUME LoadsAssumption   == P!LoadersAreAcyclic
ASSUME LanesAssumption   == S!Ordered
ASSUME TriesAssumption   == S!Patient
ASSUME LimitsAssumption  == /\ {MaxGroups, MaxDepth} \subseteq Nat
                            /\ MaxGroupsPerClass \in Nat \ {0}

-----------------------------------------------------------------------------
registry == <<jobs, queued, worker, caller>>
files    == <<file, tmp, lock, flock, writing, seen, stored, crashes>>
payloads == <<version, cache, loading, calls, asked, turn, answer>>
sources  == <<published, up, lookup, before, view, rows, expired, listed, probe,
              age, fits, fetch, served>>
analysis == <<graph, pc, queue, mask, lvl, group, reach,
              at, why, stack, cut, shown, place, reason, pending>>
vars == <<part, registry, files, payloads, sources, analysis>>

Parts == {"jobs", "files", "cache", "lookups", "listings", "attempts"}

Init ==
  /\ J!Idle /\ F!Idle /\ P!Idle /\ S!Idle
  /\ \/ part \in Parts /\ A!Begin(CHOOSE g \in Graphs : TRUE)
     \/ part = "analysis" /\ A!Init

(* One component works, the others rest. *)
InJobs     == part = "jobs" /\ UNCHANGED <<part, files, payloads, sources, analysis>>
InFiles    == part = "files" /\ UNCHANGED <<part, registry, payloads, sources, analysis>>
InCache    == part = "cache" /\ UNCHANGED <<part, registry, files, sources, analysis>>
InSources  == UNCHANGED <<part, registry, files, payloads, analysis>>
InAnalysis == part = "analysis" /\ UNCHANGED <<part, registry, files, payloads, sources>>

Registry  == J!Next /\ InJobs
JsonFiles == F!Next /\ InFiles
Queries   == P!Next /\ InCache
Lookups   == part = "lookups" /\ (S!Look \/ S!World) /\ InSources
Listings  == part = "listings" /\ (S!Listing \/ S!World \/ S!Aging) /\ InSources
Attempts  == part = "attempts" /\ (S!Attempt \/ S!Bucket \/ S!Outage) /\ InSources
Passes    == A!Next /\ InAnalysis

Next == \/ Registry \/ JsonFiles \/ Queries \/ Passes
        \/ Lookups \/ Listings \/ Attempts

(* Some thread at work goes on; what is asked, commits and cancels need not *)
(* happen, and cancels do not hold up the workers.                          *)
Onward == \/ InJobs /\ \E w \in Workers : J!Work(w)
          \/ InFiles /\ \E w \in Writers : F!Update(w)
          \/ InCache /\ \E r \in Requests : P!Step(r)
          \/ Passes
Puts   == InJobs /\ \E c \in Callers : J!Put(c)

Safety == Init /\ [][Next]_vars
Spec   == Safety /\ WF_vars(Onward) /\ WF_vars(Puts)

-----------------------------------------------------------------------------
(* The properties of the components, stated in their modules.               *)
OneActive == J!OneActive
EndedStays == J!EndedStays
UpdatesSurvive == F!UpdatesSurvive
ServedIsCurrent == P!ServedIsCurrent
ViewIsTheBest == S!ViewIsTheBest
ListingSurvives == S!ListingSurvives
OwnerIsAsked == S!OwnerIsAsked
AbsentIsConfirmed == S!AbsentIsConfirmed
MasksAreReachability == A!MasksAreReachability
ConesLookDown == A!ConesLookDown
LargestSurvive == A!LargestSurvive
ShownOnce == A!ShownOnce
CausesAreTrue == A!CausesAreTrue
GroupsAreBounded == A!GroupsAreBounded
CutIsDeep == A!CutIsDeep
AvailableIsFresh == P!AvailableIsFresh
OnlyTheSameSize == S!OnlyTheSameSize

(* Whoever is at work comes to its end: every job, whatever its fn and      *)
(* those before it in its queue raise, cancelled ones included; every       *)
(* update of a JSON file, though others raise or die under the locks; every *)
(* request, though loads fail and loads wait for other loads; and the       *)
(* passes over a graph with cycles.  No worker dies, no lock is left        *)
(* behind, no two loads wait for each other.                                *)
Busy == \/ part = "jobs" /\ J!Busy
        \/ part = "files" /\ F!Busy
        \/ part = "cache" /\ P!Busy
        \/ part = "analysis" /\ at # "done"
NobodyIsStuck == Busy ~> ~Busy
=============================================================================
