------------------------------ MODULE Sources ------------------------------
(***************************************************************************)
(* The remote sources as the store asks them: _remote_view over the plans  *)
(* of GitHub and S3, their cached listings, and the attempts at one part,  *)
(* for each of which the SourceRouter chooses a lane by cached probes.  A  *)
(* lane is a source behind its network, which may be down at any request.  *)
(* One dump.                                                               *)
(***************************************************************************)
EXTENDS Naturals, Sequences, SequencesExt

CONSTANTS
  Lanes,      \* remote_sources, in priority order
  Probed,     \* the lanes that have offer()
  Due,        \* for each attempt at a part in a stage, the least time since the
              \* first: the waits between retries, then between stage attempts
  ProbeTtl    \* for how long a probe is believed

Files == {"hprof", "data", "indexes"}
Names == Range(Lanes)

(* The last lane is the one whose plans have the parts: it is not probed.   *)
Ordered ==
  /\ Lanes \in Seq(Names) /\ Lanes # <<>> /\ "none" \notin Names
  /\ Probed \subseteq Names \ {Last(Lanes)}

(* The attempts of a stage outlast a probe.                                 *)
Patient ==
  /\ ProbeTtl \in Nat \ {0} /\ Due \in Seq(Nat) /\ Due # <<>> /\ Due[1] = 0
  /\ \A i \in 2..Len(Due) : Due[i - 1] <= Due[i]
  /\ Due[Len(Due)] >= ProbeTtl

VARIABLES
  published,   \* lane -> what it has; it only grows
  up,          \* lanes that answer
  lookup,      \* the _remote_view under way
  before,      \* published, when the lookup began
  view,        \* the last view: [queried, error, from: file -> lane or None]
  rows,        \* lane -> _runs_cache: "none", "empty", "dump"
  expired,     \* lanes whose cache is older than its TTL
  listed,      \* lane -> what its last list() answered
  probe,       \* lane -> "none", "miss", "hit": _probes
  age,         \* lane -> time since that probe, up to ProbeTtl
  fits,        \* probed lanes with an object of the part's name and size
  fetch,       \* the part: [at, try, tried, again]; tried: lanes a GET of this
               \* stage has failed at, again: a probe of a retry has hit
  served       \* the lane that the router chose last

vars == <<published, up, lookup, before, view, rows, expired, listed, probe, age, fits,
          fetch, served>>
looking == <<lookup, before, view>>
listing == <<rows, listed>>
routing == <<probe, age, fits, fetch, served>>
world   == <<published, up, expired>>

None     == "none"
NoPlan   == [f \in Files |-> None]
AtRest   == [at |-> "idle", i |-> 0, plan |-> NoPlan, has |-> {},
             failed |-> {}, error |-> FALSE]
Unstarted == [at |-> "idle", try |-> 1, tried |-> {}, again |-> FALSE]
Unasked  == [queried |-> FALSE, error |-> FALSE, from |-> NoPlan]

Idle ==
  /\ published = [l \in Names |-> {}] /\ up = Names
  /\ lookup = AtRest /\ before = [l \in Names |-> {}] /\ view = Unasked
  /\ rows = [l \in Names |-> None] /\ listed = [l \in Names |-> None]
  /\ expired = {} /\ probe = [l \in Names |-> None] /\ age = [l \in Names |-> 0]
  /\ fits = {} /\ fetch = Unstarted /\ served = None

-----------------------------------------------------------------------------
(* _remote_view: one download_plan per source, in order.                    *)
Ask ==
  /\ lookup.at = "idle" /\ UNCHANGED <<world, listing, routing>>
  /\ lookup' = [AtRest EXCEPT !.at = "release", !.i = 1]
  /\ before' = published /\ view' = Unasked

Lane == Lanes[lookup.i]
NextLane(l) == [l EXCEPT !.i = @ + 1, !.at = IF l.i = Len(Lanes) THEN "view"
                                             ELSE "release", !.has = {}]

(* The first request of a plan: without a dump there is None. *)
Release ==
  /\ lookup.at = "release" /\ Lane \in up
  /\ lookup' = IF "hprof" \in published[Lane]
                 THEN [lookup EXCEPT !.at = "idx", !.has = {"hprof"}]
                 ELSE NextLane(lookup)
  /\ UNCHANGED <<world, listing, routing, before, view>>

(* The second one: what is built from the dump. *)
IdxRelease ==
  /\ lookup.at = "idx" /\ Lane \in up
  /\ lookup' = [lookup EXCEPT !.at = "merge",
                  !.has = @ \union (published[Lane] \intersect {"data", "indexes"})]
  /\ UNCHANGED <<world, listing, routing, before, view>>

(* Mutant of Unreached: a lookup that failed is one that found nothing. *)
UnreachedIsAbsent ==
  /\ lookup.at \in {"release", "idx"} /\ Lane \notin up
  /\ lookup' = NextLane([lookup EXCEPT !.failed = @ \union {Lane}])
  /\ UNCHANGED <<world, listing, routing, before, view>>

Unreached ==
  /\ lookup.at \in {"release", "idx"} /\ Lane \notin up
  /\ lookup' = NextLane([lookup EXCEPT !.failed = @ \union {Lane}, !.error = TRUE])
  /\ UNCHANGED <<world, listing, routing, before, view>>

(* _merge_plans: each file comes from the first source that has it. *)
Merged(plan, has) ==
  [f \in Files |-> IF plan[f] = None /\ f \in has THEN Lane ELSE plan[f]]

Merge ==
  /\ lookup.at = "merge" /\ UNCHANGED <<world, listing, routing, before, view>>
  /\ lookup' = NextLane([lookup EXCEPT !.plan = Merged(@, lookup.has)])

(* A plan hides the error of another lane. *)
Answer ==
  /\ lookup.at = "view" /\ lookup' = [lookup EXCEPT !.at = "idle"]
  /\ view' = [queried |-> TRUE, from |-> lookup.plan,
              error |-> lookup.error /\ lookup.plan = NoPlan]
  /\ UNCHANGED <<world, listing, routing, before>>

Look == Ask \/ Release \/ IdxRelease \/ Unreached \/ Merge \/ Answer

-----------------------------------------------------------------------------
Rows(l) == IF "hprof" \in published[l] THEN "dump" ELSE "empty"

(* Mutant of Runs: a refresh that fails is raised, cache or not. *)
RunsOrRaise(l) ==
  IF rows[l] # None /\ l \notin expired THEN rows[l]
  ELSE IF l \in up THEN Rows(l) ELSE "error"

(* _runs: a fresh cache, a refresh, or the expired cache.                   *)
Runs(l) ==
  IF rows[l] # None /\ l \notin expired THEN rows[l]
  ELSE IF l \in up THEN Rows(l)
  ELSE IF rows[l] # None THEN rows[l] ELSE "error"

List(l) ==
  /\ listed' = [listed EXCEPT ![l] = Runs(l)]
  /\ rows' = IF Runs(l) = "error" THEN rows ELSE [rows EXCEPT ![l] = Runs(l)]
  /\ expired' = IF l \in up THEN expired \ {l} ELSE expired
  /\ UNCHANGED <<published, up, looking, routing>>

Listing == \E l \in Names : List(l)

-----------------------------------------------------------------------------
Owner == Last(Lanes)

StartPart ==
  /\ fetch.at \in {"idle", "failed"} /\ fetch' = [Unstarted EXCEPT !.at = "resolve"]
  /\ UNCHANGED <<world, looking, listing, probe, age, fits, served>>

(* HEAD: the same object is one of the same size; a failure is a miss. *)
Offered(l) == l \in up /\ l \in fits

(* Mutant of Fresh: only misses are asked again. *)
HitsStay(l) == probe[l] = "hit" \/ (probe[l] = "miss" /\ age[l] < ProbeTtl)

(* A cached answer, hit or miss, that is still believed.                    *)
Fresh(l) == probe[l] # None /\ age[l] < ProbeTtl

Answered(l) == IF Fresh(l) THEN probe[l] ELSE IF Offered(l) THEN "hit" ELSE "miss"

Ahead(l, k) == \E i, j \in DOMAIN Lanes : i < j /\ Lanes[i] = l /\ Lanes[j] = k

(* SourceRouter.resolve: the lanes that can be probed are asked in order up *)
(* to the first that has the part; else its owner fetches it.               *)
Hits       == {l \in Probed : Answered(l) = "hit"}
Reached(l) == l \in Probed /\ \A k \in Hits : ~Ahead(k, l)

(* A retry has found the part in a lane it did not know of any more.        *)
AskedAnew(l) == l \in Probed /\ fetch.try > 1 /\ ~Fresh(l)

Resolve ==
  /\ fetch.at = "resolve"
  /\ \E l \in Names :
       /\ IF Hits = {} THEN l = Owner ELSE l \in Hits /\ Reached(l)
       /\ served' = l
       /\ fetch' = [fetch EXCEPT !.at = "get",
                       !.again = IF AskedAnew(l) THEN TRUE ELSE @]
  /\ probe' = [l \in Names |-> IF Reached(l) THEN Answered(l) ELSE probe[l]]
  /\ age' = [l \in Names |-> IF Reached(l) /\ ~Fresh(l) THEN 0 ELSE age[l]]
  /\ UNCHANGED <<world, looking, listing, fits>>

(* The bytes come in, as many as the part has.                              *)
Arrive ==
  /\ fetch.at = "get" /\ served \in up /\ (served \in Probed => served \in fits)
  /\ fetch' = [fetch EXCEPT !.at = "idle"]
  /\ UNCHANGED <<world, looking, listing, probe, age, fits, served>>

Older(n) == age' = [l \in Names |-> IF age[l] + n < ProbeTtl THEN age[l] + n ELSE ProbeTtl]

(* The GET fails, for whatever reason: the next attempt after its wait.     *)
Break ==
  /\ fetch.at = "get"
  /\ \/ /\ fetch.try < Len(Due) /\ Older(Due[fetch.try + 1] - Due[fetch.try])
        /\ fetch' = [fetch EXCEPT !.at = "resolve", !.try = @ + 1,
                                  !.tried = @ \union {served}]
     \/ /\ fetch.try = Len(Due) /\ UNCHANGED age
        /\ fetch' = [fetch EXCEPT !.at = "failed", !.tried = @ \union {served}]
  /\ UNCHANGED <<world, looking, listing, probe, fits, served>>

(* The abort flag is up. *)
Abandon ==
  /\ fetch.at \in {"resolve", "get"} /\ fetch' = [fetch EXCEPT !.at = "idle"]
  /\ UNCHANGED <<world, looking, listing, probe, age, fits, served>>

Attempt == StartPart \/ Resolve \/ Arrive \/ Break \/ Abandon

(* Objects come, go and are replaced; the waits and the streams take time.  *)
Replace(l) ==
  /\ fits' = IF l \in fits THEN fits \ {l} ELSE fits \union {l}
  /\ UNCHANGED <<world, looking, listing, probe, age, fetch, served>>
Elapse ==
  /\ Older(1) /\ UNCHANGED <<world, looking, listing, probe, fits, fetch, served>>

Bucket == Elapse \/ \E l \in Probed : Replace(l)

-----------------------------------------------------------------------------
Publish(l, f) ==
  /\ f \notin published[l] /\ (f # "hprof" => "hprof" \in published[l])
  /\ published' = [published EXCEPT ![l] = @ \union {f}]
  /\ UNCHANGED <<up, expired, looking, listing, routing>>
Flip(l) ==
  /\ up' = IF l \in up THEN up \ {l} ELSE up \union {l}
  /\ UNCHANGED <<published, expired, looking, listing, routing>>
Expire(l) ==
  /\ expired' = expired \union {l}
  /\ UNCHANGED <<published, up, looking, listing, routing>>

Outage == \E l \in Names : Flip(l)
World  == Outage \/ \E l \in Names, f \in Files : Publish(l, f)
Aging  == \E l \in Names : Expire(l)
Next == Look \/ Listing \/ Attempt \/ Bucket \/ World \/ Aging

-----------------------------------------------------------------------------
Has(l, f) == {"hprof", f} \subseteq before[l]

(* "None only when the dump is confirmed absent", and "each component comes *)
(* from the first source that has it": a view that is neither an error nor  *)
(* a plan says that every source was asked and had no dump, and a file that *)
(* an earlier source had all along is taken from a later one only if the    *)
(* earlier one could not be reached.                                        *)
ViewIsTheBest ==
  view.queried =>
    /\ (~view.error /\ view.from = NoPlan) =>
         lookup.failed = {} /\ \A l \in Names : "hprof" \notin before[l]
    /\ \A f \in Files, l \in Names :
         Has(l, f) => \/ l \in lookup.failed
                      \/ view.from[f] = l
                      \/ Ahead(view.from[f], l)

(* "Offline listings keep working, and a failure is never swallowed into an *)
(* EMPTY result": once list() has answered it answers, and a dump that was  *)
(* listed stays listed, through outages, expiries and refreshes.            *)
ListingSurvives ==
  [][\A l \in Names :
       /\ listed[l] \in {"empty", "dump"} => listed'[l] # "error"
       /\ listed[l] = "dump" => listed'[l] = "dump"]_listed

(* "A hit switches this and all later range-requests of the part", and     *)
(* "GitHub keeps serving": a lane that has a part and does not deliver it   *)
(* costs attempts, but not the part.  When a stage gives the part up the    *)
(* owner has failed too, or the lane has said once more, since the first    *)
(* attempt, that it has it.  It hangs on the waits of the retries, the      *)
(* attempts of the stage and the time for which a hit is believed.          *)
OwnerIsAsked ==
  fetch.at = "failed" => Owner \in fetch.tried \/ fetch.again

(* "A size mismatch means different bytes - never serve that": the lane a   *)
(* part is fetched from has an object of its size.  One that was replaced   *)
(* while its probe is believed is asked all the same.                       *)
OnlyTheSameSize ==
  (fetch.at = "get" /\ served \in Probed) => served \in fits

(* "An upstream failure is a view with error set, never an empty result     *)
(* masquerading as nothing published": a view that says a file is not       *)
(* published has been told so by every source.                              *)
AbsentIsConfirmed ==
  (view.queried /\ ~view.error /\ lookup.failed # {}) =>
    \A f \in Files : view.from[f] # None
=============================================================================
