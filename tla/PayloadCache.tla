---------------------------- MODULE PayloadCache ----------------------------
(***************************************************************************)
(* The payload cache of MatQueryEngine: _fp, _cached and invalidate, with  *)
(* the loaders that call other cached loaders, as the queries use it: one  *)
(* payload after another, a later one made with the answer for an earlier. *)
(* The database is a version that every commit raises, and its mtime with  *)
(* it.  meta.json, of which trees() shows three fields, has no version.    *)
(***************************************************************************)
EXTENDS Naturals, FiniteSets, Sequences, SequencesExt

CONSTANTS
  Keys,         \* payloads of one dump
  Needs,        \* [Keys -> Seq(Keys)]: what a loader asks for, in order
  ReadsDb,      \* the keys whose loader reads the database, first
  Requests,
  Wanted,       \* [Requests -> Seq(Keys)]: what a query asks for, in order
  Captures,     \* keys whose loader uses what the query was answered before
  MaxVersion    \* bound: commits looked at

(* Below(k): the keys a load of k may come to load; never k itself. *)
Below(k) ==
  LET f[i \in 0..Cardinality(Keys)] ==
        IF i = 0 THEN Range(Needs[k]) ELSE f[i - 1] \union
          UNION {Range(Needs[l]) : l \in f[i - 1]}
  IN f[Cardinality(Keys)]

LoadersAreAcyclic ==
  /\ Needs \in [Keys -> Seq(Keys)] /\ ReadsDb \subseteq Keys
  /\ Wanted \in [Requests -> Seq(Keys)] /\ \A r \in Requests : Wanted[r] # <<>>
  /\ Captures \subseteq Keys /\ \A k \in Keys : Range(Needs[k]) \cap Captures = {}
  /\ \A k \in Keys : k \notin Below(k) /\ (Needs[k] = <<>> => k \in ReadsDb)

VARIABLES
  version,   \* of the database
  cache,     \* key -> [fp, val, seen] or None; val: the versions its load read,
             \* seen: those its query had been answered and put into it
  loading,   \* keys whose event is in _loading
  calls,     \* request -> stack of _cached calls, the innermost last
  asked,     \* request -> the version when it came in
  turn,      \* request -> how many of Wanted[r] it has asked for
  answer     \* request -> the versions it was answered, 0 among them: an error

vars == <<version, cache, loading, calls, asked, turn, answer>>

None  == [fp |-> 0, val |-> {}, seen |-> {}]
Error == {0}

Idle ==
  /\ version = 1 /\ cache = [k \in Keys |-> None] /\ loading = {}
  /\ calls = [r \in Requests |-> <<>>]
  /\ asked = [r \in Requests |-> 0] /\ turn = [r \in Requests |-> 0]
  /\ answer = [r \in Requests |-> {}]

Call(k) == [key |-> k, at |-> "fp", fp |-> 0, val |-> {}, next |-> 1]
Calling(r) == calls[r] # <<>>
Top(r)  == Last(calls[r])
Now(r, call) == calls' = [calls EXCEPT ![r] = Front(@) \o <<call>>]

(* The caller of a call that is over goes on with its value, or raises.     *)
Resume(stack, val) ==
  IF stack = <<>> THEN <<>>
  ELSE Front(stack) \o
       <<[Last(stack) EXCEPT !.val = IF val = Error THEN @ ELSE @ \union val,
                             !.next = @ + 1,
                             !.at = IF val = Error THEN "raised" ELSE @]>>
Answered(r, val) ==
  answer' = IF Len(calls[r]) = 1 THEN [answer EXCEPT ![r] = @ \union val] ELSE answer
Return(r, val) ==
  calls' = [calls EXCEPT ![r] = Resume(Front(@), val)] /\ Answered(r, val)

Ask(r) ==
  /\ asked[r] = 0 /\ asked' = [asked EXCEPT ![r] = version]
  /\ turn' = [turn EXCEPT ![r] = 1]
  /\ calls' = [calls EXCEPT ![r] = <<Call(Wanted[r][1])>>]
  /\ UNCHANGED <<version, cache, loading, answer>>

(* Between two payloads of a query: it has the answers for those before.    *)
Between(r) ==
  ~Calling(r) /\ asked[r] # 0 /\ turn[r] \in 1..Len(Wanted[r]) - 1 /\ 0 \notin answer[r]

(* anatomy() asks for the payload after the index it took `avail` from, and *)
(* only then is the fingerprint of that payload taken.                      *)
GoOn(r) ==
  /\ Between(r) /\ turn' = [turn EXCEPT ![r] = @ + 1]
  /\ calls' = [calls EXCEPT ![r] = <<Call(Wanted[r][turn[r] + 1])>>]
  /\ UNCHANGED <<version, cache, loading, asked, answer>>

(* The index does not have the class, or nothing is extracted: None.        *)
NotAnalyzed(r) ==
  /\ Between(r) /\ turn' = [turn EXCEPT ![r] = Len(Wanted[r])]
  /\ UNCHANGED <<version, cache, loading, calls, asked, answer>>

Fingerprint(r) ==
  /\ Calling(r) /\ Top(r).at = "fp"
  /\ Now(r, [Top(r) EXCEPT !.at = "look", !.fp = version])
  /\ UNCHANGED <<version, cache, loading, asked, turn, answer>>

Hit(r) ==
  /\ Calling(r) /\ Top(r).at = "look" /\ cache[Top(r).key].fp = Top(r).fp
  /\ Return(r, cache[Top(r).key].val)
  /\ UNCHANGED <<version, cache, loading, asked, turn>>

(* A miss: lead the load, or wait for the event of the one who does. *)
Lead(r) ==
  /\ Calling(r) /\ Top(r).at = "look" /\ cache[Top(r).key].fp # Top(r).fp
  /\ Top(r).key \notin loading /\ loading' = loading \union {Top(r).key}
  /\ Now(r, [Top(r) EXCEPT !.at = IF Top(r).key \in ReadsDb THEN "read" ELSE "call"])
  /\ UNCHANGED <<version, cache, asked, turn, answer>>
Follow(r) ==
  /\ Calling(r) /\ Top(r).at = "look" /\ cache[Top(r).key].fp # Top(r).fp
  /\ Top(r).key \in loading /\ Now(r, [Top(r) EXCEPT !.at = "wait"])
  /\ UNCHANGED <<version, cache, loading, asked, turn, answer>>

ReadDb(r) ==
  /\ Calling(r) /\ Top(r).at = "read"
  /\ \/ Now(r, [Top(r) EXCEPT !.at = "call", !.val = {version}])
     \/ Now(r, [Top(r) EXCEPT !.at = "raised"])
  /\ UNCHANGED <<version, cache, loading, asked, turn, answer>>

Nested(r) ==
  /\ Calling(r) /\ Top(r).at = "call" /\ Top(r).next <= Len(Needs[Top(r).key])
  /\ calls' = [calls EXCEPT ![r] = Append(@, Call(Needs[Top(r).key][Top(r).next]))]
  /\ UNCHANGED <<version, cache, loading, asked, turn, answer>>

(* What a loader has of the query that leads it. *)
Captured(r) == IF Top(r).key \in Captures THEN answer[r] ELSE {}

(* Mutant of Store: the fingerprint is taken when the value is there. *)
StoreUnderNewest(r) ==
  /\ Calling(r) /\ Top(r).at = "call" /\ Top(r).next > Len(Needs[Top(r).key])
  /\ cache' = [cache EXCEPT ![Top(r).key] =
                 [fp |-> version, val |-> Top(r).val, seen |-> Captured(r)]]
  /\ Now(r, [Top(r) EXCEPT !.at = "free"])
  /\ UNCHANGED <<version, loading, asked, turn, answer>>

Store(r) ==
  /\ Calling(r) /\ Top(r).at = "call" /\ Top(r).next > Len(Needs[Top(r).key])
  /\ cache' = [cache EXCEPT ![Top(r).key] =
                 [fp |-> Top(r).fp, val |-> Top(r).val, seen |-> Captured(r)]]
  /\ Now(r, [Top(r) EXCEPT !.at = "free"])
  /\ UNCHANGED <<version, loading, asked, turn, answer>>

(* ev.set(): who waits for it looks again. *)
Woken(r, key, val) ==
  IF Calling(r) /\ Top(r).at = "wait" /\ Top(r).key = key
    THEN Front(calls[r]) \o <<[Top(r) EXCEPT !.at = "look"]>> ELSE calls[r]

(* The finally of the leader, whether the load went well or raised. *)
Free(r) ==
  LET call == Top(r)
      val == IF call.at = "free" THEN call.val ELSE Error
  IN /\ Calling(r) /\ call.at \in {"free", "raised"}
     /\ loading' = loading \ {call.key}
     /\ calls' = [s \in Requests |-> IF s = r THEN Resume(Front(calls[r]), val)
                                     ELSE Woken(s, call.key, val)]
     /\ Answered(r, val) /\ UNCHANGED <<version, cache, asked, turn>>

Commit ==
  /\ version < MaxVersion /\ version' = version + 1
  /\ UNCHANGED <<cache, loading, calls, asked, turn, answer>>
Invalidate ==
  /\ cache' = [k \in Keys |-> None]
  /\ UNCHANGED <<version, loading, calls, asked, turn, answer>>

Step(r) == \/ Fingerprint(r) \/ Hit(r) \/ Lead(r) \/ Follow(r) \/ ReadDb(r)
           \/ Nested(r) \/ Store(r) \/ Free(r) \/ GoOn(r) \/ NotAnalyzed(r)
Next == (\E r \in Requests : Ask(r) \/ Step(r)) \/ Commit \/ Invalidate

-----------------------------------------------------------------------------
(* Nothing stale is read for a request: no part of its answer is older     *)
(* than what was committed when it came in, whosever load it waited for and *)
(* whatever that was made from; a payload put together while a commit       *)
(* landed between two of its parts stays in the cache only under a          *)
(* fingerprint no later request can have; and no key is loaded twice at a   *)
(* time.  It says nothing of what a loader had from its query (`seen`).     *)
Loads(r, k) == \E i \in DOMAIN calls[r] :
  calls[r][i].key = k /\ calls[r][i].at \in {"read", "call", "free", "raised"}

ServedIsCurrent ==
  /\ \A r \in Requests : \A v \in answer[r] : v # 0 => v >= asked[r]
  /\ \A k \in Keys : cache[k].fp = version => cache[k].val = {version}
  /\ \A k \in Keys : Cardinality({r \in Requests : Loads(r, k)}) <= 1

(* engine.py:277 "fresh: escalations must not stale the blob": what the     *)
(* query put into a payload belongs to the version the payload is stored    *)
(* under.  An escalation committed after anatomy() has read `avail` and     *)
(* before it takes the fingerprint leaves an older one under a current      *)
(* fingerprint, for later requests too.                                     *)
AvailableIsFresh ==
  \A k \in Keys : cache[k].fp = version => cache[k].seen \subseteq {version}

(* A request that is not over. *)
Busy == \E r \in Requests : Calling(r) \/ Between(r)
=============================================================================
