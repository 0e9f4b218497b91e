------------------------------ MODULE Machine ------------------------------
(***************************************************************************)
(* The per-dump state machine of backend/machine: three component          *)
(* sub-machines (`dump`, the hprof; `data`, the overview bundle;           *)
(* `indexes`, the MAT index set), the pure transition function decide()    *)
(* and the projection onto the flat DumpState the HTTP contract speaks.    *)
(*                                                                         *)
(* Everything here is a constant operator: the modules that own state      *)
(* (DecideLoop, DumpStore) feed it observations and persist its result.    *)
(* Abstracted: the text of an error, the resume tokens (`parts`), and the  *)
(* download plan and source a RemoteView carries for the stages.           *)
(***************************************************************************)
EXTENDS Sequences

New         == "new"   \* NEW is a reserved word of TLA+
DOWNLOADING == "downloading"
PARSING     == "parsing"
DONE        == "done"
ERROR       == "error"
CANCELLED   == "cancelled"

IN_PROGRESS == {DOWNLOADING, PARSING}
TERMINAL    == {DONE, ERROR, CANCELLED}
STATES      == {New} \union IN_PROGRESS \union TERMINAL

COMPONENTS  == {"dump", "data", "indexes"}

A_ACQUIRE_DUMP    == "acquire_dump"
A_ACQUIRE_DATA    == "acquire_data"
A_BOOTSTRAP       == "bootstrap"
A_ACQUIRE_INDEXES == "acquire_indexes"
A_PARSE           == "parse"
A_PREEMPT_PARSE   == "preempt_parse"
A_COMPACT         == "compact"

ActionTags == {A_ACQUIRE_DUMP, A_ACQUIRE_DATA, A_BOOTSTRAP, A_ACQUIRE_INDEXES,
            A_PARSE, A_PREEMPT_PARSE, A_COMPACT}

(***************************************************************************)
(* State: a Comp is a state tag plus the DONE flavour of `indexes`.        *)
(***************************************************************************)
Comps == [s : STATES, compacted : BOOLEAN]

Comp(s) == [s |-> s, compacted |-> FALSE]

(* c.s = s, everything else of the component kept *)
InState(c, s) == [s |-> s, compacted |-> c.compacted]

Machines == [wanted : BOOLEAN, want_indexes : BOOLEAN,
             dump : Comps, data : Comps, indexes : Comps]

NewMachine == [wanted |-> FALSE, want_indexes |-> FALSE,
               dump |-> Comp(New), data |-> Comp(New), indexes |-> Comp(New)]

(* Comp.reset: an explicit retry puts ERROR/CANCELLED back to New. *)
Reset(c) == IF c.s \in {ERROR, CANCELLED} THEN InState(c, New) ELSE c

(***************************************************************************)
(* Inputs of one pass.  zsts_valid is "unknown" (None: no persisted        *)
(* manifest), "valid" or "invalid".                                        *)
(***************************************************************************)
Observations == [hprof : BOOLEAN, data : BOOLEAN, raws : BOOLEAN,
                 zsts : BOOLEAN, zsts_valid : {"unknown", "valid", "invalid"},
                 debris : BOOLEAN, compacted_marker : BOOLEAN]

RemoteViews == [queried : BOOLEAN, failed : BOOLEAN,
                hprof : BOOLEAN, data : BOOLEAN, indexes : BOOLEAN]

Unqueried == [queried |-> FALSE, failed |-> FALSE,
              hprof |-> FALSE, data |-> FALSE, indexes |-> FALSE]

Usable(remote) == remote.queried /\ ~remote.failed

(***************************************************************************)
(* validate(): DONE is earned by artifacts, not by the record.             *)
(***************************************************************************)
(* Mutant of Revalidated: a recorded DONE is believed. *)
RecordIsBelieved(c, promote, demote, done) ==
  IF c.s # DONE /\ promote THEN done ELSE c

Revalidated(c, promote, demote, done) ==
  IF c.s # DONE /\ promote THEN done
  ELSE IF c.s = DONE /\ demote THEN Comp(New)
  ELSE c

ZstsOk(obs) == obs.zsts /\ obs.zsts_valid # "invalid"

IdxOk(obs) == (obs.raws \/ ZstsOk(obs)) /\ ~(obs.debris /\ ~obs.zsts)

(* A PARSING nobody wants anymore is reset without an ERROR. *)
Unwanted(m, c) == c.s = PARSING /\ ~m.want_indexes

Validate(m, obs) ==
  LET idx == Revalidated(m.indexes, IdxOk(obs), ~(obs.raws \/ ZstsOk(obs)),
                         [s |-> DONE, compacted |-> ~obs.raws])
  IN [wanted       |-> m.wanted,
      want_indexes |-> m.want_indexes,
      dump    |-> Revalidated(m.dump, obs.hprof, ~obs.hprof, Comp(DONE)),
      data    |-> Revalidated(m.data, obs.data, ~obs.data, Comp(DONE)),
      indexes |-> IF Unwanted(m, idx) THEN Comp(New) ELSE idx]

(***************************************************************************)
(* The three component blocks of decide().  Each returns the component and *)
(* the actions it asks for, in the order the store executes them.          *)
(***************************************************************************)
Stay(c) == [c |-> c, acts |-> <<>>]

Enter(c, s, acts) == [c |-> InState(c, s), acts |-> acts]

(* Mutant of DecideDump: a recorded DOWNLOADING counts as a running one. *)
DownloadingIsRunning(m, live, remote) ==
  LET c == m.dump
      idle == c.s \in TERMINAL \union {DOWNLOADING} \/ ~m.wanted
              \/ ~Usable(remote)
  IN IF idle THEN Stay(c)
     ELSE IF remote.hprof THEN Enter(c, DOWNLOADING, <<A_ACQUIRE_DUMP>>)
     ELSE Enter(c, ERROR, <<>>)

DecideDump(m, live, remote) ==
  LET c == m.dump
      idle == \/ c.s \in TERMINAL \/ ~m.wanted
              \/ c.s = DOWNLOADING /\ "dump" \in live
              \/ ~Usable(remote)
  IN IF idle THEN Stay(c)
     ELSE IF remote.hprof THEN Enter(c, DOWNLOADING, <<A_ACQUIRE_DUMP>>)
     ELSE Enter(c, ERROR, <<>>)   \* confirmed absent: a real dead end

(* Mutant of DecideData: a failed or cancelled bundle is fetched again. *)
DataRetriesItself(m, obs, live, remote, allow_local) ==
  LET c == m.data
      idle == c.s = DONE \/ ~m.wanted \/ (c.s \in IN_PROGRESS /\ "data" \in live)
  IN IF idle THEN Stay(c)
     ELSE IF Usable(remote) /\ remote.data
            THEN Enter(c, DOWNLOADING, <<A_ACQUIRE_DATA>>)
     ELSE IF allow_local /\ obs.hprof
            THEN Enter(c, PARSING, <<A_BOOTSTRAP>>)
     ELSE Stay(c)

DecideData(m, obs, live, remote, allow_local) ==
  LET c == m.data
      idle == \/ c.s \in TERMINAL \/ ~m.wanted
              \/ c.s \in IN_PROGRESS /\ "data" \in live
      published == Usable(remote) /\ remote.data
  IN IF idle THEN Stay(c)
     ELSE IF published THEN Enter(c, DOWNLOADING, <<A_ACQUIRE_DATA>>)
     ELSE IF allow_local /\ obs.hprof
            THEN Enter(c, PARSING, <<A_BOOTSTRAP>>)
     ELSE Stay(c)

CompactDue(obs, live, mat_idle, compact_hold) ==
  /\ obs.raws /\ obs.compacted_marker
  /\ mat_idle /\ ~compact_hold
  /\ "indexes" \notin live

(* Mutant of AcquireIndexes: a running acquisition is not looked for. *)
IndexesStartAgain(m, obs, live, remote) ==
  LET c == m.indexes IN
  IF c.s \in {ERROR, CANCELLED} \/ ~(m.wanted \/ m.want_indexes) THEN Stay(c)
  ELSE IF Usable(remote) /\ remote.indexes
         THEN Enter(c, DOWNLOADING, <<A_ACQUIRE_INDEXES>>)
  ELSE Stay(c)

(* Rows in the code's order: stopped, preemptible or running, blocked by a *)
(* live data stage, published, requested locally.                          *)
AcquireIndexes(m, obs, live, remote) ==
  LET c == m.indexes
      idle == c.s \in {ERROR, CANCELLED} \/ ~(m.wanted \/ m.want_indexes)
      running == c.s \in IN_PROGRESS /\ "indexes" \in live
      published == Usable(remote) /\ remote.indexes
  IN IF idle THEN Stay(c)
     ELSE IF running THEN
       IF c.s = PARSING /\ published
         THEN Enter(c, DOWNLOADING, <<A_PREEMPT_PARSE, A_ACQUIRE_INDEXES>>)
         ELSE Stay(c)
     ELSE IF "data" \in live THEN Stay(c)
     ELSE IF published THEN Enter(c, DOWNLOADING, <<A_ACQUIRE_INDEXES>>)
     ELSE IF m.want_indexes /\ obs.hprof /\ obs.data
            THEN Enter(c, PARSING, <<A_PARSE>>)
     ELSE Stay(c)

DecideIndexes(m, obs, live, remote, mat_idle, compact_hold) ==
  IF m.indexes.s # DONE THEN AcquireIndexes(m, obs, live, remote)
  ELSE [c |-> m.indexes,
        acts |-> IF CompactDue(obs, live, mat_idle, compact_hold)
                   THEN <<A_COMPACT>> ELSE <<>>]

(* decide(): validate, then the three blocks in their fixed order. *)
Decide(m0, in) ==
  LET m  == Validate(m0, in.obs)
      du == DecideDump(m, in.live, in.remote)
      da == DecideData(m, in.obs, in.live, in.remote, in.allow_local)
      ix == DecideIndexes(m, in.obs, in.live, in.remote, in.mat_idle,
                          in.compact_hold)
  IN [m    |-> [wanted |-> m.wanted, want_indexes |-> m.want_indexes,
                dump |-> du.c, data |-> da.c, indexes |-> ix.c],
      acts |-> du.acts \o da.acts \o ix.acts]

(* The inputs decide() takes besides the machine. *)
Inputs == [obs : Observations, live : SUBSET COMPONENTS, remote : RemoteViews,
           allow_local : BOOLEAN, mat_idle : BOOLEAN, compact_hold : BOOLEAN]

(***************************************************************************)
(* project(): the flat DumpState.  `assembled`: every dump part is         *)
(* complete in .dl/.                                                       *)
(***************************************************************************)
Stopped(s) == s \in {ERROR, CANCELLED}

Project(m, assembled) ==
  IF m.dump.s # DONE THEN
    IF Stopped(m.dump.s) THEN "failed"
    ELSE IF assembled THEN "assembling" ELSE "downloading"
  ELSE IF m.data.s = DONE THEN "ready"
  ELSE IF Stopped(m.data.s) THEN "failed" ELSE "indexing"
=============================================================================
