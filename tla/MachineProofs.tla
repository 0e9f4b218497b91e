---------------------------- MODULE MachineProofs ----------------------------
(***************************************************************************)
(* Lemmas about decide(), for every recorded machine and every input: what *)
(* validate() and the three component blocks preserve, and what an action  *)
(* that is asked for tells of the input.  DecideProofs and DumpStoreProofs *)
(* rest on them.                                                           *)
(***************************************************************************)
EXTENDS Machine, Naturals, TLAPS

USE DEF New, DOWNLOADING, PARSING, DONE, ERROR, CANCELLED

-----------------------------------------------------------------------------
(* validate() returns a machine with the flags it got, and decides DONE by  *)
(* the artifacts alone: the record matters for an index set with debris.    *)
LEMMA ValidateFacts ==
  ASSUME NEW mm \in Machines, NEW obs \in Observations
  PROVE  LET v == Validate(mm, obs) IN
         /\ v \in Machines
         /\ v.wanted = mm.wanted /\ v.want_indexes = mm.want_indexes
         /\ v.dump.s = DONE <=> obs.hprof
         /\ v.data.s = DONE <=> obs.data
         /\ v.indexes.s = DONE => obs.raws \/ ZstsOk(obs)
         /\ IdxOk(obs) => v.indexes.s = DONE
<1> USE DEF Machines, Comps, STATES, IN_PROGRESS, TERMINAL
<1>1. ASSUME NEW c \in Comps, NEW p \in BOOLEAN, NEW q \in BOOLEAN,
             NEW d \in Comps
      PROVE  Revalidated(c, p, q, d) \in Comps
  BY <1>1 DEF Revalidated, Comp
<1>2. /\ obs.hprof \in BOOLEAN /\ obs.data \in BOOLEAN
      /\ IdxOk(obs) \in BOOLEAN /\ (~(obs.raws \/ ZstsOk(obs))) \in BOOLEAN
      /\ (~obs.raws) \in BOOLEAN
  BY DEF Observations, IdxOk, ZstsOk
<1>3. Comp(DONE) \in Comps /\ Comp(New) \in Comps
  BY DEF Comp
<1>4. [s |-> DONE, compacted |-> ~obs.raws] \in Comps
  BY <1>2
<1> DEFINE du == Revalidated(mm.dump, obs.hprof, ~obs.hprof, Comp(DONE))
           da == Revalidated(mm.data, obs.data, ~obs.data, Comp(DONE))
           ix == Revalidated(mm.indexes, IdxOk(obs),
                             ~(obs.raws \/ ZstsOk(obs)),
                             [s |-> DONE, compacted |-> ~obs.raws])
           ux == IF Unwanted(mm, ix) THEN Comp(New) ELSE ix
<1>5. du \in Comps /\ da \in Comps /\ ix \in Comps /\ ux \in Comps
  <2>1. /\ mm.dump \in Comps /\ mm.data \in Comps /\ mm.indexes \in Comps
        /\ (~obs.hprof) \in BOOLEAN /\ (~obs.data) \in BOOLEAN
    OBVIOUS
  <2>2. du \in Comps /\ da \in Comps /\ ix \in Comps
    BY <1>1, <1>2, <1>3, <1>4, <2>1
  <2>3. QED
    BY <1>3, <2>2
<1>6. Validate(mm, obs)
        = [wanted |-> mm.wanted, want_indexes |-> mm.want_indexes,
           dump |-> du, data |-> da, indexes |-> ux]
  BY DEF Validate
<1>7. du.s = DONE <=> obs.hprof
  BY <1>2 DEF Revalidated, Comp
<1>8. da.s = DONE <=> obs.data
  BY <1>2 DEF Revalidated, Comp
<1>9. /\ ux.s = DONE => obs.raws \/ ZstsOk(obs)
      /\ IdxOk(obs) => ux.s = DONE
  BY <1>2 DEF Revalidated, Comp, Unwanted, IdxOk
<1> HIDE DEF du, da, ux
<1>10. QED
  BY <1>5, <1>6, <1>7, <1>8, <1>9

(* A component block neither earns nor loses DONE and never leaves a stop.  *)
KeepsStops(c, d) ==
  /\ d.s = DONE <=> c.s = DONE
  /\ Stopped(c.s) => d = c

(* What every block returns: a component and a sequence of known actions.   *)
BlockOK(c, b) ==
  /\ b.c \in Comps
  /\ b.acts \in Seq(ActionTags)
  /\ KeepsStops(c, b.c)

LEMMA StayIsOK ==
  ASSUME NEW c \in Comps
  PROVE  BlockOK(c, Stay(c))
  BY DEF Stay, BlockOK, KeepsStops

LEMMA EnterIsOK ==
  ASSUME NEW c \in Comps, c.s \notin TERMINAL,
         NEW s \in IN_PROGRESS \union {ERROR}, NEW as \in Seq(ActionTags)
  PROVE  BlockOK(c, Enter(c, s, as))
  BY DEF Enter, InState, BlockOK, KeepsStops, Stopped, Comps, STATES,
         IN_PROGRESS, TERMINAL

LEMMA DumpBlock ==
  ASSUME NEW mm \in Machines, NEW live, NEW r \in RemoteViews
  PROVE  BlockOK(mm.dump, DecideDump(mm, live, r))
<1>1. mm.dump \in Comps
  BY DEF Machines
<1>2. <<>> \in Seq(ActionTags) /\ <<A_ACQUIRE_DUMP>> \in Seq(ActionTags)
  BY DEF ActionTags
<1>3. BlockOK(mm.dump, Stay(mm.dump))
  BY <1>1, StayIsOK
<1>4. mm.dump.s \notin TERMINAL =>
        /\ BlockOK(mm.dump, Enter(mm.dump, ERROR, <<>>))
        /\ BlockOK(mm.dump, Enter(mm.dump, DOWNLOADING, <<A_ACQUIRE_DUMP>>))
  BY <1>1, <1>2, EnterIsOK DEF IN_PROGRESS
<1>5. QED
  BY <1>3, <1>4 DEF DecideDump

LEMMA DataBlock ==
  ASSUME NEW mm \in Machines, NEW obs, NEW live, NEW r \in RemoteViews,
         NEW al \in BOOLEAN
  PROVE  BlockOK(mm.data, DecideData(mm, obs, live, r, al))
<1>1. mm.data \in Comps
  BY DEF Machines
<1>2. <<A_ACQUIRE_DATA>> \in Seq(ActionTags) /\ <<A_BOOTSTRAP>> \in Seq(ActionTags)
  BY DEF ActionTags
<1>3. BlockOK(mm.data, Stay(mm.data))
  BY <1>1, StayIsOK
<1>4. mm.data.s \notin TERMINAL =>
        /\ BlockOK(mm.data, Enter(mm.data, DOWNLOADING, <<A_ACQUIRE_DATA>>))
        /\ BlockOK(mm.data, Enter(mm.data, PARSING, <<A_BOOTSTRAP>>))
  BY <1>1, <1>2, EnterIsOK DEF IN_PROGRESS
<1>5. QED
  BY <1>3, <1>4 DEF DecideData

LEMMA IndexBlock ==
  ASSUME NEW mm \in Machines, NEW obs, NEW live, NEW r \in RemoteViews,
         NEW idle, NEW hold
  PROVE  BlockOK(mm.indexes, DecideIndexes(mm, obs, live, r, idle, hold))
<1> DEFINE c == mm.indexes
           both == <<A_PREEMPT_PARSE, A_ACQUIRE_INDEXES>>
<1>1. c \in Comps
  BY DEF Machines
<1>2. /\ both \in Seq(ActionTags)
      /\ <<A_ACQUIRE_INDEXES>> \in Seq(ActionTags)
      /\ <<A_PARSE>> \in Seq(ActionTags)
      /\ <<A_COMPACT>> \in Seq(ActionTags)
      /\ <<>> \in Seq(ActionTags)
  BY DEF ActionTags
<1>3. BlockOK(c, Stay(c))
  BY <1>1, StayIsOK
<1>4. c.s \notin TERMINAL =>
        /\ BlockOK(c, Enter(c, DOWNLOADING, both))
        /\ BlockOK(c, Enter(c, DOWNLOADING, <<A_ACQUIRE_INDEXES>>))
        /\ BlockOK(c, Enter(c, PARSING, <<A_PARSE>>))
  BY <1>1, <1>2, EnterIsOK DEF IN_PROGRESS
<1>5. CASE c.s = DONE
  <2>1. \A as \in Seq(ActionTags) : BlockOK(c, [c |-> c, acts |-> as])
    BY <1>1 DEF BlockOK, KeepsStops
  <2>2. QED
    BY <1>2, <1>5, <2>1 DEF DecideIndexes
<1>6. CASE c.s # DONE
  BY <1>3, <1>4, <1>6 DEF DecideIndexes, AcquireIndexes, TERMINAL
<1>7. QED
  BY <1>5, <1>6

-----------------------------------------------------------------------------
(* decide() as a whole: the validated machine decides DONE, the blocks keep *)
(* it, and the answer is a machine and a sequence of known actions.         *)
LEMMA DecideFacts ==
  ASSUME NEW mm \in Machines, NEW i \in Inputs
  PROVE  LET d == Decide(mm, i) IN
         /\ d.m \in Machines
         /\ d.acts \in Seq(ActionTags)
         /\ d.m.dump.s = DONE <=> i.obs.hprof
         /\ d.m.data.s = DONE <=> i.obs.data
         /\ d.m.indexes.s = DONE => i.obs.raws \/ ZstsOk(i.obs)
         /\ IdxOk(i.obs) => d.m.indexes.s = DONE
<1> DEFINE v  == Validate(mm, i.obs)
           du == DecideDump(v, i.live, i.remote)
           da == DecideData(v, i.obs, i.live, i.remote, i.allow_local)
           ix == DecideIndexes(v, i.obs, i.live, i.remote, i.mat_idle,
                               i.compact_hold)
<1>1. /\ i.obs \in Observations /\ i.remote \in RemoteViews
      /\ i.allow_local \in BOOLEAN
  BY DEF Inputs
<1>2. /\ v \in Machines
      /\ v.dump.s = DONE <=> i.obs.hprof
      /\ v.data.s = DONE <=> i.obs.data
      /\ v.indexes.s = DONE => i.obs.raws \/ ZstsOk(i.obs)
      /\ IdxOk(i.obs) => v.indexes.s = DONE
  BY <1>1, ValidateFacts
<1> HIDE DEF v
<1>3. BlockOK(v.dump, du) /\ BlockOK(v.data, da) /\ BlockOK(v.indexes, ix)
  BY <1>1, <1>2, DumpBlock, DataBlock, IndexBlock
<1> HIDE DEF du, da, ix
<1>4. /\ Decide(mm, i).m
           = [wanted |-> v.wanted, want_indexes |-> v.want_indexes,
              dump |-> du.c, data |-> da.c, indexes |-> ix.c]
      /\ Decide(mm, i).acts = du.acts \o da.acts \o ix.acts
  BY DEF Decide, v, du, da, ix
<1>5. v.wanted \in BOOLEAN /\ v.want_indexes \in BOOLEAN
  BY <1>2 DEF Machines
<1>6. Decide(mm, i).m \in Machines
  BY <1>3, <1>4, <1>5 DEF Machines, BlockOK
<1>7. Decide(mm, i).acts \in Seq(ActionTags)
  BY <1>3, <1>4 DEF BlockOK
<1>8. QED
  BY <1>2, <1>3, <1>4, <1>6, <1>7 DEF BlockOK, KeepsStops

(* A pass keeps a stopped component or promotes it.  *)
LEMMA DecideKeepsStops ==
  ASSUME NEW mm \in Machines, NEW i \in Inputs, NEW n \in COMPONENTS,
         Stopped(mm[n].s)
  PROVE  Decide(mm, i).m[n] = mm[n] \/ Decide(mm, i).m[n].s = DONE
<1> DEFINE v  == Validate(mm, i.obs)
           du == DecideDump(v, i.live, i.remote)
           da == DecideData(v, i.obs, i.live, i.remote, i.allow_local)
           ix == DecideIndexes(v, i.obs, i.live, i.remote, i.mat_idle,
                               i.compact_hold)
<1>1. /\ i.obs \in Observations /\ i.remote \in RemoteViews
      /\ i.allow_local \in BOOLEAN
  BY DEF Inputs
<1>2. v \in Machines
  BY <1>1, ValidateFacts
<1>3. v[n] = mm[n] \/ v[n].s = DONE
  BY DEF Validate, Revalidated, Unwanted, Comp, Stopped, COMPONENTS
<1> HIDE DEF v
<1>4. BlockOK(v.dump, du) /\ BlockOK(v.data, da) /\ BlockOK(v.indexes, ix)
  BY <1>1, <1>2, DumpBlock, DataBlock, IndexBlock
<1> HIDE DEF du, da, ix
<1>5. /\ Decide(mm, i).m.dump = du.c
      /\ Decide(mm, i).m.data = da.c
      /\ Decide(mm, i).m.indexes = ix.c
  BY DEF Decide, v, du, da, ix
<1>6. QED
  BY <1>3, <1>4, <1>5 DEF BlockOK, KeepsStops, COMPONENTS

(* What an action that is asked for tells: its artifact is published, or    *)
(* the dump it is built from is there.                                      *)
Warranted(a, i) ==
  /\ a = A_ACQUIRE_DUMP => Usable(i.remote) /\ i.remote.hprof
  /\ a = A_ACQUIRE_DATA => Usable(i.remote) /\ i.remote.data
  /\ a = A_ACQUIRE_INDEXES => Usable(i.remote) /\ i.remote.indexes
  /\ a = A_BOOTSTRAP => i.allow_local /\ i.obs.hprof

AllWarranted(acts, i) == \A k \in 1..Len(acts) : Warranted(acts[k], i)

LEMMA WarrantedConcat ==
  ASSUME NEW i, NEW s \in Seq(ActionTags), NEW t \in Seq(ActionTags),
         AllWarranted(s, i), AllWarranted(t, i)
  PROVE  AllWarranted(s \o t, i)
<1> SUFFICES ASSUME NEW k \in 1..Len(s \o t) PROVE Warranted((s \o t)[k], i)
  BY DEF AllWarranted
<1>1. CASE k <= Len(s)
  BY <1>1 DEF AllWarranted
<1>2. CASE k > Len(s)
  <2>1. k - Len(s) \in 1..Len(t) /\ (s \o t)[k] = t[k - Len(s)]
    BY <1>2
  <2>2. QED
    BY <2>1 DEF AllWarranted
<1>3. QED
  BY <1>1, <1>2

LEMMA DecideAsks ==
  ASSUME NEW mm \in Machines, NEW i \in Inputs
  PROVE  AllWarranted(Decide(mm, i).acts, i)
<1> DEFINE v  == Validate(mm, i.obs)
           du == DecideDump(v, i.live, i.remote)
           da == DecideData(v, i.obs, i.live, i.remote, i.allow_local)
           ix == DecideIndexes(v, i.obs, i.live, i.remote, i.mat_idle,
                               i.compact_hold)
<1>1. v \in Machines
  BY ValidateFacts DEF Inputs
<1> HIDE DEF v
<1>2. BlockOK(v.dump, du) /\ BlockOK(v.data, da) /\ BlockOK(v.indexes, ix)
  BY <1>1, DumpBlock, DataBlock, IndexBlock DEF Inputs
<1> USE DEF AllWarranted, Warranted, Stay, Enter, A_ACQUIRE_DUMP, A_ACQUIRE_DATA,
            A_ACQUIRE_INDEXES, A_BOOTSTRAP, A_PARSE, A_PREEMPT_PARSE, A_COMPACT
<1>3. AllWarranted(du.acts, i)
  BY DEF DecideDump
<1>4. AllWarranted(da.acts, i)
  BY DEF DecideData
<1>5. AllWarranted(ix.acts, i)
  <2>1. AllWarranted(<<>>, i) /\ AllWarranted(<<A_COMPACT>>, i)
        /\ AllWarranted(<<A_PARSE>>, i)
    OBVIOUS
  <2>2. Usable(i.remote) /\ i.remote.indexes
          => /\ AllWarranted(<<A_ACQUIRE_INDEXES>>, i)
             /\ AllWarranted(<<A_PREEMPT_PARSE, A_ACQUIRE_INDEXES>>, i)
    OBVIOUS
  <2> HIDE DEF AllWarranted
  <2>3. QED
    BY <2>1, <2>2 DEF DecideIndexes, AcquireIndexes
<1> HIDE DEF du, da, ix, AllWarranted, Warranted
<1>6. Decide(mm, i).acts = (du.acts \o da.acts) \o ix.acts
  BY <1>2 DEF Decide, v, du, da, ix, BlockOK
<1>7. AllWarranted(du.acts \o da.acts, i) /\ du.acts \o da.acts \in Seq(ActionTags)
  BY <1>2, <1>3, <1>4, WarrantedConcat DEF BlockOK
<1>8. QED
  BY <1>2, <1>5, <1>6, <1>7, WarrantedConcat DEF BlockOK
==============================================================================
