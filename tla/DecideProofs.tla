---------------------------- MODULE DecideProofs ----------------------------
(***************************************************************************)
(* Proofs about repeated passes of decide(), for every recorded machine    *)
(* and every input: the invariants and action properties of DecideLoop.    *)
(***************************************************************************)
EXTENDS DecideLoop, MachineProofs

USE DEF New, DOWNLOADING, PARSING, DONE, ERROR, CANCELLED

-----------------------------------------------------------------------------
LEMMA RangeOfSeq ==
  ASSUME NEW S, NEW s \in Seq(S)
  PROVE  ActionsIn(s) \subseteq S
  BY DEF ActionsIn

LEMMA AfterIsInput ==
  ASSUME NEW i \in Inputs, NEW done \in SUBSET ActionTags
  PROVE  After(i, done) \in Inputs /\ After(i, done).obs = i.obs
<1>1. \A a \in done : LiveBy(a) \subseteq COMPONENTS
  BY DEF LiveBy, COMPONENTS
<1>2. (UNION {LiveBy(a) : a \in done}) \subseteq COMPONENTS
  BY <1>1
<1>3. QED
  BY <1>2 DEF After, Inputs

-----------------------------------------------------------------------------
(* DecideLoop's variables keep their types, from every initial machine and  *)
(* every input.                                                             *)
THEOREM TypeCorrect == Spec => []TypeOK
<1>1. Init => TypeOK
  BY MachinesAssumption, InputsAssumption DEF Init, TypeOK
<1>2. TypeOK /\ [Next]_vars => TypeOK'
  <2> SUFFICES ASSUME TypeOK, [Next]_vars PROVE TypeOK'
    OBVIOUS
  <2>1. CASE Pass
    <3>1. Decide(m, in).m \in Machines /\ Decide(m, in).acts \in Seq(ActionTags)
      BY DecideFacts DEF TypeOK
    <3>2. acts' \in SUBSET ActionTags
      BY <2>1, <3>1, RangeOfSeq DEF Pass
    <3>3. in' \in Inputs
      BY <2>1, <3>2, AfterIsInput DEF Pass, TypeOK
    <3>4. QED
      BY <2>1, <3>1, <3>2, <3>3 DEF Pass, TypeOK
  <2>2. CASE UNCHANGED vars
    BY <2>2 DEF vars, TypeOK
  <2>3. QED
    BY <2>1, <2>2 DEF Next
<1>3. QED
  BY <1>1, <1>2, PTL DEF Spec

(* DONE is earned by artifacts: after every pass, for every input.  *)
THEOREM EarnedDone == Spec => []DoneIsEarned
<1>1. Init => DoneIsEarned
  BY DEF Init, DoneIsEarned
<1>2. TypeOK /\ TypeOK' /\ DoneIsEarned /\ [Next]_vars => DoneIsEarned'
  <2> SUFFICES ASSUME TypeOK, TypeOK', DoneIsEarned, [Next]_vars
               PROVE  DoneIsEarned'
    OBVIOUS
  <2>1. CASE Pass
    <3>1. in'.obs = in.obs
      BY <2>1, AfterIsInput DEF Pass, TypeOK
    <3>2. QED
      BY <2>1, <3>1, DecideFacts DEF Pass, TypeOK, DoneIsEarned
  <2>2. CASE UNCHANGED vars
    BY <2>2 DEF vars, DoneIsEarned
  <2>3. QED
    BY <2>1, <2>2 DEF Next
<1>3. QED
  BY <1>1, <1>2, TypeCorrect, PTL DEF Spec

(* Only an explicit retry or an artifact leaves ERROR and CANCELLED.  *)
THEOREM StickyStops == Spec => StopsAreSticky
<1>1. TypeOK /\ [Next]_vars
        => [\A c \in COMPONENTS :
              Stopped(m[c].s) => \/ m'[c] = m[c]
                                 \/ m'[c].s = DONE]_vars
  BY DecideKeepsStops DEF Next, Pass, TypeOK
<1>2. QED
  BY <1>1, TypeCorrect, PTL DEF Spec, StopsAreSticky

-----------------------------------------------------------------------------
(* The actions of a pass, block by block, and what they leave for the next. *)
LEMMA ActionsOfConcat ==
  ASSUME NEW s \in Seq(ActionTags), NEW t \in Seq(ActionTags)
  PROVE  ActionsIn(s \o t) = ActionsIn(s) \union ActionsIn(t)
<1>1. /\ DOMAIN s = 1..Len(s) /\ DOMAIN t = 1..Len(t) /\ Len(s) \in Nat /\ Len(t) \in Nat
      /\ Len(s \o t) = Len(s) + Len(t) /\ DOMAIN (s \o t) = 1..(Len(s) + Len(t))
      /\ \A k \in 1..Len(s) : (s \o t)[k] = s[k]
      /\ \A k \in 1..Len(t) : (s \o t)[Len(s) + k] = t[k]
  OBVIOUS
<1>2. ASSUME NEW a \in ActionsIn(s \o t) PROVE a \in ActionsIn(s) \union ActionsIn(t)
  <2>1. PICK k \in 1..(Len(s) + Len(t)) : a = (s \o t)[k]
    BY <1>1, <1>2 DEF ActionsIn
  <2>2. CASE k <= Len(s)
    BY <1>1, <2>1, <2>2 DEF ActionsIn
  <2>3. CASE k > Len(s)
    <3>1. k - Len(s) \in 1..Len(t) /\ (s \o t)[Len(s) + (k - Len(s))] = t[k - Len(s)]
      BY <1>1, <2>3
    <3>2. QED
      BY <1>1, <2>1, <3>1 DEF ActionsIn
  <2>4. QED
    BY <1>1, <2>2, <2>3
<1>3. ASSUME NEW a \in ActionsIn(s) PROVE a \in ActionsIn(s \o t)
  <2>1. PICK k \in 1..Len(s) : a = s[k]
    BY <1>1, <1>3 DEF ActionsIn
  <2>2. k \in 1..(Len(s) + Len(t)) /\ (s \o t)[k] = a
    BY <1>1, <2>1
  <2>3. QED
    BY <1>1, <2>2 DEF ActionsIn
<1>4. ASSUME NEW a \in ActionsIn(t) PROVE a \in ActionsIn(s \o t)
  <2>1. PICK k \in 1..Len(t) : a = t[k]
    BY <1>1, <1>4 DEF ActionsIn
  <2>2. Len(s) + k \in 1..(Len(s) + Len(t)) /\ (s \o t)[Len(s) + k] = a
    BY <1>1, <2>1
  <2>3. QED
    BY <1>1, <2>2 DEF ActionsIn
<1>5. QED
  BY <1>2, <1>3, <1>4

LEMMA ActionsOfTuples ==
  /\ ActionsIn(<<>>) = {}
  /\ \A a : ActionsIn(<<a>>) = {a}
  /\ \A a, b : ActionsIn(<<a, b>>) = {a, b}
<1>1. ActionsIn(<<>>) = {}
  BY DEF ActionsIn
<1>2. ASSUME NEW a PROVE ActionsIn(<<a>>) = {a}
  BY DEF ActionsIn
<1>3. ASSUME NEW a, NEW b PROVE ActionsIn(<<a, b>>) = {a, b}
  <2>1. DOMAIN <<a, b>> = {1, 2} /\ <<a, b>>[1] = a /\ <<a, b>>[2] = b
    OBVIOUS
  <2>2. QED
    BY <2>1 DEF ActionsIn
<1>4. QED
  BY <1>1, <1>2, <1>3

LEMMA AfterFacts ==
  ASSUME NEW i \in Inputs, NEW done \in SUBSET ActionTags
  PROVE  LET j == After(i, done) IN
         /\ j \in Inputs /\ j.obs = i.obs /\ j.remote = i.remote
         /\ j.compact_hold = i.compact_hold /\ ~j.allow_local
         /\ j.mat_idle <=> i.mat_idle /\ done \intersect MatActions = {}
         /\ i.live \subseteq j.live
         /\ A_ACQUIRE_DUMP \in done => "dump" \in j.live
         /\ A_ACQUIRE_DATA \in done => "data" \in j.live
         /\ A_ACQUIRE_INDEXES \in done => "indexes" \in j.live
         /\ A_BOOTSTRAP \in done => "data" \in j.live /\ "indexes" \in j.live
         /\ "indexes" \in j.live => \/ "indexes" \in i.live
                                   \/ A_ACQUIRE_INDEXES \in done
                                   \/ A_BOOTSTRAP \in done
<1> DEFINE j == After(i, done)
           more == UNION {LiveBy(a) : a \in done}
<1>1. j \in Inputs /\ j.obs = i.obs
  BY AfterIsInput
<1>2. /\ j.remote = i.remote /\ j.compact_hold = i.compact_hold
      /\ j.allow_local = FALSE /\ j.live = i.live \union more
  <2> HIDE DEF more
  <2>1. QED
    BY DEF After, Inputs, more
<1>3. j.mat_idle <=> i.mat_idle /\ done \intersect MatActions = {}
  <2>1. PICK b : b <=> i.mat_idle /\ done \intersect MatActions = {}
    OBVIOUS
  <2>2. QED
    BY DEF After, Inputs
<1>4. \A a \in done : LiveBy(a) \subseteq more
  OBVIOUS
<1>5. \A x \in more : \E a \in done : x \in LiveBy(a)
  OBVIOUS
<1> HIDE DEF j, more
<1> USE DEF A_ACQUIRE_DUMP, A_ACQUIRE_DATA, A_ACQUIRE_INDEXES, A_BOOTSTRAP
<1>6. /\ LiveBy(A_ACQUIRE_DUMP) = {"dump"} /\ LiveBy(A_ACQUIRE_DATA) = {"data"}
      /\ LiveBy(A_ACQUIRE_INDEXES) = {"indexes"} /\ LiveBy(A_BOOTSTRAP) = {"data", "indexes"}
      /\ \A a : "indexes" \in LiveBy(a) => a \in {A_ACQUIRE_INDEXES, A_BOOTSTRAP}
  BY DEF LiveBy
<1> HIDE DEF A_ACQUIRE_DUMP, A_ACQUIRE_DATA, A_ACQUIRE_INDEXES, A_BOOTSTRAP
<1>7. QED
  BY <1>1, <1>2, <1>3, <1>4, <1>5, <1>6 DEF j

(* A pass, taken apart: the validated machine, the blocks and their actions.*)
PassParts(mm, i, v, du, da, ix) ==
  /\ v = Validate(mm, i.obs) /\ v \in Machines
  /\ du = DecideDump(v, i.live, i.remote)
  /\ da = DecideData(v, i.obs, i.live, i.remote, i.allow_local)
  /\ ix = DecideIndexes(v, i.obs, i.live, i.remote, i.mat_idle, i.compact_hold)
  /\ BlockOK(v.dump, du) /\ BlockOK(v.data, da) /\ BlockOK(v.indexes, ix)
  /\ Decide(mm, i).m = [wanted |-> v.wanted, want_indexes |-> v.want_indexes,
                        dump |-> du.c, data |-> da.c, indexes |-> ix.c]
  /\ Decide(mm, i).acts = (du.acts \o da.acts) \o ix.acts
  /\ ActionsIn(Decide(mm, i).acts)
       = (ActionsIn(du.acts) \union ActionsIn(da.acts)) \union ActionsIn(ix.acts)

LEMMA DecideParts ==
  ASSUME NEW mm \in Machines, NEW i \in Inputs
  PROVE  \E v, du, da, ix : PassParts(mm, i, v, du, da, ix)
<1>1. PICK v : v = Validate(mm, i.obs)
  OBVIOUS
<1>2. v \in Machines
  BY <1>1, ValidateFacts DEF Inputs
<1>3. PICK du : du = DecideDump(v, i.live, i.remote)
  OBVIOUS
<1>4. PICK da : da = DecideData(v, i.obs, i.live, i.remote, i.allow_local)
  OBVIOUS
<1>5. PICK ix : ix = DecideIndexes(v, i.obs, i.live, i.remote, i.mat_idle, i.compact_hold)
  OBVIOUS
<1>6. BlockOK(v.dump, du) /\ BlockOK(v.data, da) /\ BlockOK(v.indexes, ix)
  BY <1>2, <1>3, <1>4, <1>5, DumpBlock, DataBlock, IndexBlock DEF Inputs
<1>7. /\ du.acts \in Seq(ActionTags) /\ da.acts \in Seq(ActionTags)
      /\ ix.acts \in Seq(ActionTags)
  BY <1>6 DEF BlockOK
<1>8. Decide(mm, i).acts = du.acts \o da.acts \o ix.acts
  BY <1>1, <1>3, <1>4, <1>5 DEF Decide
<1>9. Decide(mm, i).acts = (du.acts \o da.acts) \o ix.acts
  BY <1>7, <1>8
<1>10. du.acts \o da.acts \in Seq(ActionTags)
  BY <1>7
<1>11. /\ ActionsIn(du.acts \o da.acts) = ActionsIn(du.acts) \union ActionsIn(da.acts)
       /\ ActionsIn((du.acts \o da.acts) \o ix.acts)
            = ActionsIn(du.acts \o da.acts) \union ActionsIn(ix.acts)
  BY <1>7, <1>10, ActionsOfConcat
<1>12. ActionsIn(Decide(mm, i).acts)
         = (ActionsIn(du.acts) \union ActionsIn(da.acts)) \union ActionsIn(ix.acts)
  BY <1>9, <1>11
<1>13. Decide(mm, i).m = [wanted |-> v.wanted, want_indexes |-> v.want_indexes,
                          dump |-> du.c, data |-> da.c, indexes |-> ix.c]
  BY <1>1, <1>3, <1>4, <1>5 DEF Decide
<1>14. PassParts(mm, i, v, du, da, ix)
  BY <1>1, <1>2, <1>3, <1>4, <1>5, <1>6, <1>9, <1>12, <1>13 DEF PassParts
<1>15. QED
  BY <1>14

(* What each block may ask for, and when it stays.                          *)
LEMMA DumpAsks ==
  ASSUME NEW mm \in Machines, NEW i,
         NEW b, b = DecideDump(mm, i.live, i.remote)
  PROVE  LET does == ActionsIn(b.acts) IN
         \/ /\ b.c = mm.dump /\ b.acts = <<>>
            /\ \/ b.c.s \in TERMINAL \/ ~mm.wanted \/ ~Usable(i.remote)
               \/ b.c.s = DOWNLOADING /\ "dump" \in i.live
         \/ b.c.s = ERROR /\ b.acts = <<>> /\ ~i.remote.hprof
         \/ b.c.s = DOWNLOADING /\ does = {A_ACQUIRE_DUMP}
  BY ActionsOfTuples DEF DecideDump, Stay, Enter, InState

LEMMA DataAsks ==
  ASSUME NEW mm \in Machines, NEW i,
         NEW b, b = DecideData(mm, i.obs, i.live, i.remote, i.allow_local)
  PROVE  LET does == ActionsIn(b.acts) IN
         \/ /\ b.c = mm.data /\ b.acts = <<>>
            /\ \/ b.c.s \in TERMINAL \/ ~mm.wanted
               \/ b.c.s \in IN_PROGRESS /\ "data" \in i.live
               \/ ~(Usable(i.remote) /\ i.remote.data)
         \/ b.c.s = DOWNLOADING /\ does = {A_ACQUIRE_DATA}
         \/ b.c.s = PARSING /\ does = {A_BOOTSTRAP}
  BY ActionsOfTuples DEF DecideData, Stay, Enter, InState

LEMMA IndexesAsk ==
  ASSUME NEW mm \in Machines, mm.indexes.s # DONE,
         NEW i, NEW b, b = DecideIndexes(mm, i.obs, i.live, i.remote, i.mat_idle, i.compact_hold)
  PROVE  LET does == ActionsIn(b.acts) IN
         \/ /\ b.c = mm.indexes /\ b.acts = <<>>
            /\ \/ Stopped(b.c.s) \/ ~(mm.wanted \/ mm.want_indexes)
               \/ /\ b.c.s \in IN_PROGRESS /\ "indexes" \in i.live
                  /\ b.c.s = PARSING => ~(Usable(i.remote) /\ i.remote.indexes)
               \/ "data" \in i.live /\ ~(b.c.s \in IN_PROGRESS /\ "indexes" \in i.live)
               \/ ~(Usable(i.remote) /\ i.remote.indexes) /\ ~(mm.want_indexes /\ i.obs.hprof /\ i.obs.data)
         \/ /\ b.c.s = DOWNLOADING /\ A_ACQUIRE_INDEXES \in does
            /\ does \subseteq {A_PREEMPT_PARSE, A_ACQUIRE_INDEXES}
         \/ /\ b.c.s = PARSING /\ does = {A_PARSE}
            /\ ~(Usable(i.remote) /\ i.remote.indexes) /\ mm.want_indexes
<1> DEFINE c == mm.indexes
<1>1. b = AcquireIndexes(mm, i.obs, i.live, i.remote)
  BY DEF DecideIndexes
<1>2. /\ ActionsIn(<<A_PARSE>>) = {A_PARSE}
      /\ ActionsIn(<<A_ACQUIRE_INDEXES>>) = {A_ACQUIRE_INDEXES}
      /\ ActionsIn(<<A_PREEMPT_PARSE, A_ACQUIRE_INDEXES>>)
           = {A_PREEMPT_PARSE, A_ACQUIRE_INDEXES}
  BY ActionsOfTuples
<1>3. CASE c.s \in {ERROR, CANCELLED} \/ ~(mm.wanted \/ mm.want_indexes)
  BY <1>1, <1>3 DEF AcquireIndexes, Stay, Stopped
<1>4. CASE ~(c.s \in {ERROR, CANCELLED} \/ ~(mm.wanted \/ mm.want_indexes))
  <2>1. CASE c.s \in IN_PROGRESS /\ "indexes" \in i.live
    <3>1. CASE c.s = PARSING /\ (Usable(i.remote) /\ i.remote.indexes)
      <4>1. b = Enter(c, DOWNLOADING, <<A_PREEMPT_PARSE, A_ACQUIRE_INDEXES>>)
        BY <1>1, <1>4, <2>1, <3>1 DEF AcquireIndexes
      <4>2. QED
        BY <1>2, <4>1 DEF Enter, InState
    <3>2. CASE ~(c.s = PARSING /\ (Usable(i.remote) /\ i.remote.indexes))
      <4>1. b = Stay(c)
        BY <1>1, <1>4, <2>1, <3>2 DEF AcquireIndexes
      <4>2. QED
        BY <2>1, <3>2, <4>1 DEF Stay
    <3>3. QED
      BY <3>1, <3>2
  <2>2. CASE ~(c.s \in IN_PROGRESS /\ "indexes" \in i.live)
    <3>1. CASE "data" \in i.live
      <4>1. b = Stay(c)
        BY <1>1, <1>4, <2>2, <3>1 DEF AcquireIndexes
      <4>2. QED
        BY <2>2, <3>1, <4>1 DEF Stay
    <3>2. CASE "data" \notin i.live /\ Usable(i.remote) /\ i.remote.indexes
      <4>1. b = Enter(c, DOWNLOADING, <<A_ACQUIRE_INDEXES>>)
        BY <1>1, <1>4, <2>2, <3>2 DEF AcquireIndexes
      <4>2. b.c.s = DOWNLOADING /\ b.acts = <<A_ACQUIRE_INDEXES>>
        BY <4>1 DEF Enter, InState
      <4>3. ActionsIn(b.acts) = {A_ACQUIRE_INDEXES}
        BY <1>2, <4>2
      <4>4. QED
        BY <4>2, <4>3
    <3>3. CASE "data" \notin i.live /\ ~(Usable(i.remote) /\ i.remote.indexes)
      <4>1. b = IF mm.want_indexes /\ i.obs.hprof /\ i.obs.data
                  THEN Enter(c, PARSING, <<A_PARSE>>) ELSE Stay(c)
        BY <1>1, <1>4, <2>2, <3>3 DEF AcquireIndexes
      <4>2. CASE mm.want_indexes /\ i.obs.hprof /\ i.obs.data
        <5>1. b.c.s = PARSING /\ b.acts = <<A_PARSE>>
          BY <4>1, <4>2 DEF Enter, InState
        <5>2. QED
          BY <1>2, <3>3, <4>2, <5>1
      <4>3. CASE ~(mm.want_indexes /\ i.obs.hprof /\ i.obs.data)
        <5>1. b = Stay(c)
          BY <4>1, <4>3
        <5>2. QED
          BY <3>3, <4>3, <5>1 DEF Stay
      <4>4. QED
        BY <4>2, <4>3
    <3>4. QED
      BY <3>1, <3>2, <3>3
  <2>3. QED
    BY <2>1, <2>2
<1>5. QED
  BY <1>3, <1>4

-----------------------------------------------------------------------------
(* What a pass leaves in progress and a source offers is driven.            *)
Driven(mm, i) ==
  mm.wanted =>
    /\ mm.dump.s \in IN_PROGRESS /\ Usable(i.remote) /\ i.remote.hprof => "dump" \in i.live
    /\ mm.data.s \in IN_PROGRESS /\ Usable(i.remote) /\ i.remote.data => "data" \in i.live
    /\ mm.indexes.s \in IN_PROGRESS /\ Usable(i.remote) /\ i.remote.indexes
         => i.live \intersect {"data", "indexes"} # {}

LEMMA DecideDrives ==
  ASSUME NEW mm \in Machines, NEW i \in Inputs
  PROVE  Driven(Decide(mm, i).m, After(i, ActionsIn(Decide(mm, i).acts)))
<1>1. PICK v, du, da, ix : PassParts(mm, i, v, du, da, ix)
  BY DecideParts
<1>2. PICK d : d = Decide(mm, i)
  OBVIOUS
<1>3. PICK done : done = ActionsIn(d.acts)
  OBVIOUS
<1>4. PICK j : j = After(i, done)
  OBVIOUS
<1>5. done \in SUBSET ActionTags
  BY <1>2, <1>3, DecideFacts, RangeOfSeq
<1>6. /\ j.remote = i.remote /\ i.live \subseteq j.live
      /\ A_ACQUIRE_DUMP \in done => "dump" \in j.live
      /\ A_ACQUIRE_DATA \in done => "data" \in j.live
      /\ A_ACQUIRE_INDEXES \in done => "indexes" \in j.live
      /\ A_BOOTSTRAP \in done => "data" \in j.live /\ "indexes" \in j.live
  BY <1>4, <1>5, AfterFacts
<1>7. /\ d.m.wanted = v.wanted /\ d.m.dump = du.c /\ d.m.data = da.c
      /\ d.m.indexes = ix.c
      /\ done = (ActionsIn(du.acts) \union ActionsIn(da.acts)) \union ActionsIn(ix.acts)
      /\ v \in Machines
  BY SMTT(30), <1>1, <1>2, <1>3 DEF PassParts
<1>8. ASSUME v.wanted, du.c.s \in IN_PROGRESS, Usable(i.remote), i.remote.hprof
      PROVE  "dump" \in j.live
  <2>1. du = DecideDump(v, i.live, i.remote)
    BY <1>1 DEF PassParts
  <2>2. \/ du.c.s \in TERMINAL
        \/ du.c.s = DOWNLOADING /\ "dump" \in i.live
        \/ du.c.s = ERROR \/ ActionsIn(du.acts) = {A_ACQUIRE_DUMP}
    <3>1. \/ du.c.s \in TERMINAL \/ ~v.wanted \/ ~Usable(i.remote)
          \/ du.c.s = DOWNLOADING /\ "dump" \in i.live
          \/ du.c.s = ERROR \/ ActionsIn(du.acts) = {A_ACQUIRE_DUMP}
      BY <1>7, <2>1, DumpAsks
    <3>2. QED
      BY <1>8, <3>1
  <2>3. "dump" \in i.live \/ A_ACQUIRE_DUMP \in ActionsIn(du.acts)
    BY <1>8, <2>2 DEF IN_PROGRESS, TERMINAL
  <2>4. QED
    BY <1>6, <1>7, <2>3
<1>9. ASSUME v.wanted, da.c.s \in IN_PROGRESS, Usable(i.remote), i.remote.data
      PROVE  "data" \in j.live
  <2>1. da = DecideData(v, i.obs, i.live, i.remote, i.allow_local)
    BY <1>1 DEF PassParts
  <2>2. \/ da.c.s \in TERMINAL \/ "data" \in i.live
        \/ ActionsIn(da.acts) = {A_ACQUIRE_DATA} \/ ActionsIn(da.acts) = {A_BOOTSTRAP}
    <3>1. \/ da.c.s \in TERMINAL \/ ~v.wanted \/ "data" \in i.live
          \/ ~(Usable(i.remote) /\ i.remote.data)
          \/ ActionsIn(da.acts) = {A_ACQUIRE_DATA} \/ ActionsIn(da.acts) = {A_BOOTSTRAP}
      BY <1>7, <2>1, DataAsks
    <3>2. QED
      BY <1>9, <3>1
  <2>3. \/ "data" \in i.live \/ A_ACQUIRE_DATA \in ActionsIn(da.acts)
        \/ A_BOOTSTRAP \in ActionsIn(da.acts)
    BY <1>9, <2>2 DEF IN_PROGRESS, TERMINAL
  <2>4. QED
    BY <1>6, <1>7, <2>3
<1>10. ASSUME v.wanted, ix.c.s \in IN_PROGRESS, Usable(i.remote), i.remote.indexes
       PROVE  j.live \intersect {"data", "indexes"} # {}
  <2>1. ix = DecideIndexes(v, i.obs, i.live, i.remote, i.mat_idle, i.compact_hold)
    BY <1>1 DEF PassParts
  <2>2. v.indexes.s # DONE
    BY <1>1, <1>10 DEF PassParts, BlockOK, KeepsStops, IN_PROGRESS
  <2>3. \/ Stopped(ix.c.s) \/ "indexes" \in i.live \/ "data" \in i.live
        \/ A_ACQUIRE_INDEXES \in ActionsIn(ix.acts)
    BY <1>7, <1>10, <2>1, <2>2, IndexesAsk
  <2>4. ~Stopped(ix.c.s)
    BY <1>10 DEF Stopped, IN_PROGRESS
  <2>5. QED
    BY <1>6, <1>7, <2>3, <2>4
<1>11. Driven(d.m, j)
  BY <1>6, <1>7, <1>8, <1>9, <1>10 DEF Driven
<1>12. QED
  BY <1>2, <1>3, <1>4, <1>11

(* A pass never parks a component in progress with nobody driving it.  *)
THEOREM DrivenProgress == Spec => []InProgressIsDriven
<1>1. Init => InProgressIsDriven
  BY DEF Init, InProgressIsDriven
<1>2. TypeOK /\ InProgressIsDriven /\ [Next]_vars => InProgressIsDriven'
  <2> SUFFICES ASSUME TypeOK, InProgressIsDriven, [Next]_vars
               PROVE  InProgressIsDriven'
    OBVIOUS
  <2>1. CASE Pass
    <3>1. Driven(m', in')
      BY <2>1, DecideDrives DEF Pass, TypeOK
    <3>2. QED
      BY <3>1 DEF Driven, InProgressIsDriven, Offered
  <2>2. CASE UNCHANGED vars
    BY <2>2 DEF vars, InProgressIsDriven, Offered
  <2>3. QED
    BY <2>1, <2>2 DEF Next
<1>3. QED
  BY <1>1, <1>2, TypeCorrect, PTL DEF Spec

-----------------------------------------------------------------------------
(* decide() settles in one pass.  A machine is calm when another pass over  *)
(* what the first one left changes nothing and starts nothing; every pass   *)
(* leaves a calm one, whatever the machine and the input it found.          *)
Calm(mm, i) ==
  /\ Validate(mm, i.obs) = mm
  /\ DecideDump(mm, i.live, i.remote) = Stay(mm.dump)
  /\ DecideData(mm, i.obs, i.live, i.remote, i.allow_local) = Stay(mm.data)
  /\ DecideIndexes(mm, i.obs, i.live, i.remote, i.mat_idle, i.compact_hold)
       \in {Stay(mm.indexes), [c |-> mm.indexes, acts |-> <<A_PARSE>>]}

LEMMA CalmStays ==
  ASSUME NEW mm \in Machines, NEW i \in Inputs, Calm(mm, i)
  PROVE  Decide(mm, i).m = mm /\ ActionsIn(Decide(mm, i).acts) \subseteq {A_PARSE}
<1>1. PICK v, du, da, ix : PassParts(mm, i, v, du, da, ix)
  BY DecideParts
<1>2. /\ v = mm /\ du = Stay(mm.dump) /\ da = Stay(mm.data)
      /\ ix \in {Stay(mm.indexes), [c |-> mm.indexes, acts |-> <<A_PARSE>>]}
  <2>1. v = mm
    BY <1>1 DEF PassParts, Calm
  <2>2. QED
    BY <1>1, <2>1 DEF PassParts, Calm
<1>3. Decide(mm, i).m = mm
  <2>1. du.c = mm.dump /\ da.c = mm.data /\ ix.c = mm.indexes
    BY <1>2 DEF Stay
  <2>2. QED
    BY <1>1, <1>2, <2>1 DEF PassParts, Machines
<1>4. ActionsIn(Decide(mm, i).acts) \subseteq {A_PARSE}
  <2>1. du.acts = <<>> /\ da.acts = <<>> /\ ix.acts \in {<<>>, <<A_PARSE>>}
    BY <1>2 DEF Stay
  <2>2. /\ ActionsIn(du.acts) = {} /\ ActionsIn(da.acts) = {}
        /\ ActionsIn(ix.acts) \subseteq {A_PARSE}
    BY <2>1, ActionsOfTuples
  <2>3. QED
    BY <1>1, <2>2 DEF PassParts
<1>5. QED
  BY <1>3, <1>4

LEMMA ParsingIsWanted ==
  ASSUME NEW mm \in Machines, NEW obs
  PROVE  Validate(mm, obs).indexes.s = PARSING => mm.want_indexes
  BY DEF Validate, Unwanted, Comp

(* A machine that agrees with the artifacts is left alone by validate().    *)
LEMMA ValidatedStays ==
  ASSUME NEW mm \in Machines, NEW obs \in Observations,
         mm.dump.s = DONE <=> obs.hprof, mm.data.s = DONE <=> obs.data,
         mm.indexes.s = DONE => obs.raws \/ ZstsOk(obs),
         IdxOk(obs) => mm.indexes.s = DONE,
         mm.indexes.s = PARSING => mm.want_indexes
  PROVE  Validate(mm, obs) = mm
<1>1. Revalidated(mm.dump, obs.hprof, ~obs.hprof, Comp(DONE)) = mm.dump
  BY DEF Revalidated
<1>2. Revalidated(mm.data, obs.data, ~obs.data, Comp(DONE)) = mm.data
  BY DEF Revalidated
<1>3. Revalidated(mm.indexes, IdxOk(obs), ~(obs.raws \/ ZstsOk(obs)),
                  [s |-> DONE, compacted |-> ~obs.raws]) = mm.indexes
  BY DEF Revalidated
<1>4. ~Unwanted(mm, mm.indexes)
  BY DEF Unwanted
<1>5. QED
  BY <1>1, <1>2, <1>3, <1>4 DEF Validate, Machines

LEMMA DumpSettles ==
  ASSUME NEW v \in Machines, NEW mm \in Machines, NEW i, NEW later,
         i.live \subseteq later, mm.wanted = v.wanted,
         NEW b, b = DecideDump(v, i.live, i.remote), mm.dump = b.c,
         A_ACQUIRE_DUMP \in ActionsIn(b.acts) => "dump" \in later
  PROVE  DecideDump(mm, later, i.remote) = Stay(mm.dump)
<1>1. \/ mm.dump.s \in TERMINAL \/ ~mm.wanted \/ ~Usable(i.remote)
      \/ mm.dump.s = DOWNLOADING /\ "dump" \in later
  BY DumpAsks DEF TERMINAL
<1>2. QED
  BY <1>1 DEF DecideDump

LEMMA DataSettles ==
  ASSUME NEW v \in Machines, NEW mm \in Machines, NEW i,
         NEW later, i.live \subseteq later, mm.wanted = v.wanted,
         NEW b, b = DecideData(v, i.obs, i.live, i.remote, i.allow_local), mm.data = b.c,
         A_ACQUIRE_DATA \in ActionsIn(b.acts) => "data" \in later,
         A_BOOTSTRAP \in ActionsIn(b.acts) => "data" \in later
  PROVE  DecideData(mm, i.obs, later, i.remote, FALSE) = Stay(mm.data)
<1>1. \/ mm.data.s \in TERMINAL \/ ~mm.wanted
      \/ mm.data.s \in IN_PROGRESS /\ "data" \in later
      \/ ~(Usable(i.remote) /\ i.remote.data)
  <2>1. \/ b.c.s \in TERMINAL \/ ~v.wanted
        \/ b.c.s \in IN_PROGRESS /\ "data" \in i.live
        \/ ~(Usable(i.remote) /\ i.remote.data)
        \/ b.c.s = DOWNLOADING /\ ActionsIn(b.acts) = {A_ACQUIRE_DATA}
        \/ b.c.s = PARSING /\ ActionsIn(b.acts) = {A_BOOTSTRAP}
    BY DataAsks
  <2>2. QED
    BY <2>1 DEF IN_PROGRESS
<1>2. QED
  BY <1>1 DEF DecideData

(* The index set, whose parse may be preempted or taken for a bootstrap's:  *)
(* what is live later beyond what was live is an acquisition of its own.    *)
LEMMA IndexesSettle ==
  ASSUME NEW v \in Machines, NEW mm \in Machines, NEW i, NEW later, i.live \subseteq later, v.indexes.s # DONE,
         mm.wanted = v.wanted, mm.want_indexes = v.want_indexes,
         NEW b, b = DecideIndexes(v, i.obs, i.live, i.remote, i.mat_idle, i.compact_hold),
         mm.indexes = b.c,
         mm.indexes.s # DONE,
         A_ACQUIRE_INDEXES \in ActionsIn(b.acts)
           => "indexes" \in later,
         mm.indexes.s = PARSING /\ "indexes" \in later => "indexes" \in i.live
  PROVE  AcquireIndexes(mm, i.obs, later, i.remote)
           \in {Stay(mm.indexes), [c |-> mm.indexes, acts |-> <<A_PARSE>>]}
<1> DEFINE c == mm.indexes
           published == Usable(i.remote) /\ i.remote.indexes
           idle2 == c.s \in {ERROR, CANCELLED} \/ ~(mm.wanted \/ mm.want_indexes)
           running == c.s \in IN_PROGRESS /\ "indexes" \in later
           parse == mm.want_indexes /\ i.obs.hprof /\ i.obs.data
<1>1. \/ idle2
      \/ running /\ (c.s = PARSING => ~published)
      \/ "data" \in later /\ ~running
      \/ "data" \in later /\ c.s = DOWNLOADING
      \/ ~published /\ (parse => c.s = PARSING)
  <2>1. \/ idle2
        \/ /\ c.s \in IN_PROGRESS /\ "indexes" \in i.live
           /\ c.s = PARSING => ~published
        \/ "data" \in i.live /\ ~(c.s \in IN_PROGRESS /\ "indexes" \in i.live)
        \/ ~published /\ ~parse
        \/ c.s = DOWNLOADING /\ "indexes" \in later
        \/ c.s = PARSING /\ ~published
    BY IndexesAsk DEF Stopped
  <2>2. "data" \in i.live /\ ~(c.s \in IN_PROGRESS /\ "indexes" \in i.live)
          => "data" \in later /\ (running => c.s = DOWNLOADING)
    BY DEF IN_PROGRESS
  <2>3. c.s = DOWNLOADING /\ "indexes" \in later => running /\ c.s # PARSING
    BY DEF IN_PROGRESS
  <2>4. c.s \in IN_PROGRESS /\ "indexes" \in i.live => running
    OBVIOUS
  <2> HIDE DEF c, published, idle2, running, parse
  <2>5. QED
    BY <2>1, <2>2, <2>3, <2>4
<1>2. Enter(c, PARSING, <<A_PARSE>>) = [c |-> c, acts |-> <<A_PARSE>>] \/ c.s # PARSING
  BY DEF Enter, InState, Machines, Comps
<1>3. AcquireIndexes(mm, i.obs, later, i.remote)
        = IF idle2 THEN Stay(c)
          ELSE IF running THEN
            IF c.s = PARSING /\ published
              THEN Enter(c, DOWNLOADING, <<A_PREEMPT_PARSE, A_ACQUIRE_INDEXES>>)
              ELSE Stay(c)
          ELSE IF "data" \in later THEN Stay(c)
          ELSE IF published THEN Enter(c, DOWNLOADING, <<A_ACQUIRE_INDEXES>>)
          ELSE IF parse THEN Enter(c, PARSING, <<A_PARSE>>)
          ELSE Stay(c)
  BY DEF AcquireIndexes
<1> HIDE DEF published, idle2, running, parse
<1>4. QED
  BY <1>1, <1>2, <1>3

(* Every pass leaves a calm machine, but for a bootstrap over a parse.      *)
LEMMA DecideSettles ==
  ASSUME NEW mm \in Machines, NEW i \in Inputs,
         NEW d, d = Decide(mm, i), NEW done, done = ActionsIn(d.acts),
         ~(d.m.indexes.s = PARSING /\ A_BOOTSTRAP \in done)
  PROVE  Calm(d.m, After(i, done))
<1>1. PICK v, du, da, ix : PassParts(mm, i, v, du, da, ix)
  BY DecideParts
<1>2. /\ v = Validate(mm, i.obs) /\ v \in Machines
      /\ du = DecideDump(v, i.live, i.remote)
      /\ da = DecideData(v, i.obs, i.live, i.remote, i.allow_local)
      /\ ix = DecideIndexes(v, i.obs, i.live, i.remote, i.mat_idle, i.compact_hold)
      /\ BlockOK(v.indexes, ix)
  BY <1>1 DEF PassParts
<1>3. /\ d.m.wanted = v.wanted /\ d.m.want_indexes = v.want_indexes
      /\ d.m.dump = du.c /\ d.m.data = da.c /\ d.m.indexes = ix.c
      /\ done = (ActionsIn(du.acts) \union ActionsIn(da.acts)) \union ActionsIn(ix.acts)
  <2>1. d.m = [wanted |-> v.wanted, want_indexes |-> v.want_indexes,
               dump |-> du.c, data |-> da.c, indexes |-> ix.c]
    BY <1>1 DEF PassParts
  <2>2. done = (ActionsIn(du.acts) \union ActionsIn(da.acts)) \union ActionsIn(ix.acts)
    BY <1>1 DEF PassParts
  <2>3. QED
    BY <2>1, <2>2
<1>4. /\ d.m \in Machines /\ done \in SUBSET ActionTags
      /\ d.m.dump.s = DONE <=> i.obs.hprof
      /\ d.m.data.s = DONE <=> i.obs.data
      /\ d.m.indexes.s = DONE => i.obs.raws \/ ZstsOk(i.obs)
      /\ IdxOk(i.obs) => d.m.indexes.s = DONE
  BY DecideFacts, RangeOfSeq
<1>5. PICK j : j = After(i, done)
  OBVIOUS
<1>6. /\ j.obs = i.obs /\ j.remote = i.remote /\ j.compact_hold = i.compact_hold
      /\ j.allow_local = FALSE /\ i.live \subseteq j.live
      /\ j.mat_idle <=> i.mat_idle /\ done \intersect MatActions = {}
      /\ A_ACQUIRE_DUMP \in done => "dump" \in j.live
      /\ A_ACQUIRE_DATA \in done => "data" \in j.live
      /\ A_ACQUIRE_INDEXES \in done => "indexes" \in j.live
      /\ A_BOOTSTRAP \in done => "data" \in j.live
      /\ "indexes" \in j.live => \/ "indexes" \in i.live
                                \/ A_ACQUIRE_INDEXES \in done
                                \/ A_BOOTSTRAP \in done
  <2>1. j \in Inputs /\ ~j.allow_local
    BY <1>4, <1>5, AfterFacts
  <2>2. j.allow_local = FALSE
    BY <2>1 DEF Inputs
  <2>3. QED
    BY <1>4, <1>5, <2>2, AfterFacts
<1>7. Validate(d.m, j.obs) = d.m
  <2>1. d.m.indexes.s = PARSING => d.m.want_indexes
    <3>1. CASE v.indexes.s = DONE
      <4>1. ix.c.s = DONE
        BY <1>2, <3>1 DEF BlockOK, KeepsStops
      <4>2. QED
        BY <1>3, <4>1
    <3>2. CASE v.indexes.s # DONE
      <4>1. \/ ix.c = v.indexes \/ ix.c.s = DOWNLOADING \/ v.want_indexes
        BY <1>2, <3>2, IndexesAsk
      <4>2. v.indexes.s = PARSING => v.want_indexes
        BY <1>2, ParsingIsWanted DEF Validate
      <4>3. QED
        BY <1>3, <4>1, <4>2
    <3>3. QED
      BY <3>1, <3>2
  <2>2. i.obs \in Observations
    BY DEF Inputs
  <2>3. QED
    BY <1>4, <1>6, <2>1, <2>2, ValidatedStays
<1>8. DecideDump(d.m, j.live, j.remote) = Stay(d.m.dump)
  <2>1. PICK n : n = d.m
    OBVIOUS
  <2>2. A_ACQUIRE_DUMP \in ActionsIn(du.acts) => "dump" \in j.live
    BY <1>3, <1>6
  <2>3. n \in Machines /\ n.wanted = v.wanted /\ n.dump = du.c
    BY <1>3, <1>4, <2>1
  <2>4. v \in Machines /\ i.live \subseteq j.live
    BY <1>2, <1>6
  <2>5. du = DecideDump(v, i.live, i.remote)
    BY <1>2
  <2>6. DecideDump(n, j.live, i.remote) = Stay(n.dump)
    BY <2>2, <2>3, <2>4, <2>5, DumpSettles
  <2>7. QED
    BY <1>6, <2>1, <2>6
<1>9. DecideData(d.m, j.obs, j.live, j.remote, j.allow_local) = Stay(d.m.data)
  <2>1. PICK n : n = d.m
    OBVIOUS
  <2>2. /\ A_ACQUIRE_DATA \in ActionsIn(da.acts) => "data" \in j.live
        /\ A_BOOTSTRAP \in ActionsIn(da.acts) => "data" \in j.live
    BY <1>3, <1>6
  <2>3. n \in Machines /\ n.wanted = v.wanted /\ n.data = da.c
    BY <1>3, <1>4, <2>1
  <2>4. v \in Machines /\ i.live \subseteq j.live
    BY <1>2, <1>6
  <2>5. da = DecideData(v, i.obs, i.live, i.remote, i.allow_local)
    BY <1>2
  <2>6. DecideData(n, i.obs, j.live, i.remote, FALSE) = Stay(n.data)
    BY <2>2, <2>3, <2>4, <2>5, DataSettles
  <2>7. QED
    BY <1>6, <2>1, <2>6
<1>10. DecideIndexes(d.m, j.obs, j.live, j.remote, j.mat_idle, j.compact_hold)
         \in {Stay(d.m.indexes), [c |-> d.m.indexes, acts |-> <<A_PARSE>>]}
  <2>1. CASE v.indexes.s = DONE
    <3>1. d.m.indexes.s = DONE /\ d.m.indexes = v.indexes
      BY <1>2, <1>3, <2>1 DEF DecideIndexes
    <3>2. ~CompactDue(j.obs, j.live, j.mat_idle, j.compact_hold)
      <4>1. CASE CompactDue(i.obs, i.live, i.mat_idle, i.compact_hold)
        <5>1. ix.acts = <<A_COMPACT>>
          BY <1>2, <2>1, <4>1 DEF DecideIndexes
        <5>2. ActionsIn(ix.acts) = {A_COMPACT}
          BY <5>1, ActionsOfTuples
        <5>3. A_COMPACT \in done /\ A_COMPACT \in MatActions
          BY <1>3, <5>2 DEF MatActions
        <5>4. ~j.mat_idle
          BY <1>6, <5>3
        <5>5. QED
          BY <5>4 DEF CompactDue
      <4>2. CASE ~CompactDue(i.obs, i.live, i.mat_idle, i.compact_hold)
        BY <1>6, <4>2 DEF CompactDue
      <4>3. QED
        BY <4>1, <4>2
    <3>3. QED
      BY <3>1, <3>2 DEF DecideIndexes, Stay
  <2>2. CASE v.indexes.s # DONE
    <3>1. d.m.indexes.s # DONE
      BY <1>2, <1>3, <2>2 DEF BlockOK, KeepsStops
    <3>2. d.m.indexes.s = PARSING /\ "indexes" \in j.live => "indexes" \in i.live
      <4>1. /\ A_ACQUIRE_INDEXES \notin ActionsIn(du.acts)
            /\ A_ACQUIRE_INDEXES \notin ActionsIn(da.acts)
        <5>1. /\ ActionsIn(du.acts) \subseteq {A_ACQUIRE_DUMP}
              /\ ActionsIn(da.acts) \subseteq {A_ACQUIRE_DATA, A_BOOTSTRAP}
          <6>1. /\ du.acts = <<>> \/ ActionsIn(du.acts) = {A_ACQUIRE_DUMP}
                /\ \/ da.acts = <<>> \/ ActionsIn(da.acts) = {A_ACQUIRE_DATA}
                   \/ ActionsIn(da.acts) = {A_BOOTSTRAP}
            <7>1. du.acts = <<>> \/ ActionsIn(du.acts) = {A_ACQUIRE_DUMP}
              BY <1>2, DumpAsks
            <7>2. \/ da.acts = <<>> \/ ActionsIn(da.acts) = {A_ACQUIRE_DATA}
                  \/ ActionsIn(da.acts) = {A_BOOTSTRAP}
              BY <1>2, DataAsks
            <7>3. QED
              BY <7>1, <7>2
          <6>2. QED
            BY <6>1, ActionsOfTuples
        <5>2. QED
          BY <5>1 DEF A_ACQUIRE_INDEXES, A_ACQUIRE_DUMP, A_ACQUIRE_DATA, A_BOOTSTRAP
      <4>2. A_ACQUIRE_INDEXES \in ActionsIn(ix.acts) => ix.c.s = DOWNLOADING
        <5>1. \/ ix.acts = <<>> \/ ix.c.s = DOWNLOADING \/ ActionsIn(ix.acts) = {A_PARSE}
          BY <1>2, <2>2, IndexesAsk
        <5>2. A_ACQUIRE_INDEXES # A_PARSE
          BY DEF A_ACQUIRE_INDEXES, A_PARSE
        <5>3. QED
          BY <5>1, <5>2, ActionsOfTuples
      <4>3. QED
        BY <1>3, <1>6, <4>1, <4>2
    <3>3. A_ACQUIRE_INDEXES \in ActionsIn(ix.acts) => "indexes" \in j.live
      BY <1>3, <1>6
    <3>4. AcquireIndexes(d.m, j.obs, j.live, j.remote)
            \in {Stay(d.m.indexes), [c |-> d.m.indexes, acts |-> <<A_PARSE>>]}
      BY SMTT(30), <1>2, <1>3, <1>4, <1>6, <2>2, <3>1, <3>2, <3>3, IndexesSettle
    <3>5. QED
      BY <3>1, <3>4 DEF DecideIndexes
  <2>3. QED
    BY <2>1, <2>2
<1>11. QED
  BY <1>5, <1>7, <1>8, <1>9, <1>10 DEF Calm

(* reconcile's passes run "until quiescent", and quiescence is one pass     *)
(* away: when nothing but the store's own reaction changed, a further pass  *)
(* leaves the machine alone and starts no job.                              *)
THEOREM PassesSettle == Spec => Settles
<1> DEFINE Settled == passes > 0 /\ ~BootstrapOverParse => Calm(m, in)
<1>1. Init => Settled
  BY DEF Init
<1>2. TypeOK /\ Settled /\ [Next]_vars => Settled'
  <2> SUFFICES ASSUME TypeOK, Settled, [Next]_vars PROVE Settled'
    OBVIOUS
  <2>1. CASE Pass
    <3>1. /\ m' = Decide(m, in).m /\ acts' = ActionsIn(Decide(m, in).acts)
          /\ in' = After(in, acts') /\ m \in Machines /\ in \in Inputs
      BY <2>1 DEF Pass, TypeOK
    <3>2. ~(m'.indexes.s = PARSING /\ A_BOOTSTRAP \in acts') => Calm(m', in')
      BY <3>1, DecideSettles
    <3>3. QED
      BY <3>2 DEF BootstrapOverParse, Calm
  <2>2. CASE UNCHANGED vars
    BY <2>2 DEF vars, BootstrapOverParse, Calm
  <2>3. QED
    BY <2>1, <2>2 DEF Next
<1>3. TypeOK /\ Settled /\ [Next]_vars
        => [(passes > 0 /\ ~BootstrapOverParse) => m' = m /\ acts' \subseteq {A_PARSE}]_vars
  BY CalmStays DEF Next, Pass, TypeOK
<1>4. QED
  BY <1>1, <1>2, <1>3, TypeCorrect, PTL DEF Spec, Settles

=============================================================================
