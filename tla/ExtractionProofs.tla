-------------------------- MODULE ExtractionProofs --------------------------
(***************************************************************************)
(* Proofs about Extraction: what is recorded under a key is its class's,   *)
(* and no ingested part is extracted again, for any classes, sample counts *)
(* and scenarios.                                                          *)
(***************************************************************************)
EXTENDS Extraction, TLAPS

-----------------------------------------------------------------------------
(* The types of the variables. *)
Content == [of : Classes \union {None}, whole : BOOLEAN]
JobType ==
  [pc : {"idle", "first", "second", "rs", "rs_delete", "register", "ids",
         "ids_delete", "pick", "anat", "anat_delete", "reach", "payload"},
   cls : Classes \union {None}, anat : BOOLEAN, n : Counts \union {0}, key : Keys \union {<<1, 1>>},
   todo : SUBSET Parts, copying : SUBSET Parts, failed : BOOLEAN, calm : BOOLEAN]

TypeOK ==
  /\ csv \in [Parts -> Content] /\ rows \in [Parts -> Content]
  /\ marked \subseteq Parts /\ classes \in [Keys -> Classes \union {None}]
  /\ payload \in [Keys \X Counts -> Content] /\ job \in JobType
  /\ faults \in Nat /\ faults <= given.faults /\ given \in Starts

(* Whose content may be under a key: a class of the key's name; when names  *)
(* collide, the class that has the key or the one being analyzed under it.  *)
Working(c, k) == ~At("idle") /\ job.cls = c /\ job.key = k

Owns(c, k) ==
  /\ c \in Classes /\ given.base[c] = k[1]
  /\ \/ Distinct(given) \/ classes[k] = c
     \/ classes[k] = None /\ Working(c, k)

Owned(f, k) == f = Absent \/ (Owns(f.of, k) /\ f = Whole(f.of))

CsvOwned ==
  \A p \in Parts : csv[p] # Absent => p \in job.copying \/ Owned(csv[p], p[2])
RowsOwned    == \A p \in Parts : Owned(rows[p], p[2])
PayloadOwned == \A a \in Keys \X Counts : Owned(payload[a], a[1])
FilesOwned   == CsvOwned /\ RowsOwned /\ PayloadOwned

MarkersHaveRows == \A p \in marked : rows[p] # Absent /\ p[1] # "edges"

KeysAreClasses ==
  \A k \in Keys : classes[k] # None =>
    /\ given.base[classes[k]] = k[1]
    /\ rows[<<"rs", k, 0>>] = Whole(classes[k])
    /\ \A l \in Keys : classes[l] = classes[k] => l = k

(* What the running job may rely on, by the step it is at. *)
JobOwnsKey ==
  ~At("idle") =>
    /\ job.cls \in Classes /\ job.n \in Counts /\ job.key \in Keys
    /\ given.base[job.cls] = job.key[1]
    /\ classes[job.key] \in {None, job.cls}
    /\ \A l \in Keys : classes[l] = job.cls => l = job.key

JobQueries ==
  /\ job.copying \subseteq job.todo /\ job.todo \intersect marked = {}
  /\ job.todo # {} => job.pc \in {"first", "second"}
  /\ At("first") => job.todo \subseteq {Rs, Ids}
  /\ At("second") => job.todo \subseteq Anat
  /\ given.one_fs => job.copying = {}
  /\ \A p \in job.copying : Landed(p)

Registered == {"ids", "ids_delete", "pick", "second", "anat", "anat_delete", "reach",
               "payload"}

JobProgress ==
  /\ job.pc \in {"rs_delete", "register"} => rows[Rs] = Whole(job.cls)
  /\ job.pc \in Registered => classes[job.key] = job.cls
  /\ At("anat") => Landed(Nodes)
  /\ job.pc \in {"anat_delete", "reach", "payload"} => Nodes \in marked

(* When names collide nothing fails, and the retained set always arrives.   *)
Arrives(p) == Landed(p) \/ p \in marked

Steady ==
  ~Distinct(given) =>
    /\ given.faults = 0 /\ ~job.failed
    /\ At("first") => Rs \in job.todo \/ Arrives(Rs)
    /\ At("rs") => Arrives(Rs)

IInv == /\ TypeOK /\ FilesOwned /\ MarkersHaveRows /\ KeysAreClasses
        /\ JobOwnsKey /\ JobQueries /\ JobProgress /\ Steady
-----------------------------------------------------------------------------
(* The parts of a key. *)
LEMMA KeyParts ==
  ASSUME NEW k \in Keys, NEW n \in Counts
  PROVE  /\ <<"rs", k, 0>> \in Parts /\ <<"idsall", k, 0>> \in Parts
         /\ <<"nodes", k, n>> \in Parts /\ <<"edges", k, n>> \in Parts
         /\ <<"reach", k, n>> \in Parts
BY DEF Parts

LEMMA PartKey ==
  ASSUME NEW p \in Parts
  PROVE  p[2] \in Keys
BY DEF Parts

LEMMA ContentType ==
  /\ Absent \in Content /\ NoJob \in JobType
  /\ \A c \in Classes : Whole(c) \in Content /\ Whole(c) # Absent /\ c # None
  /\ \A c, d \in Classes : Whole(c) = Whole(d) => c = d
BY ClassAssumption DEF Absent, Content, NoJob, JobType, Whole, None

(* The running job owns its key, and nobody else does. *)
LEMMA WorkerOwns ==
  ASSUME IInv, ~At("idle")
  PROVE  Owns(job.cls, job.key)
BY DEF IInv, JobOwnsKey, Owns, Working

LEMMA OwnerIsWorking ==
  ASSUME IInv, ~At("idle"), NEW c, Owns(c, job.key)
  PROVE  c = job.cls
<1>1. given.base[c] = given.base[job.cls] /\ c \in Classes /\ job.cls \in Classes
  BY DEF IInv, JobOwnsKey, Owns
<1>2. classes[job.key] \in {None, job.cls} /\ c # None
  BY ClassAssumption DEF IInv, JobOwnsKey, Owns, None
<1> QED
  BY <1>1, <1>2 DEF Owns, Working, Distinct

LEMMA OwnerIsRecorded ==
  ASSUME IInv, NEW k \in Keys, classes[k] # None, NEW c, Owns(c, k)
  PROVE  c = classes[k]
<1>1. given.base[classes[k]] = k[1] /\ classes[k] \in Classes
  BY DEF IInv, KeysAreClasses, TypeOK
<1> QED
  BY <1>1 DEF Owns, Distinct

-----------------------------------------------------------------------------
(* What an owner keeps: names that differ, its key, or the job at work.     *)
Keeps ==
  /\ UNCHANGED given
  /\ \/ Distinct(given)
     \/ classes' = [classes EXCEPT ![job.key] = job.cls] /\ ~At("idle")
     \/ /\ UNCHANGED classes
        /\ \/ At("idle") \/ classes[job.key] = job.cls
           \/ job'.pc # "idle" /\ job'.cls = job.cls /\ job'.key = job.key

LEMMA OwnsKept ==
  ASSUME IInv, Keeps, NEW k \in Keys, NEW c, Owns(c, k)
  PROVE  Owns(c, k)'
<1>1. CASE Distinct(given)
  BY <1>1 DEF Keeps, Owns, Distinct
<1>2. CASE classes' = [classes EXCEPT ![job.key] = job.cls] /\ ~At("idle")
  <2>1. classes \in [Keys -> Classes \union {None}] /\ job.key \in Keys
    BY <1>2 DEF IInv, TypeOK, JobOwnsKey
  <2>2. k = job.key => c = job.cls
    BY <1>2, OwnerIsWorking
  <2> QED
    BY <1>2, <2>1, <2>2 DEF Keeps, Owns, Working, At, Distinct
<1>3. CASE /\ UNCHANGED classes /\ ~Distinct(given)
           /\ \/ At("idle") \/ classes[job.key] = job.cls
              \/ job'.pc # "idle" /\ job'.cls = job.cls /\ job'.key = job.key
  <2>1. classes[k] = c \/ (classes[k] = None /\ Working(c, k))
    BY <1>3 DEF Owns
  <2>2. CASE classes[k] = c
    BY <1>3, <2>2 DEF Keeps, Owns, Distinct
  <2>3. CASE classes[k] = None /\ Working(c, k)
    <3>1. job.cls # None
      BY <2>3, ClassAssumption DEF IInv, JobOwnsKey, Working, None
    <3>2. job'.pc # "idle" /\ job'.cls = job.cls /\ job'.key = job.key
      BY <1>3, <2>3, <3>1 DEF Working
    <3>3. Working(c, k)' /\ classes'[k] = None
      BY <1>3, <2>3, <3>2 DEF Working, At
    <3>4. c \in Classes /\ given'.base[c] = k[1]
      BY DEF Keeps, Owns
    <3> QED
      BY <3>3, <3>4 DEF Owns
  <2> QED
    BY <2>1, <2>2, <2>3
<1> QED
  BY <1>1, <1>2, <1>3 DEF Keeps

LEMMA OwnedKept ==
  ASSUME IInv, Keeps, NEW k \in Keys, NEW f, Owned(f, k)
  PROVE  Owned(f, k)'
<1>1. CASE f = Absent
  BY <1>1 DEF Owned
<1>2. CASE Owns(f.of, k) /\ f = Whole(f.of)
  BY <1>2, OwnsKept DEF Owned
<1> QED
  BY <1>1, <1>2 DEF Owned

(* What is left alone stays owned. *)
LEMMA CsvKept ==
  ASSUME IInv, Keeps, UNCHANGED csv, job.copying \subseteq job'.copying
  PROVE  CsvOwned'
<1> SUFFICES ASSUME NEW p \in Parts
             PROVE  (csv[p] # Absent => p \in job.copying \/ Owned(csv[p], p[2]))'
  BY DEF CsvOwned
<1>1. PICK f : f = csv[p]
  OBVIOUS
<1>2. Owned(f, p[2]) => Owned(f, p[2])'
  BY OwnedKept, PartKey
<1> QED
  BY <1>1, <1>2 DEF IInv, FilesOwned, CsvOwned, Absent, None

LEMMA RowsKept ==
  ASSUME IInv, Keeps, NEW p \in Parts, rows'[p] = rows[p]
  PROVE  Owned(rows[p], p[2])'
<1>1. PICK f : f = rows[p]
  OBVIOUS
<1>2. Owned(f, p[2])'
  BY <1>1, OwnedKept, PartKey DEF IInv, FilesOwned, RowsOwned
<1> QED
  BY <1>1, <1>2

LEMMA PayloadKept ==
  ASSUME IInv, Keeps, NEW a \in Keys \X Counts, payload'[a] = payload[a]
  PROVE  Owned(payload[a], a[1])'
<1>1. PICK f : f = payload[a]
  OBVIOUS
<1>2. Owned(f, a[1])'
  BY <1>1, OwnedKept DEF IInv, FilesOwned, PayloadOwned
<1> QED
  BY <1>1, <1>2

-----------------------------------------------------------------------------
(* While anything can go wrong, names differ, and nothing is cut short.     *)
LEMMA Trouble ==
  ASSUME IInv, \A g \in Starts : Clean(g), faults > 0
  PROVE  Distinct(given) /\ (given.one_fs \/ ~given.stops)
<1>1. given \in Scenarios /\ faults <= given.faults /\ faults \in Nat
  BY StartsAssumption DEF IInv, TypeOK
<1>2. given.faults # 0 /\ Clean(given)
  BY <1>1 DEF IInv, TypeOK, Scenarios
<1> QED
  BY <1>2 DEF Clean

(* A step that leaves the files and the database alone. *)
LEMMA JobOnly ==
  ASSUME IInv, Keeps, UNCHANGED <<csv, db, given>>, job.copying \subseteq job'.copying,
         job' \in JobType, faults' \in Nat, faults' <= faults
  PROVE  TypeOK' /\ FilesOwned' /\ MarkersHaveRows' /\ KeysAreClasses'
<1>1. TypeOK'
  <2>1. given \in Scenarios /\ faults \in Nat /\ given.faults \in Nat
    BY StartsAssumption DEF IInv, TypeOK, Scenarios
  <2> QED
    BY <2>1 DEF IInv, TypeOK, db
<1>5. FilesOwned'
  BY CsvKept, RowsKept, PayloadKept DEF FilesOwned, RowsOwned, PayloadOwned, db
<1>6. MarkersHaveRows' /\ KeysAreClasses'
  BY DEF IInv, MarkersHaveRows, KeysAreClasses, db
<1> QED
  BY <1>1, <1>5, <1>6

(* The job goes on with the key it has. *)
LEMMA SameJob ==
  ASSUME IInv, ~At("idle"), UNCHANGED <<classes, given>>,
         job'.cls = job.cls, job'.key = job.key, job'.n = job.n
  PROVE  JobOwnsKey'
BY DEF IInv, JobOwnsKey, At

LEMMA NothingCopied ==
  ASSUME IInv, job.pc \notin {"first", "second"}
  PROVE  job.todo = {} /\ job.copying = {}
BY DEF IInv, JobQueries

LEMMA BeginKeeps ==
  ASSUME IInv, NEW c \in Classes, NEW anat \in BOOLEAN, NEW n \in given.counts,
         Begin(c, anat, n)
  PROVE  IInv'
<1>1. n \in Counts /\ faults \in Nat
  BY StartsAssumption DEF IInv, TypeOK, Scenarios
<1> DEFINE ps(k) == {<<"rs", k, 0>>} \union IF anat THEN {<<"idsall", k, 0>>} ELSE {}
<1>2. PICK k \in AllocKey(c) :
        job' = [pc |-> "first", cls |-> c, anat |-> anat, n |-> n, key |-> k,
                todo |-> Missing(ps(k)), copying |-> {}, failed |-> FALSE,
                calm |-> faults = 0]
  BY DEF Begin
<1>3. /\ k \in Keys /\ given.base[c] = k[1] /\ classes[k] \in {None, c}
      /\ \A l \in Keys : classes[l] = c => l = k
  <2>1. CASE {l \in Keys : classes[l] = c} # {}
    <3>1. k \in Keys /\ classes[k] = c
      BY <1>2, <2>1 DEF AllocKey
    <3> QED
      BY <3>1, ClassAssumption DEF IInv, KeysAreClasses, None
  <2>2. CASE {l \in Keys : classes[l] = c} = {}
    BY <1>2, <2>2 DEF AllocKey
  <2> QED
    BY <2>1, <2>2
<1>4. ps(k) \subseteq Parts
  BY <1>1, <1>3, KeyParts
<1>5. UNCHANGED <<csv, db, given, faults>> /\ At("idle")
  BY DEF Begin
<1>6. job' \in JobType
  BY <1>1, <1>2, <1>3, <1>4 DEF JobType, Missing
<1>7. TypeOK' /\ FilesOwned' /\ MarkersHaveRows' /\ KeysAreClasses'
  <2>1. Keeps
    BY <1>5 DEF Keeps, db
  <2>2. job.copying = {}
    BY <1>5, NothingCopied DEF At
  <2> QED
    BY <1>1, <1>5, <1>6, <2>1, <2>2, JobOnly
<1>8. JobOwnsKey'
  BY <1>1, <1>2, <1>3, <1>5 DEF JobOwnsKey, db
<1>9. JobQueries' /\ JobProgress'
  BY <1>2, <1>5 DEF JobQueries, JobProgress, Missing, At, Rs, Ids, Registered, db
<1>10. Steady'
  BY <1>2, <1>5 DEF IInv, Steady, Missing, At, Rs, Arrives, Distinct, db
<1> QED
  BY <1>7, <1>8, <1>9, <1>10 DEF IInv

(* Where a query of the running job puts its file. *)
LEMMA QueryParts ==
  ASSUME IInv, NEW p \in job.todo
  PROVE  /\ job.pc \in {"first", "second"} /\ p \in Parts /\ p[2] = job.key
         /\ At("first") => p \in {Rs, Ids}
         /\ At("second") => p \in Anat
         /\ job \in JobType
<1>1. job \in JobType /\ p \in Parts /\ job.pc \in {"first", "second"}
  BY DEF IInv, JobQueries, TypeOK, JobType
<1>2. At("first") => p \in {Rs, Ids}
  BY DEF IInv, JobQueries
<1>3. At("second") => p \in Anat
  BY DEF IInv, JobQueries
<1>4. p[2] = job.key
  BY <1>1, <1>2, <1>3 DEF At, Rs, Ids, Anat
<1> QED
  BY <1>1, <1>2, <1>3, <1>4

LEMMA QueryKeeps ==
  ASSUME IInv, \A g \in Starts : Clean(g), NEW p \in Parts, Query(p)
  PROVE  IInv'
<1>1. p \in job.todo /\ UNCHANGED <<db, given>>
  BY DEF Query
<1>2. /\ job.pc \in {"first", "second"} /\ p[2] = job.key /\ job \in JobType
      /\ At("first") => p \in {Rs, Ids}
      /\ At("second") => p \in Anat
  BY <1>1, QueryParts
<1>3. /\ job' \in JobType
      /\ job'.pc = job.pc /\ job'.cls = job.cls /\ job'.key = job.key /\ job'.n = job.n
      /\ job'.todo \in {job.todo, job.todo \ {p}}
      /\ job.copying \ {p} \subseteq job'.copying /\ job'.copying \subseteq job.copying \union {p}
      /\ given.one_fs => job'.copying \subseteq job.copying
      /\ p \in job'.copying => p \in job'.todo
  <2>1. CASE Ends(p)
    BY <1>1, <1>2, <2>1 DEF Ends, JobType
  <2>2. CASE job' = [job EXCEPT !.copying = @ \union {p}] /\ ~given.one_fs
    BY <1>1, <1>2, <2>2 DEF JobType
  <2>3. CASE job' = [job EXCEPT !.todo = @ \ {p}, !.failed = TRUE] /\ ~Landed(p)
    <3>1. p \notin job.copying
      BY <2>3 DEF IInv, JobQueries
    <3> QED
      BY <1>1, <1>2, <2>3, <3>1 DEF JobType
  <2> QED
    BY <2>1, <2>2, <2>3 DEF Query
<1>4. Keeps
  BY <1>1, <1>2, <1>3 DEF Keeps, db
<1>5. Owned(Whole(job.cls), job.key)' /\ job.cls \in Classes
  <2>1. Owns(job.cls, job.key) /\ job.key \in Keys /\ job.cls \in Classes
    BY <1>2, WorkerOwns DEF At, IInv, JobOwnsKey
  <2>2. Owns(job.cls, job.key)'
    BY <1>2, <1>3, <2>1, <1>4, OwnsKept
  <2> QED
    BY <2>1, <2>2, <1>3 DEF Owned, Whole
<1>6. /\ csv' \in [Parts -> Content]
      /\ \A q \in Parts \ {p} : csv'[q] = csv[q]
      /\ \/ csv'[p] = csv[p] /\ p \notin job.copying /\ p \notin job'.copying
         \/ csv'[p] = Whole(job.cls)
         \/ p \in job'.copying /\ csv'[p] # Absent
  <2>1. csv \in [Parts -> Content] /\ Whole(job.cls) \in Content
    BY <1>5, ContentType DEF IInv, TypeOK
  <2>2. [of |-> job.cls, whole |-> FALSE] \in Content
        /\ [of |-> job.cls, whole |-> FALSE] # Absent
    BY <1>5, ContentType DEF Content, Absent, None
  <2>3. CASE Put(p, Whole(job.cls))
    BY <2>1, <2>3 DEF Put
  <2>4. CASE Put(p, [of |-> job.cls, whole |-> FALSE])
             /\ job' = [job EXCEPT !.copying = @ \union {p}]
    BY <1>2, <2>1, <2>2, <2>4 DEF Put, JobType
  <2>5. CASE UNCHANGED csv /\ p \notin job.copying /\ p \notin job'.copying
    BY <2>1, <2>5
  <2>6. ~Landed(p) => p \notin job.copying
    BY DEF IInv, JobQueries
  <2>7. p \notin job.copying /\ p \in job'.copying =>
          /\ Put(p, [of |-> job.cls, whole |-> FALSE])
          /\ job' = [job EXCEPT !.copying = @ \union {p}]
    <3>1. Ends(p) => job'.copying = job.copying \ {p}
      BY <1>2 DEF Ends, JobType
    <3>2. job' = [job EXCEPT !.todo = @ \ {p}, !.failed = TRUE]
            => job'.copying = job.copying
      BY <1>2 DEF JobType
    <3> QED
      BY <3>1, <3>2 DEF Query
  <2> QED
    BY <2>3, <2>4, <2>5, <2>6, <2>7 DEF Query
<1>7. TypeOK'
  <2>1. faults' \in Nat /\ faults' <= given.faults
    <3>1. faults \in Nat /\ faults <= given.faults /\ given.faults \in Nat
      BY StartsAssumption DEF IInv, TypeOK, Scenarios
    <3> QED
      BY <3>1 DEF Query, Fault
  <2> QED
    BY <1>1, <1>3, <1>6, <2>1 DEF IInv, TypeOK, db
<1>8. FilesOwned'
  <2>1. ASSUME NEW q \in Parts \ {p}
        PROVE  (csv[q] # Absent => q \in job.copying \/ Owned(csv[q], q[2]))'
    <3>1. csv[q] # Absent => q \in job.copying \/ Owned(csv[q], q[2])
      BY DEF IInv, FilesOwned, CsvOwned
    <3>2. csv'[q] = csv[q]
      BY <1>6
    <3>3. PICK f : f = csv[q]
      OBVIOUS
    <3>4. Owned(f, q[2]) => Owned(f, q[2])'
      BY <1>4, OwnedKept, PartKey
    <3> QED
      BY <1>3, <3>1, <3>2, <3>3, <3>4
  <2>2. (csv[p] # Absent => p \in job.copying \/ Owned(csv[p], p[2]))'
    <3>1. CASE csv'[p] = csv[p] /\ p \notin job.copying
      <4>1. csv[p] # Absent => Owned(csv[p], p[2])
        BY <3>1 DEF IInv, FilesOwned, CsvOwned
      <4>2. PICK f : f = csv[p]
        OBVIOUS
      <4>3. Owned(f, p[2]) => Owned(f, p[2])'
        BY <1>4, OwnedKept, PartKey
      <4> QED
        BY <3>1, <4>1, <4>2, <4>3
    <3>2. CASE csv'[p] = Whole(job.cls)
      <4>1. PICK w : w = Whole(job.cls)
        OBVIOUS
      <4>2. Whole(job.cls)' = w
        BY <1>3, <4>1 DEF Whole
      <4> QED
        BY <1>2, <1>3, <1>5, <3>2, <4>1, <4>2
    <3> QED
      BY <1>6, <3>1, <3>2
  <2> QED
    BY <1>1, <1>4, <2>1, <2>2, RowsKept, PayloadKept
       DEF FilesOwned, CsvOwned, RowsOwned, PayloadOwned, db
<1>9. MarkersHaveRows' /\ KeysAreClasses'
  BY <1>1 DEF IInv, MarkersHaveRows, KeysAreClasses, db
<1>10. JobOwnsKey'
  BY <1>1, <1>2, <1>3, SameJob DEF At, db
<1>11. JobQueries'
  <2>1. job'.copying \subseteq job'.todo /\ job'.todo \intersect marked' = {}
    BY <1>1, <1>3 DEF IInv, JobQueries, db
  <2>2. \A q \in job'.copying : Landed(q)'
    BY <1>3, <1>6, ContentType, <1>5 DEF IInv, JobQueries, Landed, TypeOK, JobType
  <2> QED
    BY <1>1, <1>2, <1>3, <2>1, <2>2 DEF IInv, JobQueries, At, Rs, Ids, Anat
<1>12. JobProgress'
  BY <1>1, <1>2, <1>3 DEF IInv, JobProgress, At, Registered, db
<1>13. Steady'
  <2>1. SUFFICES ASSUME ~Distinct(given)
                 PROVE  Steady'
    BY <1>1 DEF Steady, Distinct
  <2>2. given.faults = 0 /\ ~job.failed /\ ~(faults > 0)
    BY <2>1, Trouble DEF IInv, Steady
  <2>3. ~job'.failed
    BY <1>2, <2>2 DEF Query, Ends, Fault, JobType
  <2>4. (At("first") => Rs \in job.todo \/ Arrives(Rs))'
    <3>1. CASE p = Rs /\ p \notin job'.todo
      <4>1. p[1] # "edges"
        BY <3>1 DEF Rs
      <4>2. csv'[p] # Absent
        <5>1. job' = [job EXCEPT !.copying = @ \union {p}] => p \in job'.todo
          BY <1>1, <1>2 DEF JobType
        <5>2. Put(p, Whole(job.cls)) \/ (Landed(p) /\ UNCHANGED csv)
          BY <2>2, <3>1, <4>1, <5>1 DEF Query, Fault
        <5>3. csv \in [Parts -> Content] /\ Whole(job.cls) # Absent
          BY <1>5, ContentType DEF IInv, TypeOK
        <5> QED
          BY <5>2, <5>3 DEF Put, Landed
      <4> QED
        BY <1>3, <3>1, <4>2 DEF Rs, Arrives, Landed
    <3>2. CASE p # Rs \/ p \in job'.todo
      <4>1. Rs' = Rs
        BY <1>3 DEF Rs
      <4>2. At("first")' => Rs \in job.todo \/ Arrives(Rs)
        BY <1>3, <2>1 DEF IInv, Steady, At
      <4>3. Rs \in job.todo => Rs \in job'.todo
        BY <1>1, <1>3, <3>2
      <4>4. Rs \in Parts
        BY <1>2 DEF IInv, JobOwnsKey, At, Parts, Rs
      <4>5. Arrives(Rs) => Rs \in marked' \/ csv'[Rs] # Absent \/ Rs \in job'.todo
        BY <1>1, <1>6, <3>2, <4>4 DEF Arrives, Landed, db
      <4> QED
        BY <4>1, <4>2, <4>3, <4>5 DEF Arrives, Landed
    <3> QED
      BY <3>1, <3>2
  <2> QED
    BY <1>1, <1>2, <1>3, <2>2, <2>3, <2>4 DEF Steady, At
<1> QED
  BY <1>7, <1>8, <1>9, <1>10, <1>11, <1>12, <1>13 DEF IInv

-----------------------------------------------------------------------------
(* A job that has ended relies on nothing. *)
LEMMA EndedJob ==
  ASSUME IInv, UNCHANGED given, job' = NoJob
  PROVE  JobOwnsKey' /\ JobQueries' /\ JobProgress' /\ Steady' /\ job' \in JobType
<1>1. job' \in JobType /\ job'.pc = "idle" /\ job'.todo = {} /\ job'.copying = {}
      /\ job'.failed = FALSE
  BY ContentType DEF NoJob
<1> QED
  BY <1>1 DEF IInv, JobOwnsKey, JobQueries, JobProgress, Steady, At, Registered, Distinct

LEMMA Stopped ==
  ASSUME IInv, Keeps, UNCHANGED <<csv, db, given>>, job' = NoJob, job.copying = {},
         faults' \in Nat, faults' <= faults
  PROVE  IInv'
<1>1. JobOwnsKey' /\ JobQueries' /\ JobProgress' /\ Steady' /\ job' \in JobType
  BY EndedJob
<1>2. TypeOK' /\ FilesOwned' /\ MarkersHaveRows' /\ KeysAreClasses'
  BY <1>1, JobOnly
<1> QED
  BY <1>1, <1>2 DEF IInv

(* The job goes to its next step. *)
LEMMA GoesOn ==
  ASSUME IInv, ~At("idle"), NEW x \in {"rs", "rs_delete", "register", "ids",
           "ids_delete", "pick", "anat", "anat_delete", "reach", "payload"}, Goes(x)
  PROVE  /\ job' \in JobType /\ job'.pc = x /\ job'.cls = job.cls /\ job'.key = job.key
         /\ job'.n = job.n /\ job'.todo = job.todo /\ job'.copying = job.copying
         /\ job'.failed = job.failed
         /\ UNCHANGED <<given, classes>> => Keeps
<1>1. job \in JobType
  BY DEF IInv, TypeOK
<1>2. /\ job' \in JobType /\ job'.pc = x /\ job'.cls = job.cls /\ job'.key = job.key
      /\ job'.n = job.n /\ job'.todo = job.todo /\ job'.copying = job.copying
      /\ job'.failed = job.failed
  BY <1>1 DEF Goes, JobType
<1> QED
  BY <1>2 DEF Keeps

(* A next step at which no query is under way asks only what it relies on.  *)
LEMMA NextStep ==
  ASSUME IInv, ~At("idle"), job.todo = {}, UNCHANGED <<given, classes>>,
         NEW x \in {"rs", "rs_delete", "register", "ids",
           "ids_delete", "pick", "anat", "anat_delete", "reach", "payload"}, Goes(x),
         ~Distinct(given) /\ x = "rs" => Arrives(Rs)', JobProgress'
  PROVE  JobOwnsKey' /\ JobQueries' /\ JobProgress' /\ Steady'
<1>1. /\ job'.pc = x /\ job'.cls = job.cls /\ job'.key = job.key
      /\ job'.n = job.n /\ job'.todo = {} /\ job'.copying = job.copying
      /\ job'.failed = job.failed
  BY GoesOn
<1>2. JobOwnsKey'
  BY <1>1, SameJob
<1>3. JobQueries'
  BY <1>1 DEF IInv, JobQueries, At
<1>4. Steady'
  BY <1>1 DEF IInv, Steady, At, Distinct
<1> QED
  BY <1>2, <1>3, <1>4

LEMMA QueriedKeeps ==
  ASSUME IInv, Queried
  PROVE  IInv'
<1>1. /\ job.pc \in {"first", "second"} /\ job.todo = {} /\ job.copying = {}
      /\ UNCHANGED <<csv, db, faults, given>> /\ faults \in Nat
  BY DEF Queried, IInv, JobQueries, TypeOK
<1>2. CASE job' = NoJob /\ (job.failed \/ At("second"))
  <2>1. At("second") => classes[job.key] = job.cls
    BY DEF IInv, JobProgress, At, Registered
  <2>2. ~At("second") => Distinct(given)
    BY <1>2 DEF IInv, Steady
  <2>3. Keeps
    BY <1>1, <2>1, <2>2 DEF Keeps, db
  <2> QED
    BY <1>1, <1>2, <2>3, Stopped
<1>3. CASE At("first") /\ Goes("rs")
  <2>1. ~Distinct(given) => Arrives(Rs)'
    <3>1. ~Distinct(given) => Arrives(Rs)
      BY <1>1, <1>3 DEF IInv, Steady
    <3>2. Rs' = Rs
      BY <1>1, <1>3, GoesOn DEF Rs, At
    <3> QED
      BY <1>1, <3>1, <3>2 DEF Arrives, Landed, db
  <2>2. job' \in JobType /\ job'.copying = {} /\ job'.pc = "rs" /\ Keeps
    BY <1>1, <1>3, GoesOn DEF At, db
  <2>3. JobProgress'
    BY <2>2 DEF JobProgress, At, Registered
  <2>4. JobOwnsKey' /\ JobQueries' /\ Steady'
    BY <1>1, <1>3, <2>1, <2>3, NextStep DEF At, db
  <2>5. TypeOK' /\ FilesOwned' /\ MarkersHaveRows' /\ KeysAreClasses'
    BY <1>1, <2>2, JobOnly
  <2> QED
    BY <2>3, <2>4, <2>5 DEF IInv
<1>4. CASE At("second") /\ Landed(Nodes) /\ Goes("anat")
  <2>1. /\ job' \in JobType /\ job'.copying = {} /\ job'.pc = "anat" /\ Keeps
        /\ job'.key = job.key /\ job'.n = job.n /\ job'.cls = job.cls
    BY <1>1, <1>4, GoesOn DEF At, db
  <2>2. classes[job.key] = job.cls
    BY <1>4 DEF IInv, JobProgress, At, Registered
  <2>3. JobProgress'
    BY <1>1, <1>4, <2>1, <2>2 DEF JobProgress, At, Registered, Landed, Nodes, db
  <2>4. JobOwnsKey' /\ JobQueries' /\ Steady'
    BY <1>1, <1>4, <2>3, NextStep DEF At, db
  <2>5. TypeOK' /\ FilesOwned' /\ MarkersHaveRows' /\ KeysAreClasses'
    BY <1>1, <2>1, JobOnly
  <2> QED
    BY <2>3, <2>4, <2>5 DEF IInv
<1> QED
  BY <1>1, <1>2, <1>3, <1>4 DEF Queried, At

LEMMA StopKeeps ==
  ASSUME IInv, \A g \in Starts : Clean(g), Stop
  PROVE  IInv'
<1>1. UNCHANGED <<csv, db, given>> /\ job' = NoJob /\ given.stops /\ faults > 0
      /\ faults' = faults - 1 /\ faults \in Nat
  BY DEF Stop, Fault, IInv, TypeOK
<1>2. Distinct(given) /\ given.one_fs
  BY <1>1, Trouble
<1>3. job.copying = {} /\ Keeps
  BY <1>1, <1>2 DEF IInv, JobQueries, Keeps
<1> QED
  BY <1>1, <1>3, Stopped

-----------------------------------------------------------------------------
(* An ingest: the rows are the files of the job's key, whole and its own.   *)
LEMMA IngestedIsOwn ==
  ASSUME IInv, ~At("idle"), job.copying = {}, NEW p \in Parts, p[2] = job.key
  PROVE  Owned(csv[p], p[2]) /\ csv[p] \in {Absent, Whole(job.cls)}
<1>1. Owned(csv[p], p[2])
  BY DEF IInv, FilesOwned, CsvOwned, RowsOwned, Owned
<1>2. Owns(csv[p].of, job.key) => csv[p].of = job.cls
  BY OwnerIsWorking
<1> QED
  BY <1>1, <1>2 DEF Owned

LEMMA CommitKeeps ==
  ASSUME IInv, ~At("idle"), job.copying = {}, Keeps,
         NEW ps \in SUBSET Parts, NEW m \in ps, m[1] # "edges", Landed(m),
         \A p \in ps : p[2] = job.key /\ (p[1] = "rs" => p = m), ps \intersect marked \subseteq {m},
         Commit(ps, m), UNCHANGED <<csv, faults, given>>, job' \in JobType
  PROVE  TypeOK' /\ FilesOwned' /\ MarkersHaveRows' /\ KeysAreClasses'
<1>1. /\ rows' = [p \in Parts |-> IF p \in ps THEN csv[p] ELSE rows[p]]
      /\ marked' = marked \union {m} /\ UNCHANGED <<classes, payload>>
  BY DEF Commit
<1>2. TypeOK'
  BY <1>1 DEF IInv, TypeOK
<1>3. FilesOwned'
  <2>1. ASSUME NEW q \in ps
        PROVE  Owned(rows[q], q[2])'
    <3>1. PICK f : f = csv[q]
      OBVIOUS
    <3>2. Owned(f, q[2])
      BY <3>1, IngestedIsOwn
    <3>3. Owned(f, q[2])'
      BY <3>2, OwnedKept, PartKey
    <3> QED
      BY <1>1, <3>1, <3>3
  <2>2. ASSUME NEW q \in Parts \ ps
        PROVE  Owned(rows[q], q[2])'
    BY <1>1, RowsKept
  <2> QED
    BY <1>1, <2>1, <2>2, CsvKept, PayloadKept DEF FilesOwned, RowsOwned, PayloadOwned
<1>4. MarkersHaveRows'
  BY <1>1 DEF IInv, MarkersHaveRows, TypeOK, Landed
<1>5. KeysAreClasses'
  <2>1. ASSUME NEW k \in Keys, classes[k] # None
        PROVE  rows'[<<"rs", k, 0>>] = Whole(classes[k])
    <3>1. <<"rs", k, 0>> \in Parts /\ rows[<<"rs", k, 0>>] = Whole(classes[k])
      BY <2>1 DEF IInv, KeysAreClasses, Parts
    <3>2. CASE <<"rs", k, 0>> \in ps
      <4>1. k = job.key
        BY <3>2
      <4>2. job.cls = classes[k]
        BY <2>1, <4>1, WorkerOwns, OwnerIsRecorded
      <4>3. csv[<<"rs", k, 0>>] \in {Absent, Whole(classes[k])}
        BY <3>1, <4>1, <4>2, IngestedIsOwn
      <4>4. csv[<<"rs", k, 0>>] # Absent
        BY <3>2 DEF Landed
      <4> QED
        BY <1>1, <3>1, <3>2, <4>3, <4>4
    <3>3. CASE <<"rs", k, 0>> \notin ps
      BY <1>1, <3>1, <3>3
    <3> QED
      BY <3>2, <3>3
  <2> QED
    BY <1>1, <2>1 DEF IInv, KeysAreClasses
<1> QED
  BY <1>2, <1>3, <1>4, <1>5

(* A file is deleted, and nothing else. *)
LEMMA DeleteKeeps ==
  ASSUME IInv, ~At("idle"), job.copying = {}, Keeps, NEW ps \in SUBSET Parts,
         Delete(ps), UNCHANGED <<db, faults, given>>, job' \in JobType
  PROVE  TypeOK' /\ FilesOwned' /\ MarkersHaveRows' /\ KeysAreClasses'
<1>1. csv' = [p \in Parts |-> IF p \in ps THEN Absent ELSE csv[p]]
  BY DEF Delete
<1>2. TypeOK'
  BY <1>1, ContentType DEF IInv, TypeOK, db
<1>3. FilesOwned'
  <2>1. ASSUME NEW q \in Parts
        PROVE  (csv[q] # Absent => q \in job.copying \/ Owned(csv[q], q[2]))'
    <3>1. PICK f : f = csv'[q]
      OBVIOUS
    <3>2. Absent' = Absent
      BY DEF Absent, None
    <3>3. CASE f # Absent
      <4>1. f = csv[q]
        BY <1>1, <3>1, <3>3
      <4>2. Owned(f, q[2])
        BY <3>3, <4>1 DEF IInv, FilesOwned, CsvOwned
      <4>3. Owned(f, q[2])'
        BY <4>2, OwnedKept, PartKey
      <4> QED
        BY <3>1, <4>3
    <3> QED
      BY <3>1, <3>2, <3>3
  <2> QED
    BY <2>1, RowsKept, PayloadKept DEF FilesOwned, CsvOwned, RowsOwned, PayloadOwned, db
<1>4. MarkersHaveRows' /\ KeysAreClasses'
  BY DEF IInv, MarkersHaveRows, KeysAreClasses, db
<1> QED
  BY <1>2, <1>3, <1>4

(* The parts of the running job. *)
LEMMA JobParts ==
  ASSUME IInv, ~At("idle")
  PROVE  /\ Rs \in Parts /\ Ids \in Parts /\ Nodes \in Parts /\ Reach \in Parts
         /\ Anat \in SUBSET Parts
<1>1. job.key \in Keys /\ job.n \in Counts
  BY DEF IInv, JobOwnsKey
<1> QED
  BY <1>1, KeyParts DEF Rs, Ids, Nodes, Reach, Anat

LEMMA IngestKeeps ==
  ASSUME IInv, Ingest, UNCHANGED <<faults, given>>
  PROVE  IInv'
<1>1. ~At("idle") /\ job.pc \notin {"first", "second"}
  BY DEF Ingest, At
<1>2. job.todo = {} /\ job.copying = {}
  BY <1>1, NothingCopied
<1>3. /\ Rs \in Parts /\ Ids \in Parts /\ Nodes \in Parts /\ Reach \in Parts
      /\ Anat \in SUBSET Parts
  BY <1>1, JobParts
<1>4. CASE At("rs") /\ Landed(Rs) /\ Commit({Rs}, Rs) /\ Goes("rs_delete") /\ UNCHANGED csv
  <2>1. UNCHANGED classes /\ rows'[Rs] = csv[Rs]
    BY <1>3, <1>4 DEF Commit
  <2>2. /\ job' \in JobType /\ job'.pc = "rs_delete" /\ job'.cls = job.cls
        /\ job'.key = job.key /\ Keeps
    BY <1>1, <1>4, <2>1, GoesOn
  <2>3. Rs[1] # "edges" /\ Rs[2] = job.key
    BY DEF Rs
  <2>4. TypeOK' /\ FilesOwned' /\ MarkersHaveRows' /\ KeysAreClasses'
    BY <1>1, <1>2, <1>3, <1>4, <2>2, <2>3, CommitKeeps
  <2>5. csv[Rs] = Whole(job.cls)
    BY <1>1, <1>2, <1>3, <1>4, <2>3, IngestedIsOwn DEF Landed
  <2>6. JobProgress'
    BY <2>1, <2>2, <2>5 DEF JobProgress, At, Registered, Rs, Whole
  <2>7. JobOwnsKey' /\ JobQueries' /\ Steady'
    BY <1>1, <1>2, <1>4, <2>1, <2>6, NextStep
  <2> QED
    BY <2>4, <2>6, <2>7 DEF IInv
<1>5. CASE At("ids") /\ Landed(Ids) /\ Commit({Ids}, Ids) /\ Goes("ids_delete") /\ UNCHANGED csv
  <2>1. UNCHANGED classes /\ classes[job.key] = job.cls
    BY <1>5 DEF Commit, IInv, JobProgress, At, Registered
  <2>2. /\ job' \in JobType /\ job'.pc = "ids_delete" /\ job'.cls = job.cls
        /\ job'.key = job.key /\ Keeps
    BY <1>1, <1>5, <2>1, GoesOn
  <2>3. Ids[1] \notin {"edges", "rs"} /\ Ids[2] = job.key
    BY DEF Ids
  <2>4. TypeOK' /\ FilesOwned' /\ MarkersHaveRows' /\ KeysAreClasses'
    BY <1>1, <1>2, <1>3, <1>5, <2>2, <2>3, CommitKeeps
  <2>5. JobProgress'
    BY <2>1, <2>2 DEF JobProgress, At, Registered
  <2>6. JobOwnsKey' /\ JobQueries' /\ Steady'
    BY <1>1, <1>2, <1>5, <2>1, <2>5, NextStep
  <2> QED
    BY <2>4, <2>5, <2>6 DEF IInv
<1>6. CASE At("anat") /\ Commit(Anat, Nodes) /\ Goes("anat_delete") /\ UNCHANGED csv
  <2>1. /\ UNCHANGED classes /\ classes[job.key] = job.cls /\ Landed(Nodes)
        /\ marked' = marked \union {Nodes}
    BY <1>6 DEF Commit, IInv, JobProgress, At, Registered
  <2>2. /\ job' \in JobType /\ job'.pc = "anat_delete" /\ job'.cls = job.cls
        /\ job'.key = job.key /\ job'.n = job.n /\ Keeps
    BY <1>1, <1>6, <2>1, GoesOn
  <2>3. Nodes[1] \notin {"edges", "rs"} /\ Nodes \in Anat
        /\ \A p \in Anat : p[2] = job.key /\ p[1] # "rs" /\ (p # Nodes => p[1] = "edges")
    BY DEF Nodes, Anat
  <2>4. Anat \intersect marked \subseteq {Nodes}
    BY <2>3 DEF IInv, MarkersHaveRows
  <2>5. TypeOK' /\ FilesOwned' /\ MarkersHaveRows' /\ KeysAreClasses'
    BY <1>1, <1>2, <1>3, <1>6, <2>1, <2>2, <2>3, <2>4, CommitKeeps
  <2>6. JobProgress'
    BY <2>1, <2>2 DEF JobProgress, At, Registered, Nodes
  <2>7. JobOwnsKey' /\ JobQueries' /\ Steady'
    BY <1>1, <1>2, <1>6, <2>1, <2>6, NextStep
  <2> QED
    BY <2>5, <2>6, <2>7 DEF IInv
<1>7. CASE At("rs_delete") /\ Delete({Rs}) /\ Goes("register") /\ UNCHANGED db
  <2>1. /\ job' \in JobType /\ job'.pc = "register" /\ job'.cls = job.cls
        /\ job'.key = job.key /\ Keeps
    BY <1>1, <1>7, GoesOn DEF db
  <2>2. TypeOK' /\ FilesOwned' /\ MarkersHaveRows' /\ KeysAreClasses'
    BY <1>1, <1>2, <1>3, <1>7, <2>1, DeleteKeeps
  <2>3. JobProgress'
    BY <1>7, <2>1 DEF IInv, JobProgress, At, Registered, Rs, Whole, db
  <2>4. JobOwnsKey' /\ JobQueries' /\ Steady'
    BY <1>1, <1>2, <1>7, <2>3, NextStep DEF db
  <2> QED
    BY <2>2, <2>3, <2>4 DEF IInv
<1>8. CASE At("ids_delete") /\ Delete({Ids}) /\ Goes("pick") /\ UNCHANGED db
  <2>1. /\ job' \in JobType /\ job'.pc = "pick" /\ job'.cls = job.cls
        /\ job'.key = job.key /\ Keeps
    BY <1>1, <1>8, GoesOn DEF db
  <2>2. TypeOK' /\ FilesOwned' /\ MarkersHaveRows' /\ KeysAreClasses'
    BY <1>1, <1>2, <1>3, <1>8, <2>1, DeleteKeeps
  <2>3. JobProgress'
    BY <1>8, <2>1 DEF IInv, JobProgress, At, Registered, db
  <2>4. JobOwnsKey' /\ JobQueries' /\ Steady'
    BY <1>1, <1>2, <1>8, <2>3, NextStep DEF db
  <2> QED
    BY <2>2, <2>3, <2>4 DEF IInv
<1>9. CASE At("anat_delete") /\ Delete(Anat) /\ Goes("reach") /\ UNCHANGED db
  <2>1. /\ job' \in JobType /\ job'.pc = "reach" /\ job'.cls = job.cls
        /\ job'.key = job.key /\ job'.n = job.n /\ Keeps
    BY <1>1, <1>9, GoesOn DEF db
  <2>2. TypeOK' /\ FilesOwned' /\ MarkersHaveRows' /\ KeysAreClasses'
    BY <1>1, <1>2, <1>3, <1>9, <2>1, DeleteKeeps
  <2>3. JobProgress'
    BY <1>9, <2>1 DEF IInv, JobProgress, At, Registered, Nodes, db
  <2>4. JobOwnsKey' /\ JobQueries' /\ Steady'
    BY <1>1, <1>2, <1>9, <2>3, NextStep DEF db
  <2> QED
    BY <2>2, <2>3, <2>4 DEF IInv
<1> QED
  BY <1>4, <1>5, <1>6, <1>7, <1>8, <1>9 DEF Ingest

LEMMA SkipKeeps ==
  ASSUME IInv, Skip, UNCHANGED <<faults, given>>
  PROVE  IInv'
<1>1. /\ ~At("idle") /\ job.pc \notin {"first", "second"} /\ UNCHANGED <<csv, db>>
      /\ faults \in Nat
  BY DEF Skip, At, IInv, TypeOK
<1>2. job.todo = {} /\ job.copying = {}
  BY <1>1, NothingCopied
<1>3. ASSUME NEW x \in {"register", "pick"}, Goes(x),
             x = "register" => rows[Rs] = Whole(job.cls),
             x = "pick" => classes[job.key] = job.cls
      PROVE  IInv'
  <2>1. /\ job' \in JobType /\ job'.pc = x /\ job'.cls = job.cls
        /\ job'.key = job.key /\ job'.copying = {} /\ Keeps
    BY <1>1, <1>2, <1>3, GoesOn DEF db
  <2>2. TypeOK' /\ FilesOwned' /\ MarkersHaveRows' /\ KeysAreClasses'
    BY <1>1, <1>2, <2>1, JobOnly
  <2>3. JobProgress'
    BY <1>1, <1>3, <2>1 DEF JobProgress, At, Registered, Rs, Whole, db
  <2>4. JobOwnsKey' /\ JobQueries' /\ Steady'
    BY <1>1, <1>2, <1>3, <2>3, NextStep DEF db
  <2> QED
    BY <2>2, <2>3, <2>4 DEF IInv
<1>4. CASE At("rs") /\ Rs \in marked /\ Goes("register")
  <2>1. Rs \in Parts /\ Rs[2] = job.key /\ rows[Rs] # Absent
    BY <1>1, <1>4, JobParts DEF IInv, MarkersHaveRows, Rs
  <2>2. Owns(rows[Rs].of, job.key) /\ rows[Rs] = Whole(rows[Rs].of)
    BY <2>1 DEF IInv, FilesOwned, CsvOwned, RowsOwned, Owned
  <2>3. rows[Rs].of = job.cls
    BY <1>1, <2>2, OwnerIsWorking
  <2> QED
    BY <1>3, <1>4, <2>2, <2>3
<1>5. CASE At("rs") /\ ~Landed(Rs) /\ Rs \notin marked /\ job' = NoJob
  <2>1. Distinct(given)
    BY <1>5 DEF IInv, Steady, Arrives
  <2> QED
    BY <1>1, <1>2, <1>5, <2>1, Stopped DEF Keeps
<1>6. CASE At("ids") /\ Goes("pick")
  <2>1. classes[job.key] = job.cls
    BY <1>6 DEF IInv, JobProgress, At, Registered
  <2> QED
    BY <1>3, <1>6, <2>1
<1> QED
  BY <1>4, <1>5, <1>6 DEF Skip

LEMMA RegisterKeeps ==
  ASSUME IInv, Register, UNCHANGED <<faults, given>>
  PROVE  IInv'
<1>1. /\ At("register") /\ ~At("idle") /\ job.pc \notin {"first", "second"}
      /\ classes' = [classes EXCEPT ![job.key] = job.cls]
      /\ UNCHANGED <<csv, rows, marked, payload>>
  BY DEF Register, Record, At
<1>2. job.todo = {} /\ job.copying = {}
  BY <1>1, NothingCopied
<1>3. /\ rows[Rs] = Whole(job.cls) /\ job.cls \in Classes /\ job.key \in Keys
      /\ job.n \in Counts /\ given.base[job.cls] = job.key[1]
      /\ \A l \in Keys : classes[l] = job.cls => l = job.key
      /\ classes \in [Keys -> Classes \union {None}]
  BY <1>1 DEF IInv, JobProgress, JobOwnsKey, TypeOK, At
<1>4. Keeps
  BY <1>1 DEF Keeps
<1>5. job' = NoJob \/ Goes("ids")
  BY DEF Register
<1>6. job' \in JobType
  BY <1>1, <1>5, GoesOn, ContentType
<1>7. TypeOK'
  BY <1>1, <1>3, <1>6 DEF IInv, TypeOK
<1>8. FilesOwned'
  BY <1>1, <1>2, <1>4, CsvKept, RowsKept, PayloadKept
     DEF FilesOwned, RowsOwned, PayloadOwned
<1>9. MarkersHaveRows'
  BY <1>1 DEF IInv, MarkersHaveRows
<1>10. KeysAreClasses'
  <2>1. ASSUME NEW k \in Keys, classes'[k] # None
        PROVE  /\ given.base[classes'[k]] = k[1] /\ rows[<<"rs", k, 0>>] = Whole(classes'[k])
               /\ \A l \in Keys : classes'[l] = classes'[k] => l = k
    BY <1>1, <1>3, <2>1 DEF IInv, KeysAreClasses, Rs
  <2> QED
    BY <1>1, <2>1 DEF KeysAreClasses, Whole
<1>11. CASE job' = NoJob
  BY <1>7, <1>8, <1>9, <1>10, <1>11, EndedJob DEF IInv
<1>12. CASE Goes("ids")
  <2>1. /\ job'.pc = "ids" /\ job'.cls = job.cls /\ job'.key = job.key /\ job'.n = job.n
        /\ job'.todo = {} /\ job'.copying = {} /\ job'.failed = job.failed
    BY <1>1, <1>2, <1>12, GoesOn
  <2>2. classes'[job.key] = job.cls /\ \A l \in Keys : classes'[l] = job.cls => l = job.key
    BY <1>1, <1>3
  <2>3. JobOwnsKey'
    BY <1>3, <2>1, <2>2 DEF JobOwnsKey
  <2>4. JobQueries' /\ JobProgress'
    BY <2>1, <2>2 DEF JobQueries, JobProgress, At, Registered
  <2>5. Steady'
    BY <2>1 DEF IInv, Steady, At, Distinct
  <2> QED
    BY <1>7, <1>8, <1>9, <1>10, <2>3, <2>4, <2>5 DEF IInv
<1> QED
  BY <1>5, <1>11, <1>12

LEMMA PickKeeps ==
  ASSUME IInv, Pick, UNCHANGED <<faults, given>>
  PROVE  IInv'
<1>1. /\ At("pick") /\ ~At("idle") /\ job.pc \notin {"first", "second"}
      /\ UNCHANGED <<csv, db>> /\ faults \in Nat
  BY DEF Pick, At, IInv, TypeOK
<1>2. job.todo = {} /\ job.copying = {}
  BY <1>1, NothingCopied
<1>3. classes[job.key] = job.cls
  BY <1>1 DEF IInv, JobProgress, At, Registered
<1>4. CASE job' = NoJob
  <2>1. Keeps
    BY <1>1, <1>3 DEF Keeps, db
  <2> QED
    BY <1>1, <1>2, <1>4, <2>1, Stopped
<1>5. CASE Nodes \in marked /\ Goes("reach")
  <2>1. /\ job' \in JobType /\ job'.pc = "reach" /\ job'.cls = job.cls /\ job'.n = job.n
        /\ job'.key = job.key /\ job'.copying = {} /\ Keeps
    BY <1>1, <1>2, <1>5, GoesOn DEF db
  <2>2. TypeOK' /\ FilesOwned' /\ MarkersHaveRows' /\ KeysAreClasses'
    BY <1>1, <1>2, <2>1, JobOnly
  <2>3. JobProgress'
    BY <1>1, <1>3, <1>5, <2>1 DEF JobProgress, At, Registered, Nodes, db
  <2>4. JobOwnsKey' /\ JobQueries' /\ Steady'
    BY <1>1, <1>2, <1>5, <2>3, NextStep DEF db
  <2> QED
    BY <2>2, <2>3, <2>4 DEF IInv
<1>6. CASE Nodes \notin marked /\ job' = [job EXCEPT !.pc = "second", !.todo = Anat]
  <2>1. job \in JobType /\ Anat \in SUBSET Parts
    BY <1>1, JobParts DEF IInv, TypeOK
  <2>2. job' \in JobType
    BY <1>6, <2>1 DEF JobType
  <2>3. /\ job'.pc = "second" /\ job'.cls = job.cls /\ job'.n = job.n /\ job'.key = job.key
        /\ job'.copying = {} /\ job'.todo = Anat /\ job'.failed = job.failed
    BY <1>2, <1>6, <2>1 DEF JobType
  <2>4. Keeps
    BY <1>1, <2>3 DEF Keeps, db
  <2>5. TypeOK' /\ FilesOwned' /\ MarkersHaveRows' /\ KeysAreClasses'
    BY <1>1, <1>2, <2>2, <2>4, JobOnly
  <2>6. JobOwnsKey'
    BY <1>1, <2>3, SameJob DEF db
  <2>7. Anat \intersect marked = {}
    BY <1>6 DEF IInv, MarkersHaveRows, Anat, Nodes
  <2>8. JobQueries' /\ JobProgress'
    BY <1>1, <1>3, <2>3, <2>7 DEF JobQueries, JobProgress, At, Registered, Anat, db
  <2>9. Steady'
    BY <2>3 DEF IInv, Steady, At, Distinct
  <2> QED
    BY <2>5, <2>6, <2>8, <2>9 DEF IInv
<1> QED
  BY <1>4, <1>5, <1>6 DEF Pick

LEMMA DeriveKeeps ==
  ASSUME IInv, Derive, UNCHANGED <<faults, given>>
  PROVE  IInv'
<1>1. /\ At("reach") /\ ~At("idle") /\ job.pc \notin {"first", "second"} /\ Goes("payload")
      /\ UNCHANGED <<csv, classes, payload>>
  BY DEF Derive, At
<1>2. job.todo = {} /\ job.copying = {}
  BY <1>1, NothingCopied
<1>3. Nodes \in marked /\ classes[job.key] = job.cls
  BY <1>1 DEF IInv, JobProgress, At, Registered
<1>4. /\ job' \in JobType /\ job'.pc = "payload" /\ job'.cls = job.cls /\ job'.n = job.n
      /\ job'.key = job.key /\ job'.copying = {} /\ Keeps
  BY <1>1, <1>2, GoesOn
<1>5. Reach \in Parts /\ Nodes \in Parts /\ rows[Nodes] # Absent
  BY <1>1, <1>3, JobParts DEF IInv, MarkersHaveRows
<1>6. /\ rows' \in [Parts -> Content] /\ \A q \in Parts \ {Reach} : rows'[q] = rows[q]
      /\ rows'[Reach] \in {rows[Reach], rows[Nodes]} /\ marked' = marked \union {Reach}
      /\ Reach \in marked \/ rows'[Reach] = rows[Nodes]
  BY <1>5 DEF Derive, IInv, TypeOK
<1>7. TypeOK'
  BY <1>1, <1>4, <1>5, <1>6 DEF IInv, TypeOK
<1>8. FilesOwned'
  <2>1. ASSUME NEW q \in Parts, q = Reach
        PROVE  Owned(rows[q], q[2])'
    <3>1. CASE rows'[Reach] = rows[Reach]
      BY <1>4, <2>1, <3>1, RowsKept
    <3>2. CASE rows'[Reach] = rows[Nodes]
      <4>1. PICK f : f = rows[Nodes]
        OBVIOUS
      <4>2. Owned(f, job.key) /\ job.key \in Keys
        BY <1>1, <1>5, <4>1 DEF IInv, FilesOwned, RowsOwned, Nodes, JobOwnsKey
      <4>3. Owned(f, job.key)'
        BY <1>4, <4>2, OwnedKept
      <4>4. q[2] = job.key
        BY <2>1 DEF Reach
      <4> QED
        BY <1>4, <2>1, <3>2, <4>1, <4>3, <4>4
    <3> QED
      BY <1>6, <3>1, <3>2
  <2>3. ASSUME NEW q \in Parts
        PROVE  Owned(rows[q], q[2])'
    BY <1>4, <1>6, <2>1, RowsKept
  <2> QED
    BY <1>1, <1>2, <1>4, <2>3, CsvKept, PayloadKept DEF FilesOwned, RowsOwned, PayloadOwned
<1>9. MarkersHaveRows'
  <2>1. Reach[1] # "edges" /\ rows'[Reach] # Absent
    BY <1>5, <1>6 DEF IInv, MarkersHaveRows, Reach
  <2> QED
    BY <1>6, <2>1 DEF IInv, MarkersHaveRows, TypeOK, Absent, None
<1>10. KeysAreClasses'
  <2>1. ASSUME NEW k \in Keys
        PROVE  rows'[<<"rs", k, 0>>] = rows[<<"rs", k, 0>>]
    BY <1>6 DEF Parts, Reach
  <2> QED
    BY <1>1, <2>1 DEF IInv, KeysAreClasses, Whole
<1>11. JobProgress'
  BY <1>1, <1>3, <1>4, <1>6 DEF JobProgress, At, Registered, Nodes
<1>12. JobOwnsKey' /\ JobQueries' /\ Steady'
  BY <1>1, <1>2, <1>11, NextStep
<1> QED
  BY <1>7, <1>8, <1>9, <1>10, <1>11, <1>12 DEF IInv

LEMMA PrecomputeKeeps ==
  ASSUME IInv, Precompute, UNCHANGED <<faults, given>>
  PROVE  IInv'
<1>1. /\ At("payload") /\ ~At("idle") /\ job.pc \notin {"first", "second"}
      /\ job' = NoJob /\ UNCHANGED <<csv, rows, marked, classes>>
  BY DEF Precompute, At
<1>2. job.todo = {} /\ job.copying = {}
  BY <1>1, NothingCopied
<1>3. /\ classes[job.key] = job.cls /\ Nodes \in Parts /\ job.key \in Keys
      /\ job.n \in Counts
  BY <1>1, JobParts DEF IInv, JobProgress, JobOwnsKey, At, Registered
<1>4. Keeps
  BY <1>1, <1>3 DEF Keeps
<1>5. PICK b \in Keys \X Counts :
        /\ b = <<job.key, job.n>> /\ payload' \in [Keys \X Counts -> Content]
        /\ payload'[b] \in {payload[b], rows[Nodes]}
        /\ \A a \in (Keys \X Counts) \ {b} : payload'[a] = payload[a]
  BY <1>3 DEF Precompute, IInv, TypeOK
<1>6. PayloadOwned'
  <2>1. ASSUME NEW a \in Keys \X Counts
        PROVE  Owned(payload[a], a[1])'
    <3>1. CASE payload'[a] = payload[a]
      BY <1>4, <3>1, PayloadKept
    <3>2. CASE a = b /\ payload'[a] = rows[Nodes]
      <4>1. PICK f : f = rows[Nodes]
        OBVIOUS
      <4>2. Owned(f, job.key) /\ a[1] = job.key
        BY <1>3, <1>5, <3>2, <4>1 DEF IInv, FilesOwned, RowsOwned, Nodes
      <4>3. Owned(f, a[1])'
        BY <1>3, <1>4, <4>2, OwnedKept
      <4> QED
        BY <3>2, <4>1, <4>3
    <3> QED
      BY <1>5, <3>1, <3>2
  <2> QED
    BY <2>1 DEF PayloadOwned
<1>7. FilesOwned'
  BY <1>1, <1>2, <1>4, <1>6, CsvKept, RowsKept DEF FilesOwned, RowsOwned
<1>8. JobOwnsKey' /\ JobQueries' /\ JobProgress' /\ Steady' /\ job' \in JobType
  BY <1>1, EndedJob
<1>9. TypeOK'
  BY <1>1, <1>5, <1>8 DEF IInv, TypeOK
<1>10. MarkersHaveRows' /\ KeysAreClasses'
  BY <1>1 DEF IInv, MarkersHaveRows, KeysAreClasses
<1> QED
  BY <1>7, <1>8, <1>9, <1>10 DEF IInv

-----------------------------------------------------------------------------
LEMMA InitKeeps ==
  ASSUME Init, \A g \in Starts : Clean(g)
  PROVE  IInv
<1>1. given \in Starts /\ given \in Scenarios /\ faults = given.faults /\ faults \in Nat
  BY StartsAssumption DEF Init, Scenarios
<1>2. /\ csv = [p \in Parts |-> Absent] /\ rows = [p \in Parts |-> Absent] /\ marked = {}
      /\ classes = [k \in Keys |-> None] /\ job = NoJob
      /\ payload = [a \in Keys \X Counts |-> Absent]
  BY DEF Init
<1>3. /\ job \in JobType /\ job.pc = "idle" /\ job.todo = {} /\ job.copying = {}
      /\ job.failed = FALSE
  BY <1>2, ContentType DEF NoJob
<1>4. TypeOK
  BY <1>1, <1>2, <1>3, ContentType DEF TypeOK
<1>5. FilesOwned
  BY <1>2 DEF FilesOwned, CsvOwned, RowsOwned, PayloadOwned, Owned
<1>6. MarkersHaveRows /\ KeysAreClasses
  BY <1>2 DEF MarkersHaveRows, KeysAreClasses
<1>7. JobOwnsKey /\ JobQueries /\ JobProgress
  BY <1>3 DEF JobOwnsKey, JobQueries, JobProgress, At, Registered
<1>8. Steady
  BY <1>1, <1>3 DEF Steady, At, Clean
<1> QED
  BY <1>4, <1>5, <1>6, <1>7, <1>8 DEF IInv

LEMMA NextKeeps ==
  ASSUME IInv, [Next]_vars, \A g \in Starts : Clean(g)
  PROVE  IInv'
<1>1. ASSUME NEW p \in Parts, Query(p)
      PROVE  IInv'
  BY <1>1, QueryKeeps
<1>2. CASE Queried
  BY <1>2, QueriedKeeps
<1>3. CASE (Ingest \/ Skip \/ Register \/ Pick \/ Derive \/ Precompute)
             /\ UNCHANGED <<faults, given>>
  BY <1>3, IngestKeeps, SkipKeeps, RegisterKeeps, PickKeeps, DeriveKeeps, PrecomputeKeeps
<1>4. CASE Stop
  BY <1>4, StopKeeps
<1>5. ASSUME NEW c \in Classes, NEW anat \in BOOLEAN, NEW n \in given.counts,
             Begin(c, anat, n)
      PROVE  IInv'
  BY <1>5, BeginKeeps
<1>6. CASE UNCHANGED vars
  <2>1. UNCHANGED <<csv, db, given, faults, job>> /\ faults \in Nat /\ job \in JobType
    BY <1>6 DEF vars, IInv, TypeOK
  <2>2. Keeps
    BY <2>1 DEF Keeps, db, At
  <2>3. TypeOK' /\ FilesOwned' /\ MarkersHaveRows' /\ KeysAreClasses'
    BY <2>1, <2>2, JobOnly
  <2>4. JobOwnsKey' /\ JobQueries' /\ JobProgress' /\ Steady'
    BY <2>1 DEF IInv, JobOwnsKey, JobQueries, JobProgress, Steady, At, Landed, Arrives,
                Rs, Ids, Nodes, Anat, Whole, Distinct, Registered, db
  <2> QED
    BY <2>3, <2>4 DEF IInv
<1> QED
  BY <1>1, <1>2, <1>3, <1>4, <1>5, <1>6 DEF Next, Work

(* What is recorded of a class was extracted for it and is whole, for any   *)
(* number of classes and analyses, whatever names they have and wherever    *)
(* queries fail and the server stops - as long as nothing fails where names *)
(* collide, and the server does not stop in the middle of a copy.           *)
THEOREM OwnRecords ==
  ASSUME \A g \in Starts : Clean(g)
  PROVE  Spec => []RecordedIsItsOwn
<1>1. Init => IInv
  BY InitKeeps
<1>2. IInv /\ [Next]_vars => IInv'
  BY NextKeeps
<1>3. IInv => RecordedIsItsOwn
  <2>1. SUFFICES ASSUME IInv, NEW k \in Keys, classes[k] # None
                 PROVE  /\ rows[<<"rs", k, 0>>] = Whole(classes[k])
                        /\ \A p \in Parts : p[2] = k => rows[p] \in {Absent, Whole(classes[k])}
                        /\ \A n \in Counts : payload[<<k, n>>] \in {Absent, Whole(classes[k])}
                        /\ \A l \in Keys : classes[l] = classes[k] => l = k
                        /\ \A p \in marked : p[2] = k => rows[p] # Absent
    BY DEF RecordedIsItsOwn
  <2>2. ASSUME NEW f, Owned(f, k)
        PROVE  f \in {Absent, Whole(classes[k])}
    BY <2>1, <2>2, OwnerIsRecorded DEF Owned
  <2>3. ASSUME NEW p \in Parts, p[2] = k
        PROVE  rows[p] \in {Absent, Whole(classes[k])}
    BY <2>1, <2>2, <2>3 DEF IInv, FilesOwned, RowsOwned
  <2>4. ASSUME NEW n \in Counts
        PROVE  payload[<<k, n>>] \in {Absent, Whole(classes[k])}
    <3>1. Owned(payload[<<k, n>>], <<k, n>>[1])
      BY <2>1 DEF IInv, FilesOwned, PayloadOwned
    <3> QED
      BY <2>2, <3>1
  <2> QED
    BY <2>1, <2>3, <2>4 DEF IInv, KeysAreClasses, MarkersHaveRows
<1> QED
  BY <1>1, <1>2, <1>3, PTL DEF Spec

-----------------------------------------------------------------------------
(* An ingested part is not asked for again, in any scenario: the queries of *)
(* a job are among the parts without a marker until they have ended.        *)
Unasked ==
  /\ given \in Starts /\ job \in JobType /\ marked \subseteq Parts
  /\ csv = [p \in Parts |-> csv[p]]
  /\ ~At("idle") => job.key \in Keys /\ job.n \in Counts
  /\ job.todo # {} => job.pc \in {"first", "second"}
  /\ job.todo \intersect marked = {} /\ \A p \in marked : p[1] # "edges"

LEMMA UnaskedKept ==
  ASSUME Unasked, [Next]_vars
  PROVE  Unasked'
<1>0. given' = given
  BY DEF Next, Work, Query, Queried, Stop, Begin, vars
<1>1. /\ NoJob \in JobType /\ NoJob.pc = "idle" /\ NoJob.todo = {} /\ job \in JobType
      /\ given.counts \subseteq Counts /\ csv = [p \in Parts |-> csv[p]]
  BY ContentType, StartsAssumption DEF NoJob, Unasked, Scenarios
<1>2. ASSUME NEW p \in Parts, Query(p)
      PROVE  Unasked'
  <2>1. /\ job' \in JobType /\ job'.pc = job.pc /\ job'.key = job.key /\ job'.n = job.n
        /\ job'.todo \subseteq job.todo
    <3>1. CASE Ends(p)
      BY <1>1, <3>1 DEF Ends, JobType
    <3>2. CASE job' = [job EXCEPT !.copying = @ \union {p}]
      BY <1>1, <1>2, <3>2 DEF JobType
    <3>3. CASE job' = [job EXCEPT !.todo = @ \ {p}, !.failed = TRUE]
      BY <1>1, <3>3 DEF JobType
    <3> QED
      BY <1>2, <3>1, <3>2, <3>3 DEF Query
  <2>2. csv' = [q \in Parts |-> csv'[q]]
    <3>1. UNCHANGED csv \/ \E f : csv' = [csv EXCEPT ![p] = f]
      BY <1>2 DEF Query, Put
    <3> QED
      BY <1>1, <3>1
  <2> QED
    BY <1>2, <2>1, <2>2 DEF Query, Unasked, At, db
<1>3. CASE Queried
  <2>1. /\ job' \in JobType /\ job'.todo = {}
        /\ job'.pc # "idle" => job.pc # "idle" /\ job'.key = job.key /\ job'.n = job.n
    BY <1>1, <1>3 DEF Queried, Goes, JobType, At
  <2> QED
    BY <1>3, <2>1 DEF Queried, Unasked, At, db
<1>4. CASE Ingest \/ Skip \/ Register \/ Derive \/ Precompute
  <2>1. job.todo = {} /\ ~At("idle") /\ job.key \in Keys /\ job.n \in Counts
    BY <1>4 DEF Ingest, Skip, Register, Derive, Precompute, Unasked, At
  <2>2. /\ job' \in JobType /\ job'.todo = {}
        /\ job'.pc # "idle" => job'.key = job.key /\ job'.n = job.n
    BY <1>1, <1>4, <2>1 DEF Ingest, Skip, Register, Derive, Precompute, Goes, JobType
  <2>3. marked' \ marked \subseteq {Rs, Ids, Nodes, Reach}
    BY <1>4 DEF Ingest, Skip, Register, Derive, Precompute, Commit, db
  <2>4. {Rs, Ids, Nodes, Reach} \subseteq Parts
    BY <2>1, KeyParts DEF Rs, Ids, Nodes, Reach
  <2>5. \A p \in {Rs, Ids, Nodes, Reach} : p[1] # "edges"
    BY DEF Rs, Ids, Nodes, Reach
  <2>6. csv' = [q \in Parts |-> csv'[q]]
    BY <1>1, <1>4 DEF Ingest, Skip, Register, Derive, Precompute, Delete
  <2>7. marked' \subseteq Parts /\ \A p \in marked' : p[1] # "edges"
    <3>1. marked \subseteq Parts /\ \A p \in marked : p[1] # "edges"
      BY DEF Unasked
    <3> QED
      BY <2>3, <2>4, <2>5, <3>1
  <2>8. job'.pc # "idle" => job'.key \in Keys /\ job'.n \in Counts
    BY <2>1, <2>2
  <2>9. given' \in Starts
    BY <1>0, <1>4 DEF Unasked, Ingest, Skip, Register, Derive, Precompute, At
  <2> QED
    BY <2>2, <2>6, <2>7, <2>8, <2>9 DEF Unasked, At
<1>5. CASE Pick
  <2>1. job.todo = {} /\ UNCHANGED marked /\ job.key \in Keys /\ job.n \in Counts
    BY <1>5 DEF Pick, Unasked, At, db
  <2>2. CASE job' = NoJob \/ Goes("reach")
    <3>1. /\ job' \in JobType /\ job'.todo = {}
          /\ job'.pc # "idle" => job'.key = job.key /\ job'.n = job.n
      BY <1>1, <2>1, <2>2 DEF Goes, JobType
    <3> QED
      BY <1>0, <1>5, <2>1, <3>1 DEF Pick, Unasked, At
  <2>3. CASE Nodes \notin marked /\ job' = [job EXCEPT !.pc = "second", !.todo = Anat]
    <3>1. Anat \subseteq Parts /\ Anat \intersect marked = {}
      <4>1. Anat \subseteq Parts
        BY <2>1, KeyParts DEF Anat
      <4>2. \A p \in Anat : p = Nodes \/ p[1] = "edges"
        BY DEF Anat, Nodes
      <4> QED
        BY <2>3, <4>1, <4>2 DEF Unasked
    <3>2. /\ job' \in JobType /\ job'.pc = "second" /\ job'.todo = Anat
          /\ job'.key = job.key /\ job'.n = job.n
      BY <1>1, <2>3, <3>1 DEF JobType
    <3> QED
      BY <1>0, <1>5, <2>1, <3>1, <3>2 DEF Pick, Unasked, At
  <2> QED
    BY <1>5, <2>2, <2>3 DEF Pick
<1>6. CASE Stop
  BY <1>1, <1>6 DEF Stop, Unasked, At, db
<1>7. ASSUME NEW c \in Classes, NEW anat \in BOOLEAN, NEW n \in given.counts,
             Begin(c, anat, n)
      PROVE  Unasked'
  <2> DEFINE ps(k) == {<<"rs", k, 0>>} \union IF anat THEN {<<"idsall", k, 0>>} ELSE {}
  <2>1. PICK k \in AllocKey(c) :
          job' = [pc |-> "first", cls |-> c, anat |-> anat, n |-> n, key |-> k,
                  todo |-> Missing(ps(k)), copying |-> {}, failed |-> FALSE,
                  calm |-> faults = 0]
    BY <1>7 DEF Begin
  <2>2. k \in Keys /\ n \in Counts
    BY <1>1, <2>1 DEF AllocKey
  <2>3. ps(k) \subseteq Parts
    BY <2>2, KeyParts
  <2>4. job' \in JobType
    BY <2>1, <2>2, <2>3 DEF JobType, Missing
  <2> QED
    BY <1>7, <2>1, <2>2, <2>4 DEF Begin, Unasked, Missing, At, db
<1>8. CASE UNCHANGED vars
  BY <1>8 DEF vars, db, Unasked, At
<1> QED
  BY <1>2, <1>3, <1>4, <1>5, <1>6, <1>7, <1>8 DEF Next, Work

(* What the database has, MAT is not run for again, in any scenario.        *)
THEOREM NothingTwice == Spec => NothingIsRunTwice
<1>1. Init => Unasked
  BY ContentType DEF Init, Unasked, NoJob, At
<1>2. Unasked /\ [Next]_vars => Unasked'
  BY UnaskedKept
<1>3. Unasked /\ [Next]_vars
        => [\A p \in Parts : csv[p] = Absent /\ csv'[p] # Absent => p \notin marked]_vars
  <2>1. SUFFICES ASSUME Unasked, Next, NEW p \in Parts, csv[p] = Absent, csv'[p] # Absent
                 PROVE  p \in job.todo
    BY DEF Unasked
  <2>2. ASSUME NEW q \in Parts, Query(q)
        PROVE  p \in job.todo
    <3>1. q \in job.todo /\ (csv' = csv \/ \E f : csv' = [csv EXCEPT ![q] = f])
      BY <2>2 DEF Query, Put
    <3>2. csv = [x \in Parts |-> csv[x]]
      BY <2>1 DEF Unasked
    <3>3. p = q
      BY <2>1, <3>1, <3>2
    <3> QED
      BY <3>1, <3>3
  <2>3. CASE Ingest
    BY <2>1, <2>3 DEF Ingest, Delete
  <2>4. Queried \/ Skip \/ Register \/ Pick \/ Derive \/ Precompute \/ Stop => csv' = csv
    BY DEF Queried, Skip, Register, Pick, Derive, Precompute, Stop
  <2>5. \A c, anat, n : Begin(c, anat, n) => csv' = csv
    BY DEF Begin
  <2> QED
    BY <2>1, <2>2, <2>3, <2>4, <2>5 DEF Next, Work
<1> QED
  BY <1>1, <1>2, <1>3, PTL DEF Spec, NothingIsRunTwice
=============================================================================
