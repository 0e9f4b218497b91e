---------------------------- MODULE Extraction ----------------------------
(***************************************************************************)
(* _analyze_class over one dump: MAT queries land as CSV files, each is    *)
(* ingested into analysis.db with its marker in one transaction and then   *)
(* deleted, the class is registered under its key, the derived tables and  *)
(* the served payload follow.  The MAT worker takes one job at a time; a   *)
(* query fails, the server stops between any two steps, and a later job,   *)
(* of that class or another, goes on from what is there.                   *)
(*                                                                         *)
(* Content is told apart by the class it was extracted for (0: nothing)    *)
(* and by being all of it.                                                 *)
(***************************************************************************)
EXTENDS Naturals, FiniteSets

CONSTANTS
  Classes,   \* the classes analyzed, positive numbers
  Counts,    \* sample counts asked for
  MaxKey,    \* bound: suffixes of a key
  Starts     \* how a behaviour may begin, see Scenarios

(* base: the name a class gets as a key; one_fs: the temporary directory    *)
(* and the dump dir are on one file system; counts: the samples asked for;  *)
(* faults: queries that fail and stops of the server.                       *)
Bases == 1..Cardinality(Classes)
Scenarios == [base : [Classes -> Bases], one_fs : BOOLEAN,
              counts : SUBSET Counts, fails : BOOLEAN, stops : BOOLEAN,
              faults : Nat]

(* The scenarios in which nothing goes wrong where the code is exposed to   *)
(* it: a failing query or a stop where names collide, a stop while a file   *)
(* is copied.                                                               *)
Distinct(g) == \A c, d \in Classes : g.base[c] = g.base[d] => c = d
Clean(g) == g.faults = 0 \/ (Distinct(g) /\ (g.one_fs \/ ~g.stops))

ASSUME ClassAssumption == Classes \subseteq Nat \ {0} /\ Counts \subseteq Nat \ {0}
ASSUME StartsAssumption == Starts \subseteq Scenarios

VARIABLES
  csv,      \* per extraction: the CSV at its final path
  rows,     \* per extraction: the rows in analysis.db
  marked,   \* the extractions with a marker
  classes,  \* the classes table, by key
  payload,  \* the stored payloads, by key and count
  job,      \* the running job; calm: nothing fails any more
  faults,   \* queries to fail and stops to come
  given     \* the scenario

db   == <<rows, marked, classes, payload>>
vars == <<csv, db, job, faults, given>>

-----------------------------------------------------------------------------
Keys  == Bases \X (1..MaxKey)
Parts == ({"rs", "idsall"} \X Keys \X {0})
           \union ({"nodes", "edges", "reach"} \X Keys \X Counts)

None     == 0
Whole(c) == [of |-> c, whole |-> TRUE]
Absent   == [of |-> None, whole |-> FALSE]

NoJob == [pc |-> "idle", cls |-> None, anat |-> FALSE, n |-> 0, key |-> <<1, 1>>,
          todo |-> {}, copying |-> {}, failed |-> FALSE, calm |-> FALSE]

Init ==
  /\ given \in Starts /\ faults = given.faults
  /\ csv = [p \in Parts |-> Absent] /\ rows = [p \in Parts |-> Absent]
  /\ marked = {} /\ classes = [k \in Keys |-> None]
  /\ payload = [a \in Keys \X Counts |-> Absent]
  /\ job = NoJob

At(pc)   == job.pc = pc
Goes(pc) == job' = [job EXCEPT !.pc = pc]
Rs       == <<"rs", job.key, 0>>
Ids      == <<"idsall", job.key, 0>>
Anat     == {<<"nodes", job.key, job.n>>, <<"edges", job.key, job.n>>}
Nodes    == <<"nodes", job.key, job.n>>
Reach    == <<"reach", job.key, job.n>>
Landed(p) == csv[p] # Absent
Fault(kind) == kind /\ faults > 0 /\ faults' = faults - 1

(* Mutant of AllocKey: keys in use by other classes are not looked up. *)
BaseOnly(c) == {<<given.base[c], 1>>}

(* _alloc_key: the key of a known class, or the first one of its name that  *)
(* no class of the table has; none when the suffixes run out (MaxKey).      *)
AllocKey(c) ==
  LET known == {k \in Keys : classes[k] = c}
      first == {k \in Keys : /\ k[1] = given.base[c] /\ classes[k] = None
                             /\ \A i \in 1..(k[2] - 1) : classes[<<k[1], i>>] # None}
  IN IF known # {} THEN known ELSE first

(* Mutant of Missing: the markers are not looked at. *)
MissingWithoutMarkers(ps) == ps

(* Extractions with a marker are never run again. *)
Missing(ps) == ps \ marked

Begin(c, anat, n) ==
  /\ At("idle")
  /\ \E k \in AllocKey(c) :
       LET ps == {<<"rs", k, 0>>} \union IF anat THEN {<<"idsall", k, 0>>} ELSE {}
       IN job' = [pc |-> "first", cls |-> c, anat |-> anat, n |-> n, key |-> k,
                  todo |-> Missing(ps), copying |-> {}, failed |-> FALSE,
                  calm |-> faults = 0]
  /\ UNCHANGED <<csv, db, faults, given>>

(* MatRunner.run in the threads of _par: a CSV that is there is taken as it *)
(* is; a result is moved out of the temporary directory, by a rename or by  *)
(* a copy; an empty one has no file.                                        *)
Put(p, f) == csv' = [csv EXCEPT ![p] = f]
Ends(p)   == job' = [job EXCEPT !.todo = @ \ {p}, !.copying = @ \ {p}]

Query(p) ==
  /\ p \in job.todo
  /\ \/ /\ Landed(p) /\ p \notin job.copying
        /\ Ends(p) /\ UNCHANGED <<csv, faults>>
     \/ /\ ~Landed(p) /\ given.one_fs
        /\ Put(p, Whole(job.cls)) /\ Ends(p) /\ UNCHANGED faults
     \/ /\ ~Landed(p) /\ ~given.one_fs
        /\ Put(p, [of |-> job.cls, whole |-> FALSE])
        /\ job' = [job EXCEPT !.copying = @ \union {p}] /\ UNCHANGED faults
     \/ /\ p \in job.copying
        /\ Put(p, Whole(job.cls)) /\ Ends(p) /\ UNCHANGED faults
     \/ /\ ~Landed(p) /\ Ends(p) /\ UNCHANGED csv
        /\ IF p[1] = "edges" THEN UNCHANGED faults ELSE Fault(given.fails)
     \/ /\ ~Landed(p) /\ Fault(given.fails)
        /\ job' = [job EXCEPT !.todo = @ \ {p}, !.failed = TRUE] /\ UNCHANGED csv
  /\ UNCHANGED <<db, given>>

(* _par has waited for all of them; a failed one ends the job, and what the *)
(* others landed stays.                                                     *)
Queried ==
  /\ job.pc \in {"first", "second"} /\ job.todo = {}
  /\ IF job.failed \/ (At("second") /\ ~Landed(Nodes)) THEN job' = NoJob
     ELSE Goes(IF At("first") THEN "rs" ELSE "anat")
  /\ UNCHANGED <<csv, db, faults, given>>

-----------------------------------------------------------------------------
(* The transaction of an ingest, then the deletion of its files. *)
Commit(ps, marker) ==
  /\ rows' = [p \in Parts |-> IF p \in ps THEN csv[p] ELSE rows[p]]
  /\ marked' = marked \union {marker}
  /\ UNCHANGED <<classes, payload>>

Delete(ps) == csv' = [p \in Parts |-> IF p \in ps THEN Absent ELSE csv[p]]

Ingest ==
  \/ /\ At("rs") /\ Landed(Rs) /\ Commit({Rs}, Rs) /\ Goes("rs_delete")
     /\ UNCHANGED csv
  \/ /\ At("ids") /\ Landed(Ids) /\ Commit({Ids}, Ids) /\ Goes("ids_delete")
     /\ UNCHANGED csv
  \/ /\ At("anat") /\ Commit(Anat, Nodes) /\ Goes("anat_delete") /\ UNCHANGED csv
  \/ /\ \/ At("rs_delete") /\ Delete({Rs}) /\ Goes("register")
        \/ At("ids_delete") /\ Delete({Ids}) /\ Goes("pick")
        \/ At("anat_delete") /\ Delete(Anat) /\ Goes("reach")
     /\ UNCHANGED db

Skip ==
  /\ UNCHANGED <<csv, db>>
  /\ \/ At("rs") /\ ~Landed(Rs)
        /\ IF Rs \in marked THEN Goes("register") ELSE job' = NoJob
     \/ At("ids") /\ ~Landed(Ids) /\ Goes("pick")

(* upsert_class. *)
Record(k) == classes' = [classes EXCEPT ![k] = job.cls]

Register ==
  /\ At("register") /\ Record(job.key)
  /\ IF job.anat THEN Goes("ids") ELSE job' = NoJob
  /\ UNCHANGED <<csv, rows, marked, payload>>

(* The sample is drawn from the id list; its extraction is run unless its   *)
(* marker is there.                                                         *)
Pick ==
  /\ At("pick")
  /\ IF Ids \notin marked THEN job' = NoJob
     ELSE IF Nodes \in marked THEN Goes("reach")
     ELSE job' = [job EXCEPT !.pc = "second", !.todo = Anat]
  /\ UNCHANGED <<csv, db>>

(* Mutant of Derive: a job that finds the derived tables is done. *)
DeriveIsLast ==
  /\ At("reach") /\ UNCHANGED <<csv, classes, payload>>
  /\ IF Reach \in marked THEN job' = NoJob /\ UNCHANGED <<rows, marked>>
     ELSE /\ Goes("payload")
          /\ rows' = [rows EXCEPT ![Reach] = rows[Nodes]]
          /\ marked' = marked \union {Reach}

(* write_reach, from the rows of the extraction. *)
Derive ==
  /\ At("reach") /\ Goes("payload") /\ UNCHANGED <<csv, classes, payload>>
  /\ IF Reach \in marked THEN UNCHANGED <<rows, marked>>
     ELSE /\ rows' = [rows EXCEPT ![Reach] = rows[Nodes]]
          /\ marked' = marked \union {Reach}

(* write_payload, unless one is stored. *)
Precompute ==
  /\ At("payload") /\ job' = NoJob /\ UNCHANGED <<csv, rows, marked, classes>>
  /\ payload' = [payload EXCEPT ![<<job.key, job.n>>] =
                   IF @ = Absent THEN rows[Nodes] ELSE @]

Work ==
  \/ \E p \in Parts : Query(p)
  \/ Queried
  \/ (Ingest \/ Skip \/ Register \/ Pick \/ Derive \/ Precompute)
       /\ UNCHANGED <<faults, given>>

(* The server stops: the database rolls back or has committed. *)
Stop ==
  /\ ~At("idle") /\ Fault(given.stops) /\ job' = NoJob
  /\ UNCHANGED <<csv, db, given>>

Next ==
  \/ Work \/ Stop
  \/ \E c \in Classes, anat \in BOOLEAN, n \in given.counts : Begin(c, anat, n)

Spec == Init /\ [][Next]_vars
FairSpec == Spec /\ WF_vars(Work)

-----------------------------------------------------------------------------
(* A class is recorded under one key, with its retained set, and all that   *)
(* the database has under that key was extracted for it: an extraction that *)
(* failed or was cut short is never recorded, under its own class or, as    *)
(* the names of keys collide, under another; and a marker never goes before *)
(* its rows.                                                                *)
RecordedIsItsOwn ==
  \A k \in Keys : classes[k] # None =>
    /\ rows[<<"rs", k, 0>>] = Whole(classes[k])
    /\ \A p \in Parts : p[2] = k => rows[p] \in {Absent, Whole(classes[k])}
    /\ \A n \in Counts : payload[<<k, n>>] \in {Absent, Whole(classes[k])}
    /\ \A l \in Keys : classes[l] = classes[k] => l = k
    /\ \A p \in marked : p[2] = k => rows[p] # Absent

(* "An ingested part is never re-run": MAT, which takes minutes, is not     *)
(* asked again for what the database has, wherever an earlier job stopped.  *)
NothingIsRunTwice ==
  [][\A p \in Parts : csv[p] = Absent /\ csv'[p] # Absent => p \notin marked]_vars

(* A job that meets no failure has its class served in the end, whatever    *)
(* the jobs before it have left.                                            *)
Resumes ==
  \A c \in Classes, n \in Counts :
    (job.calm /\ job.cls = c /\ job.n = n /\ job.anat)
      ~> \E k \in Keys : classes[k] = c /\ payload[<<k, n>>] = Whole(c)
=============================================================================
