--------------------------- MODULE IndexSetProofs ---------------------------
(***************************************************************************)
(* Proofs about IndexSet: MAT is offered whole sets only, and takes them   *)
(* for newer than the dump; and what it wrote survives: for any number of  *)
(* members, lanes and queries, in the scenarios the code protects.         *)
(***************************************************************************)
EXTENDS IndexSet, FiniteSetTheorems, WellFoundedInduction, TLAPS

-----------------------------------------------------------------------------
(* A set of numbers has a least one: the order of the numbers is            *)
(* well-founded.                                                            *)
LEMMA LessIsWellFounded ==
  IsWellFoundedOn({p \in Nat \X Nat : p[1] < p[2]}, Nat)
<1>1. OpToRel(<, Nat) = {p \in Nat \X Nat : p[1] < p[2]}
  BY DEF OpToRel
<1>2. QED
  BY <1>1, NatLessThanWellFounded

LEMMA MinFacts ==
  ASSUME NEW S \in SUBSET Nat, S # {}
  PROVE  Min(S) \in S /\ \A y \in S : Min(S) <= y
<1> DEFINE R == {p \in Nat \X Nat : p[1] < p[2]}
<1>1. IsWellFoundedOn(R, Nat)
  BY LessIsWellFounded
<1>2. \E x \in S : \A y \in S : <<y, x>> \notin R
  <2> HIDE DEF R
  <2> QED
    BY <1>1, WFMin
<1>3. PICK x \in S : \A y \in S : <<y, x>> \notin R
  BY <1>2
<1>4. ASSUME NEW y \in S PROVE x <= y
  <2>1. <<y, x>> \in Nat \X Nat
    OBVIOUS
  <2>2. ~(y < x)
    BY <1>3, <2>1
  <2>3. QED
    BY <2>2
<1>5. QED
  BY <1>3, <1>4 DEF Min

-----------------------------------------------------------------------------
(* The types of the variables; what may rot, and what is recorded, the      *)
(* scenario says.                                                           *)
Files == {Missing} \union [ver : Nat \ {0}, mtime : Nat]

QueryType ==
  [pc : {"idle", "restore", "restore_wait", "restoring", "spoiled", "pin",
         "pin_wait", "share", "mat", "done", "corrupt", "failed"},
   todo : SUBSET Members, stamp : SUBSET Members, round : Nat]
JobType ==
  [pc : {"idle", "run", "await", "drop"}, again : BOOLEAN,
   raws : SUBSET Members, zsts : SUBSET Members]
WorkType(pcs) == [pc : pcs, todo : SUBSET Members]

DiskTyped ==
  /\ raw \in [Members -> Files] /\ zst \in [Members -> Files]
  /\ rotten \subseteq given.rotten \intersect Here(zst)
  /\ manifest => given.listed
  /\ given \in Starts /\ crashes \in Nat /\ crashes <= given.crashes

ActorsTyped ==
  /\ sh \subseteq Queries
  /\ job \in JobType /\ query \in [Queries -> QueryType]
  /\ compact \in WorkType({"idle", "wait", "next", "stamp", "remove"})
  /\ stage \in WorkType({"idle", "look", "fetch", "commit", "record"})

(* The lock is held by whoever is at a place that moves files, and shared   *)
(* by the MAT runs.                                                         *)
Locked ==
  /\ \A q \in Queries : query[q].pc \in {"restoring", "spoiled"} <=> ex = q
  /\ \A q \in Queries : At(q, "mat") <=> q \in sh
  /\ compact.pc \in {"next", "stamp", "remove"} <=> ex = Compactor
  /\ stage.pc = "commit" <=> ex = Stager
  /\ ex # Nobody => sh = {}

(* Nobody is at work but for a reason. *)
Employed ==
  /\ \A q \in Queries : ~(job.pc = "run" /\ q \in given.queries) => query[q] = NoQuery
  /\ given.compacts \/ compact.pc = "idle"
  /\ given.published \/ stage.pc = "idle"

(* What a restore has before it has an archive and no raw file; what it has *)
(* renamed is there, of the archive's version, and has no mtime yet.        *)
Agree(m) == raw[m].ver = zst[m].ver

Restores ==
  \A q \in Queries :
    IF ex = q
      THEN /\ query[q].todo \subseteq Here(zst) \ Here(raw)
           /\ query[q].stamp \subseteq {m \in Here(raw) \intersect Here(zst) :
                                          raw[m].mtime = Unstamped /\ Agree(m)}
      ELSE query[q].stamp = {}

Compacts ==
  /\ compact.pc \in {"stamp", "remove"} =>
       Current \in Here(raw) \intersect Here(zst) /\ Agree(Current)
  /\ compact.pc = "remove" => raw[Current].mtime = zst[Current].mtime

(* A set is given up because of a corrupt archive, whole, and once.         *)
Drops ==
  /\ job.pc = "drop" => /\ given.rotten # {} /\ job.again
                        /\ job.raws = Here(raw) /\ job.zsts = Here(zst)
  /\ job.again /\ job.pc # "drop" => rotten = {}
  /\ \A q \in Queries : query[q].pc \in {"spoiled", "corrupt"} =>
       given.rotten # {} /\ ~job.again

(* Versions come from MAT, and an archive gets them from a compaction.      *)
Unwritten ==
  /\ given.grows = {} => \A m \in Members : raw[m].ver <= 1
  /\ ~given.compacts \/ given.grows = {} => \A m \in Members : zst[m].ver <= 1

(* The set is whole, is not there, arrives, or is being given up. *)
Whole      == Here(zst) = Members
Empty      == Present = {} /\ job.pc # "run"
Committing == stage.pc = "commit" /\ Here(raw) = {} /\ ~Discarding
                /\ Here(zst) = Members \ stage.todo

Phases ==
  /\ Whole \/ Empty \/ Committing \/ Discarding
  /\ stage.pc \in {"look", "fetch"} =>
       stage.todo = Members /\ (Empty \/ Discarding)
  /\ stage.pc = "commit" => Committing
  /\ given.crashes > 0 => Whole

Inv == /\ DiskTyped /\ ActorsTyped /\ Locked /\ Employed /\ Restores /\ Compacts
       /\ Drops /\ Unwritten /\ Phases /\ MatSeesWhole

-----------------------------------------------------------------------------
(* Numbers that tell the holders, and the times, apart. *)
LEMMA Numbers ==
  /\ Members \subseteq Nat \ {0} /\ Queries \subseteq Nat \ {0} /\ 1 \in Members
  /\ Nobody \notin Queries /\ Compactor \notin Queries /\ Stager \notin Queries
  /\ Nobody # Compactor /\ Nobody # Stager /\ Compactor # Stager
  /\ Unstamped \in Nat \ {0} /\ Built \in Nat
  /\ \A v \in Nat : Rewritten(v) \in Nat
BY SizeAssumption
   DEF Members, Queries, Nobody, Compactor, Stager, Unstamped, Rewritten, Built

LEMMA FileFacts ==
  /\ Missing \in Files
  /\ \A v \in Nat \ {0}, t \in Nat :
       /\ File(v, t) \in Files /\ File(v, t) # Missing
       /\ File(v, t).ver = v /\ File(v, t).mtime = t
  /\ \A f \in Files : f.ver \in Nat /\ f.mtime \in Nat
  /\ \A f \in Files : f # Missing => f.ver # 0
  /\ Missing.ver = 0
BY DEF Files, File, Missing

LEMMA PutFacts ==
  ASSUME NEW files \in [Members -> Files], NEW m \in Members, NEW f \in Files
  PROVE  /\ Put(files, m, f) \in [Members -> Files]
         /\ Put(files, m, f)[m] = f
         /\ \A k \in Members : k # m => Put(files, m, f)[k] = files[k]
         /\ f = Missing => Here(Put(files, m, f)) = Here(files) \ {m}
         /\ f # Missing => Here(Put(files, m, f)) = Here(files) \union {m}
BY DEF Put, Here

LEMMA HereFacts ==
  ASSUME NEW files \in [Members -> Files]
  PROVE  /\ Here(files) \subseteq Members
         /\ \A m \in Here(files) : files[m].ver \in Nat \ {0} /\ files[m].mtime \in Nat
         /\ \A m \in Members : m \notin Here(files) => files[m] = Missing
BY FileFacts DEF Here

(* The file that takes over a member's content, with another time. *)
LEMMA CopyFacts ==
  ASSUME NEW files \in [Members -> Files], NEW m \in Here(files), NEW t \in Nat
  PROVE  /\ File(files[m].ver, t) \in Files /\ File(files[m].ver, t) # Missing
         /\ File(files[m].ver, t).ver = files[m].ver
         /\ File(files[m].ver, t).mtime = t
<1>1. files[m].ver \in Nat \ {0}
  BY HereFacts
<1>2. PICK v \in Nat \ {0} : v = files[m].ver
  BY <1>1
<1>3. /\ File(v, t) \in Files /\ File(v, t) # Missing
      /\ File(v, t).ver = v /\ File(v, t).mtime = t
  BY FileFacts
<1>4. QED
  BY <1>2, <1>3

-----------------------------------------------------------------------------
(* A query's own record, and the others'. *)
LEMMA QueryFacts ==
  ASSUME query \in [Queries -> QueryType], NEW q \in Queries, NEW r \in QueryType,
         query' = [query EXCEPT ![q] = r]
  PROVE  /\ query' \in [Queries -> QueryType] /\ query'[q] = r
         /\ \A p \in Queries : p # q => query'[p] = query[p]
OBVIOUS


(* A step of a query that moves no file and takes no lock. *)
Ashore == {"restore", "restore_wait", "pin", "pin_wait", "share", "done", "failed"}

LEMMA QuietMove ==
  ASSUME Inv, NEW q \in Queries, NEW r \in QueryType,
         query' = [query EXCEPT ![q] = r],
         query[q].pc \in Ashore, r.pc \in Ashore, r.stamp = {},
         UNCHANGED <<raw, zst, rotten, manifest, lock, job, compact, stage, crashes, given>>
  PROVE  Inv'
<1>1. /\ query' \in [Queries -> QueryType] /\ query'[q] = r
      /\ \A p \in Queries : p # q => query'[p] = query[p]
  BY QueryFacts DEF Inv, ActorsTyped
<1>2. DiskTyped' /\ ActorsTyped'
  BY <1>1 DEF Inv, DiskTyped, ActorsTyped, lock, Here
<1>3. Locked'
  BY <1>1 DEF Inv, Locked, lock, At, Ashore
<1>4. Employed'
  <2>1. query[q] # NoQuery
    BY DEF NoQuery, Ashore
  <2>2. /\ UNCHANGED <<job, compact, stage, given>>
        /\ \A p \in Queries : query[p] = NoQuery => query'[p] = NoQuery
    BY <1>1, <2>1
  <2>3. QED
    BY <2>2 DEF Inv, Employed
<1>5. Restores'
  BY <1>1 DEF Inv, Restores, Locked, lock, Agree, Here, Ashore
<1>6. Compacts' /\ Drops' /\ Unwritten'
  BY <1>1 DEF Inv, Compacts, Drops, Unwritten, Agree, Here, Current, Ashore
<1>7. Discarding' <=> Discarding
  BY <1>1 DEF Discarding, Ashore
<1>8. Phases' /\ MatSeesWhole'
  BY <1>1, <1>7 DEF Inv, Phases, MatSeesWhole, Whole, Empty, Committing, Present,
                    Here, At, Ashore
<1>9. QED
  BY <1>2, <1>3, <1>4, <1>5, <1>6, <1>8 DEF Inv

LEMMA ListMissingKeeps ==
  ASSUME Inv, NEW q \in Queries, ListMissing(q)
  PROVE  Inv'
<1> DEFINE todo == Here(zst) \ Here(raw)
<1> DEFINE r == [query[q] EXCEPT !.todo = todo,
                   !.pc = IF todo = {} THEN "pin" ELSE "restore_wait"]
<1>1. query' = [query EXCEPT ![q] = r]
  BY DEF ListMissing, Inv, ActorsTyped, QueryType
<1>2. query[q] \in QueryType /\ query[q].pc = "restore"
  BY DEF ListMissing, At, Inv, ActorsTyped
<1>3. query[q].stamp = {}
  BY <1>2 DEF Inv, Restores, Locked
<1>4. r \in QueryType /\ r.pc \in Ashore /\ r.stamp = {}
  BY <1>2, <1>3, HereFacts DEF Inv, DiskTyped, QueryType, Ashore
<1> HIDE DEF todo, r
<1>5. QED
  BY <1>1, <1>2, <1>4, QuietMove DEF ListMissing, disk, Ashore

(* A query that has not the lock has nothing to stamp. *)
LEMMA NothingToStamp ==
  ASSUME Inv, NEW q \in Queries, query[q].pc \in Ashore
  PROVE  query[q].stamp = {}
BY DEF Inv, Restores, Locked, Ashore

LEMMA EndsFacts ==
  ASSUME NEW q \in Queries, NEW pc \in {"done", "corrupt", "failed"}, Ends(q, pc)
  PROVE  \E r \in QueryType :
           /\ query' = [query EXCEPT ![q] = r]
           /\ r.pc = pc /\ r.todo = {} /\ r.stamp = {}
<1> DEFINE r == [NoQuery EXCEPT !.pc = pc]
<1>1. r \in QueryType /\ r.pc = pc /\ r.todo = {} /\ r.stamp = {}
  BY DEF NoQuery, QueryType
<1>2. query' = [query EXCEPT ![q] = r]
  BY DEF Ends
<1>3. QED
  BY <1>1, <1>2

LEMMA MovesFacts ==
  ASSUME query \in [Queries -> QueryType], NEW q \in Queries, NEW pc, Moves(q, pc),
         pc \in {"restore", "pin", "pin_wait", "share", "mat"}
  PROVE  \E r \in QueryType :
           /\ query' = [query EXCEPT ![q] = r]
           /\ r.pc = pc /\ r.todo = query[q].todo /\ r.stamp = query[q].stamp
<1> DEFINE r == [query[q] EXCEPT !.pc = pc]
<1>1. query[q] \in QueryType
  OBVIOUS
<1>2. r \in QueryType /\ r.pc = pc /\ r.todo = query[q].todo /\ r.stamp = query[q].stamp
  BY <1>1 DEF QueryType
<1>3. query' = [query EXCEPT ![q] = r]
  BY DEF Moves
<1>4. QED
  BY <1>2, <1>3

LEMMA SurveyPinKeeps ==
  ASSUME Inv, NEW q \in Queries, SurveyPin(q)
  PROVE  Inv'
<1>1. PICK pc \in {"pin_wait", "share"} : Moves(q, pc)
  BY DEF SurveyPin
<1>2. query[q].pc = "pin" /\ query \in [Queries -> QueryType]
  BY DEF SurveyPin, At, Inv, ActorsTyped
<1>3. PICK r \in QueryType : /\ query' = [query EXCEPT ![q] = r]
                             /\ r.pc = pc /\ r.stamp = query[q].stamp
  BY <1>1, <1>2, MovesFacts
<1>4. query[q].stamp = {}
  BY <1>2, NothingToStamp DEF Ashore
<1>5. QED
  BY <1>2, <1>3, <1>4, QuietMove DEF SurveyPin, disk, Ashore

LEMMA PinKeeps ==
  ASSUME Inv, NEW q \in Queries, Pin(q)
  PROVE  Inv'
<1>1. query[q].pc = "pin_wait" /\ query \in [Queries -> QueryType]
  BY DEF Pin, At, Inv, ActorsTyped
<1>2. PICK r \in QueryType : /\ query' = [query EXCEPT ![q] = r]
                             /\ r.pc = "share" /\ r.stamp = query[q].stamp
  BY <1>1, MovesFacts DEF Pin
<1>3. query[q].stamp = {}
  BY <1>1, NothingToStamp DEF Ashore
<1>4. QED
  BY <1>1, <1>2, <1>3, QuietMove DEF Pin, disk, Ashore

LEMMA LockRestoreKeeps ==
  ASSUME Inv, NEW q \in Queries, LockRestore(q)
  PROVE  Inv'
<1> DEFINE todo == query[q].todo \ Here(raw)
<1>1. query[q].pc = "restore_wait" /\ query[q] \in QueryType /\ LockFree
  BY DEF LockRestore, At, Inv, ActorsTyped
<1>2. query[q].stamp = {}
  BY <1>1, NothingToStamp DEF Ashore
<1>3. UNCHANGED <<disk, sh, job, compact, stage, crashes, given>>
  BY DEF LockRestore
<1>4. CASE todo # {} /\ todo \subseteq Here(zst)
  <2> DEFINE r == [query[q] EXCEPT !.pc = "restoring", !.todo = todo]
  <2>1. query' = [query EXCEPT ![q] = r] /\ ex' = q
    BY <1>1, <1>4 DEF LockRestore, Inv, ActorsTyped, QueryType
  <2>2. r \in QueryType /\ r.pc = "restoring" /\ r.stamp = {} /\ r.todo = todo
    BY <1>1, <1>2 DEF QueryType
  <2> HIDE DEF r
  <2>3. /\ query' \in [Queries -> QueryType] /\ query'[q] = r
        /\ \A p \in Queries : p # q => query'[p] = query[p]
    BY <2>1, <2>2, QueryFacts DEF Inv, ActorsTyped
  <2>4. DiskTyped' /\ ActorsTyped'
    BY <1>3, <2>3 DEF Inv, DiskTyped, ActorsTyped, disk, Here
  <2>5. Locked'
    BY <1>1, <1>3, <2>1, <2>2, <2>3, Numbers DEF Inv, Locked, LockFree, At
  <2>6. Employed'
    BY <1>1, <1>3, <2>3 DEF Inv, Employed, NoQuery
  <2>7. Restores'
    BY <1>1, <1>3, <1>4, <2>1, <2>2, <2>3, Numbers
       DEF Inv, Restores, LockFree, disk, Agree, Here
  <2>8. Compacts' /\ Drops' /\ Unwritten'
    BY <1>3, <2>2, <2>3 DEF Inv, Compacts, Drops, Unwritten, disk, Agree, Here, Current
  <2>9. Discarding' <=> Discarding
    BY <1>1, <1>3, <2>2, <2>3 DEF Discarding
  <2>10. Phases' /\ MatSeesWhole'
    BY <1>3, <2>2, <2>3, <2>9 DEF Inv, Phases, MatSeesWhole, Whole, Empty, Committing,
                                  Present, disk, Here, At
  <2>11. QED
    BY <2>4, <2>5, <2>6, <2>7, <2>8, <2>10 DEF Inv
<1>5. CASE ~(todo # {} /\ todo \subseteq Here(zst))
  <2> DEFINE r == [query[q] EXCEPT !.pc = "pin", !.todo = {}]
  <2>1. \/ query' = [query EXCEPT ![q] = r] /\ r \in QueryType
             /\ r.pc = "pin" /\ r.stamp = {}
        \/ Ends(q, "failed")
    BY <1>1, <1>2, <1>5 DEF LockRestore, Inv, ActorsTyped, QueryType
  <2>2. ex' = ex
    BY <1>5 DEF LockRestore
  <2> HIDE DEF r, todo
  <2>3. PICK s \in QueryType : /\ query' = [query EXCEPT ![q] = s]
                               /\ s.pc \in {"pin", "failed"} /\ s.stamp = {}
    BY <2>1, EndsFacts
  <2>4. QED
    BY <1>1, <1>3, <2>2, <2>3, QuietMove DEF disk, lock, Ashore
<1>6. QED
  BY <1>4, <1>5

(* The holder of the lock among the queries: the analysis is in its run,    *)
(* and neither a compaction nor a commit is under way.                      *)
LEMMA HolderFacts ==
  ASSUME Inv, NEW q \in Queries, query[q].pc \in {"restoring", "spoiled"}
  PROVE  /\ ex = q /\ sh = {} /\ job.pc = "run" /\ q \in given.queries
         /\ compact.pc \in {"idle", "wait"} /\ stage.pc # "commit"
         /\ \A p \in Queries : p # q => query[p].pc \notin {"restoring", "spoiled", "mat"}
         /\ query[q].todo \subseteq Here(zst) \ Here(raw)
         /\ query[q].stamp \subseteq {m \in Here(raw) \intersect Here(zst) :
                                        raw[m].mtime = Unstamped /\ Agree(m)}
         /\ ~Empty /\ ~Committing
<1>1. /\ ex = q /\ sh = {} /\ job.pc = "run" /\ q \in given.queries
  BY Numbers DEF Inv, Locked, Employed, NoQuery
<1>2. compact.pc \in {"idle", "wait"} /\ stage.pc # "commit"
  BY <1>1, Numbers DEF Inv, Locked, ActorsTyped, WorkType
<1>3. \A p \in Queries : p # q => query[p].pc \notin {"restoring", "spoiled", "mat"}
  BY <1>1 DEF Inv, Locked, At
<1>4. /\ query[q].todo \subseteq Here(zst) \ Here(raw)
      /\ query[q].stamp \subseteq {m \in Here(raw) \intersect Here(zst) :
                                     raw[m].mtime = Unstamped /\ Agree(m)}
  BY <1>1 DEF Inv, Restores
<1>5. QED
  BY <1>1, <1>2, <1>3, <1>4 DEF Empty, Committing

LEMMA RestoreOneKeeps ==
  ASSUME Inv, NEW q \in Queries, NEW m \in Members, RestoreOne(q, m)
  PROVE  Inv'
<1> DEFINE f == File(zst[m].ver, Unstamped)
<1> DEFINE r == [query[q] EXCEPT !.todo = @ \ {m}, !.stamp = @ \union {m}]
<1>1. /\ query[q].pc \in {"restoring", "spoiled"} /\ m \in query[q].todo
      /\ query[q] \in QueryType /\ m \notin rotten
      /\ UNCHANGED <<zst, rotten, hprof, manifest, lock, job, compact, stage,
                     crashes, given>>
  BY DEF RestoreOne, Decompressing, Inv, ActorsTyped
<1>2. m \in Here(zst) \ Here(raw)
  BY <1>1, HolderFacts
<1>3. f \in Files /\ f # Missing /\ f.ver = zst[m].ver /\ f.mtime = Unstamped
  <2>1. Unstamped \in Nat
    BY Numbers
  <2>2. QED
    BY <1>2, <2>1, CopyFacts DEF Inv, DiskTyped
<1>4. raw' = Put(raw, m, f)
  BY DEF RestoreOne
<1>5. query' = [query EXCEPT ![q] = r]
  BY <1>1 DEF RestoreOne, Inv, ActorsTyped, QueryType
<1>6. /\ r \in QueryType /\ r.pc = query[q].pc
      /\ r.todo = query[q].todo \ {m} /\ r.stamp = query[q].stamp \union {m}
  BY <1>1 DEF QueryType
<1> HIDE DEF f, r
<1>7. /\ raw' \in [Members -> Files] /\ raw'[m] = f /\ Here(raw') = Here(raw) \union {m}
      /\ \A k \in Members : k # m => raw'[k] = raw[k]
  BY <1>3, <1>4, PutFacts DEF Inv, DiskTyped
<1>8. /\ query' \in [Queries -> QueryType] /\ query'[q] = r
      /\ \A p \in Queries : p # q => query'[p] = query[p]
  BY <1>5, <1>6, QueryFacts DEF Inv, ActorsTyped
<1>9. DiskTyped' /\ ActorsTyped'
  BY <1>1, <1>7, <1>8 DEF Inv, DiskTyped, ActorsTyped, lock, Here
<1>10. Locked' /\ Employed'
  BY <1>1, <1>6, <1>8 DEF Inv, Locked, Employed, lock, At, NoQuery
<1>11. Restores'
  <2>1. ex = q
    BY <1>1, HolderFacts
  <2>2. query'[q].todo \subseteq Here(zst') \ Here(raw')
    BY <1>1, <1>6, <1>7, <1>8, HolderFacts DEF Here
  <2>3. \A k \in query'[q].stamp : /\ k \in Here(raw') \intersect Here(zst')
                                   /\ raw'[k].mtime = Unstamped /\ raw'[k].ver = zst'[k].ver
    BY <1>1, <1>2, <1>3, <1>6, <1>7, <1>8, HolderFacts DEF Here, Agree
  <2>4. \A p \in Queries : p # q => query'[p].stamp = {}
    BY <1>8, <2>1 DEF Inv, Restores
  <2>5. QED
    BY <1>1, <2>1, <2>2, <2>3, <2>4 DEF Restores, lock, Agree
<1>12. Compacts' /\ Drops'
  BY <1>1, <1>6, <1>8, HolderFacts DEF Inv, Compacts, Drops
<1>13. Unwritten'
  <2>1. \A k \in Members : raw'[k].ver = IF k = m THEN zst[k].ver ELSE raw[k].ver
    BY <1>1, <1>3, <1>7
  <2>2. zst' = zst /\ given' = given
    BY <1>1
  <2>3. QED
    BY <2>1, <2>2 DEF Inv, Unwritten
<1>14. Discarding' <=> Discarding
  BY <1>1, <1>6, <1>8 DEF Discarding
<1>15. Phases'
  BY <1>1, <1>14, HolderFacts DEF Inv, Phases, Whole, Here
<1>16. MatSeesWhole'
  BY <1>1, <1>6, <1>8, HolderFacts DEF MatSeesWhole, At
<1>17. QED
  BY <1>9, <1>10, <1>11, <1>12, <1>13, <1>15, <1>16 DEF Inv

LEMMA StampOneKeeps ==
  ASSUME Inv, NEW q \in Queries, NEW m \in Members, StampOne(q, m)
  PROVE  Inv'
<1> DEFINE f == File(raw[m].ver, zst[m].mtime)
<1> DEFINE r == [query[q] EXCEPT !.stamp = @ \ {m}]
<1>1. /\ m \in query[q].stamp /\ query[q] \in QueryType
      /\ UNCHANGED <<zst, rotten, hprof, manifest, lock, job, compact, stage,
                     crashes, given>>
  BY DEF StampOne, Inv, ActorsTyped
<1>2. query[q].pc \in {"restoring", "spoiled"}
  BY <1>1 DEF Inv, Restores, Locked
<1>3. m \in Here(raw) \intersect Here(zst) /\ raw[m].ver = zst[m].ver
  BY <1>1, <1>2, HolderFacts DEF Agree
<1>4. f \in Files /\ f # Missing /\ f.ver = zst[m].ver
  <2>1. zst[m].mtime \in Nat
    BY <1>3, HereFacts DEF Inv, DiskTyped
  <2>2. QED
    BY <1>3, <2>1, CopyFacts DEF Inv, DiskTyped
<1>5. raw' = Put(raw, m, f)
  BY DEF StampOne
<1>6. query' = [query EXCEPT ![q] = r]
  BY <1>1 DEF StampOne, Inv, ActorsTyped, QueryType
<1>7. /\ r \in QueryType /\ r.pc = query[q].pc
      /\ r.todo = query[q].todo /\ r.stamp = query[q].stamp \ {m}
  BY <1>1 DEF QueryType
<1> HIDE DEF f, r
<1>8. /\ raw' \in [Members -> Files] /\ raw'[m] = f /\ Here(raw') = Here(raw)
      /\ \A k \in Members : k # m => raw'[k] = raw[k]
  <2>1. Here(raw') = Here(raw) \union {m}
    BY <1>4, <1>5, PutFacts DEF Inv, DiskTyped
  <2>2. Here(raw) \union {m} = Here(raw)
    BY <1>3
  <2>3. QED
    BY <1>4, <1>5, <2>1, <2>2, PutFacts DEF Inv, DiskTyped
<1>9. /\ query' \in [Queries -> QueryType] /\ query'[q] = r
      /\ \A p \in Queries : p # q => query'[p] = query[p]
  BY <1>6, <1>7, QueryFacts DEF Inv, ActorsTyped
<1>10. DiskTyped' /\ ActorsTyped'
  BY <1>1, <1>8, <1>9 DEF Inv, DiskTyped, ActorsTyped, lock, Here
<1>11. Locked' /\ Employed'
  BY <1>1, <1>2, <1>7, <1>9 DEF Inv, Locked, Employed, lock, At, NoQuery
<1>12. Restores'
  <2>1. ex = q
    BY <1>2, HolderFacts
  <2>2. query'[q].todo \subseteq Here(zst') \ Here(raw')
    BY <1>1, <1>2, <1>7, <1>8, <1>9, HolderFacts DEF Here
  <2>3. \A k \in query'[q].stamp : /\ k \in Here(raw') \intersect Here(zst')
                                   /\ raw'[k].mtime = Unstamped /\ raw'[k].ver = zst'[k].ver
    BY <1>1, <1>2, <1>7, <1>8, <1>9, HolderFacts DEF Here, Agree
  <2>4. \A p \in Queries : p # q => query'[p].stamp = {}
    BY <1>9, <2>1 DEF Inv, Restores
  <2>5. QED
    BY <1>1, <2>1, <2>2, <2>3, <2>4 DEF Restores, lock, Agree
<1>13. Compacts' /\ Drops'
  BY <1>1, <1>2, <1>7, <1>9, HolderFacts DEF Inv, Compacts, Drops
<1>14. Unwritten'
  <2>1. \A k \in Members : raw'[k].ver = IF k = m THEN zst[k].ver ELSE raw[k].ver
    BY <1>1, <1>3, <1>4, <1>8
  <2>2. zst' = zst /\ given' = given
    BY <1>1
  <2>3. QED
    BY <2>1, <2>2 DEF Inv, Unwritten
<1>15. Discarding' <=> Discarding
  BY <1>1, <1>7, <1>9 DEF Discarding
<1>16. Phases'
  BY <1>1, <1>2, <1>15, HolderFacts DEF Inv, Phases, Whole, Here
<1>17. MatSeesWhole'
  BY <1>1, <1>2, <1>7, <1>9, HolderFacts DEF MatSeesWhole, At
<1>18. QED
  BY <1>10, <1>11, <1>12, <1>13, <1>14, <1>16, <1>17 DEF Inv

LEMMA MeetCorruptKeeps ==
  ASSUME Inv, NEW q \in Queries, NEW m \in Members, MeetCorrupt(q, m),
         \A s \in Starts : Protected(s)
  PROVE  Inv'
<1> DEFINE r == [query[q] EXCEPT !.pc = "spoiled", !.todo = @ \ {m}]
<1>1. /\ query[q].pc \in {"restoring", "spoiled"} /\ m \in query[q].todo
      /\ query[q] \in QueryType /\ m \in rotten /\ rotten' = rotten \ {m}
      /\ zst' = Put(zst, m, Missing)
      /\ UNCHANGED <<raw, hprof, manifest, lock, job, compact, stage, crashes, given>>
  BY DEF MeetCorrupt, Decompressing, Inv, ActorsTyped
<1>2. query' = [query EXCEPT ![q] = r]
  BY <1>1 DEF MeetCorrupt, Inv, ActorsTyped, QueryType
<1>3. /\ r \in QueryType /\ r.pc = "spoiled"
      /\ r.todo = query[q].todo \ {m} /\ r.stamp = query[q].stamp
  BY <1>1 DEF QueryType
<1> HIDE DEF r
<1>4. /\ zst' \in [Members -> Files] /\ Here(zst') = Here(zst) \ {m}
      /\ zst'[m] = Missing /\ \A k \in Members : k # m => zst'[k] = zst[k]
  BY <1>1, PutFacts, FileFacts DEF Inv, DiskTyped
<1>5. /\ query' \in [Queries -> QueryType] /\ query'[q] = r
      /\ \A p \in Queries : p # q => query'[p] = query[p]
  BY <1>2, <1>3, QueryFacts DEF Inv, ActorsTyped
<1>6. /\ given.rotten # {} /\ ~job.again /\ given.crashes = 0
  BY <1>1, HolderFacts DEF Inv, DiskTyped, Drops, Protected
<1>7. DiskTyped' /\ ActorsTyped'
  BY <1>1, <1>4, <1>5 DEF Inv, DiskTyped, ActorsTyped, lock
<1>8. Locked' /\ Employed'
  BY <1>1, <1>3, <1>5, HolderFacts DEF Inv, Locked, Employed, lock, At, NoQuery
<1>9. Restores'
  <2>1. ex = q /\ m \notin Here(raw)
    BY <1>1, HolderFacts
  <2>2. query'[q].todo \subseteq Here(zst') \ Here(raw')
    BY <1>1, <1>3, <1>4, <1>5, HolderFacts DEF Here
  <2>3. \A k \in query'[q].stamp : /\ k \in Here(raw') \intersect Here(zst')
                                   /\ raw'[k].mtime = Unstamped /\ raw'[k].ver = zst'[k].ver
    <3>1. \A k \in query[q].stamp : k # m /\ k \in Members
      BY <1>1, <2>1, HolderFacts DEF Here
    <3>2. QED
      BY <1>1, <1>3, <1>4, <1>5, <3>1, HolderFacts DEF Here, Agree
  <2>4. \A p \in Queries : p # q => query'[p].stamp = {}
    BY <1>5, <2>1 DEF Inv, Restores
  <2>5. QED
    BY <1>1, <2>1, <2>2, <2>3, <2>4 DEF Restores, lock, Agree
<1>10. Compacts'
  BY <1>1, HolderFacts DEF Inv, Compacts
<1>11. Drops'
  BY <1>1, <1>3, <1>5, <1>6, HolderFacts DEF Inv, Drops
<1>12. Unwritten'
  <2>1. \A k \in Members : zst'[k].ver = IF k = m THEN 0 ELSE zst[k].ver
    BY <1>4, FileFacts
  <2>2. raw' = raw /\ given' = given
    BY <1>1
  <2>3. QED
    BY <2>1, <2>2 DEF Inv, Unwritten
<1>13. Discarding'
  BY <1>3, <1>5 DEF Discarding
<1>14. Phases'
  BY <1>1, <1>6, <1>13, HolderFacts DEF Inv, Phases
<1>15. MatSeesWhole'
  BY <1>1, <1>3, <1>5, HolderFacts DEF MatSeesWhole, At
<1>16. QED
  BY <1>7, <1>8, <1>9, <1>10, <1>11, <1>12, <1>14, <1>15 DEF Inv

(* The restore ends, and the lock is released. *)
LEMMA EndRestoreKeeps ==
  ASSUME Inv, NEW q \in Queries, EndRestore(q)
  PROVE  Inv'
<1>1. /\ query[q].pc \in {"restoring", "spoiled"} /\ query[q].stamp = {}
      /\ ex' = Nobody
      /\ UNCHANGED <<disk, sh, job, compact, stage, crashes, given>>
  BY DEF EndRestore, At
<1>2. PICK r \in QueryType : /\ query' = [query EXCEPT ![q] = r] /\ r.stamp = {}
                             /\ \/ r.pc = "pin" /\ query[q].pc = "restoring"
                                \/ r.pc = "corrupt" /\ query[q].pc = "spoiled"
  <2>1. CASE Moves(q, "pin") /\ query[q].pc = "restoring"
    BY <1>1, <2>1, MovesFacts DEF Inv, ActorsTyped
  <2>2. CASE Ends(q, "corrupt") /\ query[q].pc = "spoiled"
    BY <2>2, EndsFacts
  <2>3. QED
    BY <2>1, <2>2 DEF EndRestore, At
<1>3. /\ query' \in [Queries -> QueryType] /\ query'[q] = r
      /\ \A p \in Queries : p # q => query'[p] = query[p]
  BY <1>2, QueryFacts DEF Inv, ActorsTyped
<1>4. DiskTyped' /\ ActorsTyped'
  BY <1>1, <1>3 DEF Inv, DiskTyped, ActorsTyped, disk, Here
<1>5. Locked' /\ Employed'
  BY <1>1, <1>2, <1>3, HolderFacts, Numbers DEF Inv, Locked, Employed, At, NoQuery
<1>6. Restores'
  BY <1>1, <1>2, <1>3, HolderFacts, Numbers DEF Inv, Restores
<1>7. Compacts' /\ Unwritten'
  BY <1>1, HolderFacts DEF Inv, Compacts, Unwritten, disk
<1>8. Drops'
  BY <1>1, <1>2, <1>3, HolderFacts DEF Inv, Drops, disk
<1>9. Discarding' <=> Discarding
  BY <1>1, <1>2, <1>3 DEF Discarding
<1>10. Phases'
  BY <1>1, <1>9, HolderFacts DEF Inv, Phases, Whole, disk, Here
<1>11. MatSeesWhole'
  BY <1>1, <1>2, <1>3, HolderFacts DEF MatSeesWhole, At
<1>12. QED
  BY <1>4, <1>5, <1>6, <1>7, <1>8, <1>10, <1>11 DEF Inv

(* A query that comes to its MAT run: no archive is without its raw file,   *)
(* and as nobody gives the set up or commits one, it is whole.              *)
LEMMA ShareKeeps ==
  ASSUME Inv, NEW q \in Queries, Share(q), \A s \in Starts : Protected(s)
  PROVE  Inv'
<1>1. /\ query[q].pc = "share" /\ ex = Nobody /\ query[q] \in QueryType
      /\ UNCHANGED <<disk, ex, job, compact, stage, crashes, given>>
  BY DEF Share, At, Inv, ActorsTyped
<1>2. query[q].stamp = {}
  BY <1>1, NothingToStamp DEF Ashore
<1>3. job.pc = "run" /\ q \in given.queries
  BY <1>1 DEF Inv, Employed, NoQuery
<1>4. CASE Here(zst) \subseteq Here(raw)
  <2>1. Whole
    <3>1. ~Empty
      BY <1>3 DEF Empty
    <3>2. ~Committing
      BY <1>1, Numbers DEF Committing, Inv, Locked
    <3>3. ~Discarding
      <4>1. ASSUME NEW p \in Queries, query[p].pc \in {"spoiled", "corrupt"} PROVE FALSE
        <5>1. given.rotten # {} /\ p \in given.queries
          BY <4>1 DEF Inv, Drops, Employed, NoQuery
        <5>2. PICK a \in Queries : given.queries = {a}
          BY <5>1 DEF Inv, DiskTyped, Protected
        <5>3. p = q
          BY <1>3, <5>1, <5>2
        <5>4. QED
          BY <1>1, <4>1, <5>3
      <4>2. QED
        BY <1>3, <4>1 DEF Discarding
    <3>4. QED
      BY <3>1, <3>2, <3>3 DEF Inv, Phases
  <2>2. Here(raw) = Members
    BY <1>4, <2>1, HereFacts DEF Whole, Inv, DiskTyped
  <2>3. sh' = sh \union {q} /\ Moves(q, "mat")
    BY <1>4 DEF Share
  <2>4. PICK r \in QueryType : /\ query' = [query EXCEPT ![q] = r]
                               /\ r.pc = "mat" /\ r.stamp = {}
    BY <1>2, <2>3, MovesFacts DEF Inv, ActorsTyped
  <2>5. /\ query' \in [Queries -> QueryType] /\ query'[q] = r
        /\ \A p \in Queries : p # q => query'[p] = query[p]
    BY <2>4, QueryFacts DEF Inv, ActorsTyped
  <2>6. DiskTyped' /\ ActorsTyped'
    BY <1>1, <2>3, <2>5 DEF Inv, DiskTyped, ActorsTyped, disk, Here
  <2>7. Locked' /\ Employed'
    BY <1>1, <1>3, <2>3, <2>4, <2>5, Numbers DEF Inv, Locked, Employed, At
  <2>8. Restores'
    BY <1>1, <2>4, <2>5, Numbers DEF Inv, Restores
  <2>9. Compacts' /\ Drops' /\ Unwritten'
    BY <1>1, <2>4, <2>5 DEF Inv, Compacts, Drops, Unwritten, disk, Agree, Here, Current
  <2>10. Discarding' <=> Discarding
    BY <1>1, <2>4, <2>5 DEF Discarding
  <2>11. Phases'
    BY <1>1, <2>10 DEF Inv, Phases, Whole, Empty, Committing, Present, disk, Here
  <2>12. MatSeesWhole'
    BY <1>1, <2>2 DEF MatSeesWhole, disk, Here
  <2>13. QED
    BY <2>6, <2>7, <2>8, <2>9, <2>11, <2>12 DEF Inv
<1>5. CASE ~(Here(zst) \subseteq Here(raw))
  <2>1. sh' = sh /\ Retry(q)
    BY <1>5 DEF Share
  <2>2. PICK r \in QueryType : /\ query' = [query EXCEPT ![q] = r]
                               /\ r.pc \in {"restore", "failed"} /\ r.stamp = {}
    <3>1. CASE query[q].round = 2
      BY <2>1, <3>1, EndsFacts DEF Retry
    <3>2. CASE query[q].round # 2
      <4> DEFINE s == [query[q] EXCEPT !.round = @ + 1, !.pc = "restore"]
      <4>1. query' = [query EXCEPT ![q] = s]
        BY <1>1, <2>1, <3>2 DEF Retry, Inv, ActorsTyped, QueryType
      <4>2. s \in QueryType /\ s.pc \in {"restore", "failed"} /\ s.stamp = {}
        <5>1. query[q].round + 1 \in Nat
          BY <1>1 DEF QueryType
        <5>2. [query[q] EXCEPT !.round = query[q].round + 1] \in QueryType
          BY <1>1, <5>1 DEF QueryType
        <5>3. QED
          BY <1>1, <1>2, <5>1, <5>2 DEF QueryType
      <4> HIDE DEF s
      <4>3. QED
        BY <4>1, <4>2
    <3>3. QED
      BY <3>1, <3>2
  <2>3. QED
    BY <1>1, <2>1, <2>2, QuietMove DEF disk, lock, Ashore
<1>6. QED
  BY <1>4, <1>5

(* A run under the shared lock: nobody has it exclusively. *)
LEMMA RunFacts ==
  ASSUME Inv, NEW q \in Queries, query[q].pc = "mat"
  PROVE  /\ q \in sh /\ ex = Nobody /\ job.pc = "run" /\ q \in given.queries
         /\ compact.pc \in {"idle", "wait"} /\ stage.pc # "commit"
         /\ ~Empty /\ ~Committing /\ Here(raw) = Members
<1>1. q \in sh /\ ex = Nobody /\ job.pc = "run" /\ q \in given.queries
  BY DEF Inv, Locked, At, Employed, NoQuery
<1>2. compact.pc \in {"idle", "wait"} /\ stage.pc # "commit"
  BY <1>1, Numbers DEF Inv, Locked, ActorsTyped, WorkType
<1>3. QED
  BY <1>1, <1>2 DEF Inv, MatSeesWhole, At, Empty, Committing

LEMMA RewriteKeeps ==
  ASSUME Inv, NEW q \in Queries, NEW m \in Members, Rewrite(q, m)
  PROVE  Inv'
<1> DEFINE f == File(raw[m].ver + 1, Rewritten(raw[m].ver + 1))
<1>1. /\ query[q].pc = "mat" /\ m \in Here(raw) /\ m \in given.grows
      /\ raw' = Put(raw, m, f)
      /\ UNCHANGED <<zst, rotten, hprof, manifest, lock, job, query, compact, stage,
                     crashes, given>>
  BY DEF Rewrite, At
<1>2. f \in Files /\ f # Missing
  <2>1. PICK v \in Nat : v = raw[m].ver + 1 /\ v # 0
    BY <1>1, HereFacts DEF Inv, DiskTyped
  <2>2. Rewritten(v) \in Nat
    BY Numbers
  <2>3. File(v, Rewritten(v)) \in Files /\ File(v, Rewritten(v)) # Missing
    BY <2>1, <2>2, FileFacts
  <2>4. QED
    BY <2>1, <2>3
<1> HIDE DEF f
<1>3. /\ raw' \in [Members -> Files] /\ raw'[m] = f
      /\ \A k \in Members : k # m => raw'[k] = raw[k]
  BY <1>1, <1>2, PutFacts DEF Inv, DiskTyped
<1>4. Here(raw') = Here(raw)
  <2>1. Here(raw') = Here(raw) \union {m}
    BY <1>1, <1>2, PutFacts DEF Inv, DiskTyped
  <2>2. Here(raw) \union {m} = Here(raw)
    BY <1>1
  <2>3. QED
    BY <2>1, <2>2
<1>5. DiskTyped' /\ ActorsTyped'
  BY <1>1, <1>3 DEF Inv, DiskTyped, ActorsTyped, lock, Here
<1>6. Locked' /\ Employed'
  BY <1>1 DEF Inv, Locked, Employed, lock, At
<1>7. Restores'
  BY <1>1, RunFacts, Numbers DEF Inv, Restores, lock
<1>8. Compacts' /\ Drops'
  BY <1>1, RunFacts DEF Inv, Compacts, Drops
<1>9. Unwritten'
  BY <1>1 DEF Inv, Unwritten
<1>10. Discarding' <=> Discarding
  BY <1>1 DEF Discarding
<1>11. Phases' /\ MatSeesWhole'
  BY <1>1, <1>4, <1>10, RunFacts DEF Inv, Phases, Whole, MatSeesWhole, Here, At
<1>12. QED
  BY <1>5, <1>6, <1>7, <1>8, <1>9, <1>11 DEF Inv

LEMMA EndRunKeeps ==
  ASSUME Inv, NEW q \in Queries, EndRun(q)
  PROVE  Inv'
<1>1. /\ query[q].pc = "mat" /\ sh' = sh \ {q}
      /\ UNCHANGED <<disk, ex, job, compact, stage, crashes, given>>
  BY DEF EndRun, At
<1>2. PICK r \in QueryType : /\ query' = [query EXCEPT ![q] = r]
                             /\ r.pc \in {"done", "failed"} /\ r.stamp = {}
  BY EndsFacts DEF EndRun
<1>3. /\ query' \in [Queries -> QueryType] /\ query'[q] = r
      /\ \A p \in Queries : p # q => query'[p] = query[p]
  BY <1>2, QueryFacts DEF Inv, ActorsTyped
<1>4. DiskTyped' /\ ActorsTyped'
  BY <1>1, <1>3 DEF Inv, DiskTyped, ActorsTyped, disk, Here
<1>5. Locked' /\ Employed'
  BY <1>1, <1>2, <1>3, RunFacts DEF Inv, Locked, Employed, At
<1>6. Restores'
  BY <1>1, <1>2, <1>3, RunFacts, Numbers DEF Inv, Restores
<1>7. Compacts' /\ Drops' /\ Unwritten'
  BY <1>1, <1>2, <1>3, RunFacts DEF Inv, Compacts, Drops, Unwritten, disk
<1>8. Discarding' <=> Discarding
  BY <1>1, <1>2, <1>3 DEF Discarding
<1>9. Phases'
  BY <1>1, <1>8, RunFacts DEF Inv, Phases, Whole, disk, Here
<1>10. MatSeesWhole'
  BY <1>1, <1>2, <1>3, RunFacts DEF Inv, MatSeesWhole, At, disk, Here
<1>11. QED
  BY <1>4, <1>5, <1>6, <1>7, <1>9, <1>10 DEF Inv

-----------------------------------------------------------------------------
(* The analysis.  Its queries start over a set that is there.               *)
LEMMA RunningKeeps ==
  ASSUME Inv, NEW again \in BOOLEAN, Running(again), job.pc \in {"idle", "await"},
         again => job.again, Present # {},
         UNCHANGED <<disk, lock, compact, stage, crashes, given>>
  PROVE  Inv'
<1> DEFINE r(q) == IF q \in given.queries THEN [NoQuery EXCEPT !.pc = "restore"]
                   ELSE NoQuery
<1>1. query' = [q \in Queries |-> r(q)] /\ job' = [NoJob EXCEPT !.pc = "run", !.again = again]
  BY DEF Running
<1>2. \A q \in Queries : /\ r(q) \in QueryType /\ r(q).pc \in {"idle", "restore"}
                         /\ r(q).stamp = {} /\ (r(q) = NoQuery \/ q \in given.queries)
  BY DEF NoQuery, QueryType
<1> HIDE DEF r
<1>3. job' \in JobType /\ job'.pc = "run" /\ job'.again = again
  BY <1>1 DEF NoJob, JobType
<1>4. \A q \in Queries : query[q] = NoQuery
  BY DEF Inv, Employed
<1>5. \A q \in Queries : query[q].pc = "idle"
  BY <1>4 DEF NoQuery
<1>6. \A q \in Queries : /\ query'[q].pc \in {"idle", "restore"} /\ query'[q].stamp = {}
                         /\ query'[q] = NoQuery \/ q \in given.queries
  BY <1>1, <1>2
<1>7. DiskTyped' /\ ActorsTyped'
  BY <1>1, <1>2, <1>3 DEF Inv, DiskTyped, ActorsTyped, disk, lock, Here
<1>8. Locked' /\ Employed'
  BY <1>3, <1>5, <1>6 DEF Inv, Locked, Employed, lock, At
<1>9. Restores'
  BY <1>5, <1>6 DEF Inv, Restores, Locked, lock
<1>10. Compacts' /\ Unwritten'
  BY DEF Inv, Compacts, Unwritten, disk, Agree, Here, Current
<1>11. Drops'
  BY <1>3, <1>6 DEF Inv, Drops, disk
<1>12. ~Discarding /\ ~Discarding' /\ ~Empty
  BY <1>3, <1>5, <1>6 DEF Discarding, Empty
<1>13. Phases'
  BY <1>12 DEF Inv, Phases, Whole, Committing, disk, Here
<1>14. MatSeesWhole'
  BY <1>6 DEF MatSeesWhole, At
<1>15. QED
  BY <1>7, <1>8, <1>9, <1>10, <1>11, <1>13, <1>14 DEF Inv

LEMMA AnalyzeKeeps ==
  ASSUME Inv, Analyze
  PROVE  Inv'
<1>1. job.pc = "idle" /\ UNCHANGED <<disk, lock, compact, stage, crashes, given>>
  BY DEF Analyze
<1>2. CASE Present # {}
  BY <1>1, <1>2, RunningKeeps DEF Analyze
<1>3. CASE Present = {}
  <2>1. job' = [NoJob EXCEPT !.pc = "await"] /\ query' = query
    BY <1>3 DEF Analyze
  <2>2. job' \in JobType /\ job'.pc = "await" /\ ~job'.again
    BY <2>1 DEF NoJob, JobType
  <2>3. DiskTyped' /\ ActorsTyped' /\ Locked' /\ Employed'
    BY <1>1, <2>1, <2>2
       DEF Inv, DiskTyped, ActorsTyped, Locked, Employed, disk, lock, Here, At
  <2>4. Restores' /\ Compacts' /\ Drops' /\ Unwritten'
    BY <1>1, <2>1, <2>2
       DEF Inv, Restores, Compacts, Drops, Unwritten, disk, lock, Agree, Here, Current
  <2>5. Discarding' <=> Discarding
    BY <1>1, <2>1, <2>2 DEF Discarding
  <2>6. Phases' /\ MatSeesWhole'
    BY <1>1, <2>1, <2>2, <2>5
       DEF Inv, Phases, Whole, Empty, Committing, Present, MatSeesWhole, disk, Here, At
  <2>7. QED
    BY <2>3, <2>4, <2>6 DEF Inv
<1>4. QED
  BY <1>2, <1>3

LEMMA ResumeKeeps ==
  ASSUME Inv, Resume
  PROVE  Inv'
<1>1. Present # {}
  BY DEF Resume, Observed, Present
<1>2. job.again \in BOOLEAN
  BY DEF Inv, ActorsTyped, JobType
<1>3. QED
  BY <1>1, <1>2, RunningKeeps DEF Resume

(* The queries are over: at most one has met a corrupt archive, and no      *)
(* other ran beside it.                                                     *)
LEMMA EndAnalysisKeeps ==
  ASSUME Inv, EndAnalysis, \A s \in Starts : Protected(s)
  PROVE  Inv'
<1>1. /\ job.pc = "run" /\ Over /\ query' = [q \in Queries |-> NoQuery]
      /\ UNCHANGED <<disk, lock, compact, stage, crashes, given>>
  BY DEF EndAnalysis
<1>2. \A q \in Queries : query[q].pc \in {"done", "corrupt", "failed", "idle"}
  BY <1>1 DEF Over, Inv, Employed, NoQuery
<1>3. \A q \in Queries : /\ query'[q] = NoQuery /\ query'[q].pc = "idle"
                         /\ query'[q].stamp = {} /\ NoQuery \in QueryType
  BY <1>1 DEF NoQuery, QueryType
<1>4. job' \in JobType /\ job'.pc \in {"idle", "drop"}
  BY <1>1, HereFacts DEF EndAnalysis, NoJob, JobType, Inv, DiskTyped
<1>5. \/ /\ job'.pc = "drop" /\ job'.again /\ job'.raws = Here(raw) /\ job'.zsts = Here(zst)
         /\ given.rotten # {} /\ Discarding
      \/ job'.pc = "idle" /\ ~job'.again /\ ~Discarding
  <2>1. CASE \E q \in Queries : query[q].pc = "corrupt"
    <3>1. PICK q \in Queries : query[q].pc = "corrupt"
      BY <2>1
    <3>2. given.rotten # {} /\ ~job.again /\ q \in given.queries
      BY <3>1 DEF Inv, Drops, Employed, NoQuery
    <3>3. PICK a \in Queries : given.queries = {a}
      BY <3>2 DEF Inv, DiskTyped, Protected
    <3>4. Erroneous = {q}
      BY <3>1, <3>2, <3>3 DEF Erroneous
    <3>5. Erroneous \in SUBSET Nat /\ Erroneous # {}
      BY <3>4, Numbers
    <3>6. Min(Erroneous) = q
      BY <3>4, <3>5, MinFacts
    <3>7. job' = [pc |-> "drop", again |-> TRUE, raws |-> Here(raw), zsts |-> Here(zst)]
      BY <3>1, <3>2, <3>5, <3>6 DEF EndAnalysis, At
    <3>8. QED
      BY <3>1, <3>2, <3>7 DEF Discarding
  <2>2. CASE \A q \in Queries : query[q].pc # "corrupt"
    <3>1. Erroneous # {} => Min(Erroneous) \in Queries
      <4>1. Erroneous \subseteq given.queries /\ given.queries \subseteq Queries
        BY StartsAssumption DEF Erroneous, Inv, DiskTyped, Scenarios
      <4>2. Erroneous \in SUBSET Nat
        BY <4>1, Numbers
      <4>3. QED
        BY <4>1, <4>2, MinFacts
    <3>2. job' = NoJob
      BY <2>2, <3>1 DEF EndAnalysis, At
    <3>3. QED
      BY <1>1, <1>2, <2>2, <3>2 DEF NoJob, Discarding
  <2>3. QED
    BY <2>1, <2>2
<1>6. DiskTyped' /\ ActorsTyped'
  BY <1>1, <1>3, <1>4 DEF Inv, DiskTyped, ActorsTyped, disk, lock, Here
<1>7. Locked' /\ Employed'
  BY <1>1, <1>2, <1>3 DEF Inv, Locked, Employed, lock, At
<1>8. Restores'
  BY <1>1, <1>2, <1>3 DEF Inv, Restores, Locked, lock
<1>9. Compacts' /\ Unwritten'
  BY <1>1 DEF Inv, Compacts, Unwritten, disk, Agree, Here, Current
<1>10. Drops'
  BY <1>1, <1>3, <1>5 DEF Inv, Drops, disk, Here
<1>11. Discarding' <=> Discarding
  BY <1>3, <1>5 DEF Discarding
<1>12. Phases'
  BY <1>1, <1>11 DEF Inv, Phases, Whole, Empty, Committing, disk, Here
<1>13. MatSeesWhole'
  BY <1>3 DEF MatSeesWhole, At
<1>14. QED
  BY <1>6, <1>7, <1>8, <1>9, <1>10, <1>12, <1>13 DEF Inv

(* While the set is dropped nobody else is at its files. *)
LEMMA DropFacts ==
  ASSUME Inv, job.pc = "drop", \A s \in Starts : Protected(s)
  PROVE  /\ job.again /\ job.raws = Here(raw) /\ job.zsts = Here(zst) /\ Discarding
         /\ given.rotten # {} /\ given.crashes = 0 /\ ~given.compacts
         /\ compact.pc = "idle" /\ stage.pc # "commit" /\ ~Committing
         /\ \A q \in Queries : query[q] = NoQuery /\ query[q].pc = "idle"
         /\ \A q \in Queries : ex # q /\ q \notin sh
<1>1. /\ given.rotten # {} /\ job.again /\ job.raws = Here(raw) /\ job.zsts = Here(zst)
  BY DEF Inv, Drops
<1>2. given.crashes = 0 /\ ~given.compacts
  BY <1>1 DEF Inv, DiskTyped, Protected
<1>3. Discarding
  BY DEF Discarding
<1>4. compact.pc = "idle" /\ stage.pc # "commit" /\ ~Committing
  BY <1>2, <1>3 DEF Inv, Employed, Phases, Committing
<1>5. \A q \in Queries : query[q] = NoQuery
  BY DEF Inv, Employed
<1>6. \A q \in Queries : query[q].pc = "idle"
  BY <1>5 DEF NoQuery
<1>7. \A q \in Queries : ex # q /\ q \notin sh
  BY <1>6 DEF Inv, Locked, At
<1>8. QED
  BY <1>1, <1>2, <1>3, <1>4, <1>5, <1>6, <1>7

LEMMA DropRawKeeps ==
  ASSUME Inv, DropRaw, \A s \in Starts : Protected(s)
  PROVE  Inv'
<1> DEFINE m == Min(job.raws)
<1>1. /\ job.pc = "drop" /\ job.raws # {} /\ raw' = Put(raw, m, Missing)
      /\ job' = IF m \in Here(raw) THEN [job EXCEPT !.raws = @ \ {m}] ELSE NoJob
      /\ UNCHANGED <<zst, rotten, hprof, manifest, lock, query, compact, stage,
                     crashes, given>>
  BY DEF DropRaw
<1>2. m \in Here(raw) /\ m \in Members
  <2>1. job.raws = Here(raw) /\ Here(raw) \subseteq Members
    BY <1>1, DropFacts, HereFacts DEF Inv, DiskTyped
  <2>2. job.raws \in SUBSET Nat
    BY <2>1, Numbers
  <2>3. QED
    BY <1>1, <2>1, <2>2, MinFacts
<1>3. job' = [job EXCEPT !.raws = @ \ {m}]
  BY <1>1, <1>2
<1> HIDE DEF m
<1>4. /\ raw' \in [Members -> Files] /\ Here(raw') = Here(raw) \ {m}
      /\ raw'[m] = Missing /\ \A k \in Members : k # m => raw'[k] = raw[k]
  <2>1. Missing \in Files /\ raw \in [Members -> Files] /\ raw' = Put(raw, m, Missing)
    BY <1>1, FileFacts DEF Inv, DiskTyped
  <2>2. QED
    BY <1>2, <2>1, PutFacts
<1>5. job \in JobType
  BY DEF Inv, ActorsTyped
<1>6. /\ job' \in JobType /\ job'.pc = "drop" /\ job'.again
      /\ job'.raws = job.raws \ {m} /\ job'.zsts = job.zsts
  BY <1>1, <1>3, <1>5, DropFacts DEF JobType
<1>7. DiskTyped' /\ ActorsTyped'
  <2>1. DiskTyped'
    BY <1>1, <1>4 DEF Inv, DiskTyped, Here
  <2>2. ActorsTyped'
    BY <1>1, <1>6 DEF Inv, ActorsTyped, lock
  <2>3. QED
    BY <2>1, <2>2
<1>8. Locked' /\ Employed'
  BY <1>1, <1>6, DropFacts DEF Inv, Locked, Employed, lock, At
<1>9. Restores' /\ Compacts'
  BY <1>1, DropFacts DEF Inv, Restores, Compacts, lock
<1>10. Drops'
  BY <1>1, <1>4, <1>6, DropFacts DEF Inv, Drops, Here
<1>11. Unwritten'
  <2>1. \A k \in Members : raw'[k].ver = IF k = m THEN 0 ELSE raw[k].ver
    BY <1>4, FileFacts
  <2>2. zst' = zst /\ given' = given
    BY <1>1
  <2>3. QED
    BY <2>1, <2>2 DEF Inv, Unwritten
<1>12. Discarding'
  BY <1>6 DEF Discarding
<1>13. Phases'
  BY <1>1, <1>12, DropFacts DEF Inv, Phases
<1>14. MatSeesWhole'
  BY <1>1, DropFacts DEF MatSeesWhole, At
<1>15. QED
  BY <1>7, <1>8, <1>9, <1>10, <1>11, <1>13, <1>14 DEF Inv

LEMMA DropArchiveKeeps ==
  ASSUME Inv, DropArchive, \A s \in Starts : Protected(s)
  PROVE  Inv'
<1> DEFINE m == Min(job.zsts)
<1>1. /\ job.pc = "drop" /\ job.raws = {} /\ job.zsts # {} /\ zst' = Put(zst, m, Missing)
      /\ rotten' = rotten \ {m}
      /\ job' = IF m \in Here(zst) THEN [job EXCEPT !.zsts = @ \ {m}] ELSE NoJob
      /\ UNCHANGED <<raw, hprof, manifest, lock, query, compact, stage, crashes, given>>
  BY DEF DropArchive
<1>2. m \in Here(zst) /\ m \in Members
  <2>1. job.zsts = Here(zst) /\ Here(zst) \subseteq Members
    BY <1>1, DropFacts, HereFacts DEF Inv, DiskTyped
  <2>2. job.zsts \in SUBSET Nat
    BY <2>1, Numbers
  <2>3. QED
    BY <1>1, <2>1, <2>2, MinFacts
<1>3. job' = [job EXCEPT !.zsts = @ \ {m}]
  BY <1>1, <1>2
<1> HIDE DEF m
<1>4. /\ zst' \in [Members -> Files] /\ Here(zst') = Here(zst) \ {m}
      /\ zst'[m] = Missing /\ \A k \in Members : k # m => zst'[k] = zst[k]
  <2>1. Missing \in Files /\ zst \in [Members -> Files] /\ zst' = Put(zst, m, Missing)
    BY <1>1, FileFacts DEF Inv, DiskTyped
  <2>2. QED
    BY <1>2, <2>1, PutFacts
<1>5. job \in JobType
  BY DEF Inv, ActorsTyped
<1>6. /\ job' \in JobType /\ job'.pc = "drop" /\ job'.again
      /\ job'.zsts = job.zsts \ {m} /\ job'.raws = job.raws
  BY <1>1, <1>3, <1>5, DropFacts DEF JobType
<1>7. DiskTyped' /\ ActorsTyped'
  <2>1. DiskTyped'
    BY <1>1, <1>4 DEF Inv, DiskTyped
  <2>2. ActorsTyped'
    BY <1>1, <1>6 DEF Inv, ActorsTyped, lock
  <2>3. QED
    BY <2>1, <2>2
<1>8. Locked' /\ Employed'
  BY <1>1, <1>6, DropFacts DEF Inv, Locked, Employed, lock, At
<1>9. Restores' /\ Compacts'
  BY <1>1, DropFacts DEF Inv, Restores, Compacts, lock
<1>10. Drops'
  BY <1>1, <1>4, <1>6, DropFacts DEF Inv, Drops, Here
<1>11. Unwritten'
  <2>1. \A k \in Members : zst'[k].ver = IF k = m THEN 0 ELSE zst[k].ver
    BY <1>4, FileFacts
  <2>2. raw' = raw /\ given' = given
    BY <1>1
  <2>3. QED
    BY <2>1, <2>2 DEF Inv, Unwritten
<1>12. Discarding'
  BY <1>6 DEF Discarding
<1>13. Phases'
  BY <1>1, <1>12, DropFacts DEF Inv, Phases
<1>14. MatSeesWhole'
  BY <1>1, DropFacts DEF MatSeesWhole, At
<1>15. QED
  BY <1>7, <1>8, <1>9, <1>10, <1>11, <1>13, <1>14 DEF Inv

(* Nothing is left of the set, no archive that could be corrupt either.     *)
LEMMA EndDropKeeps ==
  ASSUME Inv, EndDrop, \A s \in Starts : Protected(s)
  PROVE  Inv'
<1>1. /\ job.pc = "drop" /\ job.raws = {} /\ job.zsts = {}
      /\ job' = [job EXCEPT !.pc = "await"]
      /\ UNCHANGED <<disk, lock, query, compact, stage, crashes, given>>
  BY DEF EndDrop
<1>2. Here(raw) = {} /\ Here(zst) = {} /\ rotten = {} /\ Present = {}
  BY <1>1, DropFacts DEF Inv, DiskTyped, Present
<1>3. job' \in JobType /\ job'.pc = "await" /\ job'.again = job.again
  BY <1>1 DEF Inv, ActorsTyped, JobType
<1>4. DiskTyped' /\ ActorsTyped'
  BY <1>1, <1>3 DEF Inv, DiskTyped, ActorsTyped, disk, lock, Here
<1>5. Locked' /\ Employed'
  BY <1>1, <1>3, DropFacts DEF Inv, Locked, Employed, lock, At
<1>6. Restores' /\ Compacts' /\ Unwritten'
  BY <1>1, DropFacts DEF Inv, Restores, Compacts, Unwritten, disk, lock
<1>7. Drops'
  BY <1>1, <1>2, <1>3, DropFacts DEF Inv, Drops, disk
<1>8. Empty'
  BY <1>1, <1>2, <1>3 DEF Empty, Present, disk, Here
<1>9. Phases'
  BY <1>1, <1>8, DropFacts DEF Inv, Phases
<1>10. MatSeesWhole'
  BY <1>1, DropFacts DEF MatSeesWhole, At
<1>11. QED
  BY <1>4, <1>5, <1>6, <1>7, <1>9, <1>10 DEF Inv

-----------------------------------------------------------------------------
(* The compaction.  Where the stage could come between, the set is whole.   *)
(* A step of it that holds the lock runs beside no query and no commit.     *)
LEMMA CompactorFacts ==
  ASSUME Inv, compact.pc \in {"next", "stamp", "remove"}, \A s \in Starts : Protected(s)
  PROVE  /\ ex = Compactor /\ sh = {} /\ given.compacts /\ stage.pc # "commit" /\ ~Committing
         /\ \A q \in Queries : /\ ex # q /\ query[q].stamp = {}
                               /\ query[q].pc \notin {"restoring", "spoiled", "mat", "corrupt"}
         /\ given.rotten = {} /\ rotten = {} /\ job.pc # "drop" /\ ~Discarding
<1>1. ex = Compactor /\ sh = {} /\ given.compacts
  BY Numbers DEF Inv, Locked, Employed
<1>2. given.rotten = {} /\ rotten = {}
  BY <1>1 DEF Inv, DiskTyped, Protected
<1>3. job.pc # "drop" /\ \A q \in Queries : query[q].pc \notin {"spoiled", "corrupt"}
  BY <1>2 DEF Inv, Drops
<1>4. \A q \in Queries : ex # q /\ q \notin sh
  BY <1>1, Numbers
<1>5. \A q \in Queries : /\ query[q].stamp = {}
                         /\ query[q].pc \notin {"restoring", "mat"}
  BY <1>4 DEF Inv, Restores, Locked, At
<1>6. stage.pc # "commit" /\ ~Committing
  BY <1>1, Numbers DEF Inv, Locked, Committing
<1>7. QED
  BY <1>1, <1>2, <1>3, <1>4, <1>5, <1>6 DEF Discarding

LEMMA ListRawsKeeps ==
  ASSUME Inv, ListRaws
  PROVE  Inv'
<1>1. /\ given.compacts /\ compact.pc = "idle" /\ compact' = [pc |-> "wait", todo |-> Here(raw)]
      /\ UNCHANGED <<raw, zst, rotten, manifest, lock, job, query, stage, crashes, given>>
  BY DEF ListRaws, Compacting, lock
<1>2. compact' \in WorkType({"wait"}) /\ compact'.pc = "wait"
  BY <1>1, HereFacts DEF Inv, DiskTyped, WorkType
<1>3. DiskTyped' /\ ActorsTyped'
  BY <1>1, <1>2 DEF Inv, DiskTyped, ActorsTyped, WorkType, lock, Here
<1>4. Locked' /\ Employed'
  BY <1>1, <1>2 DEF Inv, Locked, Employed, lock, At
<1>5. Restores' /\ Compacts' /\ Drops' /\ Unwritten'
  BY <1>1, <1>2 DEF Inv, Restores, Compacts, Drops, Unwritten, lock, Agree, Here
<1>6. Discarding' <=> Discarding
  BY <1>1 DEF Discarding
<1>7. Phases' /\ MatSeesWhole'
  BY <1>1, <1>6 DEF Inv, Phases, Whole, Empty, Committing, Present, MatSeesWhole, Here, At
<1>8. QED
  BY <1>3, <1>4, <1>5, <1>7 DEF Inv

LEMMA LockCompactKeeps ==
  ASSUME Inv, LockCompact
  PROVE  Inv'
<1>1. /\ compact.pc = "wait" /\ LockFree /\ ex' = Compactor /\ sh' = sh
      /\ compact' = [compact EXCEPT !.pc = "next"]
      /\ UNCHANGED <<raw, zst, rotten, manifest, job, query, stage, crashes, given>>
  BY DEF LockCompact, Compacting
<1>2. /\ compact' \in WorkType({"next"}) /\ compact'.pc = "next"
  BY <1>1 DEF Inv, ActorsTyped, WorkType
<1>3. DiskTyped' /\ ActorsTyped'
  BY <1>1, <1>2 DEF Inv, DiskTyped, ActorsTyped, WorkType, Here
<1>4. Locked' /\ Employed'
  BY <1>1, <1>2, Numbers DEF Inv, Locked, Employed, LockFree, At
<1>5. Restores'
  BY <1>1, Numbers DEF Inv, Restores, LockFree
<1>6. Compacts' /\ Drops' /\ Unwritten'
  BY <1>1, <1>2 DEF Inv, Compacts, Drops, Unwritten, Agree, Here
<1>7. Discarding' <=> Discarding
  BY <1>1 DEF Discarding
<1>8. Phases' /\ MatSeesWhole'
  BY <1>1, <1>7 DEF Inv, Phases, Whole, Empty, Committing, Present, MatSeesWhole, Here, At
<1>9. QED
  BY <1>3, <1>4, <1>5, <1>6, <1>8 DEF Inv

LEMMA WholeWhereRaw ==
  ASSUME Inv, compact.pc \in {"next", "stamp", "remove"}, Here(raw) # {},
         \A s \in Starts : Protected(s)
  PROVE  Whole /\ stage.pc \notin {"look", "fetch", "commit"}
<1>1. ~Empty
  BY DEF Empty, Present
<1>2. ~Committing /\ ~Discarding /\ stage.pc # "commit"
  BY CompactorFacts
<1>3. QED
  BY <1>1, <1>2 DEF Inv, Phases

LEMMA DropUntouchedKeeps ==
  ASSUME Inv, DropUntouched, \A s \in Starts : Protected(s)
  PROVE  Inv'
<1> PICK m : m = Current
  OBVIOUS
<1>1. /\ compact.pc = "next" /\ m \in Here(raw) /\ m \in Members
      /\ compact' = [compact EXCEPT !.todo = @ \ {m}] /\ raw' = Put(raw, m, Missing)
      /\ UNCHANGED <<zst, rotten, manifest, ex, sh, job, query, stage, crashes, given>>
  BY DEF DropUntouched, Due, Compacting, Here
<1>2. /\ raw' \in [Members -> Files] /\ raw'[m] = Missing
      /\ \A k \in Members : k # m => raw'[k] = raw[k]
  <2>1. Missing \in Files /\ raw \in [Members -> Files] /\ raw' = Put(raw, m, Missing)
    BY <1>1, FileFacts DEF Inv, DiskTyped
  <2>2. QED
    BY <1>1, <2>1, PutFacts
<1>3. compact' \in WorkType({"next"}) /\ compact'.pc = "next"
  BY <1>1 DEF Inv, ActorsTyped, WorkType
<1>4. DiskTyped' /\ ActorsTyped'
  BY <1>1, <1>2, <1>3 DEF Inv, DiskTyped, ActorsTyped, WorkType, Here
<1>5. Locked' /\ Employed'
  BY <1>1, <1>3, CompactorFacts DEF Inv, Locked, Employed, At
<1>6. Restores' /\ Compacts' /\ Drops'
  BY <1>1, <1>3, CompactorFacts DEF Inv, Restores, Compacts, Drops
<1>7. Unwritten'
  <2>1. \A k \in Members : raw'[k].ver = IF k = m THEN 0 ELSE raw[k].ver
    BY <1>2, FileFacts
  <2>2. zst' = zst /\ given' = given
    BY <1>1
  <2>3. QED
    BY <2>1, <2>2 DEF Inv, Unwritten
<1>8. Phases'
  BY <1>1, WholeWhereRaw DEF Inv, Phases, Whole, Here
<1>9. MatSeesWhole'
  BY <1>1, CompactorFacts DEF MatSeesWhole, At
<1>10. QED
  BY <1>4, <1>5, <1>6, <1>7, <1>8, <1>9 DEF Inv

LEMMA RemoveRawKeeps ==
  ASSUME Inv, RemoveRaw, \A s \in Starts : Protected(s)
  PROVE  Inv'
<1> PICK m : m = Current
  OBVIOUS
<1>1. /\ compact.pc = "remove" /\ m \in Here(raw) /\ m \in Members
      /\ compact' = [pc |-> "next", todo |-> compact.todo \ {m}]
      /\ raw' = Put(raw, m, Missing)
      /\ UNCHANGED <<zst, rotten, manifest, ex, sh, job, query, stage, crashes, given>>
  BY DEF RemoveRaw, Compacting, Inv, Compacts, Here
<1>2. /\ raw' \in [Members -> Files] /\ raw'[m] = Missing
      /\ \A k \in Members : k # m => raw'[k] = raw[k]
  <2>1. Missing \in Files /\ raw \in [Members -> Files] /\ raw' = Put(raw, m, Missing)
    BY <1>1, FileFacts DEF Inv, DiskTyped
  <2>2. QED
    BY <1>1, <2>1, PutFacts
<1>3. compact' \in WorkType({"next"}) /\ compact'.pc = "next"
  BY <1>1 DEF Inv, ActorsTyped, WorkType
<1>4. DiskTyped' /\ ActorsTyped'
  BY <1>1, <1>2, <1>3 DEF Inv, DiskTyped, ActorsTyped, WorkType, Here
<1>5. Locked' /\ Employed'
  BY <1>1, <1>3, CompactorFacts DEF Inv, Locked, Employed, At
<1>6. Restores' /\ Compacts' /\ Drops'
  BY <1>1, <1>3, CompactorFacts DEF Inv, Restores, Compacts, Drops
<1>7. Unwritten'
  <2>1. \A k \in Members : raw'[k].ver = IF k = m THEN 0 ELSE raw[k].ver
    BY <1>2, FileFacts
  <2>2. zst' = zst /\ given' = given
    BY <1>1
  <2>3. QED
    BY <2>1, <2>2 DEF Inv, Unwritten
<1>8. Phases'
  BY <1>1, WholeWhereRaw DEF Inv, Phases, Whole, Here
<1>9. MatSeesWhole'
  BY <1>1, CompactorFacts DEF MatSeesWhole, At
<1>10. QED
  BY <1>4, <1>5, <1>6, <1>7, <1>8, <1>9 DEF Inv

LEMMA ArchiveKeeps ==
  ASSUME Inv, Archive, \A s \in Starts : Protected(s)
  PROVE  Inv'
<1> PICK m : m = Current
  OBVIOUS
<1> DEFINE f == File(raw[m].ver, Unstamped)
<1>1. /\ compact.pc = "next" /\ m \in Here(raw) /\ m \in Members
      /\ compact' = [compact EXCEPT !.pc = "stamp"] /\ zst' = Put(zst, m, f)
      /\ rotten' = rotten \ {m}
      /\ UNCHANGED <<raw, manifest, ex, sh, job, query, stage, crashes, given>>
  BY DEF Archive, Due, Compacting, Here
<1>2. f \in Files /\ f # Missing /\ f.ver = raw[m].ver
  <2>1. Unstamped \in Nat
    BY Numbers
  <2>2. QED
    BY <1>1, <2>1, CopyFacts DEF Inv, DiskTyped
<1> HIDE DEF f
<1>3. /\ zst' \in [Members -> Files] /\ zst'[m] = f /\ Here(zst') = Here(zst) \union {m}
      /\ \A k \in Members : k # m => zst'[k] = zst[k]
  <2>1. f \in Files /\ zst \in [Members -> Files] /\ zst' = Put(zst, m, f)
    BY <1>1, <1>2 DEF Inv, DiskTyped
  <2>2. QED
    BY <1>1, <1>2, <2>1, PutFacts
<1>4. /\ compact' \in WorkType({"stamp"}) /\ compact'.pc = "stamp"
      /\ compact'.todo = compact.todo
  BY <1>1 DEF Inv, ActorsTyped, WorkType
<1>5. DiskTyped' /\ ActorsTyped'
  BY <1>1, <1>3, <1>4 DEF Inv, DiskTyped, ActorsTyped, WorkType, Here
<1>6. Locked' /\ Employed'
  BY <1>1, <1>4, CompactorFacts DEF Inv, Locked, Employed, At
<1>7. Restores' /\ Drops'
  BY <1>1, CompactorFacts DEF Inv, Restores, Drops
<1>8. Compacts'
  <2>1. Current' = m
    BY <1>4 DEF Current
  <2>2. m \in Here(raw') /\ m \in Here(zst') /\ raw'[m].ver = zst'[m].ver
    BY <1>1, <1>2, <1>3 DEF Here
  <2>3. QED
    BY <1>4, <2>1, <2>2 DEF Compacts, Agree
<1>9. Unwritten'
  <2>1. \A k \in Members : zst'[k].ver = IF k = m THEN raw[k].ver ELSE zst[k].ver
    BY <1>2, <1>3
  <2>2. raw' = raw /\ given' = given /\ given.compacts
    BY <1>1, CompactorFacts
  <2>3. QED
    BY <2>1, <2>2 DEF Inv, Unwritten
<1>10. Whole'
  BY <1>1, <1>3, WholeWhereRaw DEF Whole
<1>11. Phases'
  BY <1>1, <1>10, WholeWhereRaw DEF Phases
<1>12. MatSeesWhole'
  BY <1>1, CompactorFacts DEF MatSeesWhole, At
<1>13. QED
  BY <1>5, <1>6, <1>7, <1>8, <1>9, <1>11, <1>12 DEF Inv

LEMMA StampArchiveKeeps ==
  ASSUME Inv, StampArchive, \A s \in Starts : Protected(s)
  PROVE  Inv'
<1> PICK m : m = Current
  OBVIOUS
<1> DEFINE f == File(zst[m].ver, raw[m].mtime)
<1>1. /\ compact.pc = "stamp" /\ m \in Here(raw) /\ m \in Here(zst) /\ m \in Members
      /\ raw[m].ver = zst[m].ver
      /\ compact' = [compact EXCEPT !.pc = "remove"] /\ zst' = Put(zst, m, f)
      /\ UNCHANGED <<raw, rotten, manifest, ex, sh, job, query, stage, crashes, given>>
  BY DEF StampArchive, Compacting, Inv, Compacts, Agree, Here
<1>2. f \in Files /\ f # Missing /\ f.ver = zst[m].ver /\ f.mtime = raw[m].mtime
  <2>1. raw[m].mtime \in Nat
    BY <1>1, HereFacts DEF Inv, DiskTyped
  <2>2. QED
    BY <1>1, <2>1, CopyFacts DEF Inv, DiskTyped
<1> HIDE DEF f
<1>3. /\ zst' \in [Members -> Files] /\ zst'[m] = f /\ Here(zst') = Here(zst) \union {m}
      /\ \A k \in Members : k # m => zst'[k] = zst[k]
  <2>1. f \in Files /\ zst \in [Members -> Files] /\ zst' = Put(zst, m, f)
    BY <1>1, <1>2 DEF Inv, DiskTyped
  <2>2. QED
    BY <1>1, <1>2, <2>1, PutFacts
<1>4. /\ compact' \in WorkType({"remove"}) /\ compact'.pc = "remove"
      /\ compact'.todo = compact.todo
  BY <1>1 DEF Inv, ActorsTyped, WorkType
<1>5. DiskTyped' /\ ActorsTyped'
  BY <1>1, <1>3, <1>4 DEF Inv, DiskTyped, ActorsTyped, WorkType, Here
<1>6. Locked' /\ Employed'
  BY <1>1, <1>4, CompactorFacts DEF Inv, Locked, Employed, At
<1>7. Restores' /\ Drops'
  BY <1>1, CompactorFacts DEF Inv, Restores, Drops
<1>8. Compacts'
  <2>1. Current' = m
    BY <1>4 DEF Current
  <2>2. /\ m \in Here(raw') /\ m \in Here(zst')
        /\ raw'[m].ver = zst'[m].ver /\ raw'[m].mtime = zst'[m].mtime
    BY <1>1, <1>2, <1>3 DEF Here
  <2>3. QED
    BY <1>4, <2>1, <2>2 DEF Compacts, Agree
<1>9. Unwritten'
  <2>1. \A k \in Members : zst'[k].ver = zst[k].ver
    BY <1>2, <1>3
  <2>2. raw' = raw /\ given' = given
    BY <1>1
  <2>3. QED
    BY <2>1, <2>2 DEF Inv, Unwritten
<1>10. Whole'
  BY <1>1, <1>3, WholeWhereRaw DEF Whole
<1>11. Phases'
  BY <1>1, <1>10, WholeWhereRaw DEF Phases
<1>12. MatSeesWhole'
  BY <1>1, CompactorFacts DEF MatSeesWhole, At
<1>13. QED
  BY <1>5, <1>6, <1>7, <1>8, <1>9, <1>11, <1>12 DEF Inv

(* The compaction lets go of the lock: at its end, or because it dies. *)
LEMMA CompactorLeaves ==
  ASSUME Inv, compact' = NoWork, ex' = IF ex = Compactor THEN Nobody ELSE ex,
         crashes' \in Nat, crashes' <= crashes,
         UNCHANGED <<disk, sh, job, query, stage, given>>
  PROVE  Inv'
<1>1. compact' \in WorkType({"idle"}) /\ compact'.pc = "idle"
  BY DEF NoWork, WorkType
<1>2. crashes' <= given'.crashes
  <2>1. PICK c \in Nat : c = given.crashes
    BY StartsAssumption DEF Inv, DiskTyped, Scenarios
  <2>2. QED
    BY <2>1 DEF Inv, DiskTyped
<1>3. DiskTyped' /\ ActorsTyped'
  BY <1>1, <1>2 DEF Inv, DiskTyped, ActorsTyped, WorkType, disk, Here
<1>4. Locked' /\ Employed'
  BY <1>1, Numbers DEF Inv, Locked, Employed, At
<1>5. Restores'
  BY Numbers DEF Inv, Restores, disk, Agree, Here
<1>6. Compacts' /\ Drops' /\ Unwritten'
  BY <1>1 DEF Inv, Compacts, Drops, Unwritten, disk, Here
<1>7. Discarding' <=> Discarding
  BY DEF Discarding
<1>8. Phases' /\ MatSeesWhole'
  BY <1>7 DEF Inv, Phases, Whole, Empty, Committing, Present, MatSeesWhole, disk, Here, At
<1>9. QED
  BY <1>3, <1>4, <1>5, <1>6, <1>8 DEF Inv

LEMMA EndCompactKeeps ==
  ASSUME Inv, EndCompact
  PROVE  Inv'
<1>1. ex = Compactor
  BY DEF EndCompact, Inv, Locked
<1>2. crashes \in Nat /\ crashes' = crashes /\ crashes' <= crashes
  BY DEF EndCompact, Compacting, Inv, DiskTyped
<1>3. QED
  BY <1>1, <1>2, CompactorLeaves DEF EndCompact, Compacting, disk

LEMMA CrashCompactorKeeps ==
  ASSUME Inv, CrashCompactor
  PROVE  Inv'
<1>1. crashes' \in Nat /\ crashes' <= crashes
  BY DEF CrashCompactor, Inv, DiskTyped
<1>2. QED
  BY <1>1, CompactorLeaves DEF CrashCompactor

-----------------------------------------------------------------------------
(* The indexes stage.  What the release contradicts is not there to find:   *)
(* nobody has both the listing of a release and a set that moved on.        *)
LEMMA AsBuilt ==
  ASSUME Inv, given.published, given.listed, \A s \in Starts : Protected(s)
  PROVE  \A m \in Here(zst) : zst[m].ver = 1
<1>1. ~given.compacts \/ given.grows = {}
  BY DEF Inv, DiskTyped, Protected
<1>2. \A m \in Members : zst[m].ver <= 1
  BY <1>1 DEF Inv, Unwritten
<1>3. \A m \in Here(zst) : m \in Members /\ zst[m].ver \in Nat \ {0}
  BY HereFacts DEF Inv, DiskTyped
<1>4. QED
  BY <1>2, <1>3

LEMMA WholeIsObserved ==
  ASSUME Inv, given.published, Whole, \A s \in Starts : Protected(s)
  PROVE  Observed
<1>1. Here(zst) # {}
  BY Numbers DEF Whole
<1>2. manifest => AsReleased
  BY AsBuilt DEF Inv, DiskTyped, Whole, AsReleased
<1>3. QED
  BY <1>1, <1>2 DEF Observed

(* A step of the stage that takes no lock and moves no file. *)
LEMMA StageMoves ==
  ASSUME Inv, stage.pc # "commit", stage'.pc # "commit",
         stage' \in WorkType({"idle", "look", "fetch", "record"}),
         stage'.pc = "idle" \/ given.published, manifest' => given.listed,
         stage'.pc \in {"look", "fetch"} =>
           stage'.todo = Members /\ (Empty \/ Discarding),
         UNCHANGED <<raw, zst, rotten, lock, job, query, compact, crashes, given>>
  PROVE  Inv'
<1>1. DiskTyped' /\ ActorsTyped'
  BY DEF Inv, DiskTyped, ActorsTyped, WorkType, lock, Here
<1>2. Locked' /\ Employed'
  BY DEF Inv, Locked, Employed, lock, At
<1>3. Restores' /\ Compacts' /\ Drops' /\ Unwritten'
  BY DEF Inv, Restores, Compacts, Drops, Unwritten, lock, Agree, Here, Current
<1>4. (Discarding' <=> Discarding) /\ (Empty' <=> Empty) /\ (Whole' <=> Whole)
  BY DEF Discarding, Empty, Whole, Present, Here
<1>5. Phases' /\ MatSeesWhole'
  BY <1>4 DEF Inv, Phases, Committing, MatSeesWhole, Here, At
<1>6. QED
  BY <1>1, <1>2, <1>3, <1>5 DEF Inv

LEMMA AcquireKeeps ==
  ASSUME Inv, Acquire, \A s \in Starts : Protected(s)
  PROVE  Inv'
<1>1. /\ given.published /\ stage.pc = "idle" /\ ~Observed
      /\ stage' = [pc |-> "look", todo |-> Members]
      /\ UNCHANGED <<raw, zst, rotten, manifest, lock, job, query, compact, crashes, given>>
  BY DEF Acquire, Staging, lock
<1>2. Empty \/ Discarding
  BY <1>1, WholeIsObserved DEF Inv, Phases, Committing
<1>3. /\ stage' \in WorkType({"look"}) /\ stage'.pc = "look" /\ stage'.todo = Members
  BY <1>1 DEF WorkType
<1>4. stage' \in WorkType({"idle", "look", "fetch", "record"})
  BY <1>3 DEF WorkType
<1>5. QED
  BY <1>1, <1>2, <1>3, <1>4, StageMoves DEF Inv, DiskTyped

LEMMA InspectKeeps ==
  ASSUME Inv, Inspect, \A s \in Starts : Protected(s)
  PROVE  Inv'
<1>1. /\ stage.pc = "look" /\ given.published
      /\ UNCHANGED <<raw, manifest, lock, job, query, compact, crashes, given>>
  BY DEF Inspect, Staging, lock, Inv, Employed
<1>2. stage.todo = Members /\ (Empty \/ Discarding) /\ stage \in WorkType({"look"})
  BY <1>1 DEF Inv, Phases, ActorsTyped, WorkType
<1>3. /\ zst' = zst /\ rotten' = rotten
      /\ stage' = NoWork \/ stage' = [stage EXCEPT !.pc = "fetch"]
  <2> DEFINE kept == {m \in Here(zst) : given.listed => zst[m].ver = 1}
  <2>1. CASE UNCHANGED <<zst, rotten>> /\ Staging(NoWork)
    BY <2>1 DEF Staging
  <2>2. CASE /\ zst' = [m \in Members |-> IF m \in kept THEN zst[m] ELSE Missing]
             /\ rotten' = rotten \intersect kept
             /\ Staging([stage EXCEPT !.pc = "fetch"])
    <3>1. kept = Here(zst)
      BY <1>1, AsBuilt
    <3> HIDE DEF kept
    <3>2. \A m \in Members : m \notin Here(zst) => zst[m] = Missing
      BY HereFacts DEF Inv, DiskTyped
    <3>3. zst' = zst
      BY <2>2, <3>1, <3>2 DEF Inv, DiskTyped
    <3>4. rotten' = rotten
      BY <2>2, <3>1 DEF Inv, DiskTyped
    <3>5. QED
      BY <2>2, <3>3, <3>4 DEF Staging
  <2>3. QED
    BY <2>1, <2>2 DEF Inspect
<1>4. /\ stage' \in WorkType({"idle", "look", "fetch", "record"})
      /\ stage'.pc \in {"idle", "fetch"}
      /\ stage'.pc = "fetch" => stage'.todo = Members
  BY <1>2, <1>3 DEF NoWork, WorkType
<1>5. QED
  BY <1>1, <1>2, <1>3, <1>4, StageMoves DEF Inv, DiskTyped

LEMMA RecordManifestKeeps ==
  ASSUME Inv, RecordManifest
  PROVE  Inv'
<1>1. /\ stage.pc = "record" /\ stage' = NoWork /\ manifest' = (manifest \/ given.listed)
      /\ UNCHANGED <<raw, zst, rotten, lock, job, query, compact, crashes, given>>
  BY DEF RecordManifest, Staging, lock
<1>2. /\ stage' \in WorkType({"idle", "look", "fetch", "record"}) /\ stage'.pc = "idle"
  BY <1>1 DEF NoWork, WorkType
<1>3. manifest' => given.listed
  BY <1>1 DEF Inv, DiskTyped
<1>4. QED
  BY <1>1, <1>2, <1>3, StageMoves

(* A commit begins where nothing is there and nobody gives anything up. *)
LEMMA LockCommitKeeps ==
  ASSUME Inv, LockCommit
  PROVE  Inv'
<1>1. /\ stage.pc = "fetch" /\ ~Discarding /\ LockFree /\ ex' = Stager /\ sh' = sh
      /\ stage' = [stage EXCEPT !.pc = "commit"]
      /\ UNCHANGED <<raw, zst, rotten, manifest, job, query, compact, crashes, given>>
  BY DEF LockCommit, Staging
<1>2. stage.todo = Members /\ Empty
  BY <1>1 DEF Inv, Phases
<1>3. /\ stage' \in WorkType({"commit"}) /\ stage'.pc = "commit" /\ stage'.todo = Members
  BY <1>1, <1>2 DEF Inv, ActorsTyped, WorkType
<1>4. DiskTyped' /\ ActorsTyped'
  BY <1>1, <1>3 DEF Inv, DiskTyped, ActorsTyped, WorkType, Here
<1>5. Locked' /\ Employed'
  BY <1>1, <1>3, Numbers DEF Inv, Locked, Employed, LockFree, At
<1>6. Restores'
  BY <1>1, Numbers DEF Inv, Restores, LockFree
<1>7. Compacts' /\ Drops' /\ Unwritten'
  BY <1>1 DEF Inv, Compacts, Drops, Unwritten, Agree, Here, Current
<1>8. ~Discarding'
  BY <1>1 DEF Discarding
<1>9. Committing'
  BY <1>1, <1>2, <1>3, <1>8 DEF Committing, Empty, Present, Here
<1>10. Phases' /\ MatSeesWhole'
  BY <1>1, <1>3, <1>9 DEF Inv, Phases, Whole, MatSeesWhole, Here, At
<1>11. QED
  BY <1>4, <1>5, <1>6, <1>7, <1>10 DEF Inv

(* While it lasts the stage has the lock. *)
LEMMA CommitFacts ==
  ASSUME Inv, stage.pc = "commit"
  PROVE  /\ ex = Stager /\ sh = {} /\ compact.pc \in {"idle", "wait"}
         /\ Committing /\ job.pc # "drop"
         /\ \A q \in Queries : ex # q /\ query[q].stamp = {} /\ query[q].pc # "mat"
<1>1. ex = Stager /\ sh = {}
  BY Numbers DEF Inv, Locked
<1>2. Committing /\ job.pc # "drop"
  BY DEF Inv, Phases, Committing, Discarding
<1>3. \A q \in Queries : ex # q
  BY <1>1, Numbers
<1>4. \A q \in Queries : query[q].stamp = {} /\ query[q].pc # "mat"
  BY <1>1, <1>3 DEF Inv, Restores, Locked, At
<1>5. compact.pc \in {"idle", "wait"}
  BY <1>1, Numbers DEF Inv, Locked, ActorsTyped, WorkType
<1>6. QED
  BY <1>1, <1>2, <1>3, <1>4, <1>5

LEMMA CommitOneKeeps ==
  ASSUME Inv, NEW m \in Members, CommitOne(m)
  PROVE  Inv'
<1> DEFINE f == File(1, m)
<1>1. /\ stage.pc = "commit" /\ m \in stage.todo /\ zst' = Put(zst, m, f)
      /\ rotten' = rotten \ {m} /\ stage' = [stage EXCEPT !.todo = @ \ {m}]
      /\ UNCHANGED <<raw, manifest, lock, job, query, compact, crashes, given>>
  BY DEF CommitOne, Staging, lock
<1>2. f \in Files /\ f # Missing /\ f.ver = 1
  <2>1. m \in Nat /\ 1 \in Nat \ {0}
    BY Numbers
  <2>2. QED
    BY <2>1, FileFacts
<1> HIDE DEF f
<1>3. /\ zst' \in [Members -> Files] /\ zst'[m] = f /\ Here(zst') = Here(zst) \union {m}
      /\ \A k \in Members : k # m => zst'[k] = zst[k]
  <2>1. f \in Files /\ zst \in [Members -> Files] /\ zst' = Put(zst, m, f)
    BY <1>1, <1>2 DEF Inv, DiskTyped
  <2>2. QED
    BY <1>2, <2>1, PutFacts
<1>4. /\ stage' \in WorkType({"commit"}) /\ stage'.pc = "commit"
      /\ stage'.todo = stage.todo \ {m}
  BY <1>1 DEF Inv, ActorsTyped, WorkType
<1>5. DiskTyped' /\ ActorsTyped'
  <2>1. DiskTyped'
    BY <1>1, <1>3 DEF Inv, DiskTyped
  <2>2. ActorsTyped'
    BY <1>1, <1>4 DEF Inv, ActorsTyped, WorkType, lock
  <2>3. QED
    BY <2>1, <2>2
<1>6. Locked' /\ Employed'
  BY <1>1, <1>4 DEF Inv, Locked, Employed, lock, At
<1>7. Restores' /\ Compacts' /\ Drops'
  BY <1>1, CommitFacts DEF Inv, Restores, Compacts, Drops, lock
<1>8. Unwritten'
  <2>1. \A k \in Members : zst'[k].ver = IF k = m THEN 1 ELSE zst[k].ver
    BY <1>2, <1>3
  <2>2. raw' = raw /\ given' = given
    BY <1>1
  <2>3. QED
    BY <2>1, <2>2 DEF Inv, Unwritten
<1>9. Committing'
  <2>1. Here(zst') = Members \ stage'.todo
    BY <1>1, <1>3, <1>4, CommitFacts DEF Committing
  <2>2. ~Discarding'
    BY <1>1, CommitFacts DEF Committing, Discarding
  <2>3. Here(raw') = {}
    BY <1>1, CommitFacts DEF Committing
  <2>4. QED
    BY <1>4, <2>1, <2>2, <2>3 DEF Committing
<1>10. Phases'
  BY <1>1, <1>3, <1>4, <1>9 DEF Inv, Phases, Whole
<1>11. MatSeesWhole'
  BY <1>1, CommitFacts DEF MatSeesWhole, At
<1>12. QED
  BY <1>5, <1>6, <1>7, <1>8, <1>10, <1>11 DEF Inv

LEMMA EndCommitKeeps ==
  ASSUME Inv, EndCommit
  PROVE  Inv'
<1>1. /\ stage.pc = "commit" /\ stage.todo = {} /\ ex' = Nobody /\ sh' = sh
      /\ stage' = [stage EXCEPT !.pc = "record"]
      /\ UNCHANGED <<raw, zst, rotten, manifest, job, query, compact, crashes, given>>
  BY DEF EndCommit, Staging
<1>2. /\ stage' \in WorkType({"record"}) /\ stage'.pc = "record"
  BY <1>1 DEF Inv, ActorsTyped, WorkType
<1>3. DiskTyped' /\ ActorsTyped'
  BY <1>1, <1>2 DEF Inv, DiskTyped, ActorsTyped, WorkType, Here
<1>4. Locked' /\ Employed'
  BY <1>1, <1>2, CommitFacts, Numbers DEF Inv, Locked, Employed, At
<1>5. Restores' /\ Compacts' /\ Drops' /\ Unwritten'
  BY <1>1, CommitFacts, Numbers DEF Inv, Restores, Compacts, Drops, Unwritten
<1>6. Whole'
  BY <1>1, CommitFacts DEF Committing, Whole, Here
<1>7. Phases'
  BY <1>2, <1>6 DEF Phases
<1>8. MatSeesWhole'
  BY <1>1, CommitFacts DEF MatSeesWhole, At
<1>9. QED
  BY <1>3, <1>4, <1>5, <1>7, <1>8 DEF Inv

(* The server dies only over a whole set, which it leaves as it is. *)
LEMMA CrashServerKeeps ==
  ASSUME Inv, CrashServer
  PROVE  Inv'
<1>1. /\ crashes > 0 /\ crashes' = crashes - 1 /\ sh' = {}
      /\ ex' = IF ex = Compactor THEN ex ELSE Nobody
      /\ job' = NoJob /\ query' = [q \in Queries |-> NoQuery] /\ stage' = NoWork
      /\ UNCHANGED <<disk, compact, given>>
  BY DEF CrashServer
<1>2. given.crashes \in Nat
  BY StartsAssumption DEF Inv, DiskTyped, Scenarios
<1>3. Whole /\ crashes' \in Nat /\ crashes' <= given.crashes
  BY <1>1, <1>2 DEF Inv, DiskTyped, Phases
<1>4. /\ \A q \in Queries : query'[q] = NoQuery /\ query'[q].pc = "idle"
                            /\ query'[q].stamp = {}
      /\ query' \in [Queries -> QueryType]
  BY <1>1 DEF NoQuery, QueryType
<1>5. /\ job' \in JobType /\ job'.pc = "idle" /\ ~job'.again
      /\ stage' \in WorkType({"idle"}) /\ stage'.pc = "idle"
  BY <1>1 DEF NoJob, NoWork, JobType, WorkType
<1>6. DiskTyped' /\ ActorsTyped'
  BY <1>1, <1>3, <1>4, <1>5 DEF Inv, DiskTyped, ActorsTyped, WorkType, disk, Here
<1>7. Locked' /\ Employed'
  BY <1>1, <1>4, <1>5, Numbers DEF Inv, Locked, Employed, At
<1>8. Restores'
  BY <1>1, <1>4, Numbers DEF Restores
<1>9. Compacts' /\ Drops' /\ Unwritten'
  BY <1>1, <1>4, <1>5 DEF Inv, Compacts, Drops, Unwritten, disk, Agree, Here, Current
<1>10. Phases'
  BY <1>1, <1>3, <1>5 DEF Phases, Whole, disk, Here
<1>11. MatSeesWhole'
  BY <1>4 DEF MatSeesWhole, At
<1>12. QED
  BY <1>6, <1>7, <1>8, <1>9, <1>10, <1>11 DEF Inv

-----------------------------------------------------------------------------
(* The invariant, and the first theorem.                                    *)
LEMMA InitInv ==
  ASSUME Init, \A s \in Starts : Protected(s)
  PROVE  Inv
<1>1. /\ given \in Starts /\ given \in Scenarios /\ Protected(given)
      /\ rotten = given.rotten /\ manifest = (given.held /\ given.listed)
      /\ crashes = given.crashes /\ ex = Nobody /\ sh = {}
      /\ raw = [m \in Members |-> Missing]
      /\ zst = [m \in Members |-> IF given.held THEN File(1, m) ELSE Missing]
      /\ job = NoJob /\ query = [q \in Queries |-> NoQuery]
      /\ compact = NoWork /\ stage = NoWork
  BY StartsAssumption DEF Init
<1>2. \A m \in Members : /\ File(1, m) \in Files /\ File(1, m) # Missing
                         /\ File(1, m).ver = 1
  <2>1. Members \subseteq Nat /\ 1 \in Nat \ {0}
    BY Numbers
  <2>2. QED
    BY <2>1, FileFacts
<1>3. /\ raw \in [Members -> Files] /\ zst \in [Members -> Files] /\ Here(raw) = {}
      /\ given.held => Here(zst) = Members
      /\ ~given.held => Here(zst) = {}
      /\ \A m \in Members : raw[m].ver <= 1 /\ zst[m].ver <= 1
  BY <1>1, <1>2, FileFacts DEF Here
<1>4. rotten \subseteq given.rotten \intersect Here(zst)
  BY <1>1, <1>3 DEF Protected, Scenarios
<1>5. DiskTyped
  BY <1>1, <1>3, <1>4 DEF DiskTyped, Scenarios
<1>6. /\ \A q \in Queries : /\ query[q] = NoQuery /\ query[q] \in QueryType
                            /\ query[q].pc = "idle" /\ query[q].stamp = {}
      /\ job \in JobType /\ job.pc = "idle" /\ ~job.again
      /\ compact.pc = "idle" /\ stage.pc = "idle"
      /\ NoWork \in WorkType({"idle"})
  BY <1>1 DEF NoQuery, NoJob, NoWork, QueryType, JobType, WorkType
<1>7. ActorsTyped
  BY <1>1, <1>6 DEF ActorsTyped, WorkType
<1>8. Locked /\ Employed
  BY <1>1, <1>6, Numbers DEF Locked, Employed, At
<1>9. Restores /\ Compacts /\ Drops /\ Unwritten
  BY <1>1, <1>3, <1>6, Numbers DEF Restores, Compacts, Drops, Unwritten
<1>10. Phases
  <2>1. given.held => Whole
    BY <1>3 DEF Whole
  <2>2. ~given.held => Empty /\ given.crashes = 0
    BY <1>1, <1>3, <1>6 DEF Empty, Present, Protected
  <2>3. QED
    BY <1>6, <2>1, <2>2 DEF Phases
<1>11. MatSeesWhole
  BY <1>6 DEF MatSeesWhole, At
<1>12. QED
  BY <1>5, <1>7, <1>8, <1>9, <1>10, <1>11 DEF Inv

LEMMA NextInv ==
  ASSUME Inv, Next, \A s \in Starts : Protected(s)
  PROVE  Inv'
<1>1. CASE Analysis
  BY <1>1, AnalyzeKeeps, EndAnalysisKeeps, DropRawKeeps, DropArchiveKeeps, EndDropKeeps,
     ResumeKeeps DEF Analysis
<1>2. CASE Compact
  BY <1>2, ListRawsKeeps, LockCompactKeeps, DropUntouchedKeeps, ArchiveKeeps,
     StampArchiveKeeps, RemoveRawKeeps, EndCompactKeeps DEF Compact
<1>3. CASE Stage
  BY <1>3, AcquireKeeps, InspectKeeps, LockCommitKeeps, EndCommitKeeps,
     RecordManifestKeeps, CommitOneKeeps DEF Stage
<1>4. CASE CrashServer \/ CrashCompactor
  BY <1>4, CrashServerKeeps, CrashCompactorKeeps
<1>5. ASSUME NEW q \in Queries, Query(q)
      PROVE  Inv'
  BY <1>5, ListMissingKeeps, LockRestoreKeeps, EndRestoreKeeps, SurveyPinKeeps, PinKeeps,
     ShareKeeps, EndRunKeeps, RestoreOneKeeps, StampOneKeeps, MeetCorruptKeeps DEF Query
<1>6. ASSUME NEW q \in Queries, NEW m \in Members, Rewrite(q, m)
      PROVE  Inv'
  BY <1>6, RewriteKeeps
<1>7. QED
  BY <1>1, <1>2, <1>3, <1>4, <1>5, <1>6 DEF Next

LEMMA StutterInv ==
  ASSUME Inv, UNCHANGED vars
  PROVE  Inv'
<1>1. DiskTyped' /\ ActorsTyped' /\ Locked' /\ Employed'
  BY DEF Inv, vars, disk, lock, DiskTyped, ActorsTyped, Locked, Employed, Here, At
<1>2. Restores' /\ Compacts' /\ Drops' /\ Unwritten'
  BY DEF Inv, vars, disk, lock, Restores, Compacts, Drops, Unwritten, Agree, Here, Current
<1>3. Discarding' <=> Discarding
  BY DEF vars, Discarding
<1>4. Phases' /\ MatSeesWhole'
  BY <1>3 DEF Inv, vars, disk, Phases, Whole, Empty, Committing, Present, MatSeesWhole,
              Here, At
<1>5. QED
  BY <1>1, <1>2, <1>4 DEF Inv

LEMMA Invariant ==
  ASSUME \A s \in Starts : Protected(s)
  PROVE  Spec => []Inv
<1>1. Init => Inv
  BY InitInv
<1>2. Inv /\ [Next]_vars => Inv'
  BY NextInv, StutterInv
<1>3. QED
  BY <1>1, <1>2, PTL DEF Spec

(* MAT is never offered a partial index set (LAYOUT.md, extract.py): while  *)
(* a query runs MAT every member lies there uncompressed, however restores, *)
(* retries, compactions, commits, drops and crashes fall, for any number of *)
(* members, lanes and queries, in the scenarios the code protects.          *)
THEOREM WholeSetsOnly ==
  ASSUME \A s \in Starts : Protected(s)
  PROVE  Spec => []MatSeesWhole
<1>1. Inv => MatSeesWhole
  BY DEF Inv
<1>2. QED
  BY <1>1, Invariant, PTL

-----------------------------------------------------------------------------
(* What the mtimes say.  A time belongs to one version of a member, but for *)
(* that of a file renamed and not stamped: such a raw file is of the        *)
(* version of its archive.                                                  *)
Stamped(f, m) ==
  /\ f.ver <= MaxVersion
  /\ (f.ver = 1 /\ f.mtime = m) \/ f.mtime = Rewritten(f.ver) \/ f.mtime = Unstamped

Dated ==
  /\ \A m \in Here(raw) : Stamped(raw[m], m)
  /\ \A m \in Here(zst) : Stamped(zst[m], m)
  /\ \A m \in Here(raw) \intersect Here(zst) : raw[m].mtime = Unstamped => Agree(m)

(* A member whose archive has its time has its content as well.             *)
LEMMA SameTimeSameContent ==
  ASSUME Inv, Dated, NEW m \in Here(raw) \intersect Here(zst),
         raw[m].mtime = zst[m].mtime
  PROVE  Agree(m)
<1>1. /\ m \in 1..Last /\ Last \in Nat /\ MaxVersion \in Nat
      /\ raw[m].ver \in Nat /\ zst[m].ver \in Nat
  BY HereFacts, SizeAssumption DEF Inv, DiskTyped, Members, Here
<1>2. Stamped(raw[m], m) /\ Stamped(zst[m], m)
  BY DEF Dated
<1>3. CASE raw[m].mtime = Unstamped
  BY <1>3 DEF Dated
<1>4. CASE raw[m].mtime # Unstamped
  BY <1>1, <1>2, <1>4 DEF Stamped, Rewritten, Built, Unstamped, Agree
<1>5. QED
  BY <1>3, <1>4

(* What a step may do to one raw file, or to one archive.                   *)
LEMMA RawMoves ==
  ASSUME Inv, Dated, NEW m \in Members, NEW f \in Files, raw' = Put(raw, m, f), zst' = zst,
         f # Missing => /\ Stamped(f, m)
                        /\ m \in Here(zst) /\ f.mtime = Unstamped => f.ver = zst[m].ver
  PROVE  Dated'
<1>1. /\ raw'[m] = f /\ \A k \in Members : k # m => raw'[k] = raw[k]
      /\ f = Missing => Here(raw') = Here(raw) \ {m}
      /\ f # Missing => Here(raw') = Here(raw) \union {m}
  BY PutFacts DEF Inv, DiskTyped
<1>2. Here(raw) \subseteq Members /\ Here(zst') = Here(zst)
  BY DEF Here
<1>3. \A k \in Here(raw') : k # m => k \in Here(raw) /\ raw'[k] = raw[k]
  BY <1>1, <1>2
<1>4. m \in Here(raw') => f # Missing
  BY <1>1, <1>2
<1>5. \A k \in Here(raw') : Stamped(raw'[k], k)
  BY <1>1, <1>3, <1>4 DEF Dated
<1>6. \A k \in Here(zst') : Stamped(zst'[k], k)
  BY <1>2 DEF Dated
<1>7. \A k \in Here(raw') \intersect Here(zst') :
        raw'[k].mtime = Unstamped => raw'[k].ver = zst'[k].ver
  BY <1>1, <1>2, <1>3, <1>4 DEF Dated, Agree
<1>8. QED
  BY <1>5, <1>6, <1>7 DEF Dated, Stamped, Agree

LEMMA ArchiveMoves ==
  ASSUME Inv, Dated, NEW m \in Members, NEW f \in Files, zst' = Put(zst, m, f), raw' = raw,
         f # Missing => Stamped(f, m) /\ (m \in Here(raw) => f.ver = raw[m].ver)
  PROVE  Dated'
<1>1. /\ zst'[m] = f /\ \A k \in Members : k # m => zst'[k] = zst[k]
      /\ f = Missing => Here(zst') = Here(zst) \ {m}
      /\ f # Missing => Here(zst') = Here(zst) \union {m}
  <2>1. zst \in [Members -> Files] /\ zst' = Put(zst, m, f)
    BY DEF Inv, DiskTyped
  <2>2. QED
    BY <2>1, PutFacts
<1>2. Here(zst) \subseteq Members /\ Here(raw') = Here(raw)
  BY DEF Here
<1>3. \A k \in Here(zst') : k # m => k \in Here(zst) /\ zst'[k] = zst[k]
  BY <1>1, <1>2
<1>4. m \in Here(zst') => f # Missing
  BY <1>1, <1>2
<1>5. \A k \in Here(zst') : Stamped(zst'[k], k)
  BY <1>1, <1>3, <1>4 DEF Dated
<1>6. \A k \in Here(raw') : Stamped(raw'[k], k)
  BY <1>2 DEF Dated
<1>7. \A k \in Here(raw') \intersect Here(zst') :
        raw'[k].mtime = Unstamped => raw'[k].ver = zst'[k].ver
  BY <1>1, <1>2, <1>3, <1>4 DEF Dated, Agree
<1>8. QED
  BY <1>5, <1>6, <1>7 DEF Dated, Stamped, Agree

LEMMA RawContent ==
  ASSUME Inv, NEW m \in Members, NEW f \in Files, raw' = Put(raw, m, f), zst' = zst,
         IF f = Missing THEN zst[m].ver >= Content(m) ELSE f.ver >= Content(m)
  PROVE  \A k \in Members : Content(k)' >= Content(k)
<1>1. /\ raw'[m] = f /\ \A k \in Members : k # m => raw'[k] = raw[k]
      /\ f = Missing => Here(raw') = Here(raw) \ {m}
      /\ f # Missing => Here(raw') = Here(raw) \union {m}
  BY PutFacts DEF Inv, DiskTyped
<1>2. \A k \in Members : Content(k) \in Nat
  BY FileFacts DEF Content, Inv, DiskTyped
<1>3. ASSUME NEW k \in Members, k # m PROVE Content(k)' = Content(k)
  BY <1>1, <1>3 DEF Content
<1>4. Content(m)' >= Content(m)
  BY <1>1 DEF Content
<1>5. QED
  BY <1>2, <1>3, <1>4

LEMMA ArchiveContent ==
  ASSUME Inv, NEW m \in Members, NEW f \in Files, zst' = Put(zst, m, f), raw' = raw
  PROVE  \A k \in Members : k # m \/ m \in Here(raw) => Content(k)' >= Content(k)
<1>1. \A k \in Members : k # m => zst'[k] = zst[k]
  BY PutFacts DEF Inv, DiskTyped
<1>2. \A k \in Members : Content(k) \in Nat
  BY FileFacts DEF Content, Inv, DiskTyped
<1>3. Here(raw') = Here(raw)
  BY DEF Here
<1>4. \A k \in Members : k # m \/ m \in Here(raw) => Content(k)' = Content(k)
  BY <1>1, <1>3 DEF Content
<1>5. QED
  BY <1>2, <1>4

(* The steps that move files: what they leave is dated, and nothing that    *)
(* MAT wrote is lost by them.                                               *)
Survives == \A m \in Members \ rotten : GivenUp \/ Content(m)' >= Content(m)

LEMMA RestoreOneDated ==
  ASSUME Inv, Dated, NEW q \in Queries, NEW m \in Members, RestoreOne(q, m)
  PROVE  Dated' /\ Survives
<1> DEFINE f == File(zst[m].ver, Unstamped)
<1>1. m \in Here(zst) \ Here(raw) /\ raw' = Put(raw, m, f) /\ zst' = zst
  BY HolderFacts DEF RestoreOne, Decompressing
<1>2. f \in Files /\ f # Missing /\ f.ver = zst[m].ver /\ f.mtime = Unstamped
  <2>1. Unstamped \in Nat
    BY Numbers
  <2>2. QED
    BY <1>1, <2>1, CopyFacts DEF Inv, DiskTyped
<1> HIDE DEF f
<1>3. Stamped(f, m)
  BY <1>1, <1>2 DEF Dated, Stamped
<1>4. Dated'
  BY <1>1, <1>2, <1>3, RawMoves
<1>5. f.ver >= Content(m)
  BY <1>1, <1>2, HereFacts DEF Content, Inv, DiskTyped
<1>6. \A k \in Members : Content(k)' >= Content(k)
  BY <1>1, <1>2, <1>5, RawContent
<1>7. QED
  BY <1>4, <1>6 DEF Survives

LEMMA StampOneDated ==
  ASSUME Inv, Dated, NEW q \in Queries, NEW m \in Members, StampOne(q, m)
  PROVE  Dated' /\ Survives
<1> DEFINE f == File(raw[m].ver, zst[m].mtime)
<1>1. query[q].pc \in {"restoring", "spoiled"} /\ m \in query[q].stamp
  BY DEF StampOne, Inv, Restores, Locked
<1>2. /\ m \in Here(raw) \intersect Here(zst) /\ Agree(m)
      /\ raw' = Put(raw, m, f) /\ zst' = zst
  BY <1>1, HolderFacts DEF StampOne
<1>3. f \in Files /\ f # Missing /\ f.ver = raw[m].ver /\ f.mtime = zst[m].mtime
  <2>1. zst[m].mtime \in Nat
    BY <1>2, HereFacts DEF Inv, DiskTyped
  <2>2. QED
    BY <1>2, <2>1, CopyFacts DEF Inv, DiskTyped
<1> HIDE DEF f
<1>4. Stamped(f, m) /\ f.ver = zst[m].ver
  BY <1>2, <1>3 DEF Dated, Stamped, Agree
<1>5. Dated'
  BY <1>2, <1>3, <1>4, RawMoves
<1>6. f.ver >= Content(m)
  BY <1>2, <1>3, HereFacts DEF Content, Inv, DiskTyped
<1>7. \A k \in Members : Content(k)' >= Content(k)
  BY <1>2, <1>3, <1>6, RawContent
<1>8. QED
  BY <1>5, <1>7 DEF Survives

LEMMA MeetCorruptDated ==
  ASSUME Inv, Dated, NEW q \in Queries, NEW m \in Members, MeetCorrupt(q, m)
  PROVE  Dated' /\ Survives
<1>1. m \in rotten /\ zst' = Put(zst, m, Missing) /\ raw' = raw /\ Missing \in Files
  BY FileFacts DEF MeetCorrupt
<1>2. Dated'
  BY <1>1, ArchiveMoves
<1>3. QED
  BY <1>1, <1>2, ArchiveContent DEF Survives

LEMMA RewriteDated ==
  ASSUME Inv, Dated, NEW q \in Queries, NEW m \in Members, Rewrite(q, m)
  PROVE  Dated' /\ Survives
<1> PICK v : v = raw[m].ver
  OBVIOUS
<1> DEFINE f == File(v + 1, Rewritten(v + 1))
<1>1. /\ m \in Here(raw) /\ v < MaxVersion /\ raw' = Put(raw, m, f) /\ zst' = zst
  BY DEF Rewrite
<1>2. v \in Nat /\ MaxVersion \in Nat /\ Last \in Nat
  BY <1>1, HereFacts, SizeAssumption DEF Inv, DiskTyped
<1>3. /\ f \in Files /\ f # Missing /\ f.ver = v + 1 /\ f.mtime = Rewritten(v + 1)
  <2>1. v + 1 \in Nat \ {0} /\ Rewritten(v + 1) \in Nat
    BY <1>2, Numbers
  <2>2. QED
    BY <2>1, FileFacts
<1> HIDE DEF f
<1>4. Stamped(f, m) /\ f.mtime # Unstamped
  BY <1>1, <1>2, <1>3 DEF Stamped, Rewritten, Unstamped, Built
<1>5. Dated'
  BY <1>1, <1>3, <1>4, RawMoves
<1>6. f.ver >= Content(m)
  BY <1>1, <1>2, <1>3 DEF Content
<1>7. \A k \in Members : Content(k)' >= Content(k)
  BY <1>1, <1>3, <1>6, RawContent
<1>8. QED
  BY <1>5, <1>7 DEF Survives

LEMMA RawRemoved ==
  ASSUME Inv, Dated, NEW m \in Here(raw) \intersect Here(zst), Agree(m),
         raw' = Put(raw, m, Missing), zst' = zst
  PROVE  Dated' /\ Survives
<1>1. m \in Members /\ Missing \in Files
  BY FileFacts DEF Here
<1>2. Dated'
  BY <1>1, RawMoves
<1>3. zst[m].ver >= Content(m)
  BY HereFacts DEF Content, Agree, Inv, DiskTyped
<1>4. \A k \in Members : Content(k)' >= Content(k)
  BY <1>1, <1>3, RawContent
<1>5. QED
  BY <1>2, <1>4 DEF Survives

LEMMA ArchiveDated ==
  ASSUME Inv, Dated, Archive
  PROVE  Dated' /\ Survives
<1> PICK m : m = Current
  OBVIOUS
<1> DEFINE f == File(raw[m].ver, Unstamped)
<1>1. m \in Here(raw) /\ m \in Members /\ zst' = Put(zst, m, f) /\ raw' = raw
  BY DEF Archive, Due, Here
<1>2. f \in Files /\ f # Missing /\ f.ver = raw[m].ver /\ f.mtime = Unstamped
  <2>1. Unstamped \in Nat
    BY Numbers
  <2>2. QED
    BY <1>1, <2>1, CopyFacts DEF Inv, DiskTyped
<1> HIDE DEF f
<1>3. Stamped(f, m)
  BY <1>1, <1>2 DEF Dated, Stamped
<1>4. Dated'
  BY <1>1, <1>2, <1>3, ArchiveMoves
<1>5. QED
  BY <1>1, <1>2, <1>4, ArchiveContent DEF Survives

LEMMA StampArchiveDated ==
  ASSUME Inv, Dated, StampArchive
  PROVE  Dated' /\ Survives
<1> PICK m : m = Current
  OBVIOUS
<1> DEFINE f == File(zst[m].ver, raw[m].mtime)
<1>1. /\ m \in Here(raw) /\ m \in Here(zst) /\ m \in Members /\ raw[m].ver = zst[m].ver
      /\ zst' = Put(zst, m, f) /\ raw' = raw
  BY DEF StampArchive, Inv, Compacts, Agree, Here
<1>2. f \in Files /\ f # Missing /\ f.ver = raw[m].ver /\ f.mtime = raw[m].mtime
  <2>1. raw[m].mtime \in Nat
    BY <1>1, HereFacts DEF Inv, DiskTyped
  <2>2. QED
    BY <1>1, <2>1, CopyFacts DEF Inv, DiskTyped
<1> HIDE DEF f
<1>3. Stamped(f, m)
  BY <1>1, <1>2 DEF Dated, Stamped
<1>4. Dated'
  BY <1>1, <1>2, <1>3, ArchiveMoves
<1>5. QED
  BY <1>1, <1>2, <1>4, ArchiveContent DEF Survives

LEMMA CommitOneDated ==
  ASSUME Inv, Dated, NEW m \in Members, CommitOne(m)
  PROVE  Dated' /\ Survives
<1>1. /\ stage.pc = "commit" /\ zst' = Put(zst, m, File(1, m)) /\ raw' = raw
  BY DEF CommitOne, Staging
<1>2. m \in Nat /\ MaxVersion \in Nat \ {0} /\ 1 \in Nat \ {0}
  BY Numbers, SizeAssumption
<1>3. /\ File(1, m) \in Files /\ File(1, m).ver = 1 /\ File(1, m).mtime = m
  BY <1>2, FileFacts
<1>4. Stamped(File(1, m), m)
  BY <1>2, <1>3 DEF Stamped
<1>5. m \notin Here(raw)
  BY <1>1, CommitFacts DEF Committing
<1>6. Dated'
  BY <1>1, <1>3, <1>4, <1>5, ArchiveMoves
<1>7. QED
  BY <1>1, <1>6 DEF Survives, GivenUp

LEMMA DropsDated ==
  ASSUME Inv, Dated, DropRaw \/ DropArchive, \A s \in Starts : Protected(s)
  PROVE  Dated' /\ Survives
<1>1. job.pc = "drop"
  BY DEF DropRaw, DropArchive
<1>2. /\ job.raws = Here(raw) /\ job.zsts = Here(zst)
      /\ Here(raw) \in SUBSET Nat /\ Here(zst) \in SUBSET Nat
  BY <1>1, DropFacts, Numbers DEF Here
<1>3. Missing \in Files
  BY FileFacts
<1>4. CASE DropRaw
  <2> PICK m : m = Min(job.raws)
    OBVIOUS
  <2>1. raw' = Put(raw, m, Missing) /\ zst' = zst /\ job.raws # {}
    BY <1>4 DEF DropRaw
  <2>2. m \in Members
    <3>1. m \in Here(raw)
      BY <1>2, <2>1, MinFacts
    <3>2. QED
      BY <3>1 DEF Here
  <2>3. QED
    BY <1>1, <1>3, <2>1, <2>2, RawMoves DEF Survives, GivenUp
<1>5. CASE DropArchive
  <2> PICK m : m = Min(job.zsts)
    OBVIOUS
  <2>1. zst' = Put(zst, m, Missing) /\ raw' = raw /\ job.zsts # {}
    BY <1>5 DEF DropArchive
  <2>2. m \in Members
    <3>1. m \in Here(zst)
      BY <1>2, <2>1, MinFacts
    <3>2. QED
      BY <3>1 DEF Here
  <2>3. QED
    BY <1>1, <1>3, <2>1, <2>2, ArchiveMoves DEF Survives, GivenUp
<1>6. QED
  BY <1>4, <1>5

LEMMA CompactionsDated ==
  ASSUME Inv, Dated, Compact
  PROVE  (Dated' /\ Survives) \/ UNCHANGED <<raw, zst>>
<1>1. CASE DropUntouched
  <2> PICK m : m = Current
    OBVIOUS
  <2>1. /\ m \in Here(raw) \intersect Here(zst) /\ raw[m].mtime = zst[m].mtime
        /\ raw' = Put(raw, m, Missing) /\ zst' = zst
    BY <1>1 DEF DropUntouched, Due, Untouched
  <2>2. Agree(m)
    BY <2>1, SameTimeSameContent
  <2>3. QED
    BY <2>1, <2>2, RawRemoved
<1>2. CASE RemoveRaw
  <2> PICK m : m = Current
    OBVIOUS
  <2>1. /\ m \in Here(raw) \intersect Here(zst) /\ Agree(m)
        /\ raw' = Put(raw, m, Missing) /\ zst' = zst
    BY <1>2 DEF RemoveRaw, Inv, Compacts
  <2>2. QED
    BY <2>1, RawRemoved
<1>3. CASE Archive \/ StampArchive
  BY <1>3, ArchiveDated, StampArchiveDated
<1>4. CASE ListRaws \/ LockCompact \/ EndCompact
  BY <1>4 DEF ListRaws, LockCompact, EndCompact
<1>5. QED
  BY <1>1, <1>2, <1>3, <1>4 DEF Compact

LEMMA InspectLeaves ==
  ASSUME Inv, Inspect, \A s \in Starts : Protected(s)
  PROVE  raw' = raw /\ zst' = zst
<1> DEFINE kept == {m \in Here(zst) : given.listed => zst[m].ver = 1}
<1>1. raw' = raw /\ stage.pc = "look" /\ given.published
  BY DEF Inspect, Staging, Inv, Employed
<1>2. CASE zst' = [m \in Members |-> IF m \in kept THEN zst[m] ELSE Missing]
  <2>1. kept = Here(zst)
    BY <1>1, AsBuilt
  <2> HIDE DEF kept
  <2>2. \A m \in Members : m \notin Here(zst) => zst[m] = Missing
    BY HereFacts DEF Inv, DiskTyped
  <2>3. QED
    BY <1>1, <1>2, <2>1, <2>2 DEF Inv, DiskTyped
<1>3. QED
  BY <1>1, <1>2 DEF Inspect

LEMMA FilesUntouched ==
  ASSUME Inv, Dated, UNCHANGED <<raw, zst>>
  PROVE  Dated' /\ Survives
<1>1. \A m \in Members : Content(m)' = Content(m) /\ Content(m) \in Nat
  BY FileFacts DEF Content, Here, Inv, DiskTyped
<1>2. \A m \in Members : Content(m)' >= Content(m)
  BY <1>1
<1>3. Dated'
  BY DEF Dated, Stamped, Agree, Here
<1>4. QED
  BY <1>2, <1>3 DEF Survives

LEMMA NextDated ==
  ASSUME Inv, Dated, Next, \A s \in Starts : Protected(s)
  PROVE  Dated' /\ Survives
<1>1. CASE Analysis
  <2>1. CASE DropRaw \/ DropArchive
    BY <2>1, DropsDated
  <2>2. CASE Analyze \/ EndAnalysis \/ EndDrop \/ Resume
    <3>1. UNCHANGED <<raw, zst>>
      BY <2>2 DEF Analyze, EndAnalysis, EndDrop, Resume, disk
    <3>2. QED
      BY <3>1, FilesUntouched
  <2>3. QED
    BY <1>1, <2>1, <2>2 DEF Analysis
<1>2. CASE Compact
  BY <1>2, CompactionsDated, FilesUntouched
<1>3. CASE Stage
  <2>1. CASE Inspect
    BY <2>1, InspectLeaves, FilesUntouched
  <2>2. CASE Acquire \/ LockCommit \/ EndCommit \/ RecordManifest
    <3>1. UNCHANGED <<raw, zst>>
      BY <2>2 DEF Acquire, LockCommit, EndCommit, RecordManifest, Staging
    <3>2. QED
      BY <3>1, FilesUntouched
  <2>3. QED
    BY <1>3, <2>1, <2>2, CommitOneDated DEF Stage
<1>4. CASE CrashServer \/ CrashCompactor
  <2>1. UNCHANGED <<raw, zst>>
    BY <1>4 DEF CrashServer, CrashCompactor, disk
  <2>2. QED
    BY <2>1, FilesUntouched
<1>5. ASSUME NEW q \in Queries, Query(q)
      PROVE  Dated' /\ Survives
  <2>1. ASSUME NEW m \in Members, RestoreOne(q, m) \/ StampOne(q, m) \/ MeetCorrupt(q, m)
        PROVE  Dated' /\ Survives
    BY <2>1, RestoreOneDated, StampOneDated, MeetCorruptDated
  <2>2. CASE \/ ListMissing(q) \/ LockRestore(q) \/ EndRestore(q) \/ SurveyPin(q)
             \/ Pin(q) \/ Share(q) \/ EndRun(q)
    <3>1. UNCHANGED <<raw, zst>>
      BY <2>2 DEF ListMissing, LockRestore, EndRestore, SurveyPin, Pin, Share, EndRun, disk
    <3>2. QED
      BY <3>1, FilesUntouched
  <2>3. QED
    BY <1>5, <2>1, <2>2 DEF Query
<1>6. ASSUME NEW q \in Queries, NEW m \in Members, Rewrite(q, m)
      PROVE  Dated' /\ Survives
  BY <1>6, RewriteDated
<1>7. QED
  BY <1>1, <1>2, <1>3, <1>4, <1>5, <1>6 DEF Next

LEMMA InitDated ==
  ASSUME Init
  PROVE  Dated
<1>1. /\ raw = [m \in Members |-> Missing]
      /\ zst = [m \in Members |-> IF given.held THEN File(1, m) ELSE Missing]
  BY DEF Init
<1>2. Here(raw) = {}
  BY <1>1 DEF Here
<1>3. \A m \in Here(zst) : zst[m] = File(1, m)
  BY <1>1 DEF Here
<1>4. 1 <= MaxVersion
  BY SizeAssumption
<1>5. \A m \in Here(zst) : zst[m].ver = 1 /\ zst[m].mtime = m
  <2>1. Here(zst) \subseteq Nat /\ 1 \in Nat \ {0}
    BY Numbers DEF Here
  <2>2. QED
    BY <1>3, <2>1, FileFacts
<1>6. ASSUME NEW m \in Here(zst)
      PROVE  Stamped(zst[m], m)
  <2>1. zst[m].ver = 1 /\ zst[m].mtime = m
    BY <1>5
  <2>2. QED
    BY <1>4, <2>1 DEF Stamped
<1>7. QED
  BY <1>2, <1>6 DEF Dated

(* The mtime convention (LAYOUT.md, files.py): what MAT completed in a      *)
(* member is never replaced by an older version of it, by no compaction,    *)
(* restore, retry, commit or crash, while the set is not given up.          *)
THEOREM WritesAreKept ==
  ASSUME \A s \in Starts : Protected(s)
  PROVE  Spec => WritesSurvive
<1>1. Init => Dated
  BY InitDated
<1>2. Inv /\ Dated /\ [Next]_vars => Dated'
  <2>1. ASSUME Inv, Dated, UNCHANGED vars
        PROVE  Dated'
    <3>1. UNCHANGED <<raw, zst>>
      BY <2>1 DEF vars, disk
    <3>2. QED
      BY <2>1, <3>1, FilesUntouched
  <2>2. QED
    BY <2>1, NextDated
<1>3. Inv /\ Dated /\ Next =>
        \A m \in Members \ rotten : GivenUp \/ Content(m)' >= Content(m)
  BY NextDated DEF Survives
<1>4. Inv /\ Dated /\ [Next]_vars =>
        [\A m \in Members \ rotten : GivenUp \/ Content(m)' >= Content(m)]_vars
  BY <1>3
<1>5. QED
  BY <1>1, <1>2, <1>4, Invariant, PTL DEF Spec, WritesSurvive

-----------------------------------------------------------------------------
(* The pin.  No raw file is older than the hprof: nothing is skewed.        *)
Recent == \A m \in Here(raw) : hprof <= raw[m].mtime

LEMMA SkewFacts ==
  ASSUME Inv, hprof \in Nat
  PROVE  /\ Skewed <=> ~Recent
         /\ Here(raw) # {} =>
              Oldest \in Nat /\ \A m \in Here(raw) : Oldest <= raw[m].mtime
<1> DEFINE times == {raw[m].mtime : m \in Here(raw)}
<1>1. times \in SUBSET Nat
  BY HereFacts DEF Inv, DiskTyped
<1>2. times # {} => Min(times) \in times /\ \A t \in times : Min(times) <= t
  BY <1>1, MinFacts
<1>3. Here(raw) # {} =>
        /\ Oldest \in times /\ Oldest \in Nat
        /\ \A m \in Here(raw) : Oldest <= raw[m].mtime /\ raw[m].mtime \in Nat
  BY <1>1, <1>2 DEF Oldest
<1>4. CASE Here(raw) = {}
  BY <1>4 DEF Skewed, Recent
<1>5. CASE Here(raw) # {}
  <2>1. PICK m \in Here(raw) : Oldest = raw[m].mtime
    BY <1>3, <1>5
  <2>2. Recent <=> hprof <= Oldest
    BY <1>3, <1>5, <2>1 DEF Recent
  <2>3. QED
    BY <1>3, <1>5, <2>2 DEF Skewed
<1>6. QED
  BY <1>4, <1>5

(* What is never skewed again: a file may go, or come with a later time     *)
(* than any the set was built with.                                         *)
LEMMA RecentStays ==
  ASSUME Inv, Recent, hprof' = hprof, hprof \in Nat, NEW m \in Members, NEW f \in Files,
         raw' = Put(raw, m, f), f # Missing => hprof <= f.mtime
  PROVE  Recent'
<1>1. /\ raw'[m] = f /\ \A k \in Members : k # m => raw'[k] = raw[k]
      /\ f = Missing => Here(raw') = Here(raw) \ {m}
      /\ f # Missing => Here(raw') = Here(raw) \union {m}
  BY PutFacts DEF Inv, DiskTyped
<1>2. Here(raw) \subseteq Members
  BY DEF Here
<1>3. QED
  BY <1>1, <1>2 DEF Recent

-----------------------------------------------------------------------------
(* The invariant of the pin.  A query about to take the shared lock has     *)
(* nothing to fear of its files.  In a set that only restores change        *)
(* (Roomy), members without their mtime are being restored, or were when a  *)
(* crash came (Orphans): together too few for a set that looks new to be    *)
(* new.  Once all is restored no raw file gets older.                       *)
Roomy ==
  /\ given.held /\ given.rotten = {} /\ ~given.compacts /\ given.hprof = Built
  /\ Last > Lanes * (1 + given.crashes)

Orphans == {m \in Here(raw) : /\ raw[m].mtime # m
                              /\ \A q \in Queries : m \notin query[q].stamp}
Loose   == Here(raw) # Members \/ \E q \in Queries : query[q].stamp # {}

AsHeld ==
  /\ \A m \in Members : zst[m] = File(1, m)
  /\ \A q \in Queries : query[q].pc \in {"restore_wait", "restoring"} =>
       Members \ Here(raw) \subseteq query[q].todo
  /\ \A q \in Queries : query[q].pc \in {"pin", "pin_wait", "share"} =>
       Here(raw) = Members
  /\ hprof # Built => ~Loose /\ Recent
  /\ Loose => Cardinality(Orphans) <= Lanes * (given.crashes - crashes)

InLanes ==
  \A q \in Queries, m \in Members : m \in query[q].stamp =>
    Cardinality({k \in query[q].todo \union query[q].stamp : k < m}) < Lanes

Pinned ==
  /\ hprof \in Nat /\ hprof <= Built
  /\ \A q \in Queries : At(q, "share") => Recent
  /\ given.hprof = 1 => hprof = 1

PinInv == Pinned /\ InLanes /\ (Roomy => AsHeld)

-----------------------------------------------------------------------------
(* No more than a pool of lanes is without its mtime.                       *)
LEMMA MembersAreFinite ==
  /\ IsFiniteSet(Members) /\ Cardinality(Members) = Last
  /\ \A S \in SUBSET Members : IsFiniteSet(S) /\ Cardinality(S) \in Nat
<1>1. Last \in Nat \ {0}
  BY SizeAssumption
<1>2. IsFiniteSet(1..Last) /\ Cardinality(1..Last) = Last
  BY <1>1, FS_Interval
<1>3. QED
  BY <1>2, FS_Subset, FS_CardinalityType DEF Members

LEMMA Smaller ==
  ASSUME NEW T \in SUBSET Members, NEW S \in SUBSET T
  PROVE  Cardinality(S) <= Cardinality(T)
BY MembersAreFinite, FS_Subset

LEMMA Latest ==
  ASSUME NEW S \in SUBSET Members, S # {}
  PROVE  \E m \in S : \A k \in S : k <= m
<1>1. Last \in Nat /\ \A k \in S : k \in Nat /\ k <= Last
  BY SizeAssumption DEF Members
<1> DEFINE back == {Last - k : k \in S}
<1>2. back \in SUBSET Nat /\ back # {}
  BY <1>1
<1>3. Min(back) \in back /\ \A b \in back : Min(back) <= b
  BY <1>2, MinFacts
<1>4. PICK m \in S : Min(back) = Last - m
  BY <1>3
<1>5. \A k \in S : Last - m <= Last - k
  BY <1>3, <1>4
<1>6. QED
  BY <1>1, <1>5

LEMMA LanesHold ==
  ASSUME Inv, InLanes, NEW q \in Queries
  PROVE  Cardinality(query[q].stamp) <= Lanes
<1> DEFINE S == query[q].stamp
           T == query[q].todo
<1>1. S \in SUBSET Members /\ T \in SUBSET Members /\ Lanes \in Nat
  BY SizeAssumption DEF Inv, ActorsTyped, QueryType
<1> HIDE DEF S, T
<1>2. CASE S = {}
  BY <1>1, <1>2, FS_EmptySet DEF S
<1>3. CASE S # {}
  <2>1. PICK m \in S : \A k \in S : k <= m
    BY <1>1, <1>3, Latest
  <2> DEFINE B == {k \in T \union S : k < m}
  <2>2. Cardinality(B) < Lanes
    BY <1>1, <2>1 DEF InLanes, S, T
  <2>3. B \in SUBSET Members /\ Members \subseteq Nat
    BY <1>1, Numbers
  <2>4. S \ {m} \in SUBSET B
    BY <1>1, <2>1, <2>3
  <2>5. Cardinality(S \ {m}) <= Cardinality(B)
    BY <2>3, <2>4, Smaller
  <2>6. Cardinality(S \ {m}) = Cardinality(S) - 1
    BY <1>1, <2>1, MembersAreFinite, FS_RemoveElement
  <2>7. Cardinality(B) \in Nat /\ Cardinality(S) \in Nat
    BY <1>1, <2>3, MembersAreFinite
  <2> HIDE DEF B
  <2>8. QED
    BY <1>1, <2>2, <2>5, <2>6, <2>7 DEF S
<1>4. QED
  BY <1>2, <1>3

(* A step that starts nothing keeps to the lanes.                           *)
LEMMA LanesStay ==
  ASSUME Inv, InLanes,
         \A q \in Queries : \/ query'[q].stamp = {}
                            \/ /\ query'[q].stamp \subseteq query[q].stamp
                               /\ query'[q].todo \subseteq query[q].todo
  PROVE  InLanes'
<1> SUFFICES ASSUME NEW q \in Queries, NEW m \in Members, m \in query'[q].stamp
             PROVE  Cardinality({k \in query'[q].todo \union query'[q].stamp : k < m}) < Lanes
  BY DEF InLanes
<1> DEFINE A == {k \in query'[q].todo \union query'[q].stamp : k < m}
           B == {k \in query[q].todo \union query[q].stamp : k < m}
<1>1. /\ query'[q].stamp \subseteq query[q].stamp
      /\ query'[q].todo \subseteq query[q].todo
  OBVIOUS
<1>2. B \in SUBSET Members
  BY DEF Inv, ActorsTyped, QueryType
<1>3. A \in SUBSET B
  BY <1>1
<1>4. Cardinality(B) < Lanes
  BY <1>1 DEF InLanes
<1>5. Cardinality(A) <= Cardinality(B) /\ Cardinality(A) \in Nat /\ Cardinality(B) \in Nat
  BY <1>2, <1>3, Smaller, MembersAreFinite
<1>6. QED
  BY <1>4, <1>5, SizeAssumption

(* No mtime is less than the first of the build. *)
LEMMA FirstTime ==
  ASSUME Inv, Dated, NEW m \in Here(raw)
  PROVE  1 <= raw[m].mtime /\ raw[m].mtime \in Nat
<1>1. Stamped(raw[m], m) /\ m \in Members
  BY DEF Dated, Here
<1>2. raw[m].ver \in Nat /\ raw[m].mtime \in Nat
  BY HereFacts DEF Inv, DiskTyped
<1>3. Last \in Nat /\ MaxVersion \in Nat /\ m \in 1..Last
  BY <1>1, SizeAssumption DEF Members
<1>4. QED
  BY <1>1, <1>2, <1>3 DEF Stamped, Rewritten, Built, Unstamped

-----------------------------------------------------------------------------
(* Steps of a query that touch neither the files nor the hprof.             *)
LEMMA PinnedStays ==
  ASSUME Inv, Pinned, hprof' = hprof, given' = given, Recent => Recent',
         \A q \in Queries : query'[q].pc = "share" => query[q].pc = "share"
  PROVE  Pinned'
BY DEF Pinned, At

LEMMA HeldStays ==
  ASSUME AsHeld, UNCHANGED <<raw, zst, hprof, crashes, given>>,
         \A q \in Queries : query'[q].stamp = query[q].stamp,
         \A q \in Queries : query'[q].pc \in {"restore_wait", "restoring"} =>
           Members \ Here(raw) \subseteq query'[q].todo,
         \A q \in Queries : query'[q].pc \in {"pin", "pin_wait", "share"} =>
           Here(raw) = Members
  PROVE  AsHeld'
<1>1. /\ Here(raw)' = Here(raw) /\ (Recent' <=> Recent) /\ (Loose' <=> Loose)
      /\ Orphans' = Orphans
  BY DEF Here, Recent, Loose, Orphans
<1>2. QED
  BY <1>1 DEF AsHeld

LEMMA QuietPin ==
  ASSUME Inv, PinInv, NEW q \in Queries, NEW r \in QueryType,
         query' = [query EXCEPT ![q] = r],
         UNCHANGED <<raw, zst, hprof, crashes, given>>,
         query[q].stamp = {}, r.stamp = {},
         r.pc # "share" \/ Recent,
         Roomy /\ AsHeld =>
           /\ r.pc \in {"restore_wait", "restoring"} => Members \ Here(raw) \subseteq r.todo
           /\ r.pc \in {"pin", "pin_wait", "share"} => Here(raw) = Members
  PROVE  PinInv'
<1>1. /\ query' \in [Queries -> QueryType] /\ query'[q] = r
      /\ \A p \in Queries : p # q => query'[p] = query[p]
  BY QueryFacts DEF Inv, ActorsTyped
<1>2. InLanes'
  BY <1>1, LanesStay DEF PinInv
<1>3. Recent' <=> Recent
  BY DEF Recent, Here
<1>4. Pinned'
  BY <1>1, <1>3 DEF PinInv, Pinned, At
<1>5. ASSUME Roomy PROVE AsHeld'
  <2>1. AsHeld
    BY <1>5 DEF PinInv
  <2>2. \A p \in Queries : query'[p].stamp = query[p].stamp
    BY <1>1
  <2>3. \A p \in Queries : query'[p].pc \in {"restore_wait", "restoring"} =>
          Members \ Here(raw) \subseteq query'[p].todo
    BY <1>1, <1>5, <2>1 DEF AsHeld
  <2>4. \A p \in Queries : query'[p].pc \in {"pin", "pin_wait", "share"} =>
          Here(raw) = Members
    BY <1>1, <1>5, <2>1 DEF AsHeld
  <2>5. QED
    BY <2>1, <2>2, <2>3, <2>4, HeldStays
<1>6. Roomy' <=> Roomy
  BY DEF Roomy
<1>7. QED
  BY <1>2, <1>4, <1>5, <1>6 DEF PinInv

(* The set of a Roomy scenario is whole. *)
LEMMA HeldFacts ==
  ASSUME Inv, AsHeld, Roomy
  PROVE  Here(zst) = Members /\ rotten = {} /\ job.pc # "drop" /\ compact.pc = "idle"
<1>1. \A m \in Members : zst[m] # Missing
  <2>1. \A m \in Members : File(1, m) # Missing
    BY Numbers, FileFacts
  <2>2. QED
    BY <2>1 DEF AsHeld
<1>2. QED
  BY <1>1 DEF Here, Roomy, Inv, DiskTyped, Drops, Employed

LEMMA ListMissingPins ==
  ASSUME Inv, PinInv, NEW q \in Queries, ListMissing(q)
  PROVE  PinInv'
<1> DEFINE todo == Here(zst) \ Here(raw)
<1> DEFINE r == [query[q] EXCEPT !.todo = todo,
                   !.pc = IF todo = {} THEN "pin" ELSE "restore_wait"]
<1>1. query' = [query EXCEPT ![q] = r]
  BY DEF ListMissing, Inv, ActorsTyped, QueryType
<1>2. query[q] \in QueryType /\ query[q].pc = "restore"
  BY DEF ListMissing, At, Inv, ActorsTyped
<1>3. query[q].stamp = {}
  BY <1>2, NothingToStamp DEF Ashore
<1>4. r \in QueryType /\ r.stamp = {} /\ r.todo = todo
      /\ r.pc = IF todo = {} THEN "pin" ELSE "restore_wait"
  BY <1>2, <1>3, HereFacts DEF Inv, DiskTyped, QueryType
<1>5. ASSUME Roomy, AsHeld
      PROVE  /\ r.pc \in {"restore_wait", "restoring"} => Members \ Here(raw) \subseteq r.todo
             /\ r.pc \in {"pin", "pin_wait", "share"} => Here(raw) = Members
  <2>1. Here(zst) = Members /\ Here(raw) \subseteq Members
    BY <1>5, HeldFacts DEF Here
  <2> HIDE DEF r
  <2>2. QED
    BY <1>4, <2>1
<1>6. r.pc # "share"
  BY <1>4
<1>7. UNCHANGED <<raw, zst, hprof, crashes, given>>
  BY DEF ListMissing, disk
<1> HIDE DEF r, todo
<1>8. QED
  BY <1>1, <1>3, <1>4, <1>5, <1>6, <1>7, QuietPin

LEMMA LockRestorePins ==
  ASSUME Inv, PinInv, NEW q \in Queries, LockRestore(q)
  PROVE  PinInv'
<1> DEFINE todo == query[q].todo \ Here(raw)
<1>1. query[q].pc = "restore_wait" /\ query[q] \in QueryType
  BY DEF LockRestore, At, Inv, ActorsTyped
<1>2. query[q].stamp = {}
  BY <1>1, NothingToStamp DEF Ashore
<1>3. UNCHANGED <<raw, zst, hprof, crashes, given>>
  BY DEF LockRestore, disk
<1>4. Roomy /\ AsHeld => Members \ Here(raw) \subseteq todo /\ Here(raw) \subseteq Members
  BY <1>1 DEF AsHeld, Here
<1>5. CASE todo # {} /\ todo \subseteq Here(zst)
  <2> DEFINE r == [query[q] EXCEPT !.pc = "restoring", !.todo = todo]
  <2>1. query' = [query EXCEPT ![q] = r]
    BY <1>1, <1>5 DEF LockRestore, Inv, ActorsTyped, QueryType
  <2>2. r \in QueryType /\ r.pc = "restoring" /\ r.stamp = {} /\ r.todo = todo
    BY <1>1, <1>2 DEF QueryType
  <2> HIDE DEF r, todo
  <2>3. QED
    BY <1>2, <1>3, <1>4, <2>1, <2>2, QuietPin
<1>6. CASE todo = {}
  <2> DEFINE r == [query[q] EXCEPT !.pc = "pin", !.todo = {}]
  <2>1. query' = [query EXCEPT ![q] = r]
    BY <1>1, <1>6 DEF LockRestore, Inv, ActorsTyped, QueryType
  <2>2. r \in QueryType /\ r.pc = "pin" /\ r.stamp = {}
    BY <1>1, <1>2 DEF QueryType
  <2> HIDE DEF r
  <2>3. Roomy /\ AsHeld => Here(raw) = Members
    BY <1>4, <1>6
  <2>4. QED
    BY <1>2, <1>3, <2>1, <2>2, <2>3, QuietPin
<1>7. CASE todo # {} /\ ~(todo \subseteq Here(zst))
  <2>1. Ends(q, "failed")
    BY <1>7 DEF LockRestore
  <2>2. PICK r \in QueryType : /\ query' = [query EXCEPT ![q] = r]
                               /\ r.pc = "failed" /\ r.stamp = {}
    BY <2>1, EndsFacts
  <2>3. QED
    BY <1>2, <1>3, <2>2, QuietPin
<1>8. QED
  BY <1>5, <1>6, <1>7

LEMMA EndRestorePins ==
  ASSUME Inv, PinInv, NEW q \in Queries, EndRestore(q)
  PROVE  PinInv'
<1>1. query[q].stamp = {} /\ query \in [Queries -> QueryType]
  BY DEF EndRestore, Inv, ActorsTyped
<1>2. UNCHANGED <<raw, zst, hprof, crashes, given>>
  BY DEF EndRestore, disk
<1>3. CASE At(q, "restoring") /\ query[q].todo = {} /\ Moves(q, "pin")
  <2>1. PICK r \in QueryType : /\ query' = [query EXCEPT ![q] = r]
                               /\ r.pc = "pin" /\ r.stamp = query[q].stamp
    BY <1>1, <1>3, MovesFacts
  <2>2. Roomy /\ AsHeld => Here(raw) = Members
    BY <1>3 DEF AsHeld, At, Here
  <2>3. QED
    BY <1>1, <1>2, <2>1, <2>2, QuietPin
<1>4. CASE At(q, "spoiled") /\ Ends(q, "corrupt")
  <2>1. PICK r \in QueryType : /\ query' = [query EXCEPT ![q] = r]
                               /\ r.pc = "corrupt" /\ r.stamp = {}
    BY <1>4, EndsFacts
  <2>2. QED
    BY <1>1, <1>2, <2>1, QuietPin
<1>5. QED
  BY <1>3, <1>4 DEF EndRestore

LEMMA SurveyPinPins ==
  ASSUME Inv, PinInv, NEW q \in Queries, SurveyPin(q)
  PROVE  PinInv'
<1>1. PICK pc \in {"pin_wait", "share"} : Moves(q, pc) /\ (pc = "share" => ~Skewed)
  BY DEF SurveyPin
<1>2. query[q].pc = "pin" /\ query \in [Queries -> QueryType]
  BY DEF SurveyPin, At, Inv, ActorsTyped
<1>3. PICK r \in QueryType : /\ query' = [query EXCEPT ![q] = r]
                             /\ r.pc = pc /\ r.stamp = query[q].stamp
  BY <1>1, <1>2, MovesFacts
<1>4. query[q].stamp = {}
  BY <1>2, NothingToStamp DEF Ashore
<1>5. UNCHANGED <<raw, zst, hprof, crashes, given>>
  BY DEF SurveyPin, disk
<1>6. r.pc # "share" \/ Recent
  BY <1>1, <1>3, SkewFacts DEF PinInv, Pinned
<1>7. AsHeld => Here(raw) = Members
  BY <1>2 DEF AsHeld
<1>8. QED
  BY <1>3, <1>4, <1>5, <1>6, <1>7, QuietPin

(* A pin has the set to itself: nothing is being restored.                  *)
LEMMA PinPins ==
  ASSUME Inv, PinInv, Dated, NEW q \in Queries, Pin(q)
  PROVE  PinInv'
<1>1. /\ query[q].pc = "pin_wait" /\ query \in [Queries -> QueryType] /\ ex = Nobody
      /\ UNCHANGED <<raw, zst, crashes, given>>
  BY DEF Pin, At, Inv, ActorsTyped, LockFree
<1>2. PICK r \in QueryType : /\ query' = [query EXCEPT ![q] = r]
                             /\ r.pc = "share" /\ r.stamp = query[q].stamp
  BY <1>1, MovesFacts DEF Pin
<1>3. \A p \in Queries : query[p].stamp = {}
  BY <1>1, Numbers DEF Inv, Restores
<1>4. /\ query' \in [Queries -> QueryType] /\ query'[q] = r
      /\ \A p \in Queries : p # q => query'[p] = query[p]
  BY <1>1, <1>2, QueryFacts
<1>5. InLanes'
  BY <1>2, <1>3, <1>4, LanesStay DEF PinInv
<1>6. /\ hprof' \in Nat /\ hprof' <= hprof /\ hprof \in Nat /\ hprof <= Built
      /\ \A m \in Here(raw) : hprof' <= raw[m].mtime
  <2>1. hprof \in Nat /\ hprof <= Built
    BY DEF PinInv, Pinned
  <2>2. CASE Skewed
    <3>1. hprof' = Oldest /\ Here(raw) # {} /\ hprof > Oldest
      BY <2>2 DEF Pin, Skewed
    <3>2. QED
      BY <2>1, <3>1, SkewFacts
  <2>3. CASE ~Skewed
    <3>1. hprof' = hprof
      BY <2>3 DEF Pin
    <3>2. QED
      BY <2>1, <2>3, <3>1, SkewFacts DEF Recent
  <2>4. QED
    BY <2>2, <2>3
<1>7. Recent'
  BY <1>1, <1>6 DEF Recent, Here
<1>8. given.hprof = 1 => hprof' = 1
  <2>1. SUFFICES ASSUME given.hprof = 1 PROVE hprof' = 1
    OBVIOUS
  <2>2. hprof = 1
    BY <2>1 DEF PinInv, Pinned
  <2>3. Recent
    BY <2>2, FirstTime DEF Recent
  <2>4. ~Skewed
    BY <2>2, <2>3, SkewFacts
  <2>5. QED
    BY <2>2, <2>4 DEF Pin
<1>9. Pinned'
  <2>1. Built \in Nat
    BY Numbers
  <2>2. hprof' <= Built
    BY <1>6, <2>1
  <2>3. QED
    BY <1>1, <1>6, <1>7, <1>8, <2>2 DEF Pinned
<1>10. ASSUME Roomy PROVE AsHeld'
  <2>1. AsHeld /\ Here(raw) = Members
    BY <1>1, <1>10 DEF PinInv, AsHeld
  <2>2. Here(raw') = Members /\ \A p \in Queries : query'[p].stamp = {}
    BY <1>1, <1>2, <1>3, <1>4, <2>1 DEF Here
  <2>3. ~Loose'
    BY <2>2 DEF Loose
  <2>4. QED
    BY <1>1, <1>4, <1>7, <2>1, <2>2, <2>3 DEF AsHeld
<1>11. Roomy' <=> Roomy
  BY <1>1 DEF Roomy
<1>12. QED
  BY <1>5, <1>9, <1>10, <1>11 DEF PinInv

LEMMA SharePins ==
  ASSUME Inv, PinInv, NEW q \in Queries, Share(q)
  PROVE  PinInv'
<1>1. query[q].pc = "share" /\ query \in [Queries -> QueryType] /\ query[q] \in QueryType
  BY DEF Share, At, Inv, ActorsTyped
<1>2. query[q].stamp = {}
  BY <1>1, NothingToStamp DEF Ashore
<1>3. UNCHANGED <<raw, zst, hprof, crashes, given>>
  BY DEF Share, disk
<1>4. \E r \in QueryType : /\ query' = [query EXCEPT ![q] = r]
                           /\ r.pc \in {"mat", "restore", "failed"} /\ r.stamp = {}
  <2>1. CASE Moves(q, "mat")
    BY <1>1, <1>2, <2>1, MovesFacts
  <2>2. CASE Ends(q, "failed")
    BY <2>2, EndsFacts
  <2>3. CASE query' = [query EXCEPT ![q].round = @ + 1, ![q].pc = "restore"]
    <3> DEFINE r == [query[q] EXCEPT !.round = @ + 1, !.pc = "restore"]
    <3>1. query' = [query EXCEPT ![q] = r]
      BY <1>1, <2>3 DEF QueryType
    <3>2. r \in QueryType /\ r.pc = "restore" /\ r.stamp = {}
      <4>1. query[q].round + 1 \in Nat
        BY <1>1 DEF QueryType
      <4>2. QED
        BY <1>1, <1>2, <4>1 DEF QueryType
    <3>3. QED
      BY <3>1, <3>2
  <2>4. QED
    BY <2>1, <2>2, <2>3 DEF Share, Retry
<1>5. PICK r \in QueryType : /\ query' = [query EXCEPT ![q] = r]
                             /\ r.pc \in {"mat", "restore", "failed"} /\ r.stamp = {}
  BY <1>4
<1>6. QED
  BY <1>2, <1>3, <1>5, QuietPin

LEMMA EndRunPins ==
  ASSUME Inv, PinInv, NEW q \in Queries, EndRun(q)
  PROVE  PinInv'
<1>1. query[q].pc = "mat" /\ query[q].stamp = {}
  BY DEF EndRun, At, Inv, Locked, Restores
<1>2. PICK pc \in {"done", "failed"} : Ends(q, pc)
  BY DEF EndRun
<1>3. PICK r \in QueryType : /\ query' = [query EXCEPT ![q] = r]
                             /\ r.pc = pc /\ r.stamp = {}
  BY <1>2, EndsFacts
<1>4. QED
  BY <1>1, <1>3, QuietPin DEF EndRun, disk

-----------------------------------------------------------------------------
(* Steps that move a raw file.                                              *)
LEMMA MeetCorruptPins ==
  ASSUME Inv, PinInv, NEW q \in Queries, NEW m \in Members, MeetCorrupt(q, m)
  PROVE  PinInv'
<1> DEFINE r == [query[q] EXCEPT !.pc = "spoiled", !.todo = @ \ {m}]
<1>1. query[q] \in QueryType /\ m \in rotten
      /\ UNCHANGED <<raw, hprof, crashes, given>>
  BY DEF MeetCorrupt, Inv, ActorsTyped
<1>2. query' = [query EXCEPT ![q] = r]
  BY <1>1 DEF MeetCorrupt, QueryType
<1>3. /\ r \in QueryType /\ r.pc = "spoiled" /\ r.stamp = query[q].stamp
      /\ r.todo \subseteq query[q].todo
  BY <1>1 DEF QueryType
<1> HIDE DEF r
<1>4. query'[q] = r /\ \A p \in Queries : p # q => query'[p] = query[p]
  BY <1>2, <1>3, QueryFacts DEF Inv, ActorsTyped
<1>5. InLanes'
  BY <1>3, <1>4, LanesStay DEF PinInv
<1>6. Pinned'
  <2>1. Recent' <=> Recent
    BY <1>1 DEF Recent, Here
  <2>2. QED
    BY <1>1, <1>3, <1>4, <2>1, PinnedStays DEF PinInv
<1>7. ~Roomy'
  <2>1. ~Roomy
    BY <1>1, HeldFacts DEF PinInv
  <2>2. QED
    BY <1>1, <2>1 DEF Roomy
<1>8. QED
  BY <1>5, <1>6, <1>7 DEF PinInv

LEMMA RestoreOnePins ==
  ASSUME Inv, PinInv, NEW q \in Queries, NEW m \in Members, RestoreOne(q, m)
  PROVE  PinInv'
<1> DEFINE r == [query[q] EXCEPT !.todo = @ \ {m}, !.stamp = @ \union {m}]
           f == File(zst[m].ver, Unstamped)
<1>1. /\ query[q] \in QueryType /\ m \in query[q].todo
      /\ query[q].pc \in {"restoring", "spoiled"}
      /\ raw' = Put(raw, m, f)
      /\ UNCHANGED <<zst, hprof, crashes, given>>
      /\ Cardinality({k \in query[q].todo \union query[q].stamp : k < m}) < Lanes
  BY DEF RestoreOne, Decompressing, Inv, ActorsTyped
<1>2. query' = [query EXCEPT ![q] = r]
  BY <1>1 DEF RestoreOne, QueryType
<1>3. /\ r \in QueryType /\ r.pc = query[q].pc /\ r.todo = query[q].todo \ {m}
      /\ r.stamp = query[q].stamp \union {m}
  BY <1>1 DEF QueryType
<1> HIDE DEF r
<1>4. query'[q] = r /\ \A p \in Queries : p # q => query'[p] = query[p]
  BY <1>2, <1>3, QueryFacts DEF Inv, ActorsTyped
<1>5. m \in Here(zst) /\ m \notin Here(raw)
  BY <1>1, HolderFacts
<1>6. f \in Files /\ f # Missing /\ f.mtime = Unstamped
  BY <1>5, Numbers, CopyFacts DEF Inv, DiskTyped
<1>7. /\ raw'[m] = f /\ \A k \in Members : k # m => raw'[k] = raw[k]
      /\ Here(raw') = Here(raw) \union {m}
  BY <1>1, <1>6, PutFacts DEF Inv, DiskTyped
<1> HIDE DEF f
<1>8. InLanes'
  <2> SUFFICES ASSUME NEW p \in Queries, NEW k \in Members, k \in query'[p].stamp
               PROVE  Cardinality({l \in query'[p].todo \union query'[p].stamp : l < k})
                        < Lanes
    BY DEF InLanes
  <2>1. query'[p].todo \union query'[p].stamp = query[p].todo \union query[p].stamp
    BY <1>1, <1>3, <1>4
  <2>2. k \in query[p].stamp \/ (p = q /\ k = m)
    BY <1>3, <1>4
  <2>3. Cardinality({l \in query[p].todo \union query[p].stamp : l < k}) < Lanes
    BY <1>1, <2>2 DEF PinInv, InLanes
  <2>4. QED
    BY <2>1, <2>3
<1>9. Recent => Recent'
  <2>1. hprof \in Nat /\ hprof <= Built
    BY DEF PinInv, Pinned
  <2>2. Built <= Unstamped /\ Built \in Nat /\ Unstamped \in Nat
    BY SizeAssumption DEF Built, Unstamped, Rewritten
  <2>3. hprof <= f.mtime
    BY <1>6, <2>1, <2>2
  <2>4. QED
    BY <1>1, <1>6, <2>1, <2>3, RecentStays
<1>10. Pinned'
  BY <1>1, <1>3, <1>4, <1>9, PinnedStays DEF PinInv
<1>11. ASSUME Roomy PROVE AsHeld'
  <2>1. AsHeld /\ Loose /\ hprof = Built
    BY <1>5, <1>11 DEF PinInv, AsHeld, Loose
  <2>2. \A k \in Members : zst'[k] = File(1, k)
    BY <1>1, <2>1 DEF AsHeld
  <2>3. \A p \in Queries : query'[p].pc \in {"restore_wait", "restoring"} =>
          Members \ Here(raw') \subseteq query'[p].todo
    BY <1>3, <1>4, <1>7, <2>1 DEF AsHeld
  <2>4. \A p \in Queries : query'[p].pc \in {"pin", "pin_wait", "share"} =>
          Here(raw') = Members
    BY <1>1, <1>3, <1>4, <1>5, <2>1 DEF AsHeld
  <2>5. Orphans' \subseteq Orphans /\ Orphans \subseteq Members
    <3>1. ASSUME NEW k \in Orphans' PROVE k \in Orphans
      <4>1. /\ k \in Here(raw') /\ raw'[k].mtime # k
            /\ \A p \in Queries : k \notin query'[p].stamp
        BY <3>1 DEF Orphans
      <4>2. k # m
        BY <1>3, <1>4, <4>1
      <4>3. k \in Here(raw) /\ raw'[k] = raw[k]
        BY <1>7, <4>1, <4>2 DEF Here
      <4>4. \A p \in Queries : k \notin query[p].stamp
        BY <1>3, <1>4, <4>1
      <4>5. QED
        BY <4>1, <4>3, <4>4 DEF Orphans
    <3>2. QED
      BY <3>1 DEF Orphans, Here
  <2>6. Cardinality(Orphans') <= Cardinality(Orphans)
    BY <2>5, Smaller
  <2>7. Cardinality(Orphans') \in Nat /\ Cardinality(Orphans) \in Nat
    BY <2>5, MembersAreFinite
  <2>8. /\ Cardinality(Orphans) <= Lanes * (given.crashes - crashes)
        /\ Lanes * (given.crashes - crashes) \in Int
    <3>1. Lanes \in Nat /\ crashes \in Nat /\ given.crashes \in Nat
      BY SizeAssumption, StartsAssumption DEF Inv, DiskTyped, Scenarios
    <3>2. QED
      BY <2>1, <3>1 DEF AsHeld
  <2>9. Cardinality(Orphans') <= Lanes * (given'.crashes - crashes')
    BY <1>1, <2>6, <2>7, <2>8
  <2>10. QED
    BY <1>1, <2>1, <2>2, <2>3, <2>4, <2>9 DEF AsHeld
<1>12. Roomy' <=> Roomy
  BY <1>1 DEF Roomy
<1>13. QED
  BY <1>8, <1>10, <1>11, <1>12 DEF PinInv

(* What a query stamps it restores, with the lock; the others stamp nothing. *)
LEMMA StampFacts ==
  ASSUME Inv, NEW q \in Queries, NEW m \in query[q].stamp
  PROVE  /\ query[q].pc \in {"restoring", "spoiled"} /\ m \in Members
         /\ m \in Here(raw) \intersect Here(zst)
         /\ \A p \in Queries : p # q => query[p].stamp = {}
<1>1. ex = q
  BY DEF Inv, Restores
<1>2. query[q].pc \in {"restoring", "spoiled"}
  BY <1>1 DEF Inv, Locked
<1>3. \A p \in Queries : p # q => query[p].stamp = {}
  BY <1>1 DEF Inv, Restores
<1>4. QED
  BY <1>2, <1>3, HolderFacts DEF Here

(* In a Roomy set some member is neither being stamped nor an orphan, and   *)
(* shows that the hprof is not pinned yet.                                  *)
LEMMA SomeoneTells ==
  ASSUME Inv, InLanes, Roomy, AsHeld, NEW q \in Queries, query[q].stamp # {},
         Here(raw) = Members
  PROVE  ~Recent
<1> SUFFICES ASSUME Recent PROVE FALSE
  OBVIOUS
<1> DEFINE S == query[q].stamp
<1>1. Loose /\ hprof = Built
  BY DEF AsHeld, Loose
<1>2. \A p \in Queries : p # q => query[p].stamp = {}
  BY StampFacts
<1>3. Members \subseteq Orphans \union S
  <2>1. ASSUME NEW m \in Members, m \notin S PROVE m \in Orphans
    <3>1. hprof <= raw[m].mtime /\ raw[m].mtime \in Nat
      BY HereFacts DEF Recent, Inv, DiskTyped
    <3>2. raw[m].mtime # m
      BY <1>1, <3>1, SizeAssumption DEF Built, Members
    <3>3. \A p \in Queries : m \notin query[p].stamp
      BY <1>2, <2>1
    <3>4. QED
      BY <3>2, <3>3 DEF Orphans
  <2>2. QED
    BY <2>1
<1>4. S \in SUBSET Members /\ Orphans \in SUBSET Members
  BY DEF Inv, ActorsTyped, QueryType, Orphans, Here
<1>5. Orphans \union S = Members
  BY <1>3, <1>4
<1>6. /\ IsFiniteSet(Orphans) /\ Cardinality(Orphans) \in Nat
      /\ IsFiniteSet(S) /\ Cardinality(S) \in Nat /\ Cardinality(Orphans \intersect S) \in Nat
  BY <1>4, MembersAreFinite
<1>7. Last = Cardinality(Orphans) + Cardinality(S) - Cardinality(Orphans \intersect S)
  BY <1>5, <1>6, MembersAreFinite, FS_Union
<1>8. Cardinality(S) <= Lanes
  BY LanesHold
<1>9. Cardinality(Orphans) <= Lanes * (given.crashes - crashes)
  BY <1>1 DEF AsHeld
<1>10. /\ Lanes \in Nat /\ Last \in Nat /\ crashes \in Nat /\ given.crashes \in Nat
       /\ crashes <= given.crashes
  BY SizeAssumption, StartsAssumption DEF Inv, DiskTyped, Scenarios
<1>11. Last > Lanes * (1 + given.crashes)
  BY DEF Roomy
<1> HIDE DEF S
<1>12. Lanes * (1 + given.crashes) >= Lanes * (given.crashes - crashes) + Lanes
  <2>1. PICK c \in Nat, d \in Nat :
          given.crashes = c + d /\ crashes = c /\ d = given.crashes - crashes
    BY <1>10
  <2>2. Lanes * (1 + (c + d)) = Lanes + Lanes * c + Lanes * d /\ Lanes * c \in Nat
        /\ Lanes * d \in Nat
    BY <1>10
  <2>3. QED
    BY <1>10, <2>1, <2>2
<1>13. Lanes * (given.crashes - crashes) \in Int /\ Lanes * (1 + given.crashes) \in Int
  BY <1>10
<1>14. QED
  BY <1>6, <1>7, <1>8, <1>9, <1>10, <1>11, <1>12, <1>13

LEMMA StampOnePins ==
  ASSUME Inv, PinInv, Dated, \A s \in Starts : Settled(s),
         NEW q \in Queries, NEW m \in Members, StampOne(q, m)
  PROVE  PinInv'
<1> DEFINE r == [query[q] EXCEPT !.stamp = @ \ {m}]
           f == File(raw[m].ver, zst[m].mtime)
<1>1. /\ query[q] \in QueryType /\ m \in query[q].stamp
      /\ raw' = Put(raw, m, f)
      /\ UNCHANGED <<zst, hprof, crashes, given>>
  BY DEF StampOne, Inv, ActorsTyped
<1>2. query' = [query EXCEPT ![q] = r]
  BY <1>1 DEF StampOne, QueryType
<1>3. /\ r \in QueryType /\ r.pc = query[q].pc /\ r.todo = query[q].todo
      /\ r.stamp = query[q].stamp \ {m}
  BY <1>1 DEF QueryType
<1> HIDE DEF r
<1>4. query'[q] = r /\ \A p \in Queries : p # q => query'[p] = query[p]
  BY <1>2, <1>3, QueryFacts DEF Inv, ActorsTyped
<1>5. /\ query[q].pc \in {"restoring", "spoiled"} /\ m \in Here(raw) /\ m \in Here(zst)
      /\ \A p \in Queries : p # q => query[p].stamp = {}
  BY <1>1, StampFacts
<1>6. /\ f \in Files /\ f # Missing /\ f.mtime = zst[m].mtime /\ zst[m].mtime \in Nat
  BY <1>5, HereFacts, CopyFacts DEF Inv, DiskTyped
<1> HIDE DEF f
<1>7. /\ raw'[m] = f /\ \A k \in Members : k # m => raw'[k] = raw[k]
      /\ Here(raw') = Here(raw)
  <2>1. /\ raw'[m] = f /\ \A k \in Members : k # m => raw'[k] = raw[k]
        /\ Here(raw') = Here(raw) \union {m}
    <3>1. raw \in [Members -> Files] /\ raw' = Put(raw, m, f)
      BY <1>1 DEF Inv, DiskTyped
    <3>2. QED
      BY <1>6, <3>1, PutFacts
  <2>2. QED
    BY <1>5, <2>1
<1>8. InLanes'
  BY <1>3, <1>4, LanesStay DEF PinInv
<1>9. hprof \in Nat /\ hprof <= Built
  BY DEF PinInv, Pinned
<1>10. ASSUME NEW p \in Queries, query[p].pc = "share" PROVE Recent'
  <2>1. p # q
    BY <1>5, <1>10
  <2>2. Recent
    BY <1>10 DEF PinInv, Pinned, At
  <2>3. CASE \E o \in Queries : given.queries = {o}
    <3>1. query[p] # NoQuery /\ query[q] # NoQuery
      BY <1>1, <1>10 DEF NoQuery
    <3>2. p \in given.queries /\ q \in given.queries
      BY <3>1 DEF Inv, Employed
    <3>3. QED
      BY <2>1, <2>3, <3>2
  <2>4. CASE given.hprof = 1
    <3>1. hprof = 1
      BY <2>4 DEF PinInv, Pinned
    <3>2. 1 <= f.mtime
      <4>1. Stamped(zst[m], m)
        BY <1>5 DEF Dated
      <4>2. zst[m].ver \in Nat /\ Last \in Nat /\ MaxVersion \in Nat /\ m \in 1..Last
        BY <1>5, HereFacts, SizeAssumption DEF Inv, DiskTyped, Members
      <4>3. QED
        BY <1>6, <4>1, <4>2 DEF Stamped, Rewritten, Built, Unstamped
    <3>3. QED
      BY <1>1, <1>6, <2>2, <3>1, <3>2, RecentStays
  <2>5. CASE Roomy
    <3>1. AsHeld /\ InLanes
      BY <2>5 DEF PinInv
    <3>2. Here(raw) = Members
      BY <1>10, <3>1 DEF AsHeld
    <3>3. QED
      BY <1>1, <2>2, <2>5, <3>1, <3>2, SomeoneTells
  <2>6. Settled(given)
    BY DEF Inv, DiskTyped
  <2>7. QED
    BY <2>3, <2>4, <2>5, <2>6 DEF Settled, Roomy
<1>11. Pinned'
  <2>1. \A p \in Queries : query'[p].pc = query[p].pc
    BY <1>3, <1>4
  <2>2. QED
    BY <1>1, <1>10, <2>1 DEF PinInv, Pinned, At
<1>12. ASSUME Roomy PROVE AsHeld'
  <2>1. AsHeld /\ Loose /\ hprof = Built
    BY <1>1, <1>12 DEF PinInv, AsHeld, Loose
  <2>2. \A k \in Members : zst'[k] = File(1, k)
    BY <1>1, <2>1 DEF AsHeld
  <2>3. \A p \in Queries : query'[p].pc = query[p].pc /\ query'[p].todo = query[p].todo
    BY <1>3, <1>4
  <2>4. raw'[m].mtime = m
    <3>1. zst[m] = File(1, m) /\ m \in Nat /\ 1 \in Nat \ {0}
      BY <2>1, Numbers DEF AsHeld
    <3>2. zst[m].mtime = m
      BY <3>1, FileFacts
    <3>3. QED
      BY <1>6, <1>7, <3>2
  <2>5. Orphans' \subseteq Orphans /\ Orphans \subseteq Members
    <3>1. ASSUME NEW k \in Orphans' PROVE k \in Orphans
      <4>1. /\ k \in Here(raw') /\ raw'[k].mtime # k
            /\ \A p \in Queries : k \notin query'[p].stamp
        BY <3>1 DEF Orphans
      <4>2. k # m
        BY <2>4, <4>1
      <4>3. k \in Here(raw) /\ raw'[k] = raw[k]
        BY <1>7, <4>1, <4>2 DEF Here
      <4>4. \A p \in Queries : k \notin query[p].stamp
        BY <1>3, <1>4, <4>1, <4>2
      <4>5. QED
        BY <4>1, <4>3, <4>4 DEF Orphans
    <3>2. QED
      BY <3>1 DEF Orphans, Here
  <2>6. Cardinality(Orphans') <= Lanes * (given'.crashes - crashes')
    <3>1. Cardinality(Orphans') <= Cardinality(Orphans)
      BY <2>5, Smaller
    <3>2. Cardinality(Orphans') \in Nat /\ Cardinality(Orphans) \in Nat
      BY <2>5, MembersAreFinite
    <3>3. /\ Cardinality(Orphans) <= Lanes * (given.crashes - crashes)
          /\ Lanes * (given.crashes - crashes) \in Int
      <4>1. Lanes \in Nat /\ crashes \in Nat /\ given.crashes \in Nat
        BY SizeAssumption, StartsAssumption DEF Inv, DiskTyped, Scenarios
      <4>2. QED
        BY <2>1, <4>1 DEF AsHeld
    <3>4. QED
      BY <1>1, <3>1, <3>2, <3>3
  <2>7. QED
    BY <1>1, <1>7, <2>1, <2>2, <2>3, <2>6 DEF AsHeld
<1>13. Roomy' <=> Roomy
  BY <1>1 DEF Roomy
<1>14. QED
  BY <1>8, <1>11, <1>12, <1>13 DEF PinInv

LEMMA RewritePins ==
  ASSUME Inv, PinInv, NEW q \in Queries, NEW m \in Members, Rewrite(q, m)
  PROVE  PinInv'
<1> DEFINE f == File(raw[m].ver + 1, Rewritten(raw[m].ver + 1))
<1>1. /\ query[q].pc = "mat" /\ m \in Here(raw) /\ raw' = Put(raw, m, f)
      /\ UNCHANGED <<zst, hprof, query, crashes, given>>
  BY DEF Rewrite, At
<1>2. Here(raw) = Members /\ ex = Nobody
  BY <1>1, RunFacts
<1>3. \A p \in Queries : query[p].stamp = {}
  BY <1>2, Numbers DEF Inv, Restores
<1>4. f \in Files /\ f # Missing /\ f.mtime \in Nat /\ f.mtime >= Built
  <2>1. raw[m].ver \in Nat
    BY <1>1, HereFacts DEF Inv, DiskTyped
  <2>2. PICK v \in Nat \ {0} : v = raw[m].ver + 1
    BY <2>1
  <2>3. Rewritten(v) \in Nat /\ Rewritten(v) >= Built
    BY SizeAssumption DEF Rewritten, Built
  <2>4. QED
    BY <2>2, <2>3, FileFacts
<1> HIDE DEF f
<1>5. Here(raw') = Members
  <2>1. Here(raw') = Here(raw) \union {m}
    <3>1. raw \in [Members -> Files] /\ raw' = Put(raw, m, f)
      BY <1>1 DEF Inv, DiskTyped
    <3>2. QED
      BY <1>4, <3>1, PutFacts
  <2>2. QED
    BY <1>2, <2>1
<1>6. Recent => Recent'
  <2>1. hprof \in Nat /\ hprof <= Built /\ Built \in Nat
    BY Numbers DEF PinInv, Pinned
  <2>2. hprof <= f.mtime
    BY <1>4, <2>1
  <2>3. QED
    BY <1>1, <1>4, <2>1, <2>2, RecentStays
<1>7. Pinned'
  BY <1>1, <1>6, PinnedStays DEF PinInv
<1>8. InLanes'
  BY <1>1, LanesStay DEF PinInv
<1>9. ASSUME Roomy PROVE AsHeld'
  <2>1. AsHeld
    BY <1>9 DEF PinInv
  <2>2. ~Loose'
    BY <1>1, <1>3, <1>5 DEF Loose
  <2>3. QED
    BY <1>1, <1>5, <1>6, <2>1, <2>2 DEF AsHeld
<1>10. QED
  BY <1>1, <1>7, <1>8, <1>9 DEF PinInv, Roomy

(* A file that goes makes nothing look older; a Roomy set loses none.       *)
LEMMA RawGone ==
  ASSUME Inv, PinInv, NEW m \in Members, raw' = Put(raw, m, Missing),
         UNCHANGED <<hprof, query, given>>, ~Roomy
  PROVE  PinInv'
<1>1. Missing \in Files
  BY FileFacts
<1>2. Recent => Recent'
  BY <1>1, RecentStays DEF PinInv, Pinned
<1>3. Pinned'
  BY <1>2, PinnedStays DEF PinInv
<1>4. InLanes'
  BY LanesStay DEF PinInv
<1>5. QED
  BY <1>3, <1>4 DEF PinInv, Roomy

-----------------------------------------------------------------------------
(* The other steps start no query but at its beginning, and stamp nothing.  *)
LEMMA OthersPin ==
  ASSUME Inv, PinInv, UNCHANGED <<raw, hprof, crashes, given>>,
         Roomy => zst' = zst,
         \/ query' = query
         \/ \A q \in Queries : /\ query[q].stamp = {} /\ query'[q].stamp = {}
                               /\ query'[q].pc \in {"idle", "restore"}
  PROVE  PinInv'
<1>1. /\ \A q \in Queries : query'[q].stamp = query[q].stamp
      /\ \A q \in Queries : query'[q].pc \in {"idle", "restore"} \/ query'[q] = query[q]
  OBVIOUS
<1>2. Recent' <=> Recent
  BY DEF Recent, Here
<1>3. Pinned'
  <2>1. \A q \in Queries : query'[q].pc = "share" => query[q].pc = "share"
    BY <1>1
  <2>2. QED
    BY <1>2, <2>1, PinnedStays DEF PinInv
<1>4. InLanes'
  <2>1. \A q \in Queries : \/ query'[q].stamp = {}
                           \/ /\ query'[q].stamp \subseteq query[q].stamp
                              /\ query'[q].todo \subseteq query[q].todo
    OBVIOUS
  <2>2. QED
    BY <2>1, LanesStay DEF PinInv
<1>5. ASSUME Roomy PROVE AsHeld'
  <2>1. AsHeld /\ zst' = zst
    BY <1>5 DEF PinInv
  <2>2. \A q \in Queries : query'[q].pc \in {"restore_wait", "restoring"} =>
          Members \ Here(raw) \subseteq query'[q].todo
    BY <1>1, <2>1 DEF AsHeld
  <2>3. \A q \in Queries : query'[q].pc \in {"pin", "pin_wait", "share"} =>
          Here(raw) = Members
    BY <1>1, <2>1 DEF AsHeld
  <2>4. QED
    BY <1>1, <2>1, <2>2, <2>3, HeldStays
<1>6. QED
  BY <1>3, <1>4, <1>5 DEF PinInv, Roomy

(* A query nobody waits for, or whose answer is there, stamps nothing.      *)
LEMMA IdleStampsNothing ==
  ASSUME Inv, \A q \in given.queries : job.pc = "run" =>
                query[q].pc \in {"done", "corrupt", "failed"}
  PROVE  \A q \in Queries : query[q].stamp = {}
<1> SUFFICES ASSUME NEW q \in Queries PROVE query[q].stamp = {}
  OBVIOUS
<1>1. CASE job.pc = "run" /\ q \in given.queries
  BY <1>1 DEF Inv, Restores, Locked
<1>2. CASE ~(job.pc = "run" /\ q \in given.queries)
  BY <1>2 DEF Inv, Employed, NoQuery
<1>3. QED
  BY <1>1, <1>2

LEMMA AnalysisPins ==
  ASSUME Inv, PinInv, Analysis
  PROVE  PinInv'
<1>1. CASE DropRaw
  <2> PICK m : m = Min(job.raws)
    OBVIOUS
  <2>1. raw' = Put(raw, m, Missing) /\ job.pc = "drop" /\ job.raws # {}
        /\ UNCHANGED <<hprof, query, given>>
    BY <1>1 DEF DropRaw
  <2>2. job.raws = Here(raw) /\ Here(raw) \in SUBSET Nat
    BY <2>1, Numbers DEF Here, Inv, Drops
  <2>3. m \in Members
    <3>1. m \in Here(raw)
      BY <2>1, <2>2, MinFacts
    <3>2. QED
      BY <3>1 DEF Here
  <2>4. ~Roomy
    BY <2>1, HeldFacts DEF PinInv
  <2>5. QED
    BY <2>1, <2>3, <2>4, RawGone
<1>2. CASE DropArchive \/ EndDrop
  <2>1. job.pc = "drop" /\ UNCHANGED <<raw, hprof, query, crashes, given>>
    BY <1>2 DEF DropArchive, EndDrop, disk
  <2>2. ~Roomy
    BY <2>1, HeldFacts DEF PinInv
  <2>3. QED
    BY <2>1, <2>2, OthersPin
<1>3. CASE Analyze \/ EndAnalysis \/ Resume
  <2>1. UNCHANGED <<raw, zst, hprof, crashes, given>>
    BY <1>3 DEF Analyze, EndAnalysis, Resume, disk
  <2>2. \A q \in given.queries : job.pc = "run" =>
          query[q].pc \in {"done", "corrupt", "failed"}
    BY <1>3 DEF Analyze, EndAnalysis, Resume, Over
  <2>3. \A q \in Queries : query[q].stamp = {}
    BY <2>2, IdleStampsNothing
  <2>4. \/ query' = query
        \/ \A q \in Queries : query'[q].stamp = {} /\ query'[q].pc \in {"idle", "restore"}
    BY <1>3 DEF Analyze, EndAnalysis, Resume, Running, NoQuery
  <2>5. QED
    BY <2>1, <2>3, <2>4, OthersPin
<1>4. QED
  BY <1>1, <1>2, <1>3 DEF Analysis

LEMMA CompactPins ==
  ASSUME Inv, PinInv, Compact
  PROVE  PinInv'
<1>1. UNCHANGED <<hprof, query, crashes, given>>
  BY DEF Compact, ListRaws, LockCompact, DropUntouched, Archive, StampArchive, RemoveRaw,
         EndCompact, Compacting
<1>2. ~Roomy
  BY DEF Compact, ListRaws, LockCompact, DropUntouched, Due, Archive, StampArchive,
         RemoveRaw, EndCompact, Roomy, Inv, Employed
<1>3. CASE DropUntouched \/ RemoveRaw
  <2> PICK m : m = Current
    OBVIOUS
  <2>1. m \in Members /\ raw' = Put(raw, m, Missing)
    BY <1>3 DEF DropUntouched, Due, RemoveRaw, Here, Inv, Compacts
  <2>2. QED
    BY <1>1, <1>2, <2>1, RawGone
<1>4. CASE ListRaws \/ LockCompact \/ Archive \/ StampArchive \/ EndCompact
  <2>1. raw' = raw
    BY <1>4 DEF ListRaws, LockCompact, Archive, StampArchive, EndCompact
  <2>2. QED
    BY <1>1, <1>2, <2>1, OthersPin
<1>5. QED
  BY <1>3, <1>4 DEF Compact

LEMMA StagePins ==
  ASSUME Inv, PinInv, Stage, \A s \in Starts : Protected(s)
  PROVE  PinInv'
<1>1. UNCHANGED <<raw, hprof, query, crashes, given>>
  BY DEF Stage, Acquire, Inspect, LockCommit, CommitOne, EndCommit, RecordManifest, Staging
<1>2. Roomy => zst' = zst
  <2>1. ASSUME NEW m \in Members, CommitOne(m) PROVE ~Roomy
    <3>1. stage.pc = "commit" /\ m \in stage.todo
      BY <2>1 DEF CommitOne
    <3>2. m \notin Here(zst)
      BY <3>1, CommitFacts DEF Committing
    <3>3. QED
      BY <3>2, HeldFacts DEF PinInv
  <2>2. CASE Inspect
    BY <2>2, InspectLeaves
  <2>3. CASE Acquire \/ LockCommit \/ EndCommit \/ RecordManifest
    BY <2>3 DEF Acquire, LockCommit, EndCommit, RecordManifest, Staging
  <2>4. QED
    BY <2>1, <2>2, <2>3 DEF Stage
<1>3. QED
  BY <1>1, <1>2, OthersPin

(* A crash leaves as orphans what was being stamped: a pool's worth.        *)
LEMMA CrashServerPins ==
  ASSUME Inv, PinInv, CrashServer
  PROVE  PinInv'
<1>1. /\ crashes > 0 /\ crashes' = crashes - 1
      /\ query' = [q \in Queries |-> NoQuery]
      /\ UNCHANGED <<raw, zst, hprof, given>>
  BY DEF CrashServer, disk
<1>2. \A q \in Queries : query'[q].stamp = {} /\ query'[q].pc = "idle"
  BY <1>1 DEF NoQuery
<1>3. (Recent' <=> Recent) /\ Here(raw') = Here(raw)
  BY <1>1 DEF Recent, Here
<1>4. Pinned'
  BY <1>1, <1>2, <1>3, PinnedStays DEF PinInv
<1>5. InLanes'
  BY <1>2, LanesStay DEF PinInv
<1>6. ASSUME Roomy PROVE AsHeld'
  <2>1. AsHeld /\ InLanes
    BY <1>6 DEF PinInv
  <2>2. Loose' => Loose
    BY <1>2, <1>3 DEF Loose
  <2>3. \E S \in SUBSET Members :
          Cardinality(S) <= Lanes /\ Orphans' \subseteq Orphans \union S
    <3>1. CASE \E q \in Queries : query[q].stamp # {}
      <4>1. PICK q \in Queries : query[q].stamp # {}
        BY <3>1
      <4>2. \A p \in Queries : p # q => query[p].stamp = {}
        BY <4>1, StampFacts
      <4>3. Cardinality(query[q].stamp) <= Lanes /\ query[q].stamp \in SUBSET Members
        BY <2>1, LanesHold DEF Inv, ActorsTyped, QueryType
      <4>4. Orphans' \subseteq Orphans \union query[q].stamp
        BY <1>1, <1>3, <4>2 DEF Orphans
      <4>5. QED
        BY <4>3, <4>4
    <3>2. CASE \A q \in Queries : query[q].stamp = {}
      <4>1. Orphans' \subseteq Orphans
        BY <1>1, <1>3, <3>2 DEF Orphans
      <4>2. Cardinality({}) <= Lanes
        BY FS_EmptySet, SizeAssumption
      <4>3. QED
        BY <4>1, <4>2
    <3>3. QED
      BY <3>1, <3>2
  <2>4. PICK S \in SUBSET Members :
          Cardinality(S) <= Lanes /\ Orphans' \subseteq Orphans \union S
    BY <2>3
  <2>5. Orphans \in SUBSET Members /\ Orphans \union S \in SUBSET Members
    BY DEF Orphans, Here
  <2>6. /\ IsFiniteSet(Orphans) /\ Cardinality(Orphans) \in Nat /\ IsFiniteSet(S)
        /\ Cardinality(S) \in Nat /\ Cardinality(Orphans \intersect S) \in Nat
        /\ Cardinality(Orphans \union S) \in Nat /\ Cardinality(Orphans') \in Nat
    BY <2>4, <2>5, MembersAreFinite
  <2>7. Cardinality(Orphans') <= Cardinality(Orphans) + Cardinality(S)
    <3>1. Cardinality(Orphans \union S)
            = Cardinality(Orphans) + Cardinality(S) - Cardinality(Orphans \intersect S)
      BY <2>6, FS_Union
    <3>2. Cardinality(Orphans') <= Cardinality(Orphans \union S)
      BY <2>4, <2>5, Smaller
    <3>3. QED
      BY <2>6, <3>1, <3>2
  <2>8. Loose' => Cardinality(Orphans') <= Lanes * (given'.crashes - crashes')
    <3>1. SUFFICES ASSUME Loose'
                   PROVE  Cardinality(Orphans') <= Lanes * (given'.crashes - crashes')
      OBVIOUS
    <3>2. Cardinality(Orphans) <= Lanes * (given.crashes - crashes)
      BY <2>1, <2>2, <3>1 DEF AsHeld
    <3>3. /\ Lanes \in Nat /\ crashes \in Nat /\ given.crashes \in Nat
          /\ crashes <= given.crashes
      BY SizeAssumption, StartsAssumption DEF Inv, DiskTyped, Scenarios
    <3>4. PICK d \in Nat : d = given.crashes - crashes
      BY <3>3
    <3>5. given'.crashes - crashes' = d + 1
      BY <1>1, <3>3, <3>4
    <3>6. Lanes * (d + 1) = Lanes * d + Lanes /\ Lanes * d \in Nat
      BY <3>3
    <3>7. Cardinality(Orphans') <= Lanes * d + Lanes
      BY <2>4, <2>6, <2>7, <3>2, <3>3, <3>4, <3>6
    <3>8. QED
      BY <3>5, <3>6, <3>7
  <2>9. hprof' # Built => ~Loose' /\ Recent'
    BY <1>1, <1>3, <2>1, <2>2 DEF AsHeld
  <2>10. QED
    BY <1>1, <1>2, <2>1, <2>8, <2>9 DEF AsHeld
<1>7. Roomy' <=> Roomy
  BY <1>1 DEF Roomy
<1>8. QED
  BY <1>4, <1>5, <1>6, <1>7 DEF PinInv

LEMMA CrashCompactorPins ==
  ASSUME Inv, PinInv, CrashCompactor
  PROVE  PinInv'
<1>1. UNCHANGED <<raw, zst, hprof, query, given>> /\ compact.pc # "idle"
  BY DEF CrashCompactor, disk
<1>2. ~Roomy
  BY <1>1, HeldFacts DEF PinInv
<1>3. Pinned' /\ InLanes'
  <2>1. Recent' <=> Recent
    BY <1>1 DEF Recent, Here
  <2>2. QED
    BY <1>1, <2>1, PinnedStays, LanesStay DEF PinInv
<1>4. QED
  BY <1>1, <1>2, <1>3 DEF PinInv, Roomy

-----------------------------------------------------------------------------
LEMMA NextPins ==
  ASSUME Inv, Dated, PinInv, Next, \A s \in Starts : Protected(s) /\ Settled(s)
  PROVE  PinInv'
<1>1. ASSUME NEW q \in Queries, Query(q)
      PROVE  PinInv'
  <2>1. ASSUME NEW m \in Members, RestoreOne(q, m) \/ StampOne(q, m) \/ MeetCorrupt(q, m)
        PROVE  PinInv'
    BY <2>1, RestoreOnePins, StampOnePins, MeetCorruptPins
  <2>2. CASE \/ ListMissing(q) \/ LockRestore(q) \/ EndRestore(q) \/ SurveyPin(q)
             \/ Pin(q) \/ Share(q) \/ EndRun(q)
    BY <2>2, ListMissingPins, LockRestorePins, EndRestorePins, SurveyPinPins, PinPins,
       SharePins, EndRunPins
  <2>3. QED
    BY <1>1, <2>1, <2>2 DEF Query
<1>2. ASSUME NEW q \in Queries, NEW m \in Members, Rewrite(q, m)
      PROVE  PinInv'
  BY <1>2, RewritePins
<1>3. QED
  BY <1>1, <1>2, AnalysisPins, CompactPins, StagePins, CrashServerPins, CrashCompactorPins
     DEF Next

LEMMA StutterPins ==
  ASSUME Inv, PinInv, UNCHANGED vars
  PROVE  PinInv'
<1>1. UNCHANGED <<raw, zst, hprof, query, crashes, given>>
  BY DEF vars, disk
<1>2. QED
  BY <1>1, OthersPin

LEMMA InitPins ==
  ASSUME Init
  PROVE  PinInv
<1>1. /\ given \in Scenarios /\ hprof = given.hprof /\ crashes = given.crashes
      /\ raw = [m \in Members |-> Missing]
      /\ zst = [m \in Members |-> IF given.held THEN File(1, m) ELSE Missing]
      /\ query = [q \in Queries |-> NoQuery]
  BY StartsAssumption DEF Init
<1>2. Here(raw) = {} /\ \A q \in Queries : query[q].stamp = {} /\ query[q].pc = "idle"
  BY <1>1 DEF Here, NoQuery
<1>3. Pinned
  <2>1. given.hprof \in 1..Built /\ Built \in Nat
    BY <1>1, Numbers DEF Scenarios
  <2>2. QED
    BY <1>1, <1>2, <2>1 DEF Pinned, At
<1>4. InLanes
  BY <1>2 DEF InLanes
<1>5. ASSUME Roomy PROVE AsHeld
  <2>1. Orphans = {}
    BY <1>2 DEF Orphans
  <2>2. Cardinality(Orphans) <= Lanes * (given.crashes - crashes)
    <3>1. Lanes \in Nat /\ given.crashes \in Nat
      BY <1>1, SizeAssumption DEF Scenarios
    <3>2. Lanes * (given.crashes - crashes) = 0
      BY <1>1, <3>1
    <3>3. QED
      BY <2>1, <3>2, FS_EmptySet
  <2>3. QED
    BY <1>1, <1>2, <1>5, <2>2 DEF AsHeld, Roomy
<1>6. QED
  BY <1>3, <1>4, <1>5 DEF PinInv

(* _pin_hprof: a query that starts MAT finds the hprof no newer than any of *)
(* its indexes, and MAT does not parse the dump again, for any number of    *)
(* members, lanes and queries: whenever the queries come one at a time, and *)
(* when several restore a set that is large against what they and crashes   *)
(* leave without its mtime.                                                 *)
THEOREM FreshSetsOnly ==
  ASSUME \A s \in Starts : Protected(s) /\ Settled(s)
  PROVE  Spec => MatSeesFresh
<1>1. Init => Dated /\ PinInv
  BY InitDated, InitPins
<1>2. Inv /\ Dated /\ PinInv /\ [Next]_vars => Dated' /\ PinInv'
  <2>1. ASSUME Inv, Dated, UNCHANGED vars
        PROVE  Dated'
    <3>1. UNCHANGED <<raw, zst>>
      BY <2>1 DEF vars, disk
    <3>2. QED
      BY <2>1, <3>1, FilesUntouched
  <2>2. QED
    BY <2>1, NextDated, NextPins, StutterPins
<1>3. Inv /\ PinInv /\ [Next]_vars =>
        [\A q \in Queries : At(q, "share") /\ query'[q].pc = "mat" => ~Skewed]_vars
  BY SkewFacts DEF PinInv, Pinned
<1>4. Spec => []Inv
  BY Invariant
<1>5. QED
  BY <1>1, <1>2, <1>3, <1>4, PTL DEF Spec, MatSeesFresh
=============================================================================
