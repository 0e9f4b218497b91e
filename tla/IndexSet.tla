----------------------------- MODULE IndexSet -----------------------------
(***************************************************************************)
(* The members of one dump's MAT index set and everything that moves them: *)
(* MatRunner.run in the threads of an analysis (restore, pin, run under    *)
(* the shared lock), drop_index_set, the indexes stage, and compact_dir.   *)
(* The server's own compactions wait behind an analysis in the MAT queue,  *)
(* those of another process do not.  .matindex.lock is an flock, exclusive *)
(* for whoever moves files and shared by a MAT run; a crash releases it.   *)
(*                                                                         *)
(* Members are numbered in the order of their names; m is also the mtime   *)
(* member m was built with.                                                *)
(***************************************************************************)
EXTENDS FiniteSets, FiniteSetsExt, Naturals

CONSTANTS
  Last,        \* the members are 1..Last
  Lanes,       \* members decompressed at a time
  Parallel,    \* the queries of an analysis are 1..Parallel
  Starts,      \* how a behaviour may begin, see Scenarios
  MaxVersion   \* bound: versions of a member

Members == 1..Last
Queries == 1..Parallel

(* A file is its content, a version from 1 on, and its mtime: what the      *)
(* build gave it, that of a rewrite, or "now" from a rename to its utime.   *)
Built        == Last + 1
Rewritten(v) == Built + v
Unstamped    == Rewritten(MaxVersion) + 1
File(v, t)   == [ver |-> v, mtime |-> t]
Missing      == File(0, 0)

(* rotten: members whose archive does not decompress; grows: members that   *)
(* MAT completes while it runs; held: the set is there; listed: the release *)
(* lists its members and their sizes; published: a source offers the set.   *)
Scenarios ==
  [rotten : SUBSET Members, grows : SUBSET Members,
   queries : SUBSET Queries \ {{}}, crashes : Nat, hprof : 1..Built,
   held : BOOLEAN, listed : BOOLEAN, published : BOOLEAN, compacts : BOOLEAN]

(* What the code protects a set against: compactions and crashes while the  *)
(* set is there; corrupt archives when one query meets them and nobody else *)
(* is at the files.  A compaction may yet take from a set that MAT has      *)
(* completed the agreement with its release (CompactionKeepsDone).          *)
Protected(s) ==
  /\ s.rotten # {} =>
       s.held /\ s.crashes = 0 /\ ~s.compacts /\ \E q \in Queries : s.queries = {q}
  /\ ~s.held => s.crashes = 0
  /\ s.compacts /\ s.listed /\ s.published => s.grows = {}

(* Where a pin may be surveyed without the lock: one query at a time, or an  *)
(* hprof older than its indexes, or a set that nothing but restores change,  *)
(* with more members than they leave without their mtime at a time: those at *)
(* work, and those a crash has ended.                                        *)
Settled(s) ==
  \/ \E q \in Queries : s.queries = {q}
  \/ s.hprof = 1
  \/ /\ s.held /\ s.rotten = {} /\ ~s.compacts /\ s.hprof = Built
     /\ Last > Lanes * (1 + s.crashes)

ASSUME SizeAssumption == {Last, Lanes, Parallel, MaxVersion} \subseteq Nat \ {0}
ASSUME StartsAssumption == Starts \subseteq Scenarios

VARIABLES
  raw,       \* the *.index files
  zst,       \* the *.index.zst files
  rotten,    \* members whose archive does not decompress
  hprof,     \* mtime of the hprof
  manifest,  \* meta["idx_manifest"] is recorded
  ex, sh,    \* who holds .matindex.lock exclusively, and shared
  job,       \* the analysis: pc, a retry or not, the files it is dropping
  query,     \* per query: pc, members to restore, to stamp, the round
  compact,   \* the compaction: pc, members left
  stage,     \* the indexes stage: pc, members left
  crashes,   \* crashes to come
  given      \* the scenario

disk  == <<raw, zst, rotten, hprof, manifest>>
lock  == <<ex, sh>>
vars  == <<disk, lock, job, query, compact, stage, crashes, given>>

-----------------------------------------------------------------------------
Here(files)      == {m \in Members : files[m] # Missing}
Put(files, m, f) == [files EXCEPT ![m] = f]
Present          == Here(raw) \union Here(zst)

(* Holders of the exclusive lock other than the queries. *)
Nobody    == 0
Compactor == Parallel + 1
Stager    == Parallel + 2
LockFree  == ex = Nobody /\ sh = {}

NoQuery == [pc |-> "idle", todo |-> {}, stamp |-> {}, round |-> 0]
NoJob   == [pc |-> "idle", again |-> FALSE, raws |-> {}, zsts |-> {}]
NoWork  == [pc |-> "idle", todo |-> {}]

Init ==
  /\ given \in Starts
  /\ rotten = given.rotten /\ hprof = given.hprof
  /\ manifest = (given.held /\ given.listed) /\ crashes = given.crashes
  /\ raw = [m \in Members |-> Missing]
  /\ zst = [m \in Members |-> IF given.held THEN File(1, m) ELSE Missing]
  /\ ex = Nobody /\ sh = {}
  /\ job = NoJob
  /\ query = [q \in Queries |-> NoQuery]
  /\ compact = NoWork /\ stage = NoWork

At(q, pc)    == query[q].pc = pc
Moves(q, pc) == query' = [query EXCEPT ![q].pc = pc]
Ends(q, pc)  == query' = [query EXCEPT ![q] = [NoQuery EXCEPT !.pc = pc]]

-----------------------------------------------------------------------------
(* MatRunner.run.  restore_indexes lists what is missing without the lock.  *)
ListMissing(q) ==
  /\ At(q, "restore")
  /\ LET todo == Here(zst) \ Here(raw) IN
     query' = [query EXCEPT ![q].todo = todo,
                 ![q].pc = IF todo = {} THEN "pin" ELSE "restore_wait"]
  /\ UNCHANGED <<disk, lock, job, compact, stage, crashes, given>>

(* Under the lock the list is checked again; an archive that another        *)
(* restore has deleted meanwhile is an OSError when its size is asked.      *)
LockRestore(q) ==
  /\ At(q, "restore_wait") /\ LockFree
  /\ LET todo == query[q].todo \ Here(raw) IN
     IF todo # {} /\ todo \subseteq Here(zst)
       THEN /\ query' = [query EXCEPT ![q].pc = "restoring", ![q].todo = todo]
            /\ ex' = q
       ELSE /\ IF todo = {} THEN query' = [query EXCEPT ![q].pc = "pin", ![q].todo = {}]
               ELSE Ends(q, "failed")
            /\ UNCHANGED ex
  /\ UNCHANGED <<disk, sh, job, compact, stage, crashes, given>>

(* A pool of Lanes threads takes the members in order. *)
Decompressing(q, m) ==
  /\ query[q].pc \in {"restoring", "spoiled"} /\ m \in query[q].todo
  /\ Cardinality({k \in query[q].todo \union query[q].stamp : k < m}) < Lanes

(* _decompress_one: the rename, then the mtime of the archive. *)
RestoreOne(q, m) ==
  /\ Decompressing(q, m) /\ m \notin rotten
  /\ raw' = Put(raw, m, File(zst[m].ver, Unstamped))
  /\ query' = [query EXCEPT ![q].todo = @ \ {m}, ![q].stamp = @ \union {m}]
  /\ UNCHANGED <<zst, rotten, hprof, manifest, lock, job, compact, stage,
                 crashes, given>>

StampOne(q, m) ==
  /\ m \in query[q].stamp
  /\ raw' = Put(raw, m, File(raw[m].ver, zst[m].mtime))
  /\ query' = [query EXCEPT ![q].stamp = @ \ {m}]
  /\ UNCHANGED <<zst, rotten, hprof, manifest, lock, job, compact, stage,
                 crashes, given>>

(* A corrupt archive is deleted; those after it may be restored or not. *)
MeetCorrupt(q, m) ==
  /\ Decompressing(q, m) /\ m \in rotten
  /\ zst' = Put(zst, m, Missing)
  /\ rotten' = rotten \ {m}
  /\ query' = [query EXCEPT ![q].pc = "spoiled", ![q].todo = @ \ {m}]
  /\ UNCHANGED <<raw, hprof, manifest, lock, job, compact, stage, crashes, given>>

EndRestore(q) ==
  /\ query[q].stamp = {}
  /\ \/ At(q, "restoring") /\ query[q].todo = {} /\ Moves(q, "pin")
     \/ At(q, "spoiled") /\ Ends(q, "corrupt")
  /\ ex' = Nobody
  /\ UNCHANGED <<disk, sh, job, compact, stage, crashes, given>>

(* Mutant of Oldest. *)
Newest == Max({raw[m].mtime : m \in Here(raw)})

(* _pin_hprof: MAT parses again when the hprof is newer than its indexes.   *)
(* The survey is made without the lock, and once more with it.              *)
Oldest == Min({raw[m].mtime : m \in Here(raw)})
Skewed == Here(raw) # {} /\ hprof > Oldest

SurveyPin(q) ==
  /\ At(q, "pin")
  /\ Moves(q, IF Skewed THEN "pin_wait" ELSE "share")
  /\ UNCHANGED <<disk, lock, job, compact, stage, crashes, given>>

Pin(q) ==
  /\ At(q, "pin_wait") /\ LockFree
  /\ hprof' = IF Skewed THEN Oldest ELSE hprof
  /\ Moves(q, "share")
  /\ UNCHANGED <<raw, zst, rotten, manifest, lock, job, compact, stage, crashes,
                 given>>

(* Mutant of Retry: the round is not counted. *)
RetryForEver(q) == Moves(q, "restore")

(* Three rounds in all. *)
Retry(q) ==
  IF query[q].round = 2 THEN Ends(q, "failed")
  ELSE query' = [query EXCEPT ![q].round = @ + 1, ![q].pc = "restore"]

(* Mutant of Share: the lock is taken and nothing looked at again. *)
ShareUnchecked(q) ==
  /\ At(q, "share") /\ ex = Nobody
  /\ sh' = sh \union {q} /\ Moves(q, "mat")
  /\ UNCHANGED <<disk, ex, job, compact, stage, crashes, given>>

(* The shared lock is held for the whole run.  A compaction may have come   *)
(* before it: then everything is tried again.                               *)
Share(q) ==
  /\ At(q, "share") /\ ex = Nobody
  /\ IF Here(zst) \subseteq Here(raw)
       THEN sh' = sh \union {q} /\ Moves(q, "mat")
       ELSE UNCHANGED sh /\ Retry(q)
  /\ UNCHANGED <<disk, ex, job, compact, stage, crashes, given>>

(* MAT may complete its indexes while it runs; it answers or not. *)
Rewrite(q, m) ==
  /\ At(q, "mat")
  /\ m \in given.grows \intersect Here(raw) /\ raw[m].ver < MaxVersion
  /\ raw' = Put(raw, m, File(raw[m].ver + 1, Rewritten(raw[m].ver + 1)))
  /\ UNCHANGED <<zst, rotten, hprof, manifest, lock, job, query, compact, stage,
                 crashes, given>>

EndRun(q) ==
  /\ At(q, "mat")
  /\ sh' = sh \ {q}
  /\ \E pc \in {"done", "failed"} : Ends(q, pc)
  /\ UNCHANGED <<disk, ex, job, compact, stage, crashes, given>>

Query(q) ==
  \/ ListMissing(q) \/ LockRestore(q) \/ EndRestore(q) \/ SurveyPin(q) \/ Pin(q)
  \/ Share(q) \/ EndRun(q)
  \/ \E m \in Members : RestoreOne(q, m) \/ StampOne(q, m) \/ MeetCorrupt(q, m)

-----------------------------------------------------------------------------
(* The analysis around its queries (_par). *)
Running(again) ==
  /\ job' = [NoJob EXCEPT !.pc = "run", !.again = again]
  /\ query' = [q \in Queries |->
                 IF q \in given.queries THEN [NoQuery EXCEPT !.pc = "restore"]
                 ELSE NoQuery]

(* Presence of files is all _has_indexes asks. *)
Analyze ==
  /\ job.pc = "idle"
  /\ IF Present # {} THEN Running(FALSE)
     ELSE job' = [NoJob EXCEPT !.pc = "await"] /\ UNCHANGED query
  /\ UNCHANGED <<disk, lock, compact, stage, crashes, given>>

(* All queries are waited for, the error of the first of them that has one  *)
(* is raised; only a CorruptIndexError drops the set, and only once.        *)
Over      == \A q \in given.queries : query[q].pc \in {"done", "corrupt", "failed"}
Erroneous == {q \in given.queries : query[q].pc \in {"corrupt", "failed"}}

EndAnalysis ==
  /\ job.pc = "run" /\ Over
  /\ job' = IF Erroneous # {} /\ At(Min(Erroneous), "corrupt") /\ ~job.again
              THEN [pc |-> "drop", again |-> TRUE,
                    raws |-> Here(raw), zsts |-> Here(zst)]
              ELSE NoJob
  /\ query' = [q \in Queries |-> NoQuery]
  /\ UNCHANGED <<disk, lock, compact, stage, crashes, given>>

(* drop_index_set: the listed files in turn and without the lock; one that  *)
(* is gone is an OSError, and the analysis fails.                           *)
DropRaw ==
  /\ job.pc = "drop" /\ job.raws # {}
  /\ LET m == Min(job.raws) IN
       /\ raw' = Put(raw, m, Missing)
       /\ job' = IF m \in Here(raw) THEN [job EXCEPT !.raws = @ \ {m}] ELSE NoJob
  /\ UNCHANGED <<zst, rotten, hprof, manifest, lock, query, compact, stage,
                 crashes, given>>

DropArchive ==
  /\ job.pc = "drop" /\ job.raws = {} /\ job.zsts # {}
  /\ LET m == Min(job.zsts) IN
       /\ zst' = Put(zst, m, Missing)
       /\ rotten' = rotten \ {m}
       /\ job' = IF m \in Here(zst) THEN [job EXCEPT !.zsts = @ \ {m}] ELSE NoJob
  /\ UNCHANGED <<raw, hprof, manifest, lock, query, compact, stage, crashes, given>>

EndDrop ==
  /\ job.pc = "drop" /\ job.raws = {} /\ job.zsts = {}
  /\ job' = [job EXCEPT !.pc = "await"]
  /\ UNCHANGED <<disk, lock, query, compact, stage, crashes, given>>

(* An observation: raw files are trusted, archives when they agree with the *)
(* manifest.  Another version has another size.                             *)
AsReleased == \A m \in Members : zst[m].ver = 1
Observed   == Here(raw) # {} \/ (Here(zst) # {} /\ (manifest => AsReleased))

(* await_indexes ends when a pass has found the set. *)
Resume ==
  /\ job.pc = "await" /\ Observed
  /\ Running(job.again)
  /\ UNCHANGED <<disk, lock, compact, stage, crashes, given>>

Analysis == Analyze \/ EndAnalysis \/ DropRaw \/ DropArchive \/ EndDrop \/ Resume

-----------------------------------------------------------------------------
(* compact_dir.  The list is made without the lock. *)
Compacting(c) ==
  compact' = c /\ UNCHANGED <<hprof, manifest, sh, job, query, stage, crashes, given>>

ListRaws ==
  /\ given.compacts /\ compact.pc = "idle" /\ Here(raw) # {}
  /\ Compacting([pc |-> "wait", todo |-> Here(raw)])
  /\ UNCHANGED <<raw, zst, rotten, ex>>

LockCompact ==
  /\ compact.pc = "wait" /\ LockFree
  /\ ex' = Compactor
  /\ Compacting([compact EXCEPT !.pc = "next"])
  /\ UNCHANGED <<raw, zst, rotten>>

Current   == Min(compact.todo)

(* Mutant of Untouched: any archive will do. *)
Archived == Current \in Here(zst)

Untouched == Current \in Here(zst) /\ zst[Current].mtime = raw[Current].mtime
Due       == compact.pc = "next" /\ compact.todo # {} /\ Current \in Here(raw)

(* Unchanged since it was archived: the mtimes agree. *)
DropUntouched ==
  /\ Due /\ Untouched
  /\ raw' = Put(raw, Current, Missing)
  /\ Compacting([compact EXCEPT !.todo = @ \ {Current}])
  /\ UNCHANGED <<zst, rotten, ex>>

(* _compress_one: the archive is renamed into place, gets the mtime of the  *)
(* raw file, and only then the raw file is removed.                         *)
Archive ==
  /\ Due /\ ~Untouched
  /\ zst' = Put(zst, Current, File(raw[Current].ver, Unstamped))
  /\ rotten' = rotten \ {Current}
  /\ Compacting([compact EXCEPT !.pc = "stamp"])
  /\ UNCHANGED <<raw, ex>>

StampArchive ==
  /\ compact.pc = "stamp"
  /\ zst' = Put(zst, Current, File(zst[Current].ver, raw[Current].mtime))
  /\ Compacting([compact EXCEPT !.pc = "remove"])
  /\ UNCHANGED <<raw, rotten, ex>>

RemoveRaw ==
  /\ compact.pc = "remove"
  /\ raw' = Put(raw, Current, Missing)
  /\ Compacting([pc |-> "next", todo |-> compact.todo \ {Current}])
  /\ UNCHANGED <<zst, rotten, ex>>

(* All done, or a file it had listed is gone. *)
EndCompact ==
  /\ compact.pc = "next" /\ (compact.todo # {} => Current \notin Here(raw))
  /\ ex' = Nobody
  /\ Compacting(NoWork)
  /\ UNCHANGED <<raw, zst, rotten>>

Compact == \/ ListRaws \/ LockCompact \/ DropUntouched \/ Archive \/ StampArchive
           \/ RemoveRaw \/ EndCompact

-----------------------------------------------------------------------------
(* The indexes stage, submitted by a pass that finds no set.  It looks for  *)
(* itself: a set that is there by now ends it, archives that contradict the *)
(* release are deleted, without the lock.                                   *)
Staging(s) ==
  stage' = s /\ UNCHANGED <<raw, hprof, sh, job, query, compact, crashes, given>>

Acquire ==
  /\ given.published /\ stage.pc = "idle" /\ ~Observed
  /\ Staging([pc |-> "look", todo |-> Members])
  /\ UNCHANGED <<zst, rotten, manifest, ex>>

Inspect ==
  /\ stage.pc = "look"
  /\ IF Here(raw) # {} \/ (Here(zst) # {} /\ (given.listed => AsReleased))
       THEN UNCHANGED <<zst, rotten>> /\ Staging(NoWork)
       ELSE LET kept == {m \in Here(zst) : given.listed => zst[m].ver = 1} IN
            /\ zst' = [m \in Members |-> IF m \in kept THEN zst[m] ELSE Missing]
            /\ rotten' = rotten \intersect kept
            /\ Staging([stage EXCEPT !.pc = "fetch"])
  /\ UNCHANGED <<manifest, ex>>

(* Assumed: a download that a tick starts in the middle of it takes longer   *)
(* than an analysis needs to end its restore and to drop the corrupt set.   *)
Discarding == job.pc = "drop"
                \/ \E q \in Queries : query[q].pc \in {"spoiled", "corrupt"}

LockCommit ==
  /\ stage.pc = "fetch" /\ ~Discarding /\ LockFree
  /\ ex' = Stager
  /\ Staging([stage EXCEPT !.pc = "commit"])
  /\ UNCHANGED <<zst, rotten, manifest>>

(* commit_untar: one rename per member, in no particular order. *)
CommitOne(m) ==
  /\ stage.pc = "commit" /\ m \in stage.todo
  /\ zst' = Put(zst, m, File(1, m))
  /\ rotten' = rotten \ {m}
  /\ Staging([stage EXCEPT !.todo = @ \ {m}])
  /\ UNCHANGED <<manifest, ex>>

EndCommit ==
  /\ stage.pc = "commit" /\ stage.todo = {}
  /\ ex' = Nobody
  /\ Staging([stage EXCEPT !.pc = "record"])
  /\ UNCHANGED <<zst, rotten, manifest>>

RecordManifest ==
  /\ stage.pc = "record"
  /\ manifest' = (manifest \/ given.listed)
  /\ Staging(NoWork)
  /\ UNCHANGED <<zst, rotten, ex>>

Stage == \/ Acquire \/ Inspect \/ LockCommit \/ EndCommit \/ RecordManifest
         \/ \E m \in Members : CommitOne(m)
-----------------------------------------------------------------------------
(* The server ends with its MAT processes, or the other process ends; the   *)
(* kernel releases the locks of the one that does.                          *)
CrashServer ==
  /\ crashes > 0 /\ crashes' = crashes - 1
  /\ ex' = IF ex = Compactor THEN ex ELSE Nobody
  /\ sh' = {}
  /\ job' = NoJob /\ query' = [q \in Queries |-> NoQuery] /\ stage' = NoWork
  /\ UNCHANGED <<disk, compact, given>>

CrashCompactor ==
  /\ crashes > 0 /\ crashes' = crashes - 1
  /\ compact.pc # "idle"
  /\ ex' = IF ex = Compactor THEN Nobody ELSE ex
  /\ compact' = NoWork
  /\ UNCHANGED <<disk, sh, job, query, stage, given>>

Next ==
  \/ Analysis \/ Compact \/ Stage \/ CrashServer \/ CrashCompactor
  \/ \E q \in Queries : Query(q) \/ \E m \in Members : Rewrite(q, m)

Spec == Init /\ [][Next]_vars

(* Threads run on, the kernel grants a lock that is asked for again and     *)
(* again, and the timers' passes find the set that is there or missing.     *)
FairSpec ==
  /\ Spec
  /\ SF_vars(job.pc # "idle" /\ Analysis) /\ SF_vars(Compact) /\ SF_vars(Stage)
  /\ \A q \in Queries : SF_vars(Query(q))

-----------------------------------------------------------------------------
(* LAYOUT.md, extract.py: MAT is never offered a partial index set, however *)
(* restores, compactions, commits and crashes fall.                         *)
MatSeesWhole == \A q \in Queries : At(q, "mat") => Here(raw) = Members

(* _pin_hprof: a query that starts MAT finds the hprof no newer than the    *)
(* indexes, or MAT parses the dump again.                                   *)
MatSeesFresh ==
  [][\A q \in Queries : At(q, "share") /\ query'[q].pc = "mat" => ~Skewed]_vars

(* The mtime convention: what MAT wrote to a member survives compactions,   *)
(* restores and crashes; only a set that is given up loses it.              *)
Content(m) == IF m \in Here(raw) THEN raw[m].ver ELSE zst[m].ver
GivenUp    == job.pc = "drop" \/ stage.pc = "commit" \/ ~Observed

WritesSurvive ==
  [][\A m \in Members \ rotten : GivenUp \/ Content(m)' >= Content(m)]_vars

(* An analysis, whose set may turn out corrupt, does not hold the serial    *)
(* worker for ever.                                                         *)
AnalysisEnds == job.pc # "idle" ~> job.pc = "idle"

(* store.compact(): the indexes stay DONE throughout a compaction.          *)
CompactionKeepsDone == [][Compact /\ Observed => Observed']_vars
=============================================================================
