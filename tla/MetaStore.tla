----------------------------- MODULE MetaStore -----------------------------
(***************************************************************************)
(* update_meta of the store, and set_tags, which does the same to the file *)
(* of the tags: a read-modify-write of a JSON file by threads of several   *)
(* processes, under a thread lock and a flock, through a temporary file    *)
(* named by the process.  Each writer adds a mark of its own; readers take *)
(* no lock and parse whatever the name leads to.                           *)
(***************************************************************************)
EXTENDS Naturals

CONSTANTS
  Writers,
  ProcessOf,   \* [Writers -> process]
  MaxCrashes   \* bound: processes that die

Processes == {ProcessOf[w] : w \in Writers}

VARIABLES
  file,     \* [whole, marks]: what its name leads to
  tmp,      \* process -> the same of its .meta.json.tmp<pid>
  lock,     \* process -> the writer that holds the thread lock
  flock,    \* the writer that holds the flock
  at,       \* writer -> where it is
  seen,     \* writer -> what it has read, and mutated
  stored,   \* writers whose rename has happened
  crashes

vars == <<file, tmp, lock, flock, at, seen, stored, crashes>>

Nobody == "nobody"
Json(marks) == [whole |-> TRUE, marks |-> marks]
Broken      == [whole |-> FALSE, marks |-> {}]

Idle ==
  /\ file = Json({})
  /\ tmp = [p \in Processes |-> Broken]
  /\ lock = [p \in Processes |-> Nobody]
  /\ flock = Nobody
  /\ at = [w \in Writers |-> "idle"] /\ seen = [w \in Writers |-> {}]
  /\ stored = {} /\ crashes = MaxCrashes

Step(w, from, to) == at[w] = from /\ at' = [at EXCEPT ![w] = to]

(* The id and the tags have been checked by now. *)
Ask(w) == Step(w, "idle", "lock")
          /\ UNCHANGED <<file, tmp, lock, flock, seen, stored, crashes>>

LockThreads(w) ==
  /\ Step(w, "lock", "flock") /\ lock[ProcessOf[w]] = Nobody
  /\ lock' = [lock EXCEPT ![ProcessOf[w]] = w]
  /\ UNCHANGED <<file, tmp, flock, seen, stored, crashes>>

(* Mutant of LockProcesses: the lock of the threads is thought enough. *)
LockNoProcesses(w) ==
  /\ Step(w, "flock", "read")
  /\ UNCHANGED <<file, tmp, lock, flock, seen, stored, crashes>>

LockProcesses(w) ==
  /\ Step(w, "flock", "read") /\ flock = Nobody
  /\ flock' = w
  /\ UNCHANGED <<file, tmp, lock, seen, stored, crashes>>

(* read_meta, user_tags: {} for what does not parse; then mutate. *)
Read(w) ==
  /\ Step(w, "read", "open")
  /\ seen' = [seen EXCEPT ![w] = file.marks \union {w}]
  /\ UNCHANGED <<file, tmp, lock, flock, stored, crashes>>

Open(w) ==
  /\ Step(w, "open", "dump") /\ tmp' = [tmp EXCEPT ![ProcessOf[w]] = Broken]
  /\ UNCHANGED <<file, lock, flock, seen, stored, crashes>>

Dump(w) ==
  /\ Step(w, "dump", "replace") /\ tmp' = [tmp EXCEPT ![ProcessOf[w]] = Json(seen[w])]
  /\ UNCHANGED <<file, lock, flock, seen, stored, crashes>>

Replace(w) ==
  /\ Step(w, "replace", "unlock") /\ stored' = stored \union {w}
  /\ file' = tmp[ProcessOf[w]]
  /\ UNCHANGED <<tmp, lock, flock, seen, crashes>>

(* mutate raises, or the disk is full. *)
Raise(w) ==
  /\ at[w] \in {"read", "open", "dump"} /\ at' = [at EXCEPT ![w] = "unlock"]
  /\ UNCHANGED <<file, tmp, lock, flock, seen, stored, crashes>>

(* lf.close() in the finally, then the end of the with. *)
Unlock(w) ==
  /\ Step(w, "unlock", "done")
  /\ lock' = [lock EXCEPT ![ProcessOf[w]] = Nobody]
  /\ flock' = Nobody
  /\ UNCHANGED <<file, tmp, seen, stored, crashes>>

(* A process dies; the kernel drops its flocks, its temporary files stay.  *)
Crash(p) ==
  LET Own(w) == w \in Writers /\ ProcessOf[w] = p
  IN /\ crashes > 0 /\ crashes' = crashes - 1
     /\ at' = [w \in Writers |-> IF Own(w) /\ at[w] # "done" THEN "dead" ELSE at[w]]
     /\ lock' = [lock EXCEPT ![p] = Nobody]
     /\ flock' = IF Own(flock) THEN Nobody ELSE flock
     /\ UNCHANGED <<file, tmp, seen, stored>>

Update(w) == \/ LockThreads(w) \/ LockProcesses(w) \/ Read(w) \/ Open(w) \/ Dump(w)
             \/ Replace(w) \/ Raise(w) \/ Unlock(w)
Next == (\E w \in Writers : Ask(w) \/ Update(w)) \/ \E p \in Processes : Crash(p)

-----------------------------------------------------------------------------
(* No update is lost: readers, which take no lock, find a whole file at any *)
(* time, and in it every update that was renamed into place, by whatever    *)
(* thread of whatever process, crashes and failing writes included.         *)
UpdatesSurvive ==
  /\ file.whole
  /\ \A w \in stored : w \in file.marks

(* An update that was asked for and has not returned. *)
Busy == \E w \in Writers : at[w] \notin {"idle", "done", "dead"}
=============================================================================
