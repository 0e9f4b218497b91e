----------------------------- MODULE DumpStore -----------------------------
(***************************************************************************)
(* FsDumpStore for one dump: the persisted machine, the artifacts on disk, *)
(* the per-dump runtime (_Rt), the reconcile pass, the stage jobs of the   *)
(* download pool and of the serial MAT worker, the HTTP threads that call  *)
(* start_download, cancel and analyze, the timers, late publication by the *)
(* remote sources, and a server crash.                                     *)
(*                                                                         *)
(* One action per step another thread can come between.  A pass is cut at  *)
(* the reads it makes (disk, job registry, runtime and remote), at its one *)
(* locked read-modify-write of the machine, and at each job it submits; a  *)
(* stage at the artifact it lands, the state it reports and the kick.      *)
(* Left to other modules: how reconcile() serializes passes (Reconcile),   *)
(* the bytes of a download, and the members of an index set: here a set is *)
(* whole or partial.                                                       *)
(***************************************************************************)
EXTENDS Machine, FiniteSets, Naturals

CONSTANTS
  Clients,  \* HTTP requests, each served by a thread of its own
  Starts    \* how a behaviour may begin, see Scenarios

(* users: the requests that come; ops: what they ask; arrived: components   *)
(* an earlier process completed; published, publishable: those the sources  *)
(* offer from the beginning, and sooner or later; may_fail: events that may *)
(* go wrong; tick_mid_pass: a timer may fire while a pass runs; crashes:    *)
(* bound on server crashes.                                                 *)
Scenarios ==
  [users : SUBSET Clients,
   ops : SUBSET {"start", "cancel", "analyze", "cancel_job"},
   arrived : SUBSET COMPONENTS, published : SUBSET COMPONENTS,
   publishable : SUBSET COMPONENTS,
   may_fail : SUBSET {"stage", "lookup", "deadline", "corrupt"},
   tick_mid_pass : BOOLEAN, crashes : Nat]

ASSUME StartsAssumption ==
  /\ Starts \subseteq Scenarios
  /\ \A s \in Starts : s.published \subseteq s.publishable

VARIABLES
  dir,        \* the dump dir exists
  mach,       \* meta["machine"]
  disk,       \* the artifacts at their final paths
  scratch,    \* components with parts or staging under .dl/ and .untar/
  rt,         \* _Rt: abort, dirty, allow_local, inline_indexes
  pass,       \* the reconcile pass in progress, and who runs it
  job,        \* the phase of each job; "none" when it is not active
  retried,    \* the running analysis has already met a corrupt index
  client,     \* where each HTTP thread is
  published,  \* components some source offers now
  crashes,    \* crashes to come
  given       \* the scenario

persistent == <<dir, mach, disk, scratch>>
world == <<published, crashes, given>>
vars == <<dir, mach, disk, scratch, rt, pass, job, retried, client, world>>

-----------------------------------------------------------------------------
(* Jobs: the stage identity is (kind, detail); `_LIVE` says which           *)
(* components an active one drives.                                         *)
DownloadJobs == {"dump", "data", "indexes"}
MatJobs      == {"bootstrap", "compact", "analyze"}
Jobs         == DownloadJobs \union MatJobs

ASSUME ClientsAssumption ==
  Clients \intersect (Jobs \union {"none", "timer", "startup"}) = {}

LiveOf == [dump |-> {"dump"}, data |-> {"data"}, indexes |-> {"indexes"},
           bootstrap |-> {"data", "indexes"}, compact |-> {}, analyze |-> {}]

Active(j)  == job[j] # "none"
Running(j) == job[j] \notin {"none", "queued"}

Live == (UNION {LiveOf[j] : j \in {k \in Jobs : Active(k)}})
          \union (IF rt.inline THEN {"indexes"} ELSE {})

MatIdle == \A j \in MatJobs : ~Active(j)

Submit(j) == job' = [job EXCEPT ![j] = IF @ = "none" THEN "queued" ELSE @]

(* Disk truth: `partial` is what no observation tells, an index set that    *)
(* misses members.                                                          *)
Disks == [hprof : BOOLEAN, data : BOOLEAN, raws : BOOLEAN, zsts : BOOLEAN,
          debris : BOOLEAN, marker : BOOLEAN, partial : BOOLEAN]

EmptyDisk == [hprof |-> FALSE, data |-> FALSE, raws |-> FALSE, zsts |-> FALSE,
              debris |-> FALSE, marker |-> FALSE, partial |-> FALSE]

Observed == [hprof |-> disk.hprof, data |-> disk.data, raws |-> disk.raws,
             zsts |-> disk.zsts, zsts_valid |-> "unknown",
             debris |-> disk.debris, compacted_marker |-> disk.marker]

HasIndexes == disk.raws \/ disk.zsts

NoObs == [hprof |-> FALSE, data |-> FALSE, raws |-> FALSE, zsts |-> FALSE,
          zsts_valid |-> "unknown", debris |-> FALSE,
          compacted_marker |-> FALSE]

NoPass == [pc |-> "none", owner |-> "none", obs |-> NoObs, live |-> {},
           view |-> Unqueried, allow |-> FALSE, acts |-> <<>>,
           answered |-> FALSE, settled |-> FALSE]

(* The server starts: without a dump dir, or over one whose given.arrived   *)
(* components are complete (an index set arrives compacted).                *)
Recorded(c) == IF c \in given.arrived
                 THEN [s |-> DONE, compacted |-> c = "indexes"] ELSE Comp(New)

Init ==
  /\ given \in Starts
  /\ dir = (given.arrived # {})
  /\ mach = [wanted |-> dir, want_indexes |-> FALSE, dump |-> Recorded("dump"),
             data |-> Recorded("data"), indexes |-> Recorded("indexes")]
  /\ disk = [EmptyDisk EXCEPT !.hprof = "dump" \in given.arrived,
                              !.data = "data" \in given.arrived,
                              !.zsts = "indexes" \in given.arrived,
                              !.marker = "indexes" \in given.arrived]
  /\ scratch = {}
  /\ rt = [abort |-> FALSE, dirty |-> FALSE, allow |-> FALSE, inline |-> FALSE]
  /\ pass = NoPass
  /\ job = [j \in Jobs |-> "none"]
  /\ retried = FALSE
  /\ client = [c \in Clients |-> "idle"]
  /\ published = given.published
  /\ crashes = given.crashes

(* Mutant of Transitioned: the outcome is written whatever the state is. *)
Overwritten(m, c, expect, to) == [m EXCEPT ![c] = to]

(* machine_transition: a stage's outcome, applied only when the component   *)
(* is still in an expected state.                                           *)
Transitioned(m, c, expect, to) ==
  IF m[c].s \in expect THEN [m EXCEPT ![c] = to] ELSE m

-----------------------------------------------------------------------------
(* reconcile(): the caller raises the flag; it becomes the runner of the    *)
(* passes when the lock is free and goes on otherwise.                      *)
LockFree == pass.pc = "none"

Kick(who, allow) ==
  /\ rt' = [rt EXCEPT !.dirty = TRUE, !.allow = @ \/ allow]
  /\ pass' = IF LockFree THEN [NoPass EXCEPT !.pc = "check", !.owner = who]
             ELSE pass

AtPass(pc) == pass.pc = pc

(* The pass begins: the flag is lowered and the disk observed.  What can    *)
(* happen around the flag itself is Reconcile's subject.                    *)
PassObserve ==
  /\ AtPass("check") /\ rt.dirty
  /\ rt' = [rt EXCEPT !.dirty = FALSE]
  /\ pass' = [pass EXCEPT !.pc = "live", !.obs = Observed]
  /\ UNCHANGED <<persistent, job, retried, client, world>>

PassLive ==
  /\ AtPass("live")
  /\ pass' = [pass EXCEPT !.pc = "view", !.live = Live]
  /\ UNCHANGED <<persistent, rt, job, retried, client, world>>

(* _remote_view: asked only when some component could act on the answer. *)
NeedsRemote(live) ==
  \/ mach.wanted /\ mach.dump.s \notin TERMINAL /\ "dump" \notin live
  \/ mach.wanted /\ mach.data.s \notin TERMINAL /\ "data" \notin live
  \/ /\ mach.wanted \/ mach.want_indexes
     /\ mach.indexes.s \notin TERMINAL
     /\ "indexes" \notin live \/ mach.indexes.s = PARSING

PossibleViews(live) ==
  LET answer == [queried |-> TRUE, failed |-> FALSE,
                 hprof |-> "dump" \in published, data |-> "data" \in published,
                 indexes |-> "indexes" \in published]
      failure == [Unqueried EXCEPT !.queried = TRUE, !.failed = TRUE]
  IN IF ~NeedsRemote(live) THEN {Unqueried}
     ELSE {answer} \union IF "lookup" \in given.may_fail THEN {failure} ELSE {}

(* The abort flag is reset once nothing is live, the one-shot allow_local   *)
(* taken, the sources asked.                                                *)
PassView ==
  /\ AtPass("view")
  /\ rt' = [rt EXCEPT !.abort = @ /\ pass.live # {}, !.allow = FALSE]
  /\ \E v \in PossibleViews(pass.live) :
       pass' = [pass EXCEPT !.pc = "decide", !.view = v, !.allow = rt.allow]
  /\ UNCHANGED <<persistent, job, retried, client, world>>

(* Mutant of Settled: stages are not looked for. *)
SettledByRecord(m, live) == \A c \in COMPONENTS : m[c].s = DONE

(* Everything DONE and nothing running when the pass looked. *)
Settled(m, live) == live = {} /\ \A c \in COMPONENTS : m[c].s = DONE

(* decide + persist, under the meta lock: the inputs may be stale, the      *)
(* machine is not.                                                          *)
PassDecide ==
  /\ AtPass("decide")
  /\ LET d == Decide(mach, [obs |-> pass.obs, live |-> pass.live,
                            remote |-> pass.view, allow_local |-> pass.allow,
                            mat_idle |-> MatIdle, compact_hold |-> FALSE])
     IN /\ mach' = d.m
        /\ pass' = [pass EXCEPT
                      !.pc = "exec", !.acts = d.acts, !.obs = NoObs,
                      !.live = {}, !.view = Unqueried, !.allow = FALSE,
                      !.settled = Settled(d.m, pass.live)]
  /\ UNCHANGED <<dir, disk, scratch, rt, job, retried, client, world>>

JobOf == [acquire_dump |-> "dump", acquire_data |-> "data",
          acquire_indexes |-> "indexes", bootstrap |-> "bootstrap",
          compact |-> "compact"]

(* store.compact refuses a dump that is not READY; the exception ends the   *)
(* whole reconcile call.                                                    *)
Refused(a) == a = A_COMPACT /\ Project(mach, FALSE) # "ready"

(* A client whose own passes submit a job, or raise, has its answer.        *)
Answers(a) == pass.answered \/ (pass.owner \in Clients /\ a # A_PREEMPT_PARSE
                                  /\ a # A_PARSE)

PassExec ==
  /\ AtPass("exec") /\ pass.acts # <<>>
  /\ LET a == Head(pass.acts) IN
     /\ pass' = IF Refused(a)
                  THEN [pass EXCEPT !.pc = "release", !.acts = <<>>,
                                    !.answered = Answers(a)]
                  ELSE [pass EXCEPT !.acts = Tail(@),
                                    !.answered = Answers(a),
                                    !.settled = @ /\ a \notin DOMAIN JobOf]
     /\ IF a \in DOMAIN JobOf /\ ~Refused(a)
          THEN Submit(JobOf[a]) ELSE UNCHANGED job
     /\ rt' = [rt EXCEPT !.abort = @ \/ a = A_PREEMPT_PARSE]
  /\ UNCHANGED <<persistent, retried, client, world>>

(* The quiescent sweep, then the loop condition again. *)
PassSweep ==
  /\ AtPass("exec") /\ pass.acts = <<>>
  /\ scratch' = IF pass.settled THEN {} ELSE scratch
  /\ pass' = [pass EXCEPT !.pc = "check", !.settled = FALSE]
  /\ UNCHANGED <<dir, mach, disk, rt, job, retried, client, world>>

(* Mutant of JobAfterKick: a job ends in a state nobody knows. *)
JobEndsElsewhere == [kick |-> "ended", kick_parsed |-> "parse_over",
                     kick_failed |-> "parse_lost", kick_dropped |-> "await"]

(* Where a caller goes on when its reconcile call returns. *)
JobAfterKick == [kick |-> "none", kick_parsed |-> "parse_over",
                 kick_failed |-> "parse_lost", kick_dropped |-> "await"]

ClientAfterKick == [start_fresh |-> "report", start_retry |-> "report",
                    cancel_kick |-> "over", request_kick |-> "submit"]

JobReturns(j) == job' = [job EXCEPT ![j] = JobAfterKick[@]]

(* start_download has its answer: a job of its own passes, or the exception *)
(* of a refused compaction.                                                 *)
ClientReturns(c, answered) ==
  client' = [client EXCEPT ![c] =
               IF answered /\ @ \in {"start_fresh", "start_retry"}
                 THEN "over" ELSE ClientAfterKick[@]]

(* The loop ends with the flag down, or by an exception.                    *)
PassRelease ==
  /\ AtPass("release") \/ (AtPass("check") /\ ~rt.dirty)
  /\ pass' = NoPass
  /\ IF pass.owner \in Jobs THEN JobReturns(pass.owner) ELSE UNCHANGED job
  /\ IF pass.owner \in Clients
       THEN ClientReturns(pass.owner, pass.answered) ELSE UNCHANGED client
  /\ UNCHANGED <<persistent, rt, retried, world>>

Pass == \/ PassObserve \/ PassLive \/ PassView \/ PassDecide
        \/ PassExec \/ PassSweep \/ PassRelease

(* kernel: two timers kick every local dump; a source publishes late.       *)
Starting == pass.owner = "startup"

Tick ==
  /\ dir /\ ~Starting
  /\ LockFree \/ given.tick_mid_pass
  /\ Kick("timer", FALSE)
  /\ UNCHANGED <<persistent, job, retried, client, world>>

Publish(c) ==
  /\ c \in given.publishable \ published
  /\ published' = published \union {c}
  /\ UNCHANGED <<persistent, rt, pass, job, retried, client, crashes, given>>

-----------------------------------------------------------------------------
(* Jobs.  Workers: two for the download queue (each stage is one job, three *)
(* may be queued), one serial worker for the MAT queue.                     *)
WorkerFree(j) ==
  IF j \in DownloadJobs
    THEN Cardinality({k \in DownloadJobs : Running(k)}) < 2
    ELSE \A k \in MatJobs : ~Running(k)

Enters(j, phase) == job' = [job EXCEPT ![j] = phase]

Working(j) == job[j] = "work"

(* A data or indexes stage whose artifact is already there returns at once; *)
(* the others make their scratch in .dl/ ("dl") and fetch.  The indexes     *)
(* stage first drops the raw set of an interrupted parse.                   *)
Untrusted == disk.debris /\ ~disk.zsts

Begin(j) ==
  /\ j \in DownloadJobs
  /\ job[j] = "queued" /\ WorkerFree(j)
  /\ disk' = IF j = "indexes" /\ Untrusted
               THEN [disk EXCEPT !.raws = FALSE, !.debris = FALSE,
                                 !.partial = FALSE]
               ELSE disk
  /\ LET d == disk' IN
     IF \/ j = "data" /\ d.data
        \/ j = "indexes" /\ (d.raws \/ d.zsts)
       THEN /\ Enters(j, IF j = "indexes" /\ d.raws THEN "landed_raws"
                         ELSE "landed")
            /\ UNCHANGED scratch
       ELSE Enters(j, "work") /\ scratch' = scratch \union {j, "dl"}
  /\ UNCHANGED <<dir, mach, rt, pass, retried, client, world>>

(* The bytes arrived and were verified; one rename (the index set: renames  *)
(* under the index lock) puts the artifact in place.  A stage whose parts   *)
(* were removed under it fails, or fetches them again in its next attempt   *)
(* if a sibling has made .dl/ again.                                        *)
Landing(j) ==
  CASE j = "dump"    -> [disk EXCEPT !.hprof = TRUE]
    [] j = "data"    -> [disk EXCEPT !.data = TRUE]
    [] j = "indexes" -> [disk EXCEPT !.zsts = TRUE, !.marker = TRUE,
                                     !.partial = disk.raws /\ disk.partial]

Land(j) ==
  /\ j \in DownloadJobs /\ Working(j)
  /\ j \in scratch \/ (j = "dump" /\ disk.hprof)
  /\ disk' = Landing(j)
  /\ scratch' = scratch \ {j}
  /\ Enters(j, "landed")
  /\ UNCHANGED <<dir, mach, rt, pass, retried, client, world>>

Refetch(j) ==
  /\ j \in DownloadJobs /\ Working(j) /\ j \notin scratch /\ "dl" \in scratch
  /\ scratch' = scratch \union {j}
  /\ UNCHANGED <<dir, mach, disk, rt, pass, job, retried, client, world>>

(* The bootstrap on the MAT worker: its database is created first, empty;   *)
(* its first query opens the set, or parses the dump when there is no whole *)
(* one.                                                                     *)
Whole == HasIndexes /\ ~disk.partial

Opened == IF Whole THEN [disk EXCEPT !.raws = TRUE, !.debris = FALSE]
          ELSE [disk EXCEPT !.raws = TRUE, !.debris = TRUE, !.partial = TRUE]

(* A parse that ends leaves a whole set, unless its files were removed      *)
(* while it ran.                                                            *)
Parsed == [disk EXCEPT !.raws = TRUE, !.debris = FALSE, !.partial = ~disk.raws]

BeginBootstrap ==
  /\ job["bootstrap"] = "queued" /\ WorkerFree("bootstrap")
  /\ disk' = IF disk.hprof THEN [Opened EXCEPT !.data = TRUE] ELSE disk
  /\ Enters("bootstrap", "work")
  /\ UNCHANGED <<dir, mach, scratch, rt, pass, retried, client, world>>

LandBootstrap ==
  /\ Working("bootstrap") /\ disk.hprof
  /\ disk' = Parsed
  /\ Enters("bootstrap", "landed")
  /\ UNCHANGED <<dir, mach, scratch, rt, pass, retried, client, world>>

(* The abort flag, polled at chunk and attempt boundaries and while a JVM   *)
(* runs: core.Aborted leaves the state to whoever raised the flag.  Parts   *)
(* and parse debris stay.                                                   *)
Abort(j) ==
  /\ j \in DownloadJobs \union {"bootstrap"} /\ Working(j) /\ rt.abort
  /\ Enters(j, "kick")
  /\ UNCHANGED <<persistent, rt, pass, retried, client, world>>

(* The last attempt failed. *)
Fail(j) ==
  /\ j \in DownloadJobs \union {"bootstrap"} /\ Working(j)
  /\ \/ "stage" \in given.may_fail /\ ~(j = "dump" /\ disk.hprof)
     \/ j \in DownloadJobs /\ j \notin scratch /\ ~(j = "dump" /\ disk.hprof)
     \/ j = "bootstrap" /\ ~disk.hprof
  /\ Enters(j, "failed")
  /\ UNCHANGED <<persistent, rt, pass, retried, client, world>>

(* Mutant of ReportDone: the outcome is reported before the rename. *)
ReportEarly(j) ==
  /\ j \in DownloadJobs /\ Working(j)
  /\ mach' = Transitioned(mach, j, IN_PROGRESS, Comp(DONE))
  /\ Enters(j, "landed")
  /\ UNCHANGED <<dir, disk, scratch, rt, pass, retried, client, world>>

(* _wrap: the outcome is reported by CAS, then the kick. *)
ReportDone(j) ==
  /\ j \in DownloadJobs /\ job[j] \in {"landed", "landed_raws"}
  /\ mach' = Transitioned(mach, j, IN_PROGRESS,
                          [s |-> DONE, compacted |-> j = "indexes"
                                         /\ job[j] = "landed"])
  /\ Enters(j, "kick")
  /\ UNCHANGED <<dir, disk, scratch, rt, pass, retried, client, world>>

(* submit_bootstrap: data is DONE whatever its state, then the indexes if   *)
(* nobody handled them.                                                     *)
ReportBootstrapData ==
  /\ job["bootstrap"] = "landed"
  /\ mach' = Transitioned(mach, "data", STATES, Comp(DONE))
  /\ Enters("bootstrap", "data_reported")
  /\ UNCHANGED <<dir, disk, scratch, rt, pass, retried, client, world>>

ReportBootstrapIndexes ==
  /\ job["bootstrap"] = "data_reported"
  /\ mach' = Transitioned(mach, "indexes", {New}, Comp(DONE))
  /\ Enters("bootstrap", "kick")
  /\ UNCHANGED <<dir, disk, scratch, rt, pass, retried, client, world>>

ReportError(j) ==
  /\ j \in DownloadJobs \union {"bootstrap"} /\ job[j] = "failed"
  /\ mach' = Transitioned(mach, IF j = "bootstrap" THEN "data" ELSE j,
                          IN_PROGRESS, Comp(ERROR))
  /\ Enters(j, "kick")
  /\ UNCHANGED <<dir, disk, scratch, rt, pass, retried, client, world>>

(* The kick of a stage, of the inline parse, or of note_indexes_corrupt:    *)
(* the job is still RUNNING while the passes it runs look at the registry.  *)
JobKick(j) ==
  /\ job[j] \in DOMAIN JobAfterKick
  /\ pass.owner # j
  /\ Kick(j, FALSE)
  /\ IF LockFree THEN UNCHANGED job ELSE JobReturns(j)
  /\ UNCHANGED <<persistent, retried, client, world>>

(* Compaction, serial with MAT on the same worker: no state is reported.    *)
Compact ==
  /\ job["compact"] = "queued" /\ WorkerFree("compact")
  /\ disk' = IF disk.raws THEN [disk EXCEPT !.raws = FALSE, !.zsts = TRUE,
                                            !.marker = TRUE]
             ELSE disk
  /\ Enters("compact", "none")
  /\ UNCHANGED <<dir, mach, scratch, rt, pass, retried, client, world>>

-----------------------------------------------------------------------------
(* The analyze job on the MAT worker: it waits for the index set            *)
(* (await_indexes), parses it inline when told to, runs MAT, and on a       *)
(* corrupt set drops it, hands it back and waits once more.                 *)
AnalyzeAt(phase) == job["analyze"] = phase
Goes(phase) == Enters("analyze", phase)

BeginAnalyze ==
  /\ AnalyzeAt("queued") /\ WorkerFree("analyze")
  /\ Goes(IF HasIndexes THEN "mat" ELSE "await")
  /\ retried' = FALSE
  /\ UNCHANGED <<persistent, rt, pass, client, world>>

ToParse == mach.indexes.s = PARSING /\ "indexes" \notin Live

(* Mutant of Await: the waiting job leaves the parse to others. *)
AwaitDownload ==
  /\ AnalyzeAt("await")
  /\ \/ mach.indexes.s = DONE /\ Goes("mat")
     \/ Stopped(mach.indexes.s) /\ Goes("none")
  /\ UNCHANGED <<persistent, rt, pass, retried, client, world>>

Await ==
  /\ AnalyzeAt("await")
  /\ \/ mach.indexes.s = DONE /\ Goes("mat")
     \/ Stopped(mach.indexes.s) /\ Goes("none")
     \/ ToParse /\ Goes("parse_start")
  /\ UNCHANGED <<persistent, rt, pass, retried, client, world>>

(* parse_inline: marked live only now, after the look at _live. *)
BeginParse ==
  /\ AnalyzeAt("parse_start")
  /\ rt' = [rt EXCEPT !.inline = TRUE]
  /\ disk' = Opened
  /\ Goes("parse")
  /\ UNCHANGED <<dir, mach, scratch, pass, retried, client, world>>

EndParse ==
  /\ AnalyzeAt("parse")
  /\ disk' = Parsed
  /\ Goes("parsed")
  /\ UNCHANGED <<dir, mach, scratch, rt, pass, retried, client, world>>

AbortParse ==
  /\ AnalyzeAt("parse") /\ rt.abort
  /\ Goes("kick_parsed")
  /\ UNCHANGED <<persistent, rt, pass, retried, client, world>>

FailParse ==
  /\ AnalyzeAt("parse") /\ "stage" \in given.may_fail
  /\ Goes("parse_failed")
  /\ UNCHANGED <<persistent, rt, pass, retried, client, world>>

ReportParse ==
  /\ \/ /\ AnalyzeAt("parsed")
        /\ mach' = Transitioned(mach, "indexes", STATES, Comp(DONE))
        /\ Goes("kick_parsed")
     \/ /\ AnalyzeAt("parse_failed")
        /\ mach' = Transitioned(mach, "indexes", IN_PROGRESS, Comp(ERROR))
        /\ Goes("kick_failed")
  /\ UNCHANGED <<dir, disk, scratch, rt, pass, retried, client, world>>

(* The marker is cleared; then the state is read again, or the error ends   *)
(* the job.                                                                 *)
LeaveParse ==
  /\ \/ AnalyzeAt("parse_over") /\ Goes("await")
     \/ AnalyzeAt("parse_lost") /\ Goes("none")
  /\ rt' = [rt EXCEPT !.inline = FALSE]
  /\ UNCHANGED <<persistent, pass, retried, client, world>>

(* MAT runs without the abort flag here. *)
OpenMat ==
  /\ AnalyzeAt("mat")
  /\ disk' = Opened
  /\ Goes("jvm")
  /\ UNCHANGED <<dir, mach, scratch, rt, pass, retried, client, world>>

EndMat ==
  /\ AnalyzeAt("jvm")
  /\ \/ disk' = Parsed
     \/ "stage" \in given.may_fail /\ UNCHANGED disk
  /\ Goes("none")
  /\ UNCHANGED <<dir, mach, scratch, rt, pass, retried, client, world>>

(* The restore meets a corrupt .zst and deletes it; the other members may   *)
(* or may not have been restored by then.                                   *)
MeetCorruptIndex ==
  /\ "corrupt" \in given.may_fail
  /\ AnalyzeAt("mat") /\ disk.zsts /\ ~disk.raws
  /\ \E r \in BOOLEAN :
       disk' = [disk EXCEPT !.raws = r, !.partial = TRUE]
  /\ Goes(IF retried THEN "none" ELSE "drop")
  /\ retried' = TRUE
  /\ UNCHANGED <<dir, mach, scratch, rt, pass, client, world>>

DropIndexSet ==
  /\ AnalyzeAt("drop")
  /\ disk' = [disk EXCEPT !.raws = FALSE, !.zsts = FALSE, !.debris = FALSE,
                          !.partial = FALSE]
  /\ Goes("note")
  /\ UNCHANGED <<dir, mach, scratch, rt, pass, retried, client, world>>

NoteIndexesCorrupt ==
  /\ AnalyzeAt("note")
  /\ mach' = [mach EXCEPT !.indexes = Comp(New)]
  /\ Goes("kick_dropped")
  /\ UNCHANGED <<dir, disk, scratch, rt, pass, retried, client, world>>

Analyze ==
  \/ BeginAnalyze \/ Await \/ BeginParse \/ EndParse \/ AbortParse \/ FailParse
  \/ ReportParse \/ LeaveParse \/ OpenMat \/ EndMat \/ MeetCorruptIndex
  \/ DropIndexSet \/ NoteIndexesCorrupt

-----------------------------------------------------------------------------
(* The HTTP requests. *)
Free(c, op) ==
  c \in given.users /\ op \in given.ops /\ client[c] = "idle" /\ ~Starting

Proceeds(c, to) == client' = [client EXCEPT ![c] = to]

(* start_download: a fresh download only when a source has the dump. *)
StartDownload(c) ==
  /\ Free(c, "start")
  /\ dir \/ "dump" \in published
  /\ dir' = TRUE
  /\ Proceeds(c, IF dir THEN "mark_retry" ELSE "mark_fresh")
  /\ UNCHANGED <<mach, disk, scratch, rt, pass, job, retried, world>>

MarkWanted(c) ==
  /\ client[c] \in {"mark_fresh", "mark_retry"}
  /\ mach' = [wanted |-> TRUE, want_indexes |-> mach.want_indexes,
              dump |-> Reset(mach.dump), data |-> Reset(mach.data),
              indexes |-> Reset(mach.indexes)]
  /\ Proceeds(c, IF client[c] = "mark_fresh" THEN "start_fresh"
                 ELSE "start_retry")
  /\ UNCHANGED <<dir, disk, scratch, rt, pass, job, retried, world>>

(* No job of this call: the answer is 409 when READY, else 404 "no remote   *)
(* source has anything".                                                    *)
Answer(c) ==
  /\ client[c] = "report"
  /\ Proceeds(c, IF Project(mach, FALSE) = "ready" THEN "over" ELSE "refused")
  /\ UNCHANGED <<persistent, rt, pass, job, retried, world>>

(* cancel: raise the flag, record CANCELLED, wait until nothing is live (or *)
(* 60 s), purge the scratch, kick.                                          *)
Cancel(c) ==
  /\ Free(c, "cancel") /\ dir
  /\ rt' = [rt EXCEPT !.abort = TRUE]
  /\ Proceeds(c, "cancel_mark")
  /\ UNCHANGED <<persistent, pass, job, retried, world>>

MarkCancelled(c) ==
  /\ client[c] = "cancel_mark"
  /\ LET stop(x) == IF x.s \in IN_PROGRESS THEN Comp(CANCELLED) ELSE x IN
     mach' = [wanted |-> mach.wanted, want_indexes |-> mach.want_indexes,
              dump |-> stop(mach.dump), data |-> stop(mach.data),
              indexes |-> stop(mach.indexes)]
  /\ Proceeds(c, "cancel_wait")
  /\ UNCHANGED <<dir, disk, scratch, rt, pass, job, retried, world>>

WaitStopped(c) ==
  /\ client[c] = "cancel_wait"
  /\ Live = {} \/ "deadline" \in given.may_fail
  /\ Proceeds(c, "cancel_purge")
  /\ UNCHANGED <<persistent, rt, pass, job, retried, world>>

Purge(c) ==
  /\ client[c] = "cancel_purge"
  /\ scratch' = {}
  /\ Proceeds(c, "cancel_kick")
  /\ UNCHANGED <<dir, mach, disk, rt, pass, job, retried, world>>

(* POST /jobs/<id>/cancel of a queued job: it never runs, nothing else is   *)
(* told (a running one is cancelled through Cancel).                        *)
CancelQueued(c) ==
  /\ Free(c, "cancel_job")
  /\ \E j \in Jobs : job[j] = "queued" /\ Enters(j, "none")
  /\ Proceeds(c, "over")
  /\ UNCHANGED <<persistent, rt, pass, retried, world>>

(* engine.analyze: READY only; request_indexes is sticky. *)
RequestAnalysis(c) ==
  /\ Free(c, "analyze") /\ dir
  /\ Project(mach, FALSE) = "ready" /\ disk.hprof
  /\ mach' = [mach EXCEPT !.want_indexes = TRUE,
                          !.indexes = Reset(mach.indexes)]
  /\ Proceeds(c, "request_kick")
  /\ UNCHANGED <<dir, disk, scratch, rt, pass, job, retried, world>>

SubmitAnalysis(c) ==
  /\ client[c] = "submit"
  /\ Submit("analyze")
  /\ Proceeds(c, "over")
  /\ UNCHANGED <<persistent, rt, pass, retried, world>>

(* The call of reconcile: the thread runs the passes, or goes on at once    *)
(* when the lock is taken.  Only an explicit retry allows a local build.    *)
ClientKick(c) ==
  /\ client[c] \in DOMAIN ClientAfterKick
  /\ pass.owner # c
  /\ Kick(c, client[c] = "start_retry")
  /\ IF LockFree THEN UNCHANGED client
     ELSE Proceeds(c, ClientAfterKick[client[c]])
  /\ UNCHANGED <<persistent, job, retried, world>>

Request(c) == StartDownload(c) \/ Cancel(c) \/ CancelQueued(c)
                \/ RequestAnalysis(c)

Serve(c) == \/ MarkWanted(c) \/ Answer(c) \/ MarkCancelled(c) \/ WaitStopped(c)
            \/ Purge(c) \/ SubmitAnalysis(c) \/ ClientKick(c)

-----------------------------------------------------------------------------
(* A crash loses everything volatile; reconcile_all runs a first pass       *)
(* before the server and the timers start.                                  *)
Crash ==
  /\ crashes > 0
  /\ crashes' = crashes - 1
  /\ rt' = [abort |-> FALSE, dirty |-> dir, allow |-> FALSE, inline |-> FALSE]
  /\ pass' = IF dir THEN [NoPass EXCEPT !.pc = "check", !.owner = "startup"]
             ELSE NoPass
  /\ job' = [j \in Jobs |-> "none"]
  /\ retried' = FALSE
  /\ client' = [c \in Clients |-> IF client[c] = "idle" THEN "idle" ELSE "over"]
  /\ UNCHANGED <<persistent, published, given>>

Download(j) ==
  Begin(j) \/ Land(j) \/ Refetch(j) \/ ReportDone(j)

Bootstrap == BeginBootstrap \/ LandBootstrap \/ ReportBootstrapData
               \/ ReportBootstrapIndexes

Outcome(j) == Abort(j) \/ Fail(j) \/ ReportError(j) \/ JobKick(j)

Next ==
  \/ Pass \/ Tick \/ Bootstrap \/ Compact \/ Analyze \/ Crash
  \/ \E j \in Jobs : Download(j) \/ Outcome(j)
  \/ \E c \in Clients : Request(c) \/ Serve(c)
  \/ \E c \in COMPONENTS : Publish(c)

Spec == Init /\ [][Next]_vars

(* Threads run on; the MAT queue and the download queue are FIFO, so a job  *)
(* that waits is taken in the end; timers and sources keep their promises.  *)
Fairness ==
  /\ WF_vars(Pass) /\ WF_vars(Tick)
  /\ \A j \in DownloadJobs : SF_vars(Begin(j))
                             /\ WF_vars(Download(j) \/ Outcome(j))
  /\ SF_vars(BeginBootstrap) /\ WF_vars(Bootstrap \/ Outcome("bootstrap"))
  /\ SF_vars(BeginAnalyze) /\ WF_vars(Analyze \/ JobKick("analyze"))
  /\ SF_vars(Compact)
  /\ \A c \in Clients : WF_vars(Serve(c))
  /\ \A c \in COMPONENTS : WF_vars(Publish(c))

FairSpec == Spec /\ Fairness

-----------------------------------------------------------------------------
JobPhases == {"none", "queued", "work", "landed", "landed_raws",
              "data_reported", "failed", "await", "parse_start", "parse",
              "parsed", "parse_failed", "parse_over", "parse_lost", "mat",
              "jvm", "drop", "note"} \union DOMAIN JobAfterKick

ClientPhases ==
  {"idle", "over", "refused", "mark_fresh", "mark_retry", "report",
                 "cancel_mark", "cancel_wait", "cancel_purge", "submit"}
                  \union DOMAIN ClientAfterKick

PassPhases == {"none", "check", "live", "view", "decide", "exec", "release"}

Passes ==
  [pc : PassPhases,
   owner : Clients \union Jobs \union {"none", "timer", "startup"},
   obs : Observations, live : SUBSET COMPONENTS, view : RemoteViews,
   allow : BOOLEAN, acts : Seq(ActionTags), answered : BOOLEAN, settled : BOOLEAN]

TypeOK ==
  /\ dir \in BOOLEAN
  /\ mach \in Machines
  /\ disk \in Disks
  /\ scratch \subseteq COMPONENTS \union {"dl"}
  /\ rt \in [abort : BOOLEAN, dirty : BOOLEAN, allow : BOOLEAN,
             inline : BOOLEAN]
  /\ pass \in Passes
  /\ job \in [Jobs -> JobPhases]
  /\ retried \in BOOLEAN
  /\ client \in [Clients -> ClientPhases]
  /\ published \in SUBSET given.publishable
  /\ crashes \in 0..given.crashes /\ given \in Starts

Stages == {j \in DownloadJobs : Working(j)}

(* "Only THIS quiescent sweep may remove the shared scratch dirs": the      *)
(* sweep acts on what the pass read long before, and yet never removes the  *)
(* parts of a stage that is fetching, neither an old one nor one submitted  *)
(* since.                                                                   *)
SweepSparesStages ==
  [][pass.pc = "exec" /\ pass'.pc = "check"
       => scratch \intersect Stages \subseteq scratch']_vars

(* "DONE is gated on artifacts" (machine/types.py:22): whatever stages,     *)
(* local builds, stale observations, cancels and crashes do, a component    *)
(* recorded DONE has its artifact.  For the indexes only as long as nothing *)
(* takes a set away behind the record: MAT deletes one it rejects and has   *)
(* its DONE taken back after; the indexes stage drops the raws of a parse,  *)
(* also of one still running (ParseKeepsItsFiles), which leaves a partial   *)
(* set that a later stage may drop when it is recorded DONE.                *)
Artifact(c) == \/ c = "dump" /\ disk.hprof
               \/ c = "data" /\ disk.data
               \/ c = "indexes" /\ HasIndexes

Removable == "corrupt" \in given.may_fail \/ "indexes" \in given.publishable

Backed(c) == Artifact(c) \/ (c = "indexes" /\ Removable)

DoneIsBacked == \A c \in COMPONENTS : mach[c].s = DONE => Backed(c)

(* ERROR and CANCELLED "stay put, they wait for the user by design"         *)
(* (reconcile_all): such a component leaves its state only for a request of *)
(* the user, for DONE on its artifact, or when an analysis hands back a     *)
(* corrupt index set.                                                       *)
ResetByUser ==
  \E c \in Clients :
    /\ client'[c] # client[c]
    /\ \/ client[c] \in {"mark_fresh", "mark_retry"}
       \/ client'[c] = "request_kick"

HandedBack(c) == c = "indexes" /\ AnalyzeAt("note")

StopsWaitForUser ==
  [][\A c \in COMPONENTS :
       Stopped(mach[c].s) /\ mach'[c] # mach[c]
         => \/ ResetByUser \/ HandedBack(c)
            \/ mach'[c].s = DONE /\ Backed(c)']_vars

(* A download the user asked for comes to an end he can see: READY, or a    *)
(* failed or cancelled component, although sources publish late, passes     *)
(* meet stages half-way and the server crashes.                             *)
Ended == Project(mach, FALSE) \in {"ready", "failed"}

DownloadEnds == (dir /\ mach.wanted) ~> Ended

(* An analysis that was queued leaves the serial MAT worker: it never waits *)
(* for indexes nobody will produce, which would hold up every other dump.   *)
(* Once the abort flag has been raised this is so no longer, see            *)
(* AbortedParseHasMoved.                                                    *)
AnalysisEnds == Active("analyze") ~> ~Active("analyze")

-----------------------------------------------------------------------------
(* What comments and documents promise and these interleavings break.       *)

(* store.py:350 "stages re-validate artifacts themselves, and job dedup *)
(* + the CAS transitions cover" a stale look at what is live: no stage      *)
(* removes the files a local parse is writing.                              *)
ParseKeepsItsFiles ==
  [][AnalyzeAt("parse") /\ ~rt.abort /\ disk.raws => disk'.raws]_vars

(* core.py:344 of an aborted stage, "the state transition already happened  *)
(* (CANCELLED, or preemption's DOWNLOADING)": when an inline parse is       *)
(* killed and no cancel is about to write its CANCELLED, PARSING is not     *)
(* left behind, to be started and killed again while the flag is up.        *)
Killed == AnalyzeAt("parse") /\ job'["analyze"] = "kick_parsed"

AbortedParseHasMoved ==
  [][Killed /\ (\A c \in Clients : client[c] # "cancel_mark")
       => mach.indexes.s # PARSING]_vars

(* submit_bootstrap (engine.py:584): "failure -> data ERROR".  A local      *)
(* build that fails, with no bundle to be had, does not leave data DONE.    *)
FailedBuildIsReported ==
  [][job["bootstrap"] = "failed" /\ job'["bootstrap"] = "kick"
       /\ "data" \notin given.publishable
     => mach'.data.s # DONE]_vars
=============================================================================
