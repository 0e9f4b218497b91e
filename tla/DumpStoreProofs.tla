--------------------------- MODULE DumpStoreProofs ---------------------------
(***************************************************************************)
(* Proofs about DumpStore, for every set of requests, of things published  *)
(* and of things that fail, and any number of crashes: what is recorded    *)
(* DONE is on disk, a stopped component waits for the user, and the sweep  *)
(* spares the scratch of the stages.                                       *)
(***************************************************************************)
EXTENDS DumpStore, MachineProofs

USE DEF New, DOWNLOADING, PARSING, DONE, ERROR, CANCELLED

(* Whoever runs the passes waits in its kick for them to return. *)
OwnerInv ==
  /\ pass.owner \in Jobs => job[pass.owner] \in DOMAIN JobAfterKick
  /\ pass.owner \in Clients => client[pass.owner] \in DOMAIN ClientAfterKick

(* What a pass has read may be stale, but what it saw of the dump and the   *)
(* bundle is still there, and it asks for nothing that has no ground.       *)
PassInv ==
  /\ pass.obs.hprof => disk.hprof
  /\ pass.obs.data => disk.data
  /\ pass.obs.raws \/ pass.obs.zsts => HasIndexes \/ Removable
  /\ pass.view.indexes => Removable
  /\ \A k \in 1..Len(pass.acts) :
       /\ pass.acts[k] = A_BOOTSTRAP => disk.hprof
       /\ pass.acts[k] = A_ACQUIRE_INDEXES => Removable

(* A job that is about to report has put its artifact in place. *)
JobInv ==
  /\ job["dump"] \in {"landed", "landed_raws"} => disk.hprof
  /\ job["data"] \in {"landed", "landed_raws"} => disk.data
  /\ job["bootstrap"] # "none" => disk.hprof
  /\ job["bootstrap"] \notin {"none", "queued"} => disk.data
  /\ Removable \/ /\ job["indexes"] = "none" /\ ~AnalyzeAt("drop")
                  /\ job["bootstrap"] \in {"landed", "data_reported"} => HasIndexes
                  /\ AnalyzeAt("parsed") => HasIndexes

(* A pass that saw nothing live keeps the download queue empty until it     *)
(* submits a job itself.                                                    *)
Quiet == \A j \in DownloadJobs : job[j] = "none"
SweepInv ==
  /\ pass.pc \in {"view", "decide"} /\ pass.live = {} => Quiet
  /\ pass.pc = "exec" /\ pass.settled => Quiet

IInv == TypeOK /\ OwnerInv /\ PassInv /\ JobInv /\ DoneIsBacked /\ SweepInv

-----------------------------------------------------------------------------
(* Frames: the steps that may change a variable. *)
LEMMA ScenarioFrame ==
  ASSUME [Next]_vars
  PROVE  /\ given' = given
         /\ published' = published \/ \E c \in COMPONENTS : Publish(c)
         /\ crashes' = crashes \/ Crash
BY DEF vars, persistent, world, Next, Pass, PassObserve, PassLive, PassView, PassDecide,
       PassExec, PassSweep, PassRelease, Tick, Publish, Bootstrap, BeginBootstrap,
       LandBootstrap, ReportBootstrapData, ReportBootstrapIndexes, Compact, Analyze,
       BeginAnalyze, Await, BeginParse, EndParse, AbortParse, FailParse, ReportParse,
       LeaveParse, OpenMat, EndMat, MeetCorruptIndex, DropIndexSet, NoteIndexesCorrupt,
       Crash, Download, Begin, Land, Refetch, ReportDone, Outcome, Abort, Fail,
       ReportError, JobKick, Request, StartDownload, Cancel, CancelQueued,
       RequestAnalysis, Serve, MarkWanted, Answer, MarkCancelled, WaitStopped, Purge,
       SubmitAnalysis, ClientKick

(* Who writes the disk. *)
DiskWriter ==
  \/ \E j \in Jobs : Begin(j) \/ Land(j)
  \/ BeginBootstrap \/ LandBootstrap \/ Compact \/ BeginParse \/ EndParse
  \/ OpenMat \/ EndMat \/ MeetCorruptIndex \/ DropIndexSet

LEMMA DiskFrame ==
  ASSUME [Next]_vars
  PROVE  disk' = disk \/ DiskWriter
BY DEF vars, persistent, world, Next, Pass, PassObserve, PassLive, PassView, PassDecide,
       PassExec, PassSweep, PassRelease, Tick, Publish, Bootstrap,
       ReportBootstrapData, ReportBootstrapIndexes, Analyze,
       BeginAnalyze, Await, AbortParse, FailParse, ReportParse,
       LeaveParse, NoteIndexesCorrupt,
       Crash, Download, Refetch, ReportDone, Outcome, Abort, Fail,
       ReportError, JobKick, Request, StartDownload, Cancel, CancelQueued,
       RequestAnalysis, Serve, MarkWanted, Answer, MarkCancelled, WaitStopped, Purge,
       SubmitAnalysis, ClientKick, DiskWriter

(* Who writes the machine. *)
MachWriter ==
  \/ PassDecide \/ ReportBootstrapData \/ ReportBootstrapIndexes \/ ReportParse
  \/ NoteIndexesCorrupt
  \/ \E j \in Jobs : ReportDone(j) \/ ReportError(j)
  \/ \E c \in Clients : MarkWanted(c) \/ MarkCancelled(c) \/ RequestAnalysis(c)

LEMMA MachFrame ==
  ASSUME [Next]_vars
  PROVE  mach' = mach \/ MachWriter
BY DEF vars, persistent, world, Next, Pass, PassObserve, PassLive, PassView,
       PassExec, PassSweep, PassRelease, Tick, Publish, Bootstrap, BeginBootstrap,
       LandBootstrap, Compact, Analyze,
       BeginAnalyze, Await, BeginParse, EndParse, AbortParse, FailParse,
       LeaveParse, OpenMat, EndMat, MeetCorruptIndex, DropIndexSet,
       Crash, Download, Begin, Land, Refetch, Outcome, Abort, Fail,
       JobKick, Request, StartDownload, Cancel, CancelQueued,
       Serve, Answer, WaitStopped, Purge,
       SubmitAnalysis, ClientKick, MachWriter

(* Who writes the pass: its own steps, and the kicks. *)
Kicks == Tick \/ (\E j \in Jobs : JobKick(j)) \/ (\E c \in Clients : ClientKick(c))

LEMMA PassFrame ==
  ASSUME [Next]_vars
  PROVE  pass' = pass \/ Pass \/ Kicks \/ Crash
BY DEF vars, persistent, world, Next, Publish, Bootstrap, BeginBootstrap,
       LandBootstrap, ReportBootstrapData, ReportBootstrapIndexes, Compact, Analyze,
       BeginAnalyze, Await, BeginParse, EndParse, AbortParse, FailParse, ReportParse,
       LeaveParse, OpenMat, EndMat, MeetCorruptIndex, DropIndexSet, NoteIndexesCorrupt,
       Download, Begin, Land, Refetch, ReportDone, Outcome, Abort, Fail,
       ReportError, Request, StartDownload, Cancel, CancelQueued,
       RequestAnalysis, Serve, MarkWanted, Answer, MarkCancelled, WaitStopped, Purge,
       SubmitAnalysis, Kicks

-----------------------------------------------------------------------------
(* The scenario. *)
LEMMA GivenFacts ==
  ASSUME NEW s \in Starts
  PROVE  /\ s.arrived \subseteq COMPONENTS /\ s.publishable \subseteq COMPONENTS
         /\ s.published \subseteq s.publishable /\ s.crashes \in Nat
BY StartsAssumption DEF Scenarios

LEMMA ScenarioTypes ==
  ASSUME TypeOK, [Next]_vars
  PROVE  /\ given' \in Starts /\ crashes' \in 0..given'.crashes
         /\ published' \in SUBSET given'.publishable
<1>1. given' = given /\ given \in Starts /\ given.crashes \in Nat
  BY ScenarioFrame, GivenFacts DEF TypeOK
<1>2. crashes' \in 0..given.crashes
  <2>1. crashes \in 0..given.crashes
    BY DEF TypeOK
  <2>2. crashes' = crashes \/ (crashes > 0 /\ crashes' = crashes - 1)
    BY ScenarioFrame DEF Crash
  <2>3. QED
    BY <1>1, <2>1, <2>2
<1>3. published' \in SUBSET given.publishable
  BY <1>1, ScenarioFrame DEF TypeOK, Publish
<1>4. QED
  BY <1>1, <1>2, <1>3

-----------------------------------------------------------------------------
(* The disk: the dump and the bundle stay once they are there, and so does  *)
(* the index set unless the scenario lets it be removed.                    *)
LEMMA DiskTypes ==
  ASSUME TypeOK, [Next]_vars
  PROVE  disk' \in Disks
<1>1. disk \in Disks
  BY DEF TypeOK
<1>2. Opened \in Disks /\ Parsed \in Disks
  BY <1>1 DEF Opened, Parsed, Disks, Whole
<1>3. ASSUME NEW j \in Jobs, Begin(j) \/ Land(j) PROVE disk' \in Disks
  BY <1>1, <1>3 DEF Begin, Land, Landing, Disks, DownloadJobs
<1>4. CASE BeginBootstrap \/ LandBootstrap
  BY <1>1, <1>2, <1>4 DEF BeginBootstrap, LandBootstrap, Disks
<1>5. CASE Compact \/ BeginParse \/ EndParse \/ OpenMat \/ EndMat
  BY ZenonT(60), <1>1, <1>2, <1>5 DEF Compact, BeginParse, EndParse, OpenMat, EndMat, Disks
<1>6. CASE MeetCorruptIndex \/ DropIndexSet
  BY <1>1, <1>6 DEF MeetCorruptIndex, DropIndexSet, Disks
<1>7. QED
  BY <1>1, <1>3, <1>4, <1>5, <1>6, DiskFrame DEF DiskWriter

LEMMA DiskGrows ==
  ASSUME TypeOK, JobInv, [Next]_vars
  PROVE  /\ disk.hprof => disk'.hprof
         /\ disk.data => disk'.data
         /\ HasIndexes => HasIndexes' \/ Removable
<1> DEFINE Grows == /\ disk.hprof => disk'.hprof
                    /\ disk.data => disk'.data
                    /\ HasIndexes => HasIndexes' \/ Removable
<1> USE DEF HasIndexes
<1>0. disk \in Disks
  BY DEF TypeOK
<1> USE <1>0 DEF Disks
<1>1. /\ Opened.hprof = disk.hprof /\ Opened.data = disk.data /\ Opened.raws
      /\ Parsed.hprof = disk.hprof /\ Parsed.data = disk.data /\ Parsed.raws
      /\ Opened \in Disks
  BY DEF Opened, Parsed
<1>2. ASSUME NEW j \in Jobs, Begin(j) PROVE Grows
  BY <1>2 DEF Begin, JobInv
<1>3. ASSUME NEW j \in Jobs, Land(j) PROVE Grows
  BY <1>3 DEF Land, Landing, DownloadJobs
<1>4. CASE BeginBootstrap \/ LandBootstrap
  BY <1>1, <1>4 DEF BeginBootstrap, LandBootstrap
<1>5. CASE Compact
  BY <1>5 DEF Compact
<1>6. CASE BeginParse \/ EndParse \/ OpenMat \/ EndMat
  BY <1>1, <1>6 DEF BeginParse, EndParse, OpenMat, EndMat
<1>7. CASE MeetCorruptIndex \/ DropIndexSet
  BY <1>7 DEF MeetCorruptIndex, DropIndexSet, JobInv
<1>8. CASE disk' = disk
  BY <1>8
<1> HIDE DEF Disks, HasIndexes
<1>9. QED
  BY <1>2, <1>3, <1>4, <1>5, <1>6, <1>7, <1>8, DiskFrame DEF DiskWriter

-----------------------------------------------------------------------------
(* The machine: its type, and what a step may record as DONE. *)
LEMMA RecordTypes ==
  ASSUME NEW m \in Machines, NEW c \in COMPONENTS, NEW to \in Comps, NEW e
  PROVE  /\ Transitioned(m, c, e, to) \in Machines
         /\ \A k \in COMPONENTS : \/ Transitioned(m, c, e, to)[k] = m[k]
                                  \/ /\ k = c /\ m[c].s \in e
                                     /\ Transitioned(m, c, e, to)[c] = to
         /\ [m EXCEPT ![c] = to] \in Machines
BY DEF Transitioned, Machines, COMPONENTS

LEMMA CompTypes ==
  /\ \A s \in STATES : Comp(s) \in Comps
  /\ \A b \in BOOLEAN : [s |-> DONE, compacted |-> b] \in Comps
  /\ \A c \in Comps : Reset(c) \in Comps /\ (Reset(c).s = DONE => Reset(c) = c)
  /\ {DONE, ERROR, CANCELLED, New} \subseteq STATES
<1>1. {DONE, ERROR, CANCELLED, New} \subseteq STATES
  BY DEF STATES, IN_PROGRESS, TERMINAL
<1>2. \A s \in STATES : Comp(s) \in Comps
  BY DEF Comp, Comps
<1>3. \A b \in BOOLEAN : [s |-> DONE, compacted |-> b] \in Comps
  BY <1>1 DEF Comps
<1>4. ASSUME NEW c \in Comps
      PROVE  Reset(c) \in Comps /\ (Reset(c).s = DONE => Reset(c) = c)
  BY <1>1 DEF Comps, Reset, InState
<1>5. QED
  BY <1>1, <1>2, <1>3, <1>4

(* The inputs a pass decides on. *)
PassInputs == [obs |-> pass.obs, live |-> pass.live, remote |-> pass.view,
               allow_local |-> pass.allow, mat_idle |-> MatIdle,
               compact_hold |-> FALSE]

LEMMA PassInputsType ==
  ASSUME TypeOK
  PROVE  PassInputs \in Inputs
BY DEF TypeOK, Passes, PassInputs, Inputs, MatIdle

(* What a step makes of the machine: another one, in which a component is   *)
(* DONE only if it was or its artifact is there, and in which a stopped     *)
(* component is left alone but for the reasons StopsWaitForUser lists.      *)
MachOK ==
  /\ mach' \in Machines
  /\ \A c \in COMPONENTS :
       /\ mach'[c].s = DONE => mach[c].s = DONE \/ Backed(c)
       /\ Stopped(mach[c].s) /\ mach'[c] # mach[c]
            => ResetByUser \/ HandedBack(c) \/ mach'[c].s = DONE

(* A transition records an error or a DONE whose artifact is there.         *)
LEMMA TransitionOK ==
  ASSUME TypeOK, NEW c \in COMPONENTS, NEW to \in Comps, NEW e \in SUBSET STATES,
         mach' = Transitioned(mach, c, e, to),
         to.s = DONE => Backed(c),
         to.s = DONE \/ e \subseteq IN_PROGRESS
  PROVE  MachOK
<1>0. mach \in Machines /\ \A k \in COMPONENTS : mach[k] \in Comps
  BY DEF TypeOK, Machines, COMPONENTS
<1>1. mach' \in Machines
  BY <1>0, RecordTypes
<1>2. ASSUME NEW k \in COMPONENTS
      PROVE  mach'[k] = mach[k] \/ (k = c /\ mach[c].s \in e /\ mach'[c] = to)
  BY <1>0 DEF Transitioned, Machines, COMPONENTS
<1>3. \A s \in IN_PROGRESS : ~Stopped(s)
  BY DEF IN_PROGRESS, Stopped
<1>4. ASSUME NEW k \in COMPONENTS, mach'[k].s = DONE
      PROVE  mach[k].s = DONE \/ Backed(k)
  BY <1>2, <1>4
<1>5. ASSUME NEW k \in COMPONENTS, Stopped(mach[k].s), mach'[k] # mach[k]
      PROVE  mach'[k].s = DONE
  BY <1>2, <1>3, <1>5
<1>6. QED
  BY <1>1, <1>4, <1>5 DEF MachOK

LEMMA MachStep ==
  ASSUME TypeOK, PassInv, JobInv, [Next]_vars
  PROVE  MachOK
<1>0. /\ mach \in Machines /\ \A c \in COMPONENTS : mach[c] \in Comps
      /\ "indexes" \in COMPONENTS
      /\ IN_PROGRESS \in SUBSET STATES /\ {New} \in SUBSET STATES
      /\ \A s \in {DONE, ERROR} : Comp(s) \in Comps /\ Comp(s).s = s
  BY CompTypes DEF TypeOK, Machines, COMPONENTS, Comp, STATES
<1>1. CASE mach' = mach
  BY <1>0, <1>1 DEF MachOK
<1>2. CASE PassDecide
  <2>1. /\ mach' = Decide(mach, PassInputs).m
        /\ PassInputs.obs = pass.obs
    BY <1>2 DEF PassDecide, PassInputs
  <2>2. /\ mach' \in Machines
        /\ mach'.dump.s = DONE => pass.obs.hprof
        /\ mach'.data.s = DONE => pass.obs.data
        /\ mach'.indexes.s = DONE => pass.obs.raws \/ pass.obs.zsts
    BY <1>0, <2>1, PassInputsType, DecideFacts DEF ZstsOk
  <2>3. \A c \in COMPONENTS : Stopped(mach[c].s) => mach'[c] = mach[c] \/ mach'[c].s = DONE
    BY <1>0, <2>1, PassInputsType, DecideKeepsStops
  <2>4. QED
    BY <2>2, <2>3 DEF PassInv, MachOK, Backed, Artifact, COMPONENTS
<1>3. ASSUME NEW j \in Jobs, ReportDone(j) PROVE MachOK
  <2>1. PICK b \in BOOLEAN :
          mach' = Transitioned(mach, j, IN_PROGRESS, [s |-> DONE, compacted |-> b])
    BY <1>3 DEF ReportDone
  <2>2. j \in COMPONENTS /\ Backed(j)
    BY <1>3 DEF ReportDone, DownloadJobs, JobInv, COMPONENTS, Backed, Artifact
  <2>3. QED
    BY <1>0, <2>1, <2>2, TransitionOK, CompTypes
<1>4. ASSUME NEW j \in Jobs, ReportError(j) PROVE MachOK
  <2>1. PICK c \in COMPONENTS : mach' = Transitioned(mach, c, IN_PROGRESS, Comp(ERROR))
    BY <1>4 DEF ReportError, DownloadJobs, COMPONENTS
  <2>2. QED
    BY <1>0, <2>1, TransitionOK
<1>5. CASE ReportBootstrapData \/ ReportBootstrapIndexes
  <2>1. PICK c \in COMPONENTS, e \in {STATES, {New}} :
          Backed(c) /\ mach' = Transitioned(mach, c, e, Comp(DONE))
    BY <1>5 DEF ReportBootstrapData, ReportBootstrapIndexes, JobInv, Backed, Artifact,
                COMPONENTS
  <2>2. QED
    BY <1>0, <2>1, TransitionOK
<1>6. CASE ReportParse
  <2>1. CASE mach' = Transitioned(mach, "indexes", STATES, Comp(DONE)) /\ AnalyzeAt("parsed")
    <3>1. Backed("indexes")
      BY <2>1 DEF JobInv, Backed, Artifact, COMPONENTS
    <3>2. QED
      BY <1>0, <2>1, <3>1, TransitionOK
  <2>2. CASE mach' = Transitioned(mach, "indexes", IN_PROGRESS, Comp(ERROR))
    BY <1>0, <2>2, TransitionOK
  <2>3. QED
    BY <1>6, <2>1, <2>2 DEF ReportParse
<1>7. CASE NoteIndexesCorrupt
  <2>1. Comp(New).s = New /\ Comp(New) \in Comps
    BY CompTypes DEF Comp
  <2>2. QED
    BY <1>0, <1>7, <2>1
       DEF NoteIndexesCorrupt, HandedBack, MachOK, Machines, COMPONENTS
<1>8. ASSUME NEW c \in Clients, MarkWanted(c) \/ RequestAnalysis(c) PROVE MachOK
  <2>1. ResetByUser
    BY <1>8 DEF MarkWanted, RequestAnalysis, Free, Proceeds, ResetByUser, TypeOK
  <2>2. mach' \in Machines
    <3>1. /\ Reset(mach.dump) \in Comps /\ Reset(mach.data) \in Comps
          /\ Reset(mach.indexes) \in Comps
      BY <1>0, CompTypes DEF COMPONENTS
    <3>2. CASE MarkWanted(c)
      BY <1>0, <3>1, <3>2 DEF MarkWanted, Machines
    <3>3. CASE RequestAnalysis(c)
      <4>1. \A r \in Comps : [mach EXCEPT !.want_indexes = TRUE, !.indexes = r] \in Machines
        BY <1>0 DEF Machines
      <4>2. QED
        BY <3>1, <3>3, <4>1 DEF RequestAnalysis
    <3>4. QED
      BY <1>8, <3>2, <3>3
  <2>3. \A k \in COMPONENTS : mach'[k] = mach[k] \/ mach'[k] = Reset(mach[k])
    <3>1. CASE MarkWanted(c)
      BY <3>1 DEF MarkWanted, COMPONENTS
    <3>2. CASE RequestAnalysis(c)
      BY <1>0, <3>2 DEF RequestAnalysis, Machines, COMPONENTS
    <3>3. QED
      BY <1>8, <3>1, <3>2
  <2>4. QED
    BY <1>0, <2>1, <2>2, <2>3, CompTypes DEF MachOK
<1>9. ASSUME NEW c \in Clients, MarkCancelled(c) PROVE MachOK
  <2> DEFINE stop(x) == IF x.s \in IN_PROGRESS THEN Comp(CANCELLED) ELSE x
  <2>1. \A k \in COMPONENTS : mach'[k] = stop(mach[k])
    BY <1>9 DEF MarkCancelled, COMPONENTS
  <2>2. Comp(CANCELLED) \in Comps /\ Comp(CANCELLED).s = CANCELLED
    BY CompTypes DEF Comp
  <2>3. mach' \in Machines
    BY <1>0, <1>9, <2>2 DEF MarkCancelled, Machines
  <2>4. QED
    BY <1>0, <2>1, <2>2, <2>3 DEF MachOK, Stopped, IN_PROGRESS
<1>10. QED
  BY <1>1, <1>2, <1>3, <1>4, <1>5, <1>6, <1>7, <1>8, <1>9, MachFrame DEF MachWriter

-----------------------------------------------------------------------------
(* The pass: the types of what it reads, decides and asks for.              *)
LEMMA ReadTypes ==
  ASSUME TypeOK
  PROVE  /\ NoPass \in Passes /\ Observed \in Observations
         /\ Live \subseteq COMPONENTS
         /\ \A live : PossibleViews(live) \subseteq RemoteViews
<1>1. NoPass \in Passes
  <2>1. <<>> \in Seq(ActionTags) /\ NoObs \in Observations /\ Unqueried \in RemoteViews
    BY DEF NoObs, Observations, Unqueried, RemoteViews
  <2>2. QED
    BY <2>1 DEF NoPass, Passes, PassPhases
<1>2. Observed \in Observations
  BY DEF Observed, Observations, TypeOK, Disks
<1>3. Live \subseteq COMPONENTS
  <2>1. \A j \in Jobs : LiveOf[j] \subseteq COMPONENTS
    BY DEF Jobs, DownloadJobs, MatJobs, LiveOf, COMPONENTS
  <2>2. UNION {LiveOf[j] : j \in {k \in Jobs : Active(k)}} \subseteq COMPONENTS
    BY <2>1
  <2>3. QED
    BY <2>2 DEF Live, COMPONENTS
<1>4. ASSUME NEW live PROVE PossibleViews(live) \subseteq RemoteViews
  <2> DEFINE answer == [queried |-> TRUE, failed |-> FALSE,
                 hprof |-> "dump" \in published, data |-> "data" \in published,
                 indexes |-> "indexes" \in published]
             failure == [Unqueried EXCEPT !.queried = TRUE, !.failed = TRUE]
  <2>0. Unqueried \in RemoteViews /\ answer \in RemoteViews
    BY DEF RemoteViews, Unqueried
  <2>1. failure \in RemoteViews
    BY <2>0 DEF RemoteViews
  <2>2. PossibleViews(live) \subseteq {Unqueried, answer, failure}
    BY DEF PossibleViews
  <2>3. QED
    BY <2>0, <2>1, <2>2
<1>5. QED
  BY <1>1, <1>2, <1>3, <1>4

LEMMA KickTypes ==
  ASSUME TypeOK, Kicks \/ Crash
  PROVE  pass' \in Passes
<1>1. NoPass \in Passes /\ pass \in Passes
  BY ReadTypes DEF TypeOK
<1>2. \A who \in Clients \union Jobs \union {"timer", "startup"} :
        [NoPass EXCEPT !.pc = "check", !.owner = who] \in Passes
  BY <1>1 DEF Passes, PassPhases
<1>3. ASSUME NEW who \in Clients \union Jobs \union {"timer", "startup"}, NEW allow,
             Kick(who, allow)
      PROVE  pass' \in Passes
  BY <1>1, <1>2, <1>3 DEF Kick
<1>4. CASE Kicks
  BY <1>3, <1>4 DEF Kicks, Tick, JobKick, ClientKick
<1>5. CASE Crash
  BY <1>1, <1>2, <1>5 DEF Crash
<1>6. QED
  BY <1>4, <1>5

LEMMA PassTypes ==
  ASSUME TypeOK, Pass
  PROVE  pass' \in Passes
<1>0. pass \in Passes /\ rt.allow \in BOOLEAN
  BY DEF TypeOK
<1>1. CASE PassObserve
  <2>1. Observed \in Observations
    BY ReadTypes
  <2>2. QED
    BY <1>0, <1>1, <2>1 DEF PassObserve, Passes, PassPhases
<1>2. CASE PassLive
  <2>1. Live \in SUBSET COMPONENTS
    BY ReadTypes
  <2>2. QED
    BY <1>0, <1>2, <2>1 DEF PassLive, Passes, PassPhases
<1>3. CASE PassView
  <2>1. PICK v \in RemoteViews :
          pass' = [pass EXCEPT !.pc = "decide", !.view = v, !.allow = rt.allow]
    BY <1>3, ReadTypes DEF PassView
  <2>2. QED
    BY <1>0, <2>1 DEF Passes, PassPhases
<1>4. CASE PassDecide
  <2>1. /\ Decide(mach, PassInputs).acts \in Seq(ActionTags)
        /\ Settled(Decide(mach, PassInputs).m, pass.live) \in BOOLEAN
        /\ NoObs \in Observations /\ Unqueried \in RemoteViews
        /\ {} \in SUBSET COMPONENTS
    <3>1. mach \in Machines
      BY DEF TypeOK
    <3>2. QED
      BY <3>1, PassInputsType, DecideFacts
         DEF Settled, NoObs, Observations, Unqueried, RemoteViews
  <2>2. pass' = [pass EXCEPT !.pc = "exec", !.acts = Decide(mach, PassInputs).acts,
                   !.obs = NoObs, !.live = {}, !.view = Unqueried, !.allow = FALSE,
                   !.settled = Settled(Decide(mach, PassInputs).m, pass.live)]
    BY <1>4 DEF PassDecide, PassInputs
  <2>3. QED
    BY <1>0, <2>1, <2>2 DEF Passes, PassPhases
<1>5. CASE PassExec
  <2> DEFINE a == Head(pass.acts)
  <2>1. <<>> \in Seq(ActionTags) /\ Tail(pass.acts) \in Seq(ActionTags)
    BY <1>0, <1>5 DEF PassExec, Passes
  <2>2. Answers(a) \in BOOLEAN /\ (pass.settled /\ a \notin DOMAIN JobOf) \in BOOLEAN
    BY <1>0 DEF Answers, Passes
  <2>3. \/ pass' = [pass EXCEPT !.pc = "release", !.acts = <<>>, !.answered = Answers(a)]
        \/ pass' = [pass EXCEPT !.acts = Tail(pass.acts), !.answered = Answers(a),
                       !.settled = pass.settled /\ a \notin DOMAIN JobOf]
    BY <1>5 DEF PassExec
  <2> HIDE DEF a
  <2>4. QED
    BY ZenonT(60), <1>0, <2>1, <2>2, <2>3 DEF Passes, PassPhases
<1>6. CASE PassSweep
  BY <1>0, <1>6 DEF PassSweep, Passes, PassPhases
<1>7. CASE PassRelease
  BY <1>7, ReadTypes DEF PassRelease
<1>8. QED
  BY <1>1, <1>2, <1>3, <1>4, <1>5, <1>6, <1>7 DEF Pass

-----------------------------------------------------------------------------
(* The jobs: one at a time moves, from a phase that allows it.  A job that  *)
(* is queued was asked for; one in its kick waits for the passes; and what  *)
(* a phase promises of the disk holds when it is entered.                   *)
KickPhases == {"kick", "kick_parsed", "kick_failed", "kick_dropped"}

Legal(j, from, to) ==
  /\ from = "none" =>
       /\ to = "queued"
       /\ \/ j = "analyze" /\ UNCHANGED pass
          \/ PassExec /\ Head(pass.acts) \in DOMAIN JobOf /\ j = JobOf[Head(pass.acts)]
  /\ from \in KickPhases =>
       \/ PassRelease /\ pass.owner = j
       \/ pass.owner # j /\ UNCHANGED pass
  /\ j = "dump" /\ to \in {"landed", "landed_raws"} => disk'.hprof
  /\ j = "data" /\ to \in {"landed", "landed_raws"} => disk'.data
  /\ j = "bootstrap" /\ to \notin {"none", "queued"} => disk'.data
  /\ j = "bootstrap" /\ to = "landed" => HasIndexes'
  /\ j = "bootstrap" /\ to = "data_reported" => from = "landed"
  /\ j = "analyze" /\ to = "parsed" => HasIndexes'
  /\ j = "analyze" /\ to = "drop" => Removable

Moves(j, to) ==
  /\ to \in JobPhases
  /\ job' = [job EXCEPT ![j] = to]
  /\ Legal(j, job[j], to)

LEMMA Phases ==
  /\ DOMAIN JobAfterKick = KickPhases
  /\ \A k \in KickPhases : JobAfterKick[k] \in {"none", "parse_over", "parse_lost", "await"}
  /\ Jobs = {"dump", "data", "indexes", "bootstrap", "compact", "analyze"}
  /\ JobPhases = {"none", "queued", "work", "landed", "landed_raws",
              "data_reported", "failed", "await", "parse_start", "parse",
              "parsed", "parse_failed", "parse_over", "parse_lost", "mat",
              "jvm", "drop", "note"} \union KickPhases
  /\ \A a \in DOMAIN JobOf : JobOf[a] \in Jobs
BY DEF JobAfterKick, KickPhases, Jobs, DownloadJobs, MatJobs, JobPhases, JobOf,
       A_ACQUIRE_DUMP

LEMMA StageMoves ==
  ASSUME TypeOK, OwnerInv, JobInv, NEW j \in DownloadJobs,
         Begin(j) \/ Land(j) \/ ReportDone(j)
  PROVE  \E to \in JobPhases : Moves(j, to)
<1> USE Phases DEF KickPhases, Moves, Legal, Enters
<1>1. CASE Begin(j)
  <2>1. PICK to \in {"landed", "landed_raws", "work"} :
          /\ job' = [job EXCEPT ![j] = to]
          /\ to # "work" => (j = "data" /\ disk'.data) \/ j = "indexes"
    BY <1>1 DEF Begin
  <2>2. job[j] = "queued"
    BY <1>1 DEF Begin
  <2>3. QED
    BY <2>1, <2>2 DEF DownloadJobs
<1>2. CASE Land(j)
  <2>1. /\ job' = [job EXCEPT ![j] = "landed"] /\ job[j] = "work"
        /\ j = "dump" => disk'.hprof
        /\ j = "data" => disk'.data
    BY <1>2 DEF Land, Working, Landing, TypeOK, Disks
  <2>2. QED
    BY <2>1 DEF DownloadJobs
<1>3. CASE ReportDone(j)
  BY <1>3 DEF ReportDone, DownloadJobs
<1>4. QED
  BY <1>1, <1>2, <1>3

LEMMA MatMoves ==
  ASSUME TypeOK, OwnerInv, JobInv, Bootstrap \/ Compact \/ Analyze
  PROVE  \E j \in MatJobs, to \in JobPhases : Moves(j, to)
<1> USE Phases DEF KickPhases, Moves, Legal, Enters, MatJobs
<1>1. disk.data => disk'.data
  <2>1. [Next]_vars
    BY DEF Next
  <2>2. QED
    BY <2>1, DiskGrows
<1>2. Parsed.raws
  BY DEF Parsed, TypeOK, Disks
<1>3. CASE BeginBootstrap
  <2>1. disk'.data
    BY <1>3 DEF BeginBootstrap, JobInv, Opened, TypeOK, Disks
  <2>2. job["bootstrap"] = "queued" /\ job' = [job EXCEPT !["bootstrap"] = "work"]
    BY <1>3 DEF BeginBootstrap
  <2>3. Moves("bootstrap", "work")
    BY <2>1, <2>2
  <2>4. QED
    BY <2>3
<1>4. CASE LandBootstrap
  <2>1. disk'.data /\ HasIndexes'
    BY <1>1, <1>2, <1>4 DEF LandBootstrap, Working, JobInv, HasIndexes
  <2>2. job["bootstrap"] = "work" /\ job' = [job EXCEPT !["bootstrap"] = "landed"]
    BY <1>4 DEF LandBootstrap, Working
  <2>3. Moves("bootstrap", "landed")
    BY <2>1, <2>2
  <2>4. QED
    BY <2>3
<1>5. CASE ReportBootstrapData \/ ReportBootstrapIndexes
  <2>1. disk'.data
    BY <1>1, <1>5 DEF ReportBootstrapData, ReportBootstrapIndexes, JobInv
  <2>2. Moves("bootstrap", "data_reported") \/ Moves("bootstrap", "kick")
    BY <1>5, <2>1 DEF ReportBootstrapData, ReportBootstrapIndexes
  <2>3. QED
    BY <2>2
<1>6. CASE Compact
  <2>1. Moves("compact", "none")
    BY <1>6 DEF Compact
  <2>2. QED
    BY <2>1
<1>7. CASE BeginAnalyze \/ Await \/ BeginParse \/ EndParse
  <2>1. \/ Moves("analyze", "mat") \/ Moves("analyze", "await") \/ Moves("analyze", "none")
        \/ Moves("analyze", "parse_start") \/ Moves("analyze", "parse")
        \/ Moves("analyze", "parsed")
    BY <1>2, <1>7 DEF BeginAnalyze, Await, BeginParse, EndParse, AnalyzeAt, Goes, HasIndexes
  <2>2. QED
    BY <2>1
<1>8. CASE AbortParse \/ FailParse \/ ReportParse \/ LeaveParse
  <2>1. \/ Moves("analyze", "kick_parsed") \/ Moves("analyze", "parse_failed")
        \/ Moves("analyze", "kick_failed") \/ Moves("analyze", "await")
        \/ Moves("analyze", "none")
    BY <1>8 DEF AbortParse, FailParse, ReportParse, LeaveParse, AnalyzeAt, Goes
  <2>2. QED
    BY <2>1
<1>9. CASE OpenMat \/ EndMat \/ MeetCorruptIndex \/ DropIndexSet \/ NoteIndexesCorrupt
  <2>1. \/ Moves("analyze", "jvm") \/ Moves("analyze", "none") \/ Moves("analyze", "drop")
        \/ Moves("analyze", "note") \/ Moves("analyze", "kick_dropped")
    BY <1>9 DEF OpenMat, EndMat, MeetCorruptIndex, DropIndexSet, NoteIndexesCorrupt,
                AnalyzeAt, Goes, Removable
  <2>2. QED
    BY <2>1
<1>10. QED
  BY <1>3, <1>4, <1>5, <1>6, <1>7, <1>8, <1>9 DEF Bootstrap, Analyze

(* Everything else that moves a job. *)
LEMMA JobMoves ==
  ASSUME TypeOK, OwnerInv, JobInv, [Next]_vars
  PROVE  \/ job' = job
         \/ Crash
         \/ \E j \in Jobs, to \in JobPhases : Moves(j, to)
<1> USE Phases DEF KickPhases
<1>0. disk.data => disk'.data
  BY DiskGrows
<1>1. CASE Bootstrap \/ Compact \/ Analyze
  BY <1>1, MatMoves DEF Jobs
<1>2. ASSUME NEW j \in Jobs, Begin(j) \/ Land(j) \/ ReportDone(j)
      PROVE  \E to \in JobPhases : Moves(j, to)
  <2>1. j \in DownloadJobs
    BY <1>2 DEF Begin, Land, ReportDone
  <2>2. QED
    BY <1>2, <2>1, StageMoves
<1>3. ASSUME NEW j \in Jobs, Abort(j) \/ Fail(j) \/ ReportError(j)
      PROVE  \E to \in JobPhases : Moves(j, to)
  <2>1. j = "bootstrap" => disk'.data
    BY <1>0, <1>3 DEF Abort, Fail, ReportError, Working, JobInv
  <2>2. Moves(j, "kick") \/ Moves(j, "failed")
    BY <1>3, <2>1 DEF Abort, Fail, ReportError, Working, Enters, Moves, Legal
  <2>3. QED
    BY <2>2
<1>4. ASSUME NEW j \in Jobs, JobKick(j)
      PROVE  job' = job \/ \E to \in JobPhases : Moves(j, to)
  <2>1. CASE job' = job
    BY <2>1
  <2>2. CASE job' # job
    <3>1. /\ job' = [job EXCEPT ![j] = JobAfterKick[job[j]]]
          /\ job[j] \in KickPhases /\ pass.owner # j /\ pass' = pass
      BY <1>4, <2>2 DEF JobKick, JobReturns, Kick
    <3>2. j = "bootstrap" => disk'.data
      BY <1>0, <3>1 DEF JobInv
    <3>3. Moves(j, JobAfterKick[job[j]])
      BY <3>1, <3>2 DEF Moves, Legal
    <3>4. QED
      BY <3>3 DEF Moves
  <2>3. QED
    BY <2>1, <2>2
<1>5. CASE PassExec
  <2> DEFINE a == Head(pass.acts)
  <2>1. CASE job' = job
    BY <2>1
  <2>2. CASE job' # job
    <3>1. a \in DOMAIN JobOf /\ Submit(JobOf[a])
      BY <1>5, <2>2 DEF PassExec
    <3>2. PICK j \in Jobs : j = JobOf[a]
      BY <3>1
    <3>3. job[j] = "none" /\ job' = [job EXCEPT ![j] = "queued"]
      BY <2>2, <3>1, <3>2 DEF Submit, TypeOK
    <3>4. Moves(j, "queued")
      BY <1>5, <3>1, <3>2, <3>3 DEF Moves, Legal
    <3>5. QED
      BY <3>4 DEF Moves
  <2>3. QED
    BY <2>1, <2>2
<1>6. CASE PassRelease
  <2>1. CASE job' = job
    BY <2>1
  <2>2. CASE job' # job
    <3>1. PICK j \in Jobs :
            j = pass.owner /\ job' = [job EXCEPT ![j] = JobAfterKick[job[j]]]
      BY <1>6, <2>2 DEF PassRelease, JobReturns
    <3>2. job[j] \in KickPhases
      BY <3>1 DEF OwnerInv
    <3>3. j = "bootstrap" => disk'.data
      BY <1>0, <3>2 DEF JobInv
    <3>4. Moves(j, JobAfterKick[job[j]])
      BY <1>6, <3>1, <3>2, <3>3 DEF Moves, Legal
    <3>5. QED
      BY <3>4 DEF Moves
  <2>3. QED
    BY <2>1, <2>2
<1>7. ASSUME NEW c \in Clients, SubmitAnalysis(c)
      PROVE  job' = job \/ Moves("analyze", "queued")
  BY <1>7 DEF SubmitAnalysis, Submit, Moves, Legal, TypeOK
<1>8. ASSUME NEW c \in Clients, CancelQueued(c)
      PROVE  \E j \in Jobs : Moves(j, "none")
  BY <1>8 DEF CancelQueued, Enters, Moves, Legal
<1>9. \/ job' = job \/ Crash \/ Bootstrap \/ Compact \/ Analyze \/ PassExec \/ PassRelease
      \/ \E j \in Jobs : \/ Begin(j) \/ Land(j) \/ ReportDone(j)
                         \/ Abort(j) \/ Fail(j) \/ ReportError(j) \/ JobKick(j)
      \/ \E c \in Clients : SubmitAnalysis(c) \/ CancelQueued(c)
  BY DEF vars, persistent, world, Next, Pass, PassObserve, PassLive, PassView, PassDecide,
         PassSweep, Tick, Publish, Download, Refetch, Outcome, Request, StartDownload,
         Cancel, RequestAnalysis, Serve, MarkWanted, Answer, MarkCancelled, WaitStopped,
         Purge, ClientKick
<1>10. QED
  BY <1>1, <1>2, <1>3, <1>4, <1>5, <1>6, <1>7, <1>8, <1>9

-----------------------------------------------------------------------------
(* The requests: one at a time moves, and one in its kick waits. *)
ClientKicks == {"start_fresh", "start_retry", "cancel_kick", "request_kick"}

ClientMoves(c, to) ==
  /\ to \in ClientPhases
  /\ client' = [client EXCEPT ![c] = to]
  /\ client[c] \in ClientKicks => \/ PassRelease /\ pass.owner = c
                                  \/ pass.owner # c /\ UNCHANGED pass

LEMMA ClientPhasesFacts ==
  /\ DOMAIN ClientAfterKick = ClientKicks
  /\ \A k \in ClientKicks : ClientAfterKick[k] \in {"report", "over", "submit"}
  /\ ClientPhases = {"idle", "over", "refused", "mark_fresh", "mark_retry", "report",
                     "cancel_mark", "cancel_wait", "cancel_purge", "submit"}
                      \union ClientKicks
BY DEF ClientAfterKick, ClientKicks, ClientPhases

LEMMA RequestMoves ==
  ASSUME TypeOK, OwnerInv, NEW c \in Clients, Request(c) \/ Serve(c)
  PROVE  client' = client \/ \E to \in ClientPhases : ClientMoves(c, to)
<1> USE ClientPhasesFacts DEF ClientKicks, Proceeds, ClientMoves
<1>1. CASE Request(c)
  <2>1. \/ ClientMoves(c, "mark_retry") \/ ClientMoves(c, "mark_fresh")
        \/ ClientMoves(c, "cancel_mark") \/ ClientMoves(c, "over")
        \/ ClientMoves(c, "request_kick")
    BY <1>1 DEF Request, StartDownload, Cancel, CancelQueued, RequestAnalysis, Free
  <2>2. QED
    BY <2>1
<1>2. CASE ClientKick(c)
  <2>1. CASE client' = client
    BY <2>1
  <2>2. CASE client' # client
    <3>1. /\ client' = [client EXCEPT ![c] = ClientAfterKick[client[c]]]
          /\ client[c] \in ClientKicks /\ pass.owner # c /\ pass' = pass
      BY <1>2, <2>2 DEF ClientKick, Kick
    <3>2. ClientMoves(c, ClientAfterKick[client[c]])
      BY <3>1
    <3>3. QED
      BY <3>2
  <2>3. QED
    BY <2>1, <2>2
<1>3. CASE Serve(c) /\ ~ClientKick(c)
  <2>1. \/ ClientMoves(c, "start_fresh") \/ ClientMoves(c, "start_retry")
        \/ ClientMoves(c, "over") \/ ClientMoves(c, "refused")
        \/ ClientMoves(c, "cancel_wait") \/ ClientMoves(c, "cancel_purge")
        \/ ClientMoves(c, "cancel_kick")
    BY <1>3 DEF Serve, MarkWanted, Answer, MarkCancelled, WaitStopped, Purge,
                SubmitAnalysis
  <2>2. QED
    BY <2>1
<1>4. QED
  BY <1>1, <1>2, <1>3

LEMMA ClientsMove ==
  ASSUME TypeOK, OwnerInv, [Next]_vars
  PROVE  \/ client' = client
         \/ Crash
         \/ \E c \in Clients, to \in ClientPhases : ClientMoves(c, to)
<1> USE ClientPhasesFacts
<1>1. CASE PassRelease
  <2>1. CASE client' = client
    BY <2>1
  <2>2. CASE client' # client
    <3>1. PICK c \in Clients : c = pass.owner /\ ClientReturns(c, pass.answered)
      BY <1>1, <2>2 DEF PassRelease
    <3>2. client[c] \in ClientKicks
      BY <3>1 DEF OwnerInv
    <3>3. ClientMoves(c, "over") \/ ClientMoves(c, ClientAfterKick[client[c]])
      BY <1>1, <3>1, <3>2 DEF ClientReturns, ClientMoves, ClientKicks
    <3>4. QED
      BY <3>3 DEF ClientMoves
  <2>3. QED
    BY <2>1, <2>2
<1>2. \/ client' = client \/ Crash \/ PassRelease
      \/ \E c \in Clients : Request(c) \/ Serve(c)
  BY DEF vars, persistent, world, Next, Pass, PassObserve, PassLive, PassView, PassDecide,
       PassExec, PassSweep, Tick, Publish, Bootstrap, BeginBootstrap,
       LandBootstrap, ReportBootstrapData, ReportBootstrapIndexes, Compact, Analyze,
       BeginAnalyze, Await, BeginParse, EndParse, AbortParse, FailParse, ReportParse,
       LeaveParse, OpenMat, EndMat, MeetCorruptIndex, DropIndexSet, NoteIndexesCorrupt,
       Download, Begin, Land, Refetch, ReportDone, Outcome, Abort, Fail,
       ReportError, JobKick
<1>3. QED
  BY <1>1, <1>2, RequestMoves

(* The runner of the passes stays in its kick. *)
LEMMA OwnerStep ==
  ASSUME TypeOK, OwnerInv, JobInv, [Next]_vars
  PROVE  OwnerInv'
<1> USE Phases, ClientPhasesFacts DEF OwnerInv
<1>0. /\ \A x \in {"none", "timer", "startup"} : x \notin Jobs /\ x \notin Clients
      /\ Jobs \intersect Clients = {}
  BY ClientsAssumption
<1>1. CASE pass'.owner \in {"none", "timer", "startup"}
  BY <1>0, <1>1
<1>2. CASE pass'.owner = pass.owner /\ ~PassRelease /\ ~Crash
  <2>1. ASSUME pass.owner \in Jobs PROVE job'[pass.owner] \in KickPhases
    <3>1. job[pass.owner] \in KickPhases
      BY <2>1
    <3>2. ASSUME NEW j \in Jobs, NEW to, Moves(j, to) PROVE job'[pass.owner] = job[pass.owner]
      BY <1>2, <2>1, <3>1, <3>2 DEF Moves, Legal, TypeOK
    <3>3. QED
      BY <1>2, <2>1, <3>1, <3>2, JobMoves
  <2>2. ASSUME pass.owner \in Clients PROVE client'[pass.owner] \in ClientKicks
    <3>1. client[pass.owner] \in ClientKicks
      BY <2>2
    <3>2. ASSUME NEW c \in Clients, NEW to, ClientMoves(c, to)
          PROVE  client'[pass.owner] = client[pass.owner]
      BY <1>2, <2>2, <3>1, <3>2 DEF ClientMoves, TypeOK
    <3>3. QED
      BY <1>2, <2>2, <3>1, <3>2, ClientsMove
  <2>3. QED
    BY <1>2, <2>1, <2>2
<1>3. CASE Kicks /\ pass' # pass
  <2>1. CASE Tick
    BY <1>1, <1>3, <2>1 DEF Tick, Kick, NoPass
  <2>2. ASSUME NEW j \in Jobs, JobKick(j) PROVE OwnerInv'
    <3>1. pass'.owner = j /\ job' = job /\ job[j] \in KickPhases
      BY <1>3, <2>2 DEF JobKick, Kick, NoPass
    <3>2. QED
      BY <1>0, <3>1
  <2>3. ASSUME NEW c \in Clients, ClientKick(c) PROVE OwnerInv'
    <3>1. pass'.owner = c /\ client' = client /\ client[c] \in ClientKicks
      BY <1>3, <2>3 DEF ClientKick, Kick, NoPass
    <3>2. QED
      BY <1>0, <3>1
  <2>4. QED
    BY <1>3, <2>1, <2>2, <2>3 DEF Kicks
<1>4. CASE PassRelease
  BY <1>1, <1>4 DEF PassRelease, NoPass
<1>5. CASE Crash
  BY <1>1, <1>5 DEF Crash, NoPass
<1>6. CASE Pass /\ ~PassRelease
  <2>1. pass'.owner = pass.owner
    <3>0. pass \in Passes
      BY DEF TypeOK
    <3>1. CASE PassObserve \/ PassLive \/ PassView \/ PassSweep
      BY <3>0, <3>1 DEF PassObserve, PassLive, PassView, PassSweep, Passes
    <3>2. CASE PassDecide \/ PassExec
      BY ZenonT(60), <3>0, <3>2 DEF PassDecide, PassExec, Passes
    <3>3. QED
      BY <1>6, <3>1, <3>2 DEF Pass
  <2>2. CASE Crash
    BY <1>5, <2>2
  <2>3. QED
    BY <1>2, <1>6, <2>1, <2>2
<1>7. CASE pass' = pass
  BY <1>2, <1>4, <1>5, <1>7
<1>8. QED
  BY <1>3, <1>4, <1>5, <1>6, <1>7, PassFrame

-----------------------------------------------------------------------------
(* Every variable keeps its type. *)
LEMMA TypesStep ==
  ASSUME TypeOK, OwnerInv, PassInv, JobInv, [Next]_vars
  PROVE  TypeOK'
<1>1. disk' \in Disks /\ mach' \in Machines
  BY DiskTypes, MachStep DEF MachOK
<1>2. pass' \in Passes
  BY PassFrame, PassTypes, KickTypes DEF TypeOK
<1>3. job' \in [Jobs -> JobPhases]
  <2>1. job \in [Jobs -> JobPhases] /\ "none" \in JobPhases
    BY Phases DEF TypeOK
  <2>2. QED
    BY <2>1, JobMoves DEF Moves, Crash
<1>4. client' \in [Clients -> ClientPhases]
  <2>1. client \in [Clients -> ClientPhases] /\ {"idle", "over"} \subseteq ClientPhases
    BY ClientPhasesFacts DEF TypeOK
  <2>2. QED
    BY <2>1, ClientsMove DEF ClientMoves, Crash
<1>5. /\ given' \in Starts /\ crashes' \in 0..given'.crashes
      /\ published' \in SUBSET given'.publishable
  BY ScenarioTypes
<1>6. dir' \in BOOLEAN
  BY DEF TypeOK, vars, persistent, world, Next, Pass, PassObserve, PassLive, PassView,
       PassDecide, PassExec, PassSweep, PassRelease, Tick, Publish, Bootstrap,
       BeginBootstrap, LandBootstrap, ReportBootstrapData, ReportBootstrapIndexes,
       Compact, Analyze, BeginAnalyze, Await, BeginParse, EndParse, AbortParse,
       FailParse, ReportParse, LeaveParse, OpenMat, EndMat, MeetCorruptIndex,
       DropIndexSet, NoteIndexesCorrupt, Crash, Download, Begin, Land, Refetch,
       ReportDone, Outcome, Abort, Fail, ReportError, JobKick, Request, StartDownload,
       Cancel, CancelQueued, RequestAnalysis, Serve, MarkWanted, Answer, MarkCancelled,
       WaitStopped, Purge, SubmitAnalysis, ClientKick
<1>7. retried' \in BOOLEAN
  BY DEF TypeOK, vars, persistent, world, Next, Pass, PassObserve, PassLive, PassView,
       PassDecide, PassExec, PassSweep, PassRelease, Tick, Publish, Bootstrap,
       BeginBootstrap, LandBootstrap, ReportBootstrapData, ReportBootstrapIndexes,
       Compact, Analyze, BeginAnalyze, Await, BeginParse, EndParse, AbortParse,
       FailParse, ReportParse, LeaveParse, OpenMat, EndMat, MeetCorruptIndex,
       DropIndexSet, NoteIndexesCorrupt, Crash, Download, Begin, Land, Refetch,
       ReportDone, Outcome, Abort, Fail, ReportError, JobKick, Request, StartDownload,
       Cancel, CancelQueued, RequestAnalysis, Serve, MarkWanted, Answer, MarkCancelled,
       WaitStopped, Purge, SubmitAnalysis, ClientKick
<1>8. scratch' \in SUBSET (COMPONENTS \union {"dl"})
  <2>1. scratch \in SUBSET (COMPONENTS \union {"dl"})
    BY DEF TypeOK
  <2>2. \/ scratch' \subseteq scratch
        \/ \E j \in DownloadJobs : scratch' \subseteq scratch \union {j, "dl"}
    BY DEF vars, persistent, world, Next, Pass, PassObserve, PassLive, PassView,
       PassDecide, PassExec, PassSweep, PassRelease, Tick, Publish, Bootstrap,
       BeginBootstrap, LandBootstrap, ReportBootstrapData, ReportBootstrapIndexes,
       Compact, Analyze, BeginAnalyze, Await, BeginParse, EndParse, AbortParse,
       FailParse, ReportParse, LeaveParse, OpenMat, EndMat, MeetCorruptIndex,
       DropIndexSet, NoteIndexesCorrupt, Crash, Download, Begin, Land, Refetch,
       ReportDone, Outcome, Abort, Fail, ReportError, JobKick, Request, StartDownload,
       Cancel, CancelQueued, RequestAnalysis, Serve, MarkWanted, Answer, MarkCancelled,
       WaitStopped, Purge, SubmitAnalysis, ClientKick
  <2>3. DownloadJobs \subseteq COMPONENTS
    BY DEF DownloadJobs, COMPONENTS
  <2>4. QED
    BY <2>1, <2>2, <2>3
<1>9. rt' \in [abort : BOOLEAN, dirty : BOOLEAN, allow : BOOLEAN, inline : BOOLEAN]
  <2> DEFINE Flags == [abort : BOOLEAN, dirty : BOOLEAN, allow : BOOLEAN, inline : BOOLEAN]
  <2>1. rt \in Flags /\ dir \in BOOLEAN /\ pass.live \subseteq COMPONENTS
    BY DEF TypeOK, Passes
  <2>2. ASSUME NEW who, NEW allow \in BOOLEAN, Kick(who, allow) PROVE rt' \in Flags
    BY <2>1, <2>2 DEF Kick
  <2>3. CASE Kicks
    <3>1. \A c \in Clients : (client[c] = "start_retry") \in BOOLEAN
      OBVIOUS
    <3>2. QED
      BY <2>2, <2>3, <3>1 DEF Kicks, Tick, JobKick, ClientKick
  <2>4. CASE PassObserve \/ PassView
    BY <2>1, <2>4 DEF PassObserve, PassView
  <2>5. CASE PassExec
    BY <2>1, <2>5 DEF PassExec
  <2>6. CASE BeginParse \/ LeaveParse
    BY <2>1, <2>6 DEF BeginParse, LeaveParse
  <2>7. ASSUME NEW c \in Clients, Cancel(c) PROVE rt' \in Flags
    BY <2>1, <2>7 DEF Cancel
  <2>8. CASE Crash
    BY <2>1, <2>8 DEF Crash
  <2>9. \/ rt' = rt \/ Kicks \/ PassObserve \/ PassView \/ PassExec \/ BeginParse
        \/ LeaveParse \/ Crash \/ \E c \in Clients : Cancel(c)
    BY DEF vars, persistent, world, Next, Pass, PassLive, PassDecide, PassSweep,
       PassRelease, Publish, Bootstrap, BeginBootstrap, LandBootstrap,
       ReportBootstrapData, ReportBootstrapIndexes, Compact, Analyze, BeginAnalyze,
       Await, EndParse, AbortParse, FailParse, ReportParse, OpenMat, EndMat,
       MeetCorruptIndex, DropIndexSet, NoteIndexesCorrupt, Download, Begin, Land,
       Refetch, ReportDone, Outcome, Abort, Fail, ReportError, Request,
       StartDownload, CancelQueued, RequestAnalysis, Serve, MarkWanted, Answer,
       MarkCancelled, WaitStopped, Purge, SubmitAnalysis, Kicks
  <2> HIDE DEF Flags
  <2>10. rt' \in Flags
    BY <2>1, <2>3, <2>4, <2>5, <2>6, <2>7, <2>8, <2>9 DEF Flags
  <2>11. QED
    BY <2>10 DEF Flags
<1>10. QED
  BY <1>1, <1>2, <1>3, <1>4, <1>5, <1>6, <1>7, <1>8, <1>9 DEF TypeOK

-----------------------------------------------------------------------------
(* An action that is asked for has its ground, so a job that is queued has. *)
LEMMA Submitted ==
  ASSUME TypeOK, PassInv, PassExec, Head(pass.acts) \in DOMAIN JobOf
  PROVE  /\ JobOf[Head(pass.acts)] = "bootstrap" => disk.hprof
         /\ JobOf[Head(pass.acts)] = "indexes" => Removable
<1>1. pass.acts \in Seq(ActionTags) /\ pass.acts # <<>>
  BY DEF TypeOK, Passes, PassExec
<1>2. 1 \in 1..Len(pass.acts) /\ Head(pass.acts) = pass.acts[1]
  BY <1>1
<1>3. /\ Head(pass.acts) = A_BOOTSTRAP => disk.hprof
      /\ Head(pass.acts) = A_ACQUIRE_INDEXES => Removable
  BY <1>2 DEF PassInv
<1>4. \A a \in DOMAIN JobOf : /\ JobOf[a] = "bootstrap" => a = A_BOOTSTRAP
                              /\ JobOf[a] = "indexes" => a = A_ACQUIRE_INDEXES
  BY DEF JobOf, A_BOOTSTRAP, A_ACQUIRE_INDEXES
<1>5. QED
  BY <1>3, <1>4

LEMMA RemovableFacts ==
  ASSUME TypeOK, JobInv, [Next]_vars
  PROVE  /\ disk.hprof => disk'.hprof
         /\ disk.data => disk'.data
         /\ HasIndexes => HasIndexes' \/ Removable'
         /\ Removable <=> Removable'
<1>1. Removable <=> Removable'
  BY ScenarioFrame DEF Removable
<1>2. QED
  BY <1>1, DiskGrows

LEMMA JobStep ==
  ASSUME TypeOK, OwnerInv, PassInv, JobInv, [Next]_vars
  PROVE  JobInv'
<1>1. /\ disk.hprof => disk'.hprof
      /\ disk.data => disk'.data
      /\ HasIndexes => HasIndexes' \/ Removable'
      /\ Removable <=> Removable'
  BY RemovableFacts
<1>0. job \in [Jobs -> JobPhases]
  BY DEF TypeOK
<1> USE Phases
<1>2. CASE job' = job
  BY <1>1, <1>2 DEF JobInv, AnalyzeAt
<1>3. CASE Crash
  BY <1>3 DEF Crash, JobInv, AnalyzeAt
<1>4. ASSUME NEW j \in Jobs, NEW to, Moves(j, to) PROVE JobInv'
  <2>1. /\ job'[j] = to
        /\ \A k \in Jobs : k # j => job'[k] = job[k]
        /\ Legal(j, job[j], to)
    BY <1>0, <1>4 DEF Moves
  <2>2. /\ j = "bootstrap" /\ job[j] = "none" => disk.hprof
        /\ j = "indexes" /\ job[j] = "none" => Removable
    BY <2>1, Submitted DEF Legal
  <2>3. CASE j = "dump"
    BY <1>1, <2>1, <2>3 DEF JobInv, AnalyzeAt, Legal
  <2>4. CASE j = "data"
    BY <1>1, <2>1, <2>4 DEF JobInv, AnalyzeAt, Legal
  <2>5. CASE j = "indexes"
    <3>1. Removable
      BY <2>2, <2>5 DEF JobInv
    <3>2. QED
      BY <1>1, <2>1, <2>5, <3>1 DEF JobInv
  <2>6. CASE j = "bootstrap"
    BY <1>1, <2>1, <2>2, <2>6 DEF JobInv, AnalyzeAt, Legal
  <2>7. CASE j = "analyze" \/ j = "compact"
    BY <1>1, <2>1, <2>7 DEF JobInv, AnalyzeAt, Legal
  <2>8. QED
    BY <2>3, <2>4, <2>5, <2>6, <2>7
<1>5. QED
  BY <1>2, <1>3, <1>4, JobMoves

(* A kick that finds the lock free, and a restart, begin with a fresh pass. *)
LEMMA FreshPass ==
  ASSUME Kicks \/ Crash
  PROVE  \/ pass' = pass
         \/ /\ pass'.pc \in {"none", "check"} /\ pass'.obs = NoObs
            /\ pass'.view = Unqueried /\ pass'.acts = <<>>
<1>1. \A who : LET p == [NoPass EXCEPT !.pc = "check", !.owner = who] IN
        /\ p.pc = "check" /\ p.obs = NoObs /\ p.view = Unqueried /\ p.acts = <<>>
  BY DEF NoPass
<1>2. NoPass.pc = "none" /\ NoPass.obs = NoObs /\ NoPass.view = Unqueried
      /\ NoPass.acts = <<>>
  BY DEF NoPass
<1>3. CASE Crash
  BY <1>1, <1>2, <1>3 DEF Crash
<1>4. CASE Kicks
  BY <1>1, <1>4 DEF Kicks, Tick, JobKick, ClientKick, Kick
<1>5. QED
  BY <1>3, <1>4

LEMMA PassStep ==
  ASSUME TypeOK, PassInv, JobInv, [Next]_vars
  PROVE  PassInv'
<1>1. /\ disk.hprof => disk'.hprof
      /\ disk.data => disk'.data
      /\ HasIndexes => HasIndexes' \/ Removable'
      /\ Removable <=> Removable'
      /\ pass \in Passes /\ disk \in Disks
  BY RemovableFacts DEF TypeOK
<1>2. CASE pass' = pass
  BY <1>1, <1>2 DEF PassInv
<1>3. CASE pass'.obs = NoObs /\ pass'.view = Unqueried /\ pass'.acts = <<>>
  BY <1>3 DEF PassInv, NoObs, Unqueried
<1>4. CASE Kicks \/ Crash
  BY <1>2, <1>3, <1>4, FreshPass
<1>5. CASE PassObserve
  <2>1. /\ pass'.obs = Observed /\ pass'.view = pass.view /\ pass'.acts = pass.acts
        /\ disk' = disk
    BY <1>1, <1>5 DEF PassObserve, Passes, persistent
  <2>2. QED
    BY <1>1, <2>1 DEF PassInv, Observed, HasIndexes
<1>6. CASE PassLive \/ PassSweep
  BY <1>1, <1>6 DEF PassLive, PassSweep, PassInv, Passes
<1>7. CASE PassView
  <2>1. PICK v \in PossibleViews(pass.live) :
          pass' = [pass EXCEPT !.pc = "decide", !.view = v, !.allow = rt.allow]
    BY <1>7 DEF PassView
  <2>2. v.indexes => Removable
    <3>1. v.indexes => "indexes" \in published
      <4> DEFINE answer == [queried |-> TRUE, failed |-> FALSE,
                   hprof |-> "dump" \in published, data |-> "data" \in published,
                   indexes |-> "indexes" \in published]
                 failure == [Unqueried EXCEPT !.queried = TRUE, !.failed = TRUE]
      <4>1. v \in {Unqueried, answer, failure}
        BY <2>1 DEF PossibleViews
      <4>2. Unqueried.indexes = FALSE /\ failure.indexes = FALSE
        BY DEF Unqueried
      <4>3. answer.indexes => "indexes" \in published
        OBVIOUS
      <4> HIDE DEF answer, failure
      <4>4. QED
        BY <4>1, <4>2, <4>3
    <3>2. QED
      BY <3>1 DEF TypeOK, Removable
  <2>3. pass'.obs = pass.obs /\ pass'.view = v /\ pass'.acts = pass.acts
    BY <1>1, <2>1 DEF Passes
  <2>4. QED
    BY <1>1, <2>2, <2>3 DEF PassInv
<1>8. CASE PassDecide
  <2> DEFINE d == Decide(mach, PassInputs)
  <2>1. /\ pass'.obs = NoObs /\ pass'.view = Unqueried /\ pass'.acts = d.acts
    BY <1>1, <1>8 DEF PassDecide, PassInputs, Passes
  <2>2. AllWarranted(d.acts, PassInputs)
    BY PassInputsType, DecideAsks DEF TypeOK
  <2>3. \A k \in 1..Len(d.acts) :
          /\ d.acts[k] = A_BOOTSTRAP => pass.obs.hprof
          /\ d.acts[k] = A_ACQUIRE_INDEXES => pass.view.indexes
    BY <2>2 DEF AllWarranted, Warranted, PassInputs
  <2> HIDE DEF d
  <2>4. QED
    BY <1>1, <2>1, <2>3 DEF PassInv, NoObs, Unqueried
<1>9. CASE PassExec
  <2>1. pass.acts \in Seq(ActionTags) /\ pass.acts # <<>>
    BY <1>1, <1>9 DEF PassExec, Passes
  <2>2. /\ pass'.obs = pass.obs /\ pass'.view = pass.view
        /\ pass'.acts = <<>> \/ pass'.acts = Tail(pass.acts)
    BY <1>1, <1>9 DEF PassExec, Passes
  <2>3. \A k \in 1..Len(Tail(pass.acts)) :
          k + 1 \in 1..Len(pass.acts) /\ Tail(pass.acts)[k] = pass.acts[k + 1]
    BY <2>1
  <2>4. \A k \in 1..Len(pass'.acts) :
          \E i \in 1..Len(pass.acts) : pass'.acts[k] = pass.acts[i]
    <3>1. CASE pass'.acts = <<>>
      BY <3>1
    <3>2. CASE pass'.acts = Tail(pass.acts)
      BY <2>3, <3>2
    <3>3. QED
      BY <2>2, <3>1, <3>2
  <2>5. QED
    BY <1>1, <2>2, <2>4 DEF PassInv
<1>10. CASE PassRelease
  BY <1>3, <1>10 DEF PassRelease, NoPass
<1>11. QED
  BY <1>2, <1>4, <1>5, <1>6, <1>7, <1>8, <1>9, <1>10, PassFrame DEF Pass

-----------------------------------------------------------------------------
(* What was backed stays so. *)
LEMMA BackedStays ==
  ASSUME TypeOK, JobInv, [Next]_vars, NEW c \in COMPONENTS, Backed(c)
  PROVE  Backed(c)'
<1>1. Removable' = Removable
  BY ScenarioFrame DEF Removable
<1>2. QED
  BY <1>1, DiskGrows DEF Backed, Artifact

LEMMA DoneStep ==
  ASSUME TypeOK, PassInv, JobInv, DoneIsBacked, [Next]_vars
  PROVE  DoneIsBacked'
BY MachStep, BackedStays DEF MachOK, DoneIsBacked

-----------------------------------------------------------------------------
(* A pass that saw nothing live: no download stage was active then, and only *)
(* the pass itself could have queued one since.                              *)
LEMMA SweepStep ==
  ASSUME TypeOK, OwnerInv, PassInv, JobInv, SweepInv, [Next]_vars
  PROVE  SweepInv'
<1>1. pass \in Passes /\ job \in [Jobs -> JobPhases]
  BY DEF TypeOK
<1>2. CASE pass'.pc \in {"none", "check", "live", "release"}
  BY <1>2 DEF SweepInv
<1>3. CASE PassExec
  <2>1. CASE pass'.pc = "exec" /\ pass'.settled
    <3>1. pass.pc = "exec" /\ pass.settled /\ Head(pass.acts) \notin DOMAIN JobOf
      BY <1>1, <1>3, <2>1 DEF PassExec, Passes, AtPass
    <3>2. Quiet /\ job' = job
      BY <1>3, <3>1 DEF PassExec, SweepInv
    <3>3. QED
      BY <1>3, <3>1, <3>2 DEF PassExec, SweepInv, Quiet
  <2>2. CASE ~(pass'.pc = "exec" /\ pass'.settled)
    <3>1. pass'.pc \in {"exec", "release"}
      BY <1>1, <1>3 DEF PassExec, Passes, AtPass
    <3>2. QED
      BY <2>2, <3>1 DEF SweepInv
  <2>3. QED
    BY <2>1, <2>2
<1>4. CASE ~PassExec
  <2>1. Quiet => Quiet'
    <3>1. CASE job' = job
      BY <3>1 DEF Quiet
    <3>2. CASE Crash
      BY <3>2 DEF Crash, Quiet, Jobs
    <3>3. ASSUME NEW j \in Jobs, NEW to, Moves(j, to), Quiet PROVE Quiet'
      <4>1. j \notin DownloadJobs
        BY <1>4, <3>3 DEF Moves, Legal, Quiet, DownloadJobs
      <4>2. QED
        BY <1>1, <3>3, <4>1 DEF Moves, Quiet, Jobs
    <3>4. QED
      BY <3>1, <3>2, <3>3, JobMoves
  <2>2. CASE pass' = pass
    BY <2>1, <2>2 DEF SweepInv
  <2>3. CASE Kicks \/ Crash
    BY <1>2, <2>2, <2>3, FreshPass
  <2>4. CASE PassObserve \/ PassSweep \/ PassRelease
    <3>1. pass'.pc \in {"live", "check", "none"}
      <4>1. CASE PassRelease
        BY <4>1 DEF PassRelease, NoPass
      <4>2. CASE PassObserve \/ PassSweep
        BY <1>1, <4>2 DEF PassObserve, PassSweep, Passes
      <4>3. QED
        BY <2>4, <4>1, <4>2
    <3>2. QED
      BY <1>2, <3>1
  <2>5. CASE PassLive
    <3>1. pass'.pc = "view" /\ pass'.live = Live /\ job' = job
      BY <1>1, <2>5 DEF PassLive, Passes
    <3>2. Live = {} => Quiet
      <4>1. \A j \in DownloadJobs : j \in Jobs /\ j \in LiveOf[j]
        BY DEF Jobs, DownloadJobs, LiveOf
      <4>2. QED
        BY <4>1 DEF Live, Active, Quiet
    <3>3. QED
      BY <3>1, <3>2 DEF SweepInv, Quiet
  <2>6. CASE PassView
    <3>1. pass.pc = "view" /\ pass'.pc = "decide" /\ pass'.live = pass.live
      BY <1>1, <2>6 DEF PassView, Passes, AtPass
    <3>2. QED
      BY <2>1, <3>1 DEF SweepInv
  <2>7. CASE PassDecide
    <3>1. /\ pass.pc = "decide" /\ pass'.pc = "exec"
          /\ pass'.settled => pass.live = {}
      BY <1>1, <2>7 DEF PassDecide, Passes, AtPass, Settled
    <3>2. QED
      BY <2>1, <3>1 DEF SweepInv
  <2>8. QED
    BY <1>4, <2>2, <2>3, <2>4, <2>5, <2>6, <2>7, PassFrame DEF Pass
<1>5. QED
  BY <1>3, <1>4

-----------------------------------------------------------------------------
LEMMA DiskRecord ==
  ASSUME NEW a \in BOOLEAN, NEW b \in BOOLEAN, NEW z \in BOOLEAN
  PROVE  [hprof |-> a, data |-> b, raws |-> FALSE, zsts |-> z,
          debris |-> FALSE, marker |-> z, partial |-> FALSE] \in Disks
  BY DEF Disks

LEMMA InitHolds == Init => IInv
<1> SUFFICES ASSUME Init PROVE IInv
  OBVIOUS
<1> USE DEF Init
<1>1. TypeOK
  <2>1. disk \in Disks
    <3>1. disk = [hprof |-> "dump" \in given.arrived, data |-> "data" \in given.arrived,
                  raws |-> FALSE, zsts |-> "indexes" \in given.arrived,
                  debris |-> FALSE, marker |-> "indexes" \in given.arrived,
                  partial |-> FALSE]
      BY DEF EmptyDisk
    <3>2. PICK a \in BOOLEAN : a <=> "dump" \in given.arrived
      OBVIOUS
    <3>3. PICK b \in BOOLEAN : b <=> "data" \in given.arrived
      OBVIOUS
    <3>4. PICK z \in BOOLEAN : z <=> "indexes" \in given.arrived
      OBVIOUS
    <3>5. disk = [hprof |-> a, data |-> b, raws |-> FALSE, zsts |-> z,
                  debris |-> FALSE, marker |-> z, partial |-> FALSE]
      <4>1. a = ("dump" \in given.arrived)
        BY <3>2
      <4>2. b = ("data" \in given.arrived)
        BY <3>3
      <4>3. z = ("indexes" \in given.arrived)
        BY <3>4
      <4>4. QED
        BY <3>1, <4>1, <4>2, <4>3, Zenon
    <3>6. QED
      BY ZenonT(60), <3>5, DiskRecord
  <2>2. mach \in Machines
    <3>1. \A c \in COMPONENTS : Recorded(c) \in Comps
      BY CompTypes DEF Recorded
    <3>2. dir \in BOOLEAN
      OBVIOUS
    <3>3. QED
      BY <3>1, <3>2 DEF Machines, COMPONENTS
  <2>3. NoPass \in Passes
    <3>1. <<>> \in Seq(ActionTags) /\ NoObs \in Observations /\ Unqueried \in RemoteViews
      BY DEF NoObs, Observations, Unqueried, RemoteViews
    <3>2. QED
      BY <3>1 DEF NoPass, Passes, PassPhases
  <2>4. /\ job \in [Jobs -> JobPhases] /\ client \in [Clients -> ClientPhases]
        /\ scratch \subseteq COMPONENTS \union {"dl"}
        /\ rt \in [abort : BOOLEAN, dirty : BOOLEAN, allow : BOOLEAN, inline : BOOLEAN]
    BY Phases, ClientPhasesFacts
  <2>5. published \in SUBSET given.publishable /\ crashes \in 0..given.crashes
    BY GivenFacts
  <2>6. dir \in BOOLEAN /\ retried \in BOOLEAN
    OBVIOUS
  <2>7. QED
    BY <2>1, <2>2, <2>3, <2>4, <2>5, <2>6 DEF TypeOK
<1>2. OwnerInv
  <2>1. pass.owner = "none"
    BY DEF NoPass
  <2>2. QED
    BY <2>1, ClientsAssumption, Phases DEF OwnerInv
<1>3. PassInv /\ SweepInv
  BY DEF PassInv, SweepInv, NoPass, NoObs, Unqueried
<1>4. JobInv
  BY Phases DEF JobInv, AnalyzeAt
<1>5. DoneIsBacked
  <2>1. \A c \in COMPONENTS : mach[c].s = DONE => c \in given.arrived
    BY DEF Recorded, Comp, COMPONENTS
  <2>2. /\ "dump" \in given.arrived => disk.hprof
        /\ "data" \in given.arrived => disk.data
        /\ "indexes" \in given.arrived => disk.zsts
    BY DEF EmptyDisk
  <2>3. QED
    BY <2>1, <2>2 DEF DoneIsBacked, Backed, Artifact, HasIndexes, COMPONENTS
<1>6. QED
  BY <1>1, <1>2, <1>3, <1>4, <1>5 DEF IInv

LEMMA InductiveInvariant == Spec => []IInv
<1>1. IInv /\ [Next]_vars => IInv'
  BY TypesStep, OwnerStep, PassStep, JobStep, DoneStep, SweepStep DEF IInv
<1>2. QED
  BY <1>1, InitHolds, PTL DEF Spec

(* Every variable keeps its type; in particular no pass returns to a caller *)
(* that is not waiting for it.                                              *)
THEOREM TypeCorrect == Spec => []TypeOK
<1>1. IInv => TypeOK
  BY DEF IInv
<1>2. QED
  BY <1>1, InductiveInvariant, PTL

(* DONE is gated on artifacts: for any requests, publications, failures and *)
(* crashes, whatever a pass read before.                                    *)
THEOREM BackedDone == Spec => []DoneIsBacked
<1>1. IInv => DoneIsBacked
  BY DEF IInv
<1>2. QED
  BY <1>1, InductiveInvariant, PTL

(* ERROR and CANCELLED wait for the user, an artifact, or a corrupt set.    *)
THEOREM PatientStops == Spec => StopsWaitForUser
<1>1. IInv /\ IInv' /\ [Next]_vars
        => [\A c \in COMPONENTS :
              Stopped(mach[c].s) /\ mach'[c] # mach[c]
                => \/ ResetByUser \/ HandedBack(c)
                   \/ mach'[c].s = DONE /\ Backed(c)']_vars
  BY MachStep DEF IInv, MachOK, DoneIsBacked
<1>2. QED
  BY <1>1, InductiveInvariant, PTL DEF Spec, StopsWaitForUser

(* The quiescent sweep never removes what a stage is fetching. *)
THEOREM SparingSweep == Spec => SweepSparesStages
<1>1. IInv /\ [Next]_vars
        => [pass.pc = "exec" /\ pass'.pc = "check"
              => scratch \intersect Stages \subseteq scratch']_vars
  <2> SUFFICES ASSUME IInv, Next, pass.pc = "exec", pass'.pc = "check"
               PROVE  scratch \intersect Stages \subseteq scratch'
    OBVIOUS
  <2>1. CASE PassSweep
    BY <2>1 DEF PassSweep, IInv, SweepInv, Quiet, Stages, Working
  <2>2. CASE Crash
    BY <2>2 DEF Crash, persistent
  <2>3. CASE Kicks
    BY <2>3 DEF Kicks, Tick, JobKick, ClientKick, persistent
  <2>4. CASE Pass /\ ~PassSweep
    BY <2>4 DEF Pass, PassObserve, PassLive, PassView, PassDecide, PassExec, PassRelease,
                AtPass, IInv, TypeOK, Passes
  <2>5. QED
    BY <2>1, <2>2, <2>3, <2>4, PassFrame
<1>2. QED
  BY <1>1, InductiveInvariant, PTL DEF Spec, SweepSparesStages
=============================================================================
