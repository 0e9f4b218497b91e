# heap-report in TLA+

A model of the backend of heap-report: the server that downloads heap dumps,
fetches or builds their index sets and runs Eclipse MAT over them. The modules
here follow `src/backend`; TLC checks them on small instances and the TLA+ proof
system proves most of their safety properties for every instance.

## The system

| Part | State it keeps | Operations | What is hard about it | What makes it correct |
|---|---|---|---|---|
| `machine` (`decide.py`, `types.py`, `project.py`) | per dump three components `dump`, `data`, `indexes`, each NEW, DOWNLOADING, PARSING, DONE, ERROR or CANCELLED, and two sticky requests | `decide()` (one pass), `validate()`, `Comp.reset()`, `project()` | pure, but every combination of record, disk, live stages and remote answer may arrive | DONE follows the artifacts; stopped components wait for the user; nothing in progress is parked without a driver; a second pass adds nothing |
| `localstore.store` | `meta.json` per dump (the machine), the runtime `_Rt` per dump: pass lock, dirty flag, abort flag, one-shot `allow_local`, inline-parse marker, compact hold | `reconcile`, `start_download`, `cancel`, `delete`, `request_indexes`, `await_indexes`, `note_indexes_corrupt`, `compact`, tags | requests, stage jobs, MAT jobs and two timers call in concurrently; a pass reads its inputs before it takes the meta lock; cancellation is cooperative | events are not lost, passes do not overlap, an outcome never overrides a cancel, shared scratch is removed only when nobody uses it, the MAT worker never waits for nobody |
| `localstore.stages` | `.dl/` and `.untar/` while a stage runs | the dump, data and indexes stage | retries, aborts and crashes at any point; the three stages share `.dl/` | an artifact appears whole or not at all |
| `localstore.transfer` | parts, `.tmp` partials, staging dirs | fetch with resume, source router, pipe, validated commit | six connections, two sources, partials of an earlier attempt, bytes that are wrong | an executor ends; success means a complete artifact; nothing an earlier attempt left is an obstacle to a later one; bytes that were paid for are kept |
| `localstore.files`, `compact` | raw and compressed members of an index set, their mtimes, the marker | inspect, drop, (re)compress | crashes between two members, MAT and restore at the same time | no member is lost, MAT sees whole sets |
| `jobs` | job table and order, one MAT queue, one download queue | submit with dedup, cancel, list, the workers | snapshots age while they are used | one active job per stage identity, MAT is serial |
| `mat.engine` | payload cache with one load per key | analyze, inline parse, bootstrap, read queries | waits inside the serial worker; a corrupt set in the middle of an analysis; loads that load | an analysis ends; a failed extraction is never recorded, a finished one never repeated; no answer is older than its request |
| `mat.extract` | the index lock, MAT processes | restore, pin, run | lock changes hands three times before MAT starts | MAT never runs over a set that is being changed |
| `mat.db` | `analysis.db`: rows, markers, the class table, stored payloads | ingest (rows and marker in a transaction, then the CSV is deleted), `upsert_class`, `write_reach`, `write_payload` | stops between any two of them; keys shortened from class names | what is under a key is that class's, and whole |
| `mat.reach`, `payloads`, `parsing` | none beyond a run | fixpoint of root masks, levels, oriented cone sums, grouping under two caps; the aggregating walk and the forest of the rest | cycles, references upward, cut branches, caps that interact | results equal their definitions; every object is shown once |
| `github`, `s3` | listing cache, probe cache | list, plan, fetch, probe | publication is late and partial, lookups fail, caches age | an unreachable source is not an empty one; a listing outlives an outage; a source that has a part and does not deliver it does not cost the part |
| `kernel`, `http` | none | startup, two timers, one thread per request | | |
| `snapshot`, `ci`, `tools`, `web` | a page's repositories | | | |

How the parts interact: every event (request, timer, stage end, startup) calls
`reconcile(dump)`. The caller that gets the pass lock observes the disk, reads
which stages are live in the job registry, asks the remote sources when some
component could use the answer, applies `decide()` to the persisted machine
under the meta lock and submits the jobs it returned. A stage lands its
artifact, reports its outcome with a compare-and-set on the machine and kicks
`reconcile` again. The MAT worker is one thread for all dumps; an analysis runs
on it, waits there for the index set, and when the machine says PARSING it
parses right there.

## The modules

| Module | Models | Correspondence |
|---|---|---|
| `Machine` | `machine/` | constant operators: `Decide` = `decide()`, `Validate`, `DecideDump`, `DecideData`, `DecideIndexes` its blocks in their order, `Project`, `Reset`. An error text is left out, so is the resume token `parts`. |
| `DecideLoop` | `_pass` around unchanging surroundings | the first pass gets any machine and inputs; the following ones get what the store would add: the submitted jobs live, `allow_local` consumed, the MAT queue busy |
| `EventEvaluation` | the promise of `reconcile()`'s docstring | events are posted, evaluations run one at a time and take up everything posted before |
| `Reconcile` | `reconcile()` | one action per step of a thread: raise the flag, try the lock, test, lower, observe, decide, release, with an exception in or after the observation. `pending` and `lost` are history: whose event no pass has observed, and which of them a pass that raised had already taken the mark of |
| `DumpStore` | `store`, `stages`, the MAT jobs of `engine`, the requests of `http`, the timers of `kernel`, for one dump | see below |
| `IndexSet` | `MatRunner.restore_indexes`, `_pin_hprof`, `run`, `compact_dir`, `drop_index_set`, the indexes stage and `commit_untar`, member by member | see below |
| `Acquisition` | what the store expects of a stage | it ends, success means the artifact is complete, a complete artifact stays |
| `Transfer` | `stages` and `transfer`: one stage with its fetch threads, pipe and reader | see below |
| `Extraction` | `_analyze_class` with the ingests of `mat.db` and the end of `MatRunner.run` | see below |
| `Jobs` | `jobs.py` | `submit()` in its two halves (`Register` under the lock, `Put` outside), `Snapshot` and `Cancel` of a request, `Take`, `Enter`, `Leave` of a worker |
| `MetaStore` | `update_meta`, `set_tags` | one action per step of a writer: the two locks, read, open, dump, rename, release; `Raise`, and `Crash` of a process |
| `PayloadCache` | `_fp`, `_cached`, `invalidate` and the nesting of the loaders | `Ask` and `GoOn` are the payloads of one query in turn, as `anatomy()` asks for the index and then for its own; a stack of `_cached` calls per query; `Lead` loads, `Follow` waits; the database is a version that commits raise. `seen` is what a loader took over from its query (`Captured`) |
| `Sources` | `_remote_view`, `_merge_plans`, `SourceRouter`, the caches of `github.py` and `s3.py` | `Look` is one lookup, a request to a lane at a time; `Listing` is `_runs`; `Attempt` are the attempts of a stage at one part: `Resolve` probes, or believes a probe not older than its lifetime, `Arrive` and `Break` are the end of the response, with the wait before the next attempt; `Bucket` replaces objects |
| `ObjectGraph` | the extraction that both passes get | objects, classes, references, sampled roots; `Succ` is the adjacency they build; `Reachable` is the reference definition |
| `Reach` | `compute()` of `reach.py` | one action per turn of its loops: `Spread` (masks), `Level`, `FoldClass`, `FoldSmallest`, `Sum` (the cones) |
| `Anatomy` | `_anatomy_build` of `payloads.py` | `Walk` pops one object of `_agg_walk`; `Classify` gives the rest its causes; `NextGroup`, `NextCluster`, `Reseed` are the turns of the forest loop |
| `Analysis` | `Reach`, then `Anatomy`, over one graph | |
| `Services` | | the components that share no state side by side, each in behaviours of its own (`part`), for any of their constants |
| `MachineProofs` | lemmas about the operators of `Machine` | |
| `DecideProofs`, `ReconcileProofs`, `DumpStoreProofs`, `TransferProofs`, `IndexSetProofs`, `ExtractionProofs`, `ServicesProofs` | theorems | see "What is proved" |
| `MCDecideLoop`, `MCReconcile`, `MCDumpStore`, `MCIndexSet`, `MCTransfer`, `MCExtraction`, `MCServices` | instances for TLC | |

`DumpStore` in detail. `mach` is `meta["machine"]`, `disk` the artifacts at
their final paths, `scratch` the parts under `.dl/` and `.untar/` by component,
`rt` the runtime, `pass` the pass in progress with what it has read so far, `job`
the phase of every job, `client` where every HTTP thread is. A pass is cut where
another thread can change what it has read or is about to write: `PassObserve`,
`PassLive`, `PassView` (abort flag, `allow_local`, the sources), `PassDecide` (the
locked update), one `PassExec` per action, `PassSweep`, `PassRelease`. A stage is
cut at `Begin`, `Land` (the rename), `ReportDone` or `ReportError`, and `JobKick`;
`Abort` and `Fail` may come while it works. The passes run in the thread that
kicked: a job whose kick runs them is still RUNNING, and so live, when they look.
`Analyze` is the analysis on the MAT worker: `Await` is one turn of
`await_indexes`, `BeginParse` marks the inline parse live, `MeetCorruptIndex` to
`NoteIndexesCorrupt` is the replacement of a corrupt set. `Crash` keeps what is on
disk and starts with the pass of `reconcile_all`.

What `DumpStore` merges or leaves out:

- `reconcile`'s flag and lock: lowering the flag is one step with the
  observation, the last look at the flag one step with the release. The window
  between them is `Reconcile`'s subject, and so is a pass that raises.
- The members of an index set: a set is there or not, whole or `partial`. The
  commit of a downloaded set, a compaction and a restore are one step each, and
  the recorded manifest is absent (`zsts_valid` stays "unknown", which is what
  releases without a manifest get).
- The bytes of a download: a stage ends, fails or is aborted; attempts below the
  last one are stuttering, except that parts removed under a running stage are
  fetched again. `Transfer` has them.
- `delete`, compact holds (`compact_hold` is FALSE), other dumps on the queues.
- Reading the machine and the live stages in `await_indexes` is one step; the
  step in which the parse is marked live is a separate one.

`IndexSet` in detail. `raw` and `zst` are the files of every member, a file being a
version of its content and an mtime; `ex` and `sh` say who holds `.matindex.lock`.
A query (one `MatRunner.run`) goes from `ListMissing` over `LockRestore`,
`RestoreOne` and `StampOne` (the rename and the utime of a member), `EndRestore`,
`SurveyPin`, `Pin` and `Share` to its MAT run, and starts again up to two times when a
compaction has come between. The analysis collects its queries (`EndAnalysis`, the
error `_par` raises), drops a corrupt set and waits for another. A compaction is cut
at the rename, the utime and the removal of every member, a commit at every rename
and before the manifest is recorded; either crash may come between any two steps.
A `Scenario` says what is there at the start and what may happen. A crash of the
server takes its MAT processes along. Left out: the marker file, temporary files
and parse debris, a local parse; a file that vanishes between a `glob` and the
`stat` of the same look; the removal of invalid archives by the stage is one step.
One assumption on time: a download does not get as far as its commit while an
analysis that has met a corrupt archive ends its restore and drops the set.

`Transfer` in detail. `done` and `tmp` are the complete and the partial files in
`.dl/`, a file being its length and whether its bytes are the published ones;
`stage` is the thread of the stage with its attempt, `worker` a thread per part,
`pipe` the feeder, what it has fed and the reader process, `art` the final path.
`Attempt` is the top of `_attempts` with the start of the threads, `Join` the end of
`fetch_all`, `Finish` that of `PartPipe.finish`, `Land` the rename or the commit.
`Resume` to `Backoff` are the steps of `_fetch_part`: what is kept of a partial, the
response from an offset (or from 0, when Range is ignored), a chunk, a break, an
end of file that may come early. `Rejected` is an `AssemblyError`, which costs the
parts, `Failed` any other failure, which does not. Everything that goes wrong is
paid from `faults`; a scenario says how much there is and of which kind the stage
is. gzip and tar are external: bad bytes make gzip fail, and make tar fail or
stop early with success, which is what the validation of the staged set is for.
Left out: parts of unknown size; a release without a manifest (`IndexSet` has it);
the choice of a source for an attempt (`Sources` has it), which does not matter
for the bytes; the progress display.

`Extraction` in detail. `csv` are the files queries leave, `rows` and `marked`
what is ingested, `classes` the key table, `payload` the stored payloads; content is
told apart by the class it was extracted for and by being whole. `Query` is one
query of `_par`: a file that is there is taken for its result, a result is renamed
or, from another file system, copied into place. `Ingest` is a transaction
(`Commit`) followed by the deletion (`Delete`). `Stop` is the server stopping
anywhere in between. The rows themselves, SQL and the labels are left out.

The graph passes keep the control of the loops and leave out labels, field names,
strings, the links between groups and the budget the walk's result is folded to. What
an object uses (`Used`) is any number; in the run these are powers of two, so that a
sum tells its members.

`Services` puts the components that share no state with the others side by
side, each in behaviours of its own (`part`): their product would show nothing
more. Its constants are theirs; `MCServices` gives them the values of the run.

## The runs

| Run | Question | Bounds |
|---|---|---|
| `DecideLoop` | What may a pass conclude, and is it final? `DoneIsEarned`: DONE exactly on artifacts. `InProgressIsDriven`: nothing in progress that a source offers is left without a live stage. `Settles`: the next pass over the same surroundings changes and starts nothing. `StopsAreSticky`: a pass leaves ERROR and CANCELLED alone, or finds the artifact. | each component in every state with the others where they matter to it, all observations, live sets and remote answers: about 1.1 million states |
| `Reconcile` | `PassesAreSerialized`, `NoEventDropped` (an unobserved event has left a mark, or a pass that raised before it observed had taken it up), `ImplementsEvaluation` (refinement of `EventEvaluation`), `EveryEventIsEvaluated` (with timers) | three threads, one of them a timer: the third meets two that are in each other's way |
| `DumpDownload` | `DoneIsBacked`: what is recorded DONE is on disk (the indexes only where MAT accepts them and no source publishes them). `StopsWaitForUser`: a stopped component moves only for the user or for its artifact. | two requests, each a start or a cancel; data published late; stages fail; cancel may stop waiting; ticks inside passes; no crash |
| `DumpAnalyze` | `SweepSparesStages`: the quiescent sweep acts on reads made much earlier and still never removes the scratch of a stage that is fetching | two requests out of analyze, cancel, cancel of a queued job; indexes published late, lookups fail, a set may be corrupt |
| `DumpEnds` | `DownloadEnds`: a wanted download becomes READY or failed. `AnalysisEnds`: a queued analysis leaves the serial worker. `DoneIsBacked` over the crash | one request that downloads, late data, failing stages, one crash; two requests out of analyze and cancel of a queued job over a recorded index set that may be corrupt and that no source publishes again, failing parses and MAT runs, one crash |
| `IndexSet` | `MatSeesWhole`: MAT never runs over a set with a member missing. `MatSeesFresh`: nor over indexes older than the hprof. `WritesSurvive`: the newest content of a member is on disk and recognized. `AnalysisEnds` | three members, restored one at a time, and five kinds of scenario: two queries over a fresh download and a crash; one query over a set that is still arriving; one query, a compaction of another process and a crash of either; two queries and a compaction; one query over sets with corrupt archives |
| `Transfer` | `KeepsPromise`: a stage implements `Acquisition`, its end included. `Heals`: a stage that starts when nothing goes wrong any more succeeds, whatever is in `.dl/`. `PartsSurvive`: bytes are lost only to a rejection, to their place, or because there are too many. | two parts of two units over one connection, two attempts per part and per stage, up to five faults: a bad part and a failure beside it, or a stage that fails for good; a dump, an index set, both kinds of data bundle |
| `Extraction` | `RecordedIsItsOwn`: what is recorded under a key was extracted for its class, completely. `NothingIsRunTwice`: an ingested part is not extracted again. `Resumes`: a job that meets no failure has its class served. | two classes, two sample counts, two faults; names that collide without faults, and names that differ with them |
| `Services` | `OneActive`, `EndedStays`: one active job per identity, an ended one stays so. `UpdatesSurvive`: no update of a JSON file is lost or half read. `ServedIsCurrent`: nothing read for a request is older than it. `ViewIsTheBest`: a view is an error, or says what the first source that has it has. `ListingSurvives`: a listing outlives outages. `OwnerIsAsked`: when a stage gives a part up its owner has failed as well, or a retry has found the part anew in another lane. `MasksAreReachability`, `ConesLookDown`, `LargestSurvive`: reach. `ShownOnce`, `CausesAreTrue`: anatomy. `NobodyIsStuck`: jobs, updates, requests and passes end. | two callers, three workers, three submissions; three writers in two processes, one of which dies; two queries whose loads nest, one of two payloads, one commit; two sources; the nine attempts of a stage at a part; every subset of eight references between four objects, with one sampled instance or two |
| `ReconcileLostEvent`, `IndexPartial`, `SourcesMasquerade` | statements of comments and documents the code does not keep, see below | the smallest instance that shows it |

Bounds. In the `Dump` runs a request is a client that acts once; two requests give
every order of two user actions, and each of them is cut into its steps. The number
of ticks, stage runs and passes is not bounded. One crash: a crash resets the
volatile state completely, so a second one starts from the states a first one
could have left. `tick_mid_pass` is FALSE in the liveness run: a pass takes
seconds, the timers' periods are one and five minutes, and without it a timer could
keep one pass loop from ever ending. Clients are symmetric in the safety runs.

`IndexSet` has more members than a crash and the running restore together leave without
their utime; a real set has more than eight and four lanes. MAT completes one
member, once: one version more is enough for every order of a write, an archive
and a restore. Where two queries meet a compaction the dump starts pinned, as the analysis
before the compaction left it (`Beside` below shows what happens otherwise).

In `Transfer` two units make a part that can be there, half there, and too long; a
single connection makes one part wait for the other, and a real fetch has more parts
than connections. The waits before the attempts at a part (`Due`)
are those of the code, three tries in each of three stage attempts, in units of five seconds, and
a probe is believed for nine of them. The registry is bounded to three submissions, enough for
one that repeats an identity after the first has ended or been cancelled. The graphs
have room for a diamond, a cycle the roots reach and one they do not, a self
reference and references upward; with one group per class and three groups in
all both caps bind. Eight of the sixteen references are free, the rest would repeat
these shapes.

Fairness. Threads run on (weak fairness of passes, stages, the served requests);
both job queues are FIFO, so a queued job is taken although others come and go
(strong fairness of the begin actions); the timers tick for ever
(`kernel._timer_loop`). A running stage is not assumed to succeed, only to end.
In `DumpEnds` a source that is going to publish does so in the end. No request is
assumed to be made. In `Reconcile` an observation that is made again and again does not
raise every time (strong fairness of `Observe`): it raises when an archive is removed
between two of its system calls, and a removed set is built or downloaded anew before
there is one to remove; a directory deleted for good has no events to evaluate. A pass
that has observed and then raises counts as an evaluation. In `IndexSet` every query,
the analysis, the compaction and the stage
run on, and whoever asks for the index lock again and again gets it in the end (strong
fairness: the kernel wakes the waiters of an flock); a compaction may come at any
time and for ever. `Transfer`, `Extraction` and `Services` assume only that some thread
that can go on does (weak fairness of the disjunction), which is weaker than fairness
of each, plus, in `Services`, of a caller between the two halves of `submit()`. That is
enough because each of their steps uses something up. Submissions, cancels, commits
and faults are never assumed.

`AnalysisEnds` of `DumpStore` is claimed only while nobody raises the abort flag (no cancel, no
publication that preempts a parse). With the flag up it fails under this
fairness, for the reason `AbortedParseHasMoved` shows: what would end the loop is a pass
that looks at the live stages between two starts of the parse, and no scheduler
promises that.

Every property of a passing run has a sensitivity check in `PROJECT.json`
("mutants"): one definition replaced by a plausible mistake (a dropped guard, a
flag lowered too late, a state not noticed), under which TLC finds the property
violated. These variants stand next to the definition they vary and are used
nowhere else.

## What is proved

Of the properties of the passing runs, 31 are theorems, for every value of the
constants and, where the behaviour starts from a scenario, for every scenario the
assumption named admits. Each invariant below was checked by TLC on the run's
instance before it was proved.

| Module | Theorems | Assumes |
|---|---|---|
| `DecideProofs` | `TypeCorrect`, `EarnedDone`, `StickyStops`, `DrivenProgress`, `PassesSettle` | `MachinesAssumption`, `InputsAssumption`: machines and inputs |
| `ReconcileProofs` | `TypeCorrect`, `SerializedPasses`, `EventsAreMarked`, `Refinement` | nothing of the threads |
| `DumpStoreProofs` | `TypeCorrect`, `BackedDone`, `PatientStops`, `SparingSweep` | `ClientsAssumption`: requests are no jobs or timers; `StartsAssumption`: scenarios |
| `TransferProofs` | `TypeCorrect`, `BytesArePaidOnce`, `Refinement` | `SizeAssumption`, `StartsAssumption`: natural numbers, scenarios |
| `IndexSetProofs` | `WholeSetsOnly`, `WritesAreKept`, `FreshSetsOnly` | `SizeAssumption`, `StartsAssumption`; that every scenario is `Protected`; for `FreshSetsOnly` also `Settled` |
| `ExtractionProofs` | `OwnRecords`, `NothingTwice` | `ClassAssumption`, `StartsAssumption`; `OwnRecords` also that every scenario is `Clean` |
| `ServicesProofs` | `OneJobAtATime`, `EndedForGood`, `NoUpdateIsLost`, `BestView`, `ListingsStay`, `OwnerGetsItsTurn`, `NothingStale`, `MasksAreExact`, `EachIsShownOnce`, `CausesAreNamedRight`, `LargestAreKept`, `ConesAreOriented` | `Staffed`: every job has a worker; no writer is the free lock; `LoadersAreAcyclic`; `Ordered`: the last lane is the plan's; `Patient`: the waits of a stage add up to the lifetime of a probe at least; `GraphAssumption`: a finite set of objects, the sampled ones in it, each of some size; `LimitsAssumption`: the limits are numbers, the cap per class is not zero |

**`decide()`.** `TypeCorrect` goes block by block: `ValidateType`, one lemma per
`DecideX`, then `Decide` (`MachineProofs`). `EarnedDone` is inductive together with
the types, since each pass revalidates and the three blocks never enter or leave DONE.
`DrivenProgress` adds what each block asks for when it leaves its component in
progress (`DumpAsks`, `DataAsks`, `IndexesAsk`). `PassesSettle` needs to know what a
machine looks like after a pass: the invariant says that it is *calm*, i.e. that no
row of the table applies to it under the surroundings of that pass and the jobs it
has asked for; a pass over a calm machine is the identity, which is shown block by
block and is what `Settles` says of two steps.

**The dirty flag.** `SerializedPasses` needs that a thread between a successful
acquire and its release is the lock's only holder: the property does not say who
holds the lock of a thread that has acquired it and not yet tested the flag.
`Refinement` uses it in the two steps that enter a pass. `EventsAreMarked` is inductive
with the types: `Clear` keeps the mark, because the thread that lowers the flag is one
about to observe, and `Raise`, the one step that takes such a thread away, has no mark to
lose when the flag has been raised since. Without that step's `lost` the
statement would be false of the code (`NoMarkIsLost` below).

**The store.** The four theorems share one invariant. `TypeCorrect` needs that whoever
runs the passes waits in its kick for them (`OwnerInv`): otherwise a pass would return a
job to a phase it does not have. `BackedDone` is not inductive: an observation is read,
then other steps happen, then the machine is written from it, and a stage lands its
artifact and reports it later. `PassInv` says that what a pass has seen of the dump and the
bundle is still there (nothing takes either away) and that a build it asks for has its
dump; `JobInv` that a job about to report has its artifact in place. The proof
attempt found the property too strong as it stood: with indexes that a source
may publish, 46 steps lead from the race of `ParseKeepsItsFiles` to a set recorded
DONE and dropped, which TLC confirmed. The property now leaves the indexes out where
something may take them away (`Removable`). `PatientStops` follows from
what each write of the machine can make of a stopped component. `SparingSweep` needs
`SweepInv`: a pass that saw nothing live keeps the download queue empty until it
submits a job itself, since only passes submit and they do not overlap.

**A stage.** `TypeCorrect` contains that the connections in use and the free ones add
up. It needs the invariant of the threads: fetches run only while the stage waits for
them, a fetch never promises more than fits, a backoff has a retry left.
`BytesArePaidOnce` goes step by step over what can shrink a file. `Refinement` is
the safety part of `KeepsPromise`: DONE is reported of a landed artifact only, and no step
of a stage, a later stage or a crash takes it away. Its invariant follows the artifact
through the stage's program (`StageInv`) and the pipe (a reader that ends well leaves a
whole dump, as it has been fed all of it).

**The index set.** `WholeSetsOnly` needs to know who works on the files. `Locked` ties
every phase of a query, a compaction and a commit to the holder of `.matindex.lock`;
`Restores` says that what a restore has on its list has an archive and no raw file, and
that what it has renamed has the archive's version; `Compacts` that a raw file about
to be removed has a twin; `Drops` that a set is given up whole, and once; `Phases`
that a set is whole, not there, arriving, or being given up. A query that gets the
shared lock has just seen that nothing is missing, and while it holds it nobody can
take a member away. `WritesAreKept` adds the mtime convention (`Dated`): an
mtime belongs to one version of a member, so an archive with the raw file's time has its
content; the one exception, a raw file renamed and not yet stamped, has the version of
its archive.
The hypothesis `Protected` leaves out what the code does not protect (see "Claims that
fail" and what follows it): corrupt archives with two queries or beside a crash or a
compaction, a crash while a set arrives, a compaction that changes the size of a
member a release lists. `MCIndexSet` assumes it of the run's scenarios, so TLC
checks that the runs are within it.

`FreshSetsOnly` says of a query that is about to take the shared lock that no raw file is
older than the hprof (`Recent`). That is lost only when another query gives a member it
has restored the old mtime of its archive, after the survey has read "now". The
attempt to prove it showed that a single lane in the run had hidden a failure: with two,
the survey misses the oldest member. Hence the hypothesis `Settled`, with three cases. With
one query at a time nobody else stamps. An hprof older than the set is never pinned. In a
set that only restores change (`Roomy`), the members without their mtime are those
at work, no more than the lanes (`InLanes`), and the orphans of a crash, no more than the
lanes for every crash (`AsHeld`); a set larger than both has a member that shows that
the hprof is still newer (`SomeoneTells`), and once pinned to a whole set it stays
pinned, since nothing is restored any more. The last case needs `Last > Lanes * (1 +
crashes)`; a real set has more than eight members and four lanes. TLC has
also checked the invariant with five members in two lanes. Outside of `Settled` the
property fails (`Beside` below).

**An analysis.** `OwnRecords` is about content under names that may collide. Its
invariant has an owner for every file and row: a class with the key's name, and, when
several have it, the one recorded under the key or at work under it. From it the key
of the running job has one owner, so what it ingests is its own. The
hypothesis `Clean` leaves out the scenarios in which the claim fails (a fault where names
collide, a stop in the middle of a copy; `Mixed` below shows the first).
`NothingTwice` needs no hypothesis: a job's outstanding queries have no marker.

**The services.** `OneJobAtATime` and `EndedForGood` rest on one idea: a job that is not
over is in exactly one place - in the hands of the caller between the halves of `submit()`,
once in a queue, or with one worker - and has not begun before a worker enters it. For
`NoUpdateIsLost` the process lock alone suffices: whoever is between read and rename holds
it, has read all that was stored, and only then writes the temporary file of its process.
`BestView`: of every lane a lookup has passed, each file it has is settled, by its failure or
by an earlier lane. `ListingsStay`: what a listing has answered is in its cache. `OwnerGetsItsTurn`:
unless a probe of a retry has hit, every hit is as old as the attempts that have been made
(`AsOldAs`), for hits are never renewed without being asked for; at the last attempt none
is believed any more, and the owner is chosen. `NothingStale` has an
invariant about the stack of calls of a query: fingerprints grow along the stack, none is
older than the request, and what a call has put together is no older than its own fingerprint;
an entry of the cache is no older than the fingerprint it lies under; every key is loaded by
one call at a time. Acyclic loaders keep the calls of a stack apart.

**Walks.** The reference definitions and the cones recurse over a finite graph (`Along`
of `ObjectGraph`: `Within`, `Reachable` along references, `Cone` along `Descents`). What
the proofs need of a walk is that it ends in the least set that has the start and all
that its members lead to (`AlongIsLeast`, `AlongCloses`), and that it grows with its start.
That it is least, and that the recursive function exists and is unique (`LaddersExist`,
`LaddersAgree`), goes by induction over its steps; the induction theorems of the library
take an operator, so `SetInduction` states induction for a set of numbers and gets it
from the least number outside of it (`WFMin`). That as many steps as there are
objects suffice is a count: a step that is not the last adds an object.

**Sums.** `Bytes` adds up what a set of objects uses, by the fold of the community
modules, which takes the members in an order `CHOOSE` gives. `SumExists` and `BytesAreSums`
get its equation the same way; `AnyFirst` shows that any member may come first, and
`BytesFacts` what the passes use: a sum is a number, and a larger set has no smaller one.

**The graph passes.** `MasksAreExact`
needs two facts of the worklist: a mask has only roots that reach the object, and an
object that is not queued has handed its mask on. `EachIsShownOnce` needs only that
what is counted has not been counted. `CausesAreNamedRight` rests on `BuildInv`: what
lies on the stack of the tree is within its depth of the sampled objects (`TreeInv`);
what has been counted is on the stack, was cut, or refers only to what is counted or
known to be beyond the limit (`WalkInv`), so that what `Classify` finds without a holder
has none; a cluster is looked for only when all that is reachable is counted
(`CycleInv`). The attempt found the conditions of `Classify` overlapping in the model,
where the code has an order; they exclude each other now.

`LargestAreKept` has an invariant about the folds that are done and the ones to come
(`GroupInv`): the groups of the classes still to come are as the split made them; a
class that is done keeps its cap and the residual at most, and the folded groups of a
class are no larger than the kept ones (`FoldedWell`). A fold takes a smallest group of its
class and adds it to the residual, which is no split group; so the order survives both
loops, though the second chooses among all classes. The inspected class has one
group, so its cap must not be zero; the code's is 24.

`ConesAreOriented` needs the levels to be exact. The queue of the breadth-first pass is
sorted by level and spans two of them (`LevelInv`); when it is empty, a level is the
least number of references from a sampled object (`LevelsAreDepths`). A cone is the
least set under `Descents`, which lead to deeper levels only; what is not nearer than
the seeds is closed under them (`ConeFacts`), and from the sampled objects every
reachable object is found, as each lies one level below another (`RootsCone`).

Only model-checked, and why:

- Everything that must happen in the end, `EveryEventIsEvaluated`, `DownloadEnds`,
  `AnalysisEnds`, `Heals`, `Resumes`, `NobodyIsStuck` and the fairness part of
  `KeepsPromise`: liveness and ENABLED are out of the prover's reach.

## Where the code departs from its comments

Three of these are runs TLC ends with a short trace, and findings in `PROJECT.json`.

- `ReconcileLostEvent`. "The latest event always gets its evaluation"
  (`store.py:309`): not in the window between the holder's last look at the flag
  and its release. The next timer tick repairs it, which is why
  `EveryEventIsEvaluated` holds. The run leaves passes that raise out
  (`Undisturbed`): they can lose an event too, see `NoMarkIsLost` below.
- `IndexPartial`. Of two queries that restore the same set, the second lists what is
  missing after the first has deleted a corrupt archive, and the recheck under the
  shared lock compares with the archives that are left: MAT runs over a partial set
  ("never offered to MAT", `LAYOUT.md:81`).
- `SourcesMasquerade`. One source has the dump, the other cannot be reached: the
  error is dropped with the first plan (`store.py:509`), and the view says of what the
  first one lacks that it is not published ("never an empty result masquerading as
  nothing published", `store.py:481`).

### Claims that fail

These definitions are stated in the modules and fail in a few steps; but for
`MatSeesFresh`, whose run stays within `Settled`, they are in no configuration. The
scenario is the value of `Starts` (or `Graphs`) that shows it, in the configuration of
the run named.

| Claim | Scenario | What happens |
|---|---|---|
| `Reconcile!NoMarkIsLost` | three threads, `Reconcile` | A pass lowers the flag, and its observation raises: an archive exists when it looks and is gone when it asks for the size, while `drop_index_set` removes the set (`store.py:238-240`, `files.py:107`). Events of callers that have returned stay unevaluated until the next caller or tick ("the latest event always gets its evaluation", `store.py:309`). |
| `DumpStore!ParseKeepsItsFiles` | `ParseRace`, `DumpDownload` | A pass that read the live stages before the inline parse was marked starts an index download, and its stage removes the files of the running parse (`store.py:674`, `stages.py:205`). |
| `DumpStore!AbortedParseHasMoved` | `AbortLoop`, `DumpDownload` | A cancel that finds the indexes NEW raises the abort flag and changes no state; a pass already past its look at the flag then decides PARSING. The parse of the waiting analysis is killed at its first poll and started again at once, a JVM each time: the kick at its end runs while the parse is still marked live, so that pass does not lower the flag either. |
| `DumpStore!FailedBuildIsReported` | `HollowBuild`, `DumpDownload` | The bootstrap creates `analysis.db` before it fails; presence counts, and the next pass records the data DONE ("failure -> data ERROR", `engine.py:584`). |
| `IndexSet!MatSeesFresh` outside of `Settled` | `Beside`, `IndexSet` with five members in two lanes | Another process compacts the members restored so far; one query pins the hprof to the oldest of those left, another restores an older one, and the first, whose recheck under the shared lock asks for missing members only, starts MAT with an hprof newer than its indexes: MAT parses the dump again ("keeps the hprof mtime <= the index set's", `extract.py:20`). |
| `IndexSet!CompactionKeepsDone` | `Compacted`, `IndexSet` | A member that MAT has completed gets an archive of another size when it is compacted; the set contradicts the manifest of its release and loses its DONE ("stays DONE throughout", `store.py:824`). |
| `Transfer!DoneIsWhole` | `Bundle`, `Transfer` | An ingest that fails or is killed after the creation of the database leaves one that the next attempt reports as DONE ("presence implies complete", `files.py:54`). |
| `Extraction!RecordedIsItsOwn` | `Mixed`, `Extraction` | Two classes with the same short name: a query of the first fails beside one that lands its file; the second gets the same key, finds the file and records it as its own ("collision-free", `engine.py:358`). |
| `PayloadCache!AvailableIsFresh` | `Services` | `anatomy()` takes `avail` from the analysis index, a job commits more samples, and only then is the fingerprint taken under which the payload is stored: until the next commit every request is told the old list ("fresh: escalations must not stale the blob", `engine.py:277`, against lines 269 and 283). |
| `Sources!OnlyTheSameSize` | `Services` | An object is replaced while its probe is believed, and the next attempt reads it ("a size mismatch means different bytes - never serve that", `s3.py:342`). Its length gives it away only at the end (`transfer.py:401`); one of the same size is told by nothing but gzip, tar and the manifest (`Transfer`). |
| `Anatomy!CutIsDeep` | `Crossing`, `Services` with five objects and classes, `MaxDepth = 2` | The walk pops the last object pushed although its comment says BFS (`payloads.py:193`): it reaches an object by a long way first, cuts there, and shows what is below as beyond the depth limit although a short way leads to it. |
| `Reach!GroupsAreBounded` | `Diverse`, `Services` with five objects and classes | A class always keeps one group, so with more classes than `MAX_GROUPS` there are more groups ("bounded by MAX_GROUPS overall", `reach.py:15`). |

Met on the way: `OwnerIsAsked` spans the attempts of a stage (90 s of waits); within one of
its attempts (25 s) a hit believed for 45 s costs all three tries of the part although
its owner answers, and it would cost the part if `HEAP_REPORT_S3_PROBE_TTL` were
longer than the stage (`Patient`). Of what
`trees()` serves, two numbers and a name come from `meta.json`, of which the
fingerprint has only the state (`engine.py:124`): a load that read them before
`bootstrap` writes them (line 665) and is stored after the invalidation that
follows lies under a current fingerprint. `start_download` repeated while its stage
runs answers 404 "no remote source has anything" (`store.py:571`), though it is documented as
idempotent; a pass may lower the abort flag that a cancel has just raised
(`store.py:342`); an analysis after a cancelled parse finds files present, skips the wait
and lets MAT parse again (`engine.py:404`). `MatSeesWhole` fails as well, in other
scenarios than those of the runs: a crash after a corrupt archive is deleted, a crash
in the middle of a commit whose manifest is not recorded, a compaction during the drop of
a set, a demoted set fetched again during an analysis. `MatSeesFresh` fails also for two
queries over a set that is still arriving, for the reason `Beside` shows. A CSV copied from another file system and cut short by a stop of the
server is taken for a result by the next job, so `Extraction` lets the server stop only
where files are renamed.

## Not modelled, and the plan

1. `delete` and the lifetime of `_Rt` in `DumpStore`, with the analysis that waits
   for a deleted dump; the inference of a machine for a directory without one.
2. The promise cache of `web/data/dumpdatarepo.js`.
3. Several dumps on one MAT worker, with the limit of the job listing.
4. Proofs: the claims of 1 to 3, and the wider hypotheses that repairs of the races
   above would allow.

Left out for good: the text handling of `parsing`, the trees, diffs, waterfalls and
class graphs of `payloads`, SQL and the wipe of an old schema, the signatures of
`s3`, static files and routing of `http`, the offline scripts (`snapshot`, `ci`,
`tools`), which run one after the other over the same engine, and the rendering in
`web`.
