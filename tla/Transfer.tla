----------------------------- MODULE Transfer -----------------------------
(***************************************************************************)
(* One stage at a time bringing one component of one dump to disk: the     *)
(* attempts of stages.py around the parallel fetch of the parts into .dl,  *)
(* the pipe that feeds them to gzip or tar as they land, and the move to   *)
(* the final path.  The stage thread, a thread per part, the feeder and    *)
(* the reader process interleave; the sources break, end early, deliver    *)
(* bad bytes or ignore the Range of a request; the user cancels, and the   *)
(* process crashes.  Every such event is paid from `faults`.               *)
(*                                                                         *)
(* A file is its length and whether its bytes are the ones published.  A   *)
(* release has a manifest (without one: IndexSet) and known part sizes.    *)
(***************************************************************************)
EXTENDS FiniteSets, Naturals

CONSTANTS
  Count,        \* parts are 1..Count, in Part.index order
  Size,         \* units of bytes in a part
  Connections,  \* DL_CONN
  Retries,      \* DL_RETRIES, attempts per part
  Attempts,     \* STAGE_ATTEMPTS
  Starts        \* how a behaviour may begin, see Scenarios

Parts == 1..Count

Scenarios ==
  [kind : {"dump", "indexes", "data"}, parts : Parts, faults : Nat,
   ships : {"db", "csvs"}]   \* an older data bundle ships a CSV pair

ASSUME SizeAssumption ==
  {Count, Size, Connections, Retries, Attempts} \subseteq Nat \ {0}
ASSUME StartsAssumption == Starts \subseteq Scenarios

VARIABLES
  done,     \* .dl/<part>: "none", "good" or "bad"; renamed into place complete
  tmp,      \* .dl/<part>.tmp: units there, and all of them right
  staged,   \* .assembling, or .untar/<component>
  art,      \* what is at the final path
  stage,    \* the stage thread: pc, attempt
  worker,   \* a thread per part: pc, attempt, units its response still has
  slots,    \* free connections
  first,    \* errors[0] of fetch_all
  pipe,     \* PartPipe: the feeder, parts fed, all of them right, the reader
  abort,    \* rt.abort
  outcome,  \* "running", or how the last stage ended
  faults,   \* events to come
  given     \* the scenario

scratch == <<done, tmp>>
vars == <<scratch, staged, art, stage, worker, slots, first, pipe, abort,
          outcome, faults, given>>

-----------------------------------------------------------------------------
Plan   == 1..given.parts
Piped  == given.kind # "data"
Visible(p) == done[p] # "none"
Fault  == faults > 0 /\ faults' = faults - 1

Empty    == [len |-> 0, ok |-> TRUE]
NoThread == [pc |-> "idle", attempt |-> 0, left |-> 0]
NoPipe   == [feeder |-> "over", fed |-> 0, ok |-> TRUE, reader |-> "none"]

Started  == [NoThread EXCEPT !.pc = "attempt", !.attempt = 1]
Feeding  == [NoPipe EXCEPT !.feeder = "feeding", !.reader = "reading"]

Init ==
  /\ given \in Starts /\ faults = given.faults
  /\ done = [p \in Parts |-> "none"] /\ tmp = [p \in Parts |-> Empty]
  /\ staged = "none" /\ art = "none"
  /\ stage = [pc |-> "idle", attempt |-> 0]
  /\ worker = [p \in Parts |-> NoThread]
  /\ slots = Connections /\ first = "none" /\ pipe = NoPipe
  /\ abort = FALSE /\ outcome = "none"

StageAt(pc)    == stage.pc = pc
StageTo(pc)    == stage' = [stage EXCEPT !.pc = pc]
Is(p, pc)      == worker[p].pc = pc
To(p, pc)      == worker' = [worker EXCEPT ![p].pc = pc]

Ends(how) ==
  /\ stage' = [pc |-> "idle", attempt |-> 0]
  /\ outcome' = how

(* Mutant of Rejected: the parts are kept. *)
RejectedKeepsParts ==
  IF stage.attempt = Attempts THEN Ends("error") /\ UNCHANGED scratch
  ELSE StageTo("wait") /\ UNCHANGED <<scratch, outcome>>

(* Mutant of Failed: any failure drops the parts. *)
FailedDropsParts ==
  /\ IF stage.attempt = Attempts THEN Ends("error")
     ELSE StageTo("wait") /\ UNCHANGED outcome
  /\ done' = [p \in Parts |-> "none"] /\ tmp' = [p \in Parts |-> Empty]

(* What _attempts makes of a failure of the body.  An AssemblyError drops   *)
(* the parts (drop_parts), any other exception keeps them.                  *)
Failed ==
  /\ IF stage.attempt = Attempts THEN Ends("error")
     ELSE StageTo("wait") /\ UNCHANGED outcome
  /\ UNCHANGED scratch

Rejected ==
  /\ done' = [p \in Parts |-> "none"] /\ tmp' = [p \in Parts |-> Empty]
  /\ IF stage.attempt = Attempts THEN Ends("error")
     ELSE StageTo("wait") /\ UNCHANGED outcome

-----------------------------------------------------------------------------
(* The stage thread.  fn: what is there already is looked at first.  A data *)
(* stage trusts a database that is there, and ingests a landed CSV pair;    *)
(* an index set must match the manifest.                                    *)
Begin ==
  /\ StageAt("idle")
  /\ abort' = FALSE /\ outcome' = "running"
  /\ stage' = [attempt |-> 1,
       pc |-> CASE given.kind = "indexes" /\ art = "whole" -> "clean"
                [] given.kind = "data" /\ art \in {"opened", "whole"} -> "keep"
                [] given.kind = "data" /\ art = "csvs" -> "reingest"
                [] OTHER -> "attempt"]
  /\ UNCHANGED <<scratch, staged, art, worker, slots, first, pipe, faults, given>>

Keep ==
  /\ StageAt("keep") /\ Ends("done")
  /\ UNCHANGED <<scratch, staged, art, worker, slots, first, pipe, abort,
                 faults, given>>

(* The top of the loop, and the body up to the start of the threads of the  *)
(* parts that are not complete.                                             *)
Attempt ==
  /\ StageAt("attempt")
  /\ IF abort
       THEN Ends("aborted") /\ UNCHANGED <<staged, worker, first, pipe>>
     ELSE IF given.kind = "dump" /\ art = "whole"
       THEN StageTo("clean") /\ UNCHANGED <<outcome, staged, worker, first, pipe>>
     ELSE
       /\ StageTo("fetch") /\ first' = "none" /\ UNCHANGED outcome
       /\ worker' = [p \in Parts |-> IF p \in Plan /\ ~Visible(p)
                       THEN Started ELSE NoThread]
       /\ IF Piped THEN staged' = "partial" /\ pipe' = Feeding
                   ELSE UNCHANGED <<staged, pipe>>
  /\ UNCHANGED <<scratch, art, slots, abort, faults, given>>

(* fetch_all joins its threads; the first error decides.  A failed fetch    *)
(* kills the pipe, and a dump loses its .assembling.                        *)
Over(p) == worker[p].pc \in {"idle", "done", "failed", "aborted"}

Join ==
  /\ StageAt("fetch") /\ \A p \in Plan : Over(p)
  /\ worker' = [p \in Parts |-> NoThread] /\ first' = "none"
  /\ IF first = "none"
       THEN /\ StageTo(IF Piped THEN "finish" ELSE "assemble")
            /\ UNCHANGED <<outcome, staged, pipe>>
       ELSE /\ IF first = "aborted" THEN Ends("aborted")
               ELSE IF stage.attempt = Attempts THEN Ends("error")
               ELSE StageTo("wait") /\ UNCHANGED outcome
            /\ pipe' = NoPipe
            /\ staged' = IF given.kind = "dump" THEN "none" ELSE staged
  /\ UNCHANGED <<scratch, art, slots, abort, faults, given>>

(* PartPipe.finish: the reader has ended, or the deadline, which counts     *)
(* from before the download, has passed.  The error of the feeder comes     *)
(* before the exit status.                                                  *)
Finish ==
  /\ StageAt("finish")
  /\ \/ /\ pipe.reader # "reading" /\ pipe.feeder # "feeding"
        /\ UNCHANGED faults
     \/ pipe.reader = "reading" /\ Fault
  /\ IF pipe.reader = "ok" /\ pipe.feeder = "over"
       THEN StageTo("land") /\ UNCHANGED <<scratch, outcome, staged>>
       ELSE /\ IF pipe.reader = "dead" /\ pipe.feeder = "over" THEN Rejected
               ELSE Failed
            /\ staged' = IF given.kind = "dump" THEN "none" ELSE staged
  /\ pipe' = NoPipe
  /\ UNCHANGED <<art, worker, slots, first, abort, given>>

(* Mutant of Land: nothing is validated. *)
LandUnchecked ==
  /\ StageAt("land")
  /\ art' = IF staged = "whole" THEN "whole" ELSE "some"
  /\ staged' = "none" /\ StageTo("clean")
  /\ UNCHANGED <<scratch, outcome>>
  /\ UNCHANGED <<worker, slots, first, pipe, abort, faults, given>>

(* The rename of the hprof; commit_untar, which validates the staged set    *)
(* and moves its members one by one: IndexSet has the readers it excludes.  *)
Land ==
  /\ StageAt("land")
  /\ IF given.kind = "indexes" /\ staged # "whole"
       THEN Rejected /\ UNCHANGED <<staged, art>>
       ELSE /\ UNCHANGED <<scratch, outcome>>
            /\ IF given.kind = "indexes" /\ art = "none"
                 THEN art' = "some" /\ UNCHANGED <<stage, staged>>
                 ELSE art' = staged /\ staged' = "none" /\ StageTo("clean")
  /\ UNCHANGED <<worker, slots, first, pipe, abort, faults, given>>

(* Success makes the parts redundant (_clean_tmp). *)
Clean ==
  /\ StageAt("clean") /\ Ends("done")
  /\ done' = [p \in Parts |-> "none"] /\ tmp' = [p \in Parts |-> Empty]
  /\ UNCHANGED <<staged, art, worker, slots, first, pipe, abort, faults, given>>

Wait ==
  /\ StageAt("wait")
  /\ stage' = [pc |-> "attempt", attempt |-> stage.attempt + 1]
  /\ UNCHANGED <<scratch, staged, art, worker, slots, first, pipe, abort,
                 outcome, faults, given>>

-----------------------------------------------------------------------------
(* The rest of the body of data_stage: tar over the one part, the part is   *)
(* deleted, the files are moved, and the landing hook ingests a CSV pair.   *)
Assemble ==
  /\ StageAt("assemble")
  /\ \/ /\ done[1] = "good" /\ StageTo("move") /\ staged' = "whole"
        /\ UNCHANGED <<scratch, outcome, faults>>
     \/ /\ done[1] = "bad" \/ faults > 0
        /\ faults' = IF done[1] = "bad" THEN faults ELSE faults - 1
        /\ staged' = "partial" /\ Rejected
     \/ Fault /\ staged' = "partial" /\ Failed
  /\ UNCHANGED <<art, worker, slots, first, pipe, abort, given>>

Unpacked == IF given.ships = "db" THEN "whole" ELSE "csvs"

Move ==
  /\ StageAt("move")
  /\ IF Visible(1)
       THEN /\ done' = [done EXCEPT ![1] = "none"]
            /\ UNCHANGED <<stage, staged, art>>
       ELSE /\ art' = IF art = "opened" THEN art ELSE Unpacked
            /\ staged' = "none" /\ StageTo("ingest") /\ UNCHANGED done
  /\ UNCHANGED <<tmp, worker, slots, first, pipe, abort, outcome, faults, given>>

(* ingest_data_dir creates the database before it reads a CSV; has_data is  *)
(* presence.                                                                *)
Ingest ==
  /\ stage.pc \in {"ingest", "reingest"}
  /\ \/ art = "csvs" /\ art' = "opened" /\ UNCHANGED <<scratch, stage, outcome, faults>>
     \/ art \in {"opened", "whole"} /\ art' = "whole" /\ Ends("done")
        /\ UNCHANGED <<scratch, faults>>
     \/ art = "opened" /\ Fault /\ UNCHANGED art
        /\ IF StageAt("reingest") THEN Ends("error") /\ UNCHANGED scratch ELSE Failed
  /\ UNCHANGED <<staged, worker, slots, first, pipe, abort, given>>

-----------------------------------------------------------------------------
(* _fetch_part.  A worker that fails for good or sees the abort flag        *)
(* appends its error.                                                       *)
Dies(p, how) ==
  /\ To(p, how)
  /\ first' = IF first = "none" THEN how ELSE first

Frozen == UNCHANGED <<staged, art, stage, pipe, abort, outcome, given>>

(* The top of an attempt: a partial no smaller than the part is dropped. *)
Resume(p) ==
  /\ Is(p, "attempt")
  /\ IF abort THEN Dies(p, "aborted") /\ UNCHANGED tmp
     ELSE /\ To(p, "slot") /\ UNCHANGED first
          /\ tmp' = IF tmp[p].len >= Size THEN [tmp EXCEPT ![p] = Empty] ELSE tmp
  /\ UNCHANGED <<done, slots, faults>> /\ Frozen

(* with sem: the request from the resumed offset.  SourceRouter picks who   *)
(* answers it, the mirror or the owner of the url: both have the same bytes *)
(* under a name and a size.  A server may ignore Range and send it all.     *)
Open(p) ==
  /\ Is(p, "slot") /\ slots > 0 /\ slots' = slots - 1
  /\ \/ /\ worker' = [worker EXCEPT ![p].pc = "fetch",
                                    ![p].left = Size - tmp[p].len]
        /\ UNCHANGED <<tmp, faults>>
     \/ /\ tmp[p].len > 0 /\ Fault
        /\ worker' = [worker EXCEPT ![p].pc = "fetch", ![p].left = Size]
        /\ tmp' = [tmp EXCEPT ![p].ok = FALSE]
  /\ UNCHANGED <<done, first>> /\ Frozen

Chunk(p) ==
  /\ Is(p, "fetch") /\ worker[p].left > 0
  /\ IF abort
       THEN /\ Dies(p, "aborted") /\ slots' = slots + 1
            /\ UNCHANGED <<tmp, faults>>
       ELSE /\ \E ok \in BOOLEAN :
                 /\ tmp' = [tmp EXCEPT ![p].len = @ + 1, ![p].ok = @ /\ ok]
                 /\ IF ok THEN UNCHANGED faults ELSE Fault
            /\ worker' = [worker EXCEPT ![p].left = @ - 1]
            /\ UNCHANGED <<slots, first>>
  /\ UNCHANGED done /\ Frozen

(* A failed attempt of a part: the backoff, or its error. *)
Retreat(p) ==
  /\ IF worker[p].attempt = Retries THEN Dies(p, "failed")
     ELSE To(p, "backoff") /\ UNCHANGED first

(* Mutant of Break: the connection is not given back. *)
BreakKeepsSlot(p) ==
  /\ Is(p, "fetch") /\ worker[p].left > 0 /\ Fault
  /\ Retreat(p)
  /\ UNCHANGED <<scratch, slots>> /\ Frozen

(* The connection breaks. *)
Break(p) ==
  /\ Is(p, "fetch") /\ worker[p].left > 0 /\ Fault
  /\ slots' = slots + 1
  /\ Retreat(p)
  /\ UNCHANGED scratch /\ Frozen

(* The response ends, perhaps early: a file of the right length is renamed  *)
(* into place.                                                              *)
Eof(p) ==
  /\ Is(p, "fetch")
  /\ IF worker[p].left > 0 THEN Fault ELSE UNCHANGED faults
  /\ slots' = slots + 1
  /\ IF tmp[p].len = Size
       THEN /\ done' = [done EXCEPT ![p] = IF tmp[p].ok THEN "good" ELSE "bad"]
            /\ tmp' = [tmp EXCEPT ![p] = Empty]
            /\ To(p, "done") /\ UNCHANGED first
       ELSE Retreat(p) /\ UNCHANGED scratch
  /\ Frozen

Backoff(p) ==
  /\ Is(p, "backoff")
  /\ IF abort THEN Dies(p, "aborted")
     ELSE /\ worker' = [worker EXCEPT ![p].pc = "attempt", ![p].attempt = @ + 1]
          /\ UNCHANGED first
  /\ UNCHANGED <<scratch, slots, faults>> /\ Frozen

-----------------------------------------------------------------------------
(* The feeder writes the parts in order as they become visible; a reader    *)
(* that is gone is a broken pipe, which it leaves to finish.                *)
NextPart == pipe.fed + 1

Feed ==
  /\ pipe.feeder = "feeding" /\ Visible(NextPart)
  /\ pipe' = IF pipe.reader # "reading" THEN [pipe EXCEPT !.feeder = "over"]
             ELSE [pipe EXCEPT !.fed = NextPart,
                     !.ok = @ /\ done[NextPart] = "good",
                     !.feeder = IF NextPart = given.parts THEN "over" ELSE "feeding"]
  /\ UNCHANGED <<scratch, staged, art, stage, worker, slots, first, abort,
                 outcome, faults, given>>

(* Waiting for a part past the deadline closes the pipe. *)
FeedTimeout ==
  /\ pipe.feeder = "feeding" /\ ~Visible(NextPart) /\ Fault
  /\ pipe' = [pipe EXCEPT !.feeder = "error"]
  /\ UNCHANGED <<scratch, staged, art, stage, worker, slots, first, abort,
                 outcome, given>>

(* External: gzip fails on bad or truncated input; tar takes some bad input *)
(* for the end of the archive; both may fail for reasons of their own.      *)
Reader ==
  /\ pipe.reader = "reading"
  /\ \/ /\ ~pipe.ok \/ pipe.feeder = "error"
        /\ pipe' = [pipe EXCEPT !.reader = "dead"] /\ UNCHANGED <<staged, faults>>
     \/ Fault /\ pipe' = [pipe EXCEPT !.reader = "dead"] /\ UNCHANGED staged
     \/ /\ pipe.fed = given.parts /\ pipe.ok
        /\ pipe' = [pipe EXCEPT !.reader = "ok"] /\ staged' = "whole"
        /\ UNCHANGED faults
     \/ /\ given.kind = "indexes"
        /\ ~pipe.ok \/ pipe.feeder = "error"
        /\ pipe' = [pipe EXCEPT !.reader = "ok"] /\ UNCHANGED <<staged, faults>>
  /\ UNCHANGED <<scratch, art, stage, worker, slots, first, abort, outcome, given>>

-----------------------------------------------------------------------------
(* A cancel sets the flag of the stage. *)
Cancel ==
  /\ outcome = "running" /\ ~abort /\ Fault /\ abort' = TRUE
  /\ UNCHANGED <<scratch, staged, art, stage, worker, slots, first, pipe,
                 outcome, given>>

Crash ==
  /\ outcome = "running" /\ Fault
  /\ stage' = [pc |-> "idle", attempt |-> 0] /\ outcome' = "none"
  /\ worker' = [p \in Parts |-> NoThread] /\ slots' = Connections
  /\ first' = "none" /\ pipe' = NoPipe /\ abort' = FALSE
  /\ UNCHANGED <<scratch, staged, art, given>>

StageThread ==
  Keep \/ Attempt \/ Join \/ Finish \/ Land \/ Clean \/ Wait \/ Assemble
  \/ Move \/ Ingest
Fetcher(p) ==
  Resume(p) \/ Open(p) \/ Chunk(p) \/ Break(p) \/ Eof(p) \/ Backoff(p)
Work == StageThread \/ (\E p \in Parts : Fetcher(p)) \/ Feed \/ Reader

Next == Begin \/ Work \/ FeedTimeout \/ Cancel \/ Crash

Spec == Init /\ [][Next]_vars

(* Some thread of the stage goes on: each of its steps uses up an attempt, a *)
(* unit, a part or a fault, so this is enough for all of them to.            *)
FairSpec == Spec /\ WF_vars(Work)

-----------------------------------------------------------------------------
Fetching == {p \in Parts : Is(p, "fetch")}

Partials == [len : 0..2 * Size, ok : BOOLEAN]
Stages   == [pc : {"idle", "keep", "attempt", "fetch", "finish", "land", "clean",
                   "wait", "assemble", "move", "ingest", "reingest"},
             attempt : 0..Attempts]
Threads  == [pc : {"idle", "attempt", "slot", "fetch", "backoff", "done", "failed",
                   "aborted"},
             attempt : 0..Retries, left : 0..Size]
Pipes    == [feeder : {"feeding", "over", "error"}, fed : 0..Count, ok : BOOLEAN,
             reader : {"none", "reading", "ok", "dead"}]

Types ==
  /\ done \in [Parts -> {"none", "good", "bad"}] /\ tmp \in [Parts -> Partials]
  /\ staged \in {"none", "partial", "whole"}
  /\ art \in {"none", "some", "csvs", "opened", "whole"}
  /\ stage \in Stages /\ worker \in [Parts -> Threads] /\ pipe \in Pipes
  /\ first \in {"none", "failed", "aborted"}
  /\ outcome \in {"none", "running", "done", "error", "aborted"}
  /\ faults \in 0..given.faults /\ given \in Starts

SlotsReturn == slots = Connections - Cardinality(Fetching)

(* The types of the variables, and a connection for each of the parts that  *)
(* hold one: backoff sleeps and broken fetches give theirs back.            *)
TypeOK == Types /\ abort \in BOOLEAN /\ SlotsReturn

(* The executors of stages.py keep the promise of Acquisition: one that is  *)
(* started ends, also when parts fail while others wait for a connection,   *)
(* the feeder gives up or the reader dies; DONE is only reported of a       *)
(* complete artifact, whatever mixture of old and new parts, good and bad,  *)
(* an attempt began with.  A database counts when it is there, as it does   *)
(* for the code: DoneIsWhole has what that leaves out.                      *)
Landed == art = "whole" \/ art = "opened"
Promise == INSTANCE Acquisition
             WITH artifact <- IF Landed THEN "whole" ELSE "none"
KeepsPromise == Promise!Spec

(* "Keeping them would make every later attempt fail identically": a stage  *)
(* started when nothing goes wrong any more succeeds, whatever bad parts    *)
(* and oversized partials earlier ones have left in .dl.                    *)
Heals ==
  (outcome = "running" /\ stage.attempt = 1 /\ StageAt("attempt") /\ faults = 0
     /\ ~abort)
    ~> (outcome = "done")

(* Bytes are paid for once: until the component is there, a fetch that      *)
(* fails or is cancelled, a feed that times out and a crash leave what .dl  *)
(* has.  Only a rejection, a part that is put in its place, or a partial    *)
(* that is too long takes it away.                                          *)
Have(p) == IF Visible(p) THEN Size ELSE tmp[p].len
Superseded(p) ==
  \/ tmp[p].len >= Size \/ pipe.reader = "dead"
  \/ stage.pc \in {"land", "clean", "assemble", "move"}
PartsSurvive ==
  [][\A p \in Parts : Have(p)' < Have(p) => Superseded(p)]_vars

(* files.has_data and db.py take the presence of analysis.db for complete   *)
(* ("db commits are transactional, so presence => complete"), and a stage   *)
(* that finds it reports DONE.                                              *)
DoneIsWhole == outcome = "done" => art = "whole"
=============================================================================
