--------------------------- MODULE TransferProofs ---------------------------
(***************************************************************************)
(* Proofs about Transfer, for every number of parts, connections, attempts *)
(* and faults: type correctness with the connections accounted for, the    *)
(* refinement of Acquisition (its safety part), and that no byte is lost.  *)
(***************************************************************************)
EXTENDS Transfer, FiniteSetTheorems, TLAPS

(* The threads of the parts run while the stage waits in fetch_all, and     *)
(* only for the parts of the release.                                       *)
ThreadsInv ==
  /\ stage.pc # "fetch" => \A p \in Parts : Is(p, "idle")
  /\ \A p \in Parts : p \notin Plan => Is(p, "idle")

(* What an attempt on a part starts from and what its response may add.     *)
PartInv ==
  \A p \in Parts :
    /\ Is(p, "slot") => tmp[p].len < Size
    /\ Is(p, "fetch") => tmp[p].len + worker[p].left < 2 * Size
    /\ Is(p, "backoff") => worker[p].attempt < Retries

(* The pipe exists from the start of an attempt to finish; a reader that    *)
(* ends well leaves a whole dump.                                           *)
PipeInv ==
  /\ stage.pc \notin {"fetch", "finish"} \/ ~Piped => pipe = NoPipe
  /\ pipe.feeder = "feeding" => pipe.fed < given.parts
  /\ pipe.reader = "ok" /\ given.kind = "dump" => staged = "whole"

(* What is true of the artifact at each place of the stage thread.          *)
StageInv ==
  /\ (stage.pc = "idle") = (outcome # "running")
  /\ stage.pc \in {"finish", "land"} => Piped
  /\ stage.pc \in {"keep", "assemble", "move", "ingest", "reingest"} => ~Piped
  /\ stage.pc = "keep" => Landed
  /\ stage.pc = "clean" => art = "whole"
  /\ stage.pc = "land" /\ given.kind = "dump" => staged = "whole"
  /\ stage.pc \in {"attempt", "fetch", "wait", "assemble", "move"} /\ ~Piped
       => art # "whole"
  /\ stage.pc = "wait" => stage.attempt < Attempts

IInv == TypeOK /\ ThreadsInv /\ PartInv /\ PipeInv /\ StageInv

-----------------------------------------------------------------------------
(* Ranges of the scenario and of the sizes, as the leaves below need them.  *)
LEMMA GivenFacts ==
  ASSUME Types
  PROVE  /\ given.kind \in {"dump", "indexes", "data"}
         /\ given.parts \in Parts /\ given.parts \in Nat \ {0}
         /\ given.faults \in Nat /\ given.ships \in {"db", "csvs"}
         /\ Count \in Nat \ {0} /\ Size \in Nat \ {0}
         /\ Retries \in Nat \ {0} /\ Attempts \in Nat \ {0}
         /\ Connections \in Nat \ {0}
BY SizeAssumption, StartsAssumption DEF Types, Scenarios, Parts

LEMMA Constants ==
  /\ Empty \in Partials /\ NoThread \in Threads /\ NoPipe \in Pipes
  /\ Started \in Threads /\ Feeding \in Pipes
  /\ 0 \in 0..Attempts /\ 1 \in 0..Attempts
<1>1. /\ 0 \in 0..2 * Size /\ 0 \in 0..Size /\ 0 \in 0..Retries /\ 1 \in 0..Retries
      /\ 0 \in 0..Count /\ 0 \in 0..Attempts /\ 1 \in 0..Attempts
  BY SizeAssumption
<1>2. QED
  BY <1>1 DEF Empty, NoThread, NoPipe, Started, Feeding, Partials, Threads, Pipes

LEMMA InitHolds == Init => IInv
<1> SUFFICES ASSUME Init PROVE IInv
  OBVIOUS
<1> USE DEF Init
<1>1. Types
  <2>1. given \in Scenarios /\ given.faults \in Nat
    BY StartsAssumption DEF Scenarios
  <2>2. QED
    BY <2>1, Constants DEF Types, Stages
<1>2. SlotsReturn
  <2>1. Fetching = {}
    BY DEF Fetching, Is, NoThread
  <2>2. QED
    BY <2>1, FS_EmptySet, SizeAssumption DEF SlotsReturn
<1>3. ThreadsInv /\ PartInv /\ PipeInv /\ StageInv
  BY DEF ThreadsInv, PartInv, PipeInv, StageInv, Is, NoThread, NoPipe, Piped
<1>4. QED
  BY <1>1, <1>2, <1>3 DEF IInv, TypeOK

LEMMA FaultType ==
  ASSUME Types, given' = given, Fault \/ UNCHANGED faults
  PROVE  faults' \in 0..given.faults
BY GivenFacts DEF Types, Fault

(* The stage thread. *)
LEMMA StageTypes ==
  ASSUME IInv, StageThread \/ Begin
  PROVE  Types'
<1>0. Types /\ Attempts \in Nat \ {0}
  BY GivenFacts DEF IInv, TypeOK
<1> USE <1>0, Constants DEF Types, StageAt, StageTo, Ends, scratch
<1>1. CASE Begin \/ Keep \/ Clean
  BY <1>1 DEF Begin, Keep, Clean, Stages
<1>2. CASE Attempt
  BY <1>2 DEF Attempt, Stages
<1>3. CASE Join
  BY <1>3 DEF Join, Stages
<1>4. CASE Finish
  <2>1. faults' \in 0..given.faults
    BY <1>4, FaultType DEF Finish
  <2>2. QED
    BY <1>4, <2>1 DEF Finish, Rejected, Failed, Stages
<1>5. CASE Land
  BY <1>5, GivenFacts DEF Land, Rejected, IInv, StageInv, Piped, Stages
<1>6. CASE Wait
  BY <1>6 DEF Wait, IInv, StageInv, Stages
<1>7. CASE Assemble
  <2>1. faults' \in 0..given.faults
    BY <1>7, FaultType DEF Assemble, Fault
  <2>2. QED
    BY <1>7, <2>1 DEF Assemble, Rejected, Failed, Stages
<1>8. CASE Move
  BY <1>8 DEF Move, Unpacked, Stages
<1>9. CASE Ingest
  <2>1. faults' \in 0..given.faults
    BY <1>9, FaultType DEF Ingest
  <2>2. QED
    BY <1>9, <2>1 DEF Ingest, Failed, Stages
<1>10. QED
  BY <1>1, <1>2, <1>3, <1>4, <1>5, <1>6, <1>7, <1>8, <1>9 DEF StageThread

(* The threads of the parts. *)
LEMMA FetcherTypes ==
  ASSUME IInv, NEW p \in Parts, Fetcher(p)
  PROVE  Types'
<1>0. Types /\ Size \in Nat /\ Retries \in Nat
  BY GivenFacts DEF IInv, TypeOK
<1>1. /\ UNCHANGED <<staged, art, stage, pipe, outcome, given>>
      /\ faults' \in 0..given.faults
  BY <1>0, FaultType
     DEF Fetcher, Resume, Open, Chunk, Break, Retreat, Eof, Backoff, Frozen, Dies
<1>2. first' \in {"none", "failed", "aborted"}
  BY <1>0 DEF Fetcher, Resume, Open, Chunk, Break, Retreat, Eof, Backoff, Dies, To,
              Types
<1>3. done' \in [Parts -> {"none", "good", "bad"}]
  BY <1>0 DEF Fetcher, Resume, Open, Chunk, Break, Retreat, Eof, Backoff, scratch,
              Types
<1>4. tmp' \in [Parts -> Partials]
  <2> USE <1>0, Constants DEF Types
  <2>1. CASE Chunk(p) /\ ~abort
    <3>1. Is(p, "fetch") /\ worker[p].left > 0
      BY <2>1 DEF Chunk
    <3>2. tmp[p].len + 1 \in 0..2 * Size
      BY <3>1 DEF IInv, PartInv, Partials, Threads
    <3>3. QED
      BY <2>1, <3>2 DEF Chunk, Partials
  <2>2. CASE Open(p)
    <3>1. tmp' = tmp \/ tmp' = [tmp EXCEPT ![p].ok = FALSE]
      BY <2>2 DEF Open
    <3>2. [tmp[p] EXCEPT !.ok = FALSE] \in Partials
      BY DEF Partials
    <3>3. QED
      BY <3>1, <3>2
  <2>3. CASE Resume(p) \/ (Chunk(p) /\ abort) \/ Break(p) \/ Eof(p) \/ Backoff(p)
    BY <2>3 DEF Resume, Chunk, Break, Eof, Backoff, Retreat, scratch
  <2>4. QED
    BY <2>1, <2>2, <2>3 DEF Fetcher
<1>5. worker' \in [Parts -> Threads]
  <2> USE <1>0 DEF Types, Threads, To, Dies
  <2>1. CASE Open(p)
    <3>1. Size \in 0..Size /\ Size - tmp[p].len \in 0..Size
      BY <2>1 DEF Open, IInv, PartInv, Partials
    <3>2. PICK n \in 0..Size :
            worker' = [worker EXCEPT ![p].pc = "fetch", ![p].left = n]
      BY <2>1, <3>1 DEF Open
    <3>3. [worker[p] EXCEPT !.pc = "fetch", !.left = n] \in Threads
      OBVIOUS
    <3>4. QED
      BY <3>2, <3>3
  <2>2. CASE Resume(p)
    BY <2>2 DEF Resume
  <2>3. CASE Chunk(p)
    BY <2>3 DEF Chunk
  <2>4. CASE Break(p) \/ Eof(p)
    BY <2>4 DEF Break, Eof, Retreat
  <2>5. CASE Backoff(p)
    BY <2>5 DEF Backoff, IInv, PartInv
  <2>6. QED
    BY <2>1, <2>2, <2>3, <2>4, <2>5 DEF Fetcher
<1>6. QED
  BY <1>0, <1>1, <1>2, <1>3, <1>4, <1>5 DEF Types

(* The pipe, and what comes from outside. *)
Outside == Feed \/ FeedTimeout \/ Reader \/ Cancel \/ Crash

LEMMA OutsideTypes ==
  ASSUME IInv, Outside
  PROVE  Types'
<1>0. Types /\ given.parts \in Parts /\ Count \in Nat
  BY GivenFacts DEF IInv, TypeOK
<1> USE <1>0, Constants DEF Types, scratch
<1>1. faults' \in 0..given.faults /\ given' = given
  BY FaultType DEF Outside, Feed, FeedTimeout, Reader, Cancel, Crash
<1>2. CASE Feed
  <2>1. NextPart \in 0..Count
    BY <1>2 DEF Feed, IInv, PipeInv, NextPart, Pipes, Parts
  <2>2. pipe' \in Pipes
    BY <1>2, <2>1 DEF Feed, Pipes
  <2>3. QED
    BY <1>1, <1>2, <2>2 DEF Feed
<1>3. CASE FeedTimeout
  BY <1>1, <1>3 DEF FeedTimeout, Pipes
<1>4. CASE Reader
  BY <1>1, <1>4 DEF Reader, Pipes
<1>5. CASE Cancel \/ Crash
  BY <1>1, <1>5 DEF Cancel, Crash, Stages
<1>6. QED
  BY <1>2, <1>3, <1>4, <1>5 DEF Outside

-----------------------------------------------------------------------------
(* What may happen, by whose thread. *)
LEMMA StepCases ==
  ASSUME [Next]_vars
  PROVE  \/ Begin \/ StageThread \/ (\E p \in Parts : Fetcher(p)) \/ Outside
         \/ UNCHANGED vars
BY DEF Next, Work, Outside

LEMMA TypesStep ==
  ASSUME IInv, [Next]_vars
  PROVE  Types' /\ abort' \in BOOLEAN
<1>1. Types'
  <2>1. CASE UNCHANGED vars
    BY <2>1 DEF IInv, TypeOK, Types, vars, scratch
  <2>2. QED
    BY <2>1, StepCases, StageTypes, FetcherTypes, OutsideTypes
<1>2. abort' \in BOOLEAN
  <2> USE DEF IInv, TypeOK
  <2>1. CASE Begin
    BY <2>1 DEF Begin
  <2>2. CASE StageThread
    BY <2>2 DEF StageThread, Keep, Attempt, Join, Finish, Land, Clean, Wait, Assemble,
                Move, Ingest
  <2>3. ASSUME NEW p \in Parts, Fetcher(p) PROVE abort' \in BOOLEAN
    BY <2>3 DEF Fetcher, Resume, Open, Chunk, Break, Eof, Backoff, Frozen
  <2>4. CASE Outside
    BY <2>4 DEF Outside, Feed, FeedTimeout, Reader, Cancel, Crash
  <2>5. QED
    BY <2>1, <2>2, <2>3, <2>4, StepCases DEF vars
<1>3. QED
  BY <1>1, <1>2

(* A thread of a part that is at work is one that Attempt started. *)
LEMMA ThreadsStep ==
  ASSUME IInv, [Next]_vars
  PROVE  ThreadsInv'
<1> USE DEF IInv, TypeOK, Types, ThreadsInv, Is, Plan
<1>1. CASE Begin
  BY <1>1 DEF Begin, StageAt
<1>2. CASE StageThread
  <2>1. CASE Attempt
    <3>1. /\ \A p \in Parts : worker[p].pc = "idle"
          /\ given' = given
          /\ \/ worker' = worker
             \/ /\ stage'.pc = "fetch"
                /\ \A p \in Parts : p \notin 1..given.parts => worker'[p] = NoThread
      BY <2>1 DEF Attempt, StageAt, StageTo, Stages
    <3>2. QED
      BY <3>1 DEF NoThread
  <2>2. CASE Join
    BY <2>2 DEF Join, NoThread
  <2>3. CASE Keep \/ Finish \/ Land \/ Clean \/ Wait \/ Assemble \/ Move \/ Ingest
    <3>1. UNCHANGED <<worker, given>> /\ stage.pc # "fetch"
      BY <2>3 DEF Keep, Finish, Land, Clean, Wait, Assemble, Move, Ingest, StageAt
    <3>2. QED
      BY <3>1
  <2>4. QED
    BY <1>2, <2>1, <2>2, <2>3 DEF StageThread
<1>3. ASSUME NEW p \in Parts, Fetcher(p) PROVE ThreadsInv'
  <2>1. ~Is(p, "idle") /\ UNCHANGED <<stage, given>>
    BY <1>3 DEF Fetcher, Resume, Open, Chunk, Break, Eof, Backoff, Frozen
  <2>2. \A q \in Parts : q # p => worker'[q] = worker[q]
    BY <1>3 DEF Fetcher, Resume, Open, Chunk, Break, Eof, Backoff, Retreat, Dies, To
  <2>3. QED
    BY <2>1, <2>2
<1>4. CASE Outside
  BY <1>4 DEF Outside, Feed, FeedTimeout, Reader, Cancel, Crash, NoThread
<1>5. CASE UNCHANGED vars
  BY <1>5 DEF vars
<1>6. QED
  BY <1>1, <1>2, <1>3, <1>4, <1>5, StepCases

(* The room that is left in a partial file. *)
LEMMA PartStep ==
  ASSUME IInv, [Next]_vars
  PROVE  PartInv'
<1>0. Types /\ Types' /\ Size \in Nat \ {0} /\ Retries \in Nat
  BY GivenFacts, TypesStep DEF IInv, TypeOK
<1>1. CASE Begin \/ StageThread
  <2>1. CASE Attempt
    <3>1. \/ UNCHANGED worker /\ stage.pc # "fetch"
          \/ \A p \in Parts : worker'[p] = Started \/ worker'[p] = NoThread
      BY <2>1 DEF Attempt, StageAt
    <3>2. Started.pc = "attempt" /\ NoThread.pc = "idle"
      BY DEF Started, NoThread
    <3>3. QED
      BY <3>1, <3>2 DEF PartInv, Is, IInv, ThreadsInv
  <2>2. CASE \A p \in Parts : worker'[p].pc = "idle"
    BY <2>2 DEF PartInv, Is
  <2>3. CASE UNCHANGED worker /\ stage.pc # "fetch"
    BY <2>3 DEF PartInv, Is, IInv, ThreadsInv
  <2>4. QED
    BY <1>1, <2>1, <2>2, <2>3
       DEF Begin, StageThread, Keep, Join, Finish, Land, Clean, Wait, Assemble, Move,
           Ingest, StageAt, NoThread
<1>2. ASSUME NEW p \in Parts, Fetcher(p) PROVE PartInv'
  <2> USE <1>0 DEF IInv, PartInv, Types, Is, Partials, Threads
  <2>1. \A q \in Parts : q # p => worker'[q] = worker[q] /\ tmp'[q] = tmp[q]
    BY <1>2 DEF Fetcher, Resume, Open, Chunk, Break, Eof, Backoff, Retreat, Dies, To,
                scratch
  <2>2. CASE Resume(p)
    BY <2>1, <2>2 DEF Resume, Dies, To, Empty
  <2>3. CASE Open(p)
    <3>1. /\ tmp[p].len \in 0..Size /\ tmp[p].len < Size
          /\ tmp'[p].len = tmp[p].len /\ worker'[p].pc = "fetch"
          /\ worker'[p].left = Size - tmp[p].len
               \/ (worker'[p].left = Size /\ tmp[p].len > 0)
      BY <2>3 DEF Open
    <3>2. tmp'[p].len + worker'[p].left < 2 * Size
      BY <3>1
    <3>3. QED
      BY <2>1, <3>1, <3>2
  <2>4. CASE Chunk(p)
    BY <2>1, <2>4 DEF Chunk, Dies, To
  <2>5. CASE Break(p) \/ Eof(p)
    <3>1. /\ worker'[p].pc \in {"done", "failed", "backoff"}
          /\ worker'[p].pc = "backoff" => worker'[p].attempt < Retries
      <4>1. CASE worker' = [worker EXCEPT ![p].pc = "done"]
        BY <4>1
      <4>2. CASE Retreat(p)
        <5>1. \/ worker' = [worker EXCEPT ![p].pc = "failed"]
              \/ /\ worker' = [worker EXCEPT ![p].pc = "backoff"]
                 /\ worker[p].attempt # Retries
          BY <4>2 DEF Retreat, Dies, To
        <5>2. /\ worker[p].attempt \in 0..Retries
              /\ worker'[p].attempt = worker[p].attempt
              /\ worker'[p].pc \in {"failed", "backoff"}
              /\ worker'[p].pc = "backoff" => worker[p].attempt # Retries
          BY <5>1
        <5>3. \A n \in 0..Retries : n # Retries => n < Retries
          BY <1>0
        <5>4. QED
          BY <5>2, <5>3, Zenon
      <4>3. QED
        BY <2>5, <4>1, <4>2 DEF Break, Eof, To
    <3>2. QED
      BY <2>1, <3>1
  <2>6. CASE Backoff(p)
    <3>1. worker'[p].pc \in {"aborted", "attempt"}
      BY <2>6 DEF Backoff, Dies, To
    <3>2. QED
      BY <2>1, <3>1
  <2>7. QED
    BY <1>2, <2>2, <2>3, <2>4, <2>5, <2>6 DEF Fetcher
<1>3. CASE Outside
  BY <1>3 DEF Outside, Feed, FeedTimeout, Reader, Cancel, Crash, NoThread, scratch,
              IInv, PartInv, Is
<1>4. CASE UNCHANGED vars
  BY <1>4 DEF vars, scratch, IInv, PartInv, Is
<1>5. QED
  BY <1>1, <1>2, <1>3, <1>4, StepCases

(* The pipe lives for one attempt, and only a reader that had everything    *)
(* ends well over a dump.                                                   *)
LEMMA PipeStep ==
  ASSUME IInv, [Next]_vars
  PROVE  PipeInv'
<1>0. Types /\ PipeInv /\ given.parts \in Nat \ {0}
  BY GivenFacts DEF IInv, TypeOK
<1> USE <1>0 DEF PipeInv
<1>1. CASE Begin \/ Keep \/ Clean \/ Wait \/ Assemble \/ Move \/ Ingest \/ Land
  <2>1. /\ stage.pc \notin {"fetch", "finish"} /\ stage'.pc \notin {"fetch", "finish"}
        /\ UNCHANGED <<pipe, given>>
    BY <1>1 DEF Begin, Keep, Clean, Wait, Assemble, Move, Ingest, Land, StageAt,
                StageTo, Ends, Rejected, Failed, Types, Stages
  <2>2. QED
    BY <2>1 DEF NoPipe, Piped
<1>2. CASE Attempt
  <2>1. pipe = NoPipe /\ given' = given
    BY <1>2 DEF Attempt, StageAt
  <2>2. pipe' = NoPipe \/ (pipe' = Feeding /\ stage'.pc = "fetch" /\ Piped)
    <3>1. CASE pipe' = pipe
      BY <2>1, <3>1
    <3>2. CASE pipe' # pipe
      BY <1>2, <3>2 DEF Attempt, StageTo, Types, Stages
    <3>3. QED
      BY <3>1, <3>2
  <2>3. /\ Feeding.feeder = "feeding" /\ Feeding.fed = 0 /\ Feeding.reader = "reading"
        /\ NoPipe.feeder = "over" /\ NoPipe.reader = "none"
    BY DEF NoPipe, Feeding
  <2>4. QED
    BY <2>1, <2>2, <2>3 DEF Piped
<1>3. CASE Join
  <2>1. \/ pipe' = NoPipe
        \/ stage'.pc = "finish" /\ UNCHANGED <<pipe, staged>> /\ stage.pc = "fetch"
        \/ ~Piped /\ UNCHANGED <<pipe, staged>>
    BY <1>3 DEF Join, StageAt, StageTo, Types, Stages
  <2>2. given' = given
    BY <1>3 DEF Join
  <2>3. QED
    BY <2>1, <2>2 DEF NoPipe, Piped
<1>4. CASE Finish
  BY <1>4 DEF Finish, NoPipe, Piped
<1>5. ASSUME NEW p \in Parts, Fetcher(p) PROVE PipeInv'
  BY <1>5 DEF Fetcher, Resume, Open, Chunk, Break, Eof, Backoff, Frozen, Piped
<1>6. CASE Feed
  <2>1. pipe # NoPipe /\ UNCHANGED <<stage, staged, given>>
    BY <1>6 DEF Feed, NoPipe
  <2>2. pipe'.reader = pipe.reader
    BY <1>6 DEF Feed, Types, Pipes
  <2>3. pipe'.feeder = "feeding" => pipe'.fed < given.parts
    BY <1>6 DEF Feed, NextPart, Types, Pipes
  <2>4. QED
    BY <2>1, <2>2, <2>3 DEF Piped
<1>7. CASE FeedTimeout
  BY <1>7 DEF FeedTimeout, NoPipe, Types, Pipes, Piped
<1>8. CASE Reader
  <2>1. pipe # NoPipe /\ UNCHANGED <<stage, given>>
    BY <1>8 DEF Reader, NoPipe
  <2>2. pipe'.feeder = pipe.feeder /\ pipe'.fed = pipe.fed
    BY <1>8 DEF Reader, Types, Pipes
  <2>3. pipe'.reader = "ok" /\ given.kind = "dump" => staged' = "whole"
    BY <1>8 DEF Reader, Types, Pipes
  <2>4. QED
    BY <2>1, <2>2, <2>3 DEF Piped
<1>9. CASE Cancel \/ Crash
  BY <1>9 DEF Cancel, Crash, NoPipe, Piped
<1>10. CASE UNCHANGED vars
  BY <1>10 DEF vars, Piped
<1>11. QED
  BY <1>1, <1>2, <1>3, <1>4, <1>5, <1>6, <1>7, <1>8, <1>9, <1>10, StepCases
     DEF StageThread, Outside

(* What is known of the artifact follows the stage thread.                  *)
LEMMA StageStep ==
  ASSUME IInv, [Next]_vars
  PROVE  StageInv'
<1>0. Types /\ StageInv /\ given.kind \in {"dump", "indexes", "data"}
      /\ Attempts \in Nat
  BY GivenFacts DEF IInv, TypeOK
<1> USE <1>0 DEF StageInv, Piped, Landed
<1>1. CASE Begin
  BY <1>1 DEF Begin, StageAt
<1>2. CASE Keep \/ Clean
  BY <1>2 DEF Keep, Clean, StageAt, Ends
<1>3. CASE Attempt
  BY <1>3 DEF Attempt, StageAt, StageTo, Ends, Types, Stages
<1>4. CASE Join
  BY <1>4 DEF Join, StageAt, StageTo, Ends, Types, Stages
<1>5. CASE Finish
  BY <1>5 DEF Finish, StageAt, StageTo, Ends, Rejected, Failed, Types, Stages,
              IInv, PipeInv
<1>6. CASE Land
  BY <1>6 DEF Land, StageAt, StageTo, Ends, Rejected, Types, Stages
<1>7. CASE Wait
  BY <1>7 DEF Wait, StageAt
<1>8. CASE Assemble
  BY <1>8 DEF Assemble, StageAt, StageTo, Ends, Rejected, Failed, Types, Stages
<1>9. CASE Move
  BY <1>9 DEF Move, StageAt, StageTo, Types, Stages
<1>10. CASE Ingest
  BY <1>10 DEF Ingest, StageAt, StageTo, Ends, Failed, Types, Stages
<1>11. ASSUME NEW p \in Parts, Fetcher(p) PROVE StageInv'
  BY <1>11 DEF Fetcher, Resume, Open, Chunk, Break, Eof, Backoff, Frozen
<1>12. CASE Feed \/ FeedTimeout \/ Cancel
  BY <1>12 DEF Feed, FeedTimeout, Cancel
<1>13. CASE Reader
  BY <1>13 DEF Reader
<1>14. CASE Crash
  BY <1>14 DEF Crash
<1>15. CASE UNCHANGED vars
  BY <1>15 DEF vars
<1>16. QED
  BY <1>1, <1>2, <1>3, <1>4, <1>5, <1>6, <1>7, <1>8, <1>9, <1>10, <1>11, <1>12,
     <1>13, <1>14, <1>15, StepCases DEF StageThread, Outside

(* A connection is taken by Open and given back by whatever ends a fetch.   *)
LEMMA SlotsStep ==
  ASSUME IInv, [Next]_vars
  PROVE  SlotsReturn'
<1>0. Types /\ SlotsReturn /\ Count \in Nat /\ Connections \in Nat
  BY GivenFacts DEF IInv, TypeOK
<1>1. IsFiniteSet(Fetching) /\ Cardinality(Fetching) \in Nat
  <2>1. IsFiniteSet(Parts) /\ Fetching \in SUBSET Parts
    BY <1>0, FS_Interval DEF Fetching, Parts
  <2>2. IsFiniteSet(Fetching)
    BY <2>1, FS_Subset
  <2>3. QED
    BY <2>2, FS_CardinalityType
<1>2. CASE Fetching' = Fetching /\ slots' = slots
  BY <1>0, <1>2 DEF SlotsReturn
<1>3. CASE Fetching = {} /\ Fetching' = {} /\ slots' = slots
  BY <1>2, <1>3
<1>4. CASE Begin \/ StageThread
  <2>1. CASE UNCHANGED worker
    BY <1>2, <1>4, <2>1
       DEF Begin, StageThread, Keep, Attempt, Join, Finish, Land, Clean, Wait,
           Assemble, Move, Ingest, Fetching, Is
  <2>2. CASE Attempt
    <3>1. Fetching = {}
      BY <2>2 DEF Attempt, StageAt, IInv, ThreadsInv, Fetching, Is
    <3>2. UNCHANGED worker \/ \A p \in Parts : worker'[p] = Started \/ worker'[p] = NoThread
      BY <2>2 DEF Attempt
    <3>3. Started.pc # "fetch" /\ NoThread.pc # "fetch"
      BY DEF Started, NoThread
    <3>4. slots' = slots
      BY <2>2 DEF Attempt
    <3>5. QED
      BY <1>3, <2>1, <3>1, <3>2, <3>3, <3>4 DEF Fetching, Is
  <2>3. CASE Join
    <3>1. Fetching = {}
      BY <2>3 DEF Join, Over, IInv, ThreadsInv, Fetching, Is
    <3>2. Fetching' = {} /\ slots' = slots
      BY <2>3 DEF Join, Fetching, Is, NoThread
    <3>3. QED
      BY <1>3, <3>1, <3>2
  <2>4. QED
    BY <1>4, <2>1, <2>2, <2>3
       DEF Begin, StageThread, Keep, Finish, Land, Clean, Wait, Assemble, Move, Ingest
<1>5. ASSUME NEW p \in Parts, Fetcher(p) PROVE SlotsReturn'
  <2>1. \A q \in Parts : q # p => worker'[q] = worker[q]
    BY <1>0, <1>5 DEF Types, Fetcher, Resume, Open, Chunk, Break, Eof, Backoff,
                      Retreat, Dies, To
  <2>2. CASE Is(p, "fetch")' = Is(p, "fetch") /\ slots' = slots
    <3>1. Fetching' = Fetching
      BY <2>1, <2>2 DEF Fetching, Is
    <3>2. QED
      BY <1>2, <2>2, <3>1
  <2>3. CASE ~Is(p, "fetch") /\ Is(p, "fetch")' /\ slots' = slots - 1
    <3>1. Fetching' = Fetching \cup {p} /\ p \notin Fetching
      BY <2>1, <2>3 DEF Fetching, Is
    <3>2. Cardinality(Fetching') = Cardinality(Fetching) + 1
      BY <1>1, <3>1, FS_AddElement
    <3>3. QED
      BY <1>0, <1>1, <2>3, <3>2 DEF SlotsReturn
  <2>4. CASE Is(p, "fetch") /\ ~Is(p, "fetch")' /\ slots' = slots + 1
    <3>1. Fetching' = Fetching \ {p} /\ p \in Fetching
      BY <2>1, <2>4 DEF Fetching, Is
    <3>2. Cardinality(Fetching') = Cardinality(Fetching) - 1
      BY <1>1, <3>1, FS_RemoveElement
    <3>3. QED
      BY <1>0, <1>1, <2>4, <3>2 DEF SlotsReturn
  <2> USE <1>0 DEF Types, Threads, Is, To, Dies
  <2>5. CASE Resume(p) \/ Backoff(p)
    BY <2>2, <2>5 DEF Resume, Backoff
  <2>6. CASE Open(p)
    BY <2>3, <2>6 DEF Open
  <2>7. CASE Chunk(p)
    BY <2>2, <2>4, <2>7 DEF Chunk
  <2>8. CASE Break(p) \/ Eof(p)
    BY <2>4, <2>8 DEF Break, Eof, Retreat
  <2>9. QED
    BY <1>5, <2>5, <2>6, <2>7, <2>8 DEF Fetcher
<1>6. CASE Outside
  <2>1. CASE Crash
    <3>1. Fetching' = {} /\ slots' = Connections
      BY <2>1 DEF Crash, Fetching, Is, NoThread
    <3>2. QED
      BY <1>0, <3>1, FS_EmptySet DEF SlotsReturn
  <2>2. CASE Feed \/ FeedTimeout \/ Reader \/ Cancel
    BY <1>2, <2>2 DEF Feed, FeedTimeout, Reader, Cancel, Fetching, Is
  <2>3. QED
    BY <1>6, <2>1, <2>2 DEF Outside
<1>7. CASE UNCHANGED vars
  BY <1>2, <1>7 DEF vars, Fetching, Is
<1>8. QED
  BY <1>4, <1>5, <1>6, <1>7, StepCases

LEMMA InductiveInvariant == Spec => []IInv
<1>1. IInv /\ [Next]_vars => IInv'
  BY TypesStep, SlotsStep, ThreadsStep, PartStep, PipeStep, StageStep DEF IInv, TypeOK
<1>2. QED
  BY <1>1, InitHolds, PTL DEF Spec

(* Every variable keeps its type, and no interleaving of fetches, failures, *)
(* cancellations and crashes loses a connection or gives one back twice.    *)
THEOREM TypeCorrect == Spec => []TypeOK
<1>1. IInv => TypeOK
  BY DEF IInv
<1>2. QED
  BY <1>1, InductiveInvariant, PTL

-----------------------------------------------------------------------------
(* A step that takes bytes of a part away is one that PartsSurvive allows.  *)
LEMMA BytesStep ==
  ASSUME Types, Next, NEW p \in Parts, Have(p)' < Have(p)
  PROVE  Superseded(p)
<1>0. Size \in Nat /\ tmp[p].len \in Nat
  BY GivenFacts DEF Types, Partials
<1>1. CASE UNCHANGED scratch
  BY <1>0, <1>1 DEF Have, Visible, scratch
<1>2. CASE Begin \/ StageThread \/ Outside
  BY <1>1, <1>2
     DEF Begin, StageThread, Keep, Attempt, Join, Finish, Land, Clean, Wait, Assemble,
         Move, Ingest, Failed, StageAt, Outside, Feed, FeedTimeout, Reader, Cancel,
         Crash, Superseded
<1>3. ASSUME NEW q \in Parts, Fetcher(q) PROVE Superseded(p)
  <2>1. CASE q # p
    <3>1. done'[p] = done[p] /\ tmp'[p] = tmp[p]
      BY <1>3, <2>1, <1>0 DEF Fetcher, Resume, Open, Chunk, Break, Eof, Backoff, Retreat,
                         scratch, Types
    <3>2. QED
      BY <1>0, <3>1 DEF Have, Visible
  <2>2. CASE q = p
    <3> USE <2>2, <1>0 DEF Have, Visible, Types
    <3>1. CASE Resume(p)
      BY <3>1 DEF Resume, Superseded, scratch
    <3>2. CASE Open(p)
      BY <3>2 DEF Open, Partials
    <3>3. CASE Chunk(p)
      BY <3>3 DEF Chunk, Partials
    <3>4. CASE Eof(p)
      BY <3>4, <1>1 DEF Eof, Retreat
    <3>5. CASE Break(p) \/ Backoff(p)
      BY <3>5, <1>1 DEF Break, Backoff
    <3>6. QED
      BY <1>3, <3>1, <3>2, <3>3, <3>4, <3>5 DEF Fetcher
  <2>3. QED
    BY <2>1, <2>2
<1>4. QED
  BY <1>2, <1>3 DEF Next, Work, Outside

(* Whatever fails, is cancelled or crashes, the bytes on disk stay, for any *)
(* number of parts, connections and faults.                                 *)
THEOREM BytesArePaidOnce == Spec => PartsSurvive
<1>1. TypeOK /\ [Next]_vars
        => [\A p \in Parts : Have(p)' < Have(p) => Superseded(p)]_vars
  BY BytesStep DEF TypeOK
<1>2. QED
  BY <1>1, TypeCorrect, PTL DEF Spec, PartsSurvive

-----------------------------------------------------------------------------
(* The executors implement Acquisition: each step is a start, a landing, an *)
(* end with the outcome it may report, a crash, or invisible.               *)
LEMMA PromiseStep ==
  ASSUME IInv, [Next]_vars
  PROVE  Promise!Next \/ UNCHANGED Promise!vars
<1>0. Types /\ StageInv
  BY DEF IInv, TypeOK
<1> USE <1>0 DEF Promise!Next, Promise!vars, StageInv, Landed, Piped
<1>1. CASE Begin
  BY <1>1 DEF Begin, StageAt, Promise!Start
<1>2. CASE Keep \/ Clean
  BY <1>2 DEF Keep, Clean, StageAt, Ends, Promise!End
<1>3. CASE Attempt
  BY <1>3 DEF Attempt, StageAt, Ends, Promise!End
<1>4. CASE Join
  BY <1>4 DEF Join, StageAt, Ends, Promise!End
<1>5. CASE Finish
  BY <1>5 DEF Finish, StageAt, Ends, Rejected, Failed, Promise!End
<1>6. CASE Land
  BY <1>6, GivenFacts DEF Land, StageAt, Ends, Rejected, Promise!End, Promise!Land
<1>7. CASE Wait
  BY <1>7 DEF Wait
<1>8. CASE Assemble
  BY <1>8 DEF Assemble, StageAt, Ends, Rejected, Failed, Promise!End
<1>9. CASE Move
  BY <1>9 DEF Move, StageAt, Unpacked, Promise!Land
<1>10. CASE Ingest
  BY <1>10 DEF Ingest, StageAt, Ends, Failed, Promise!End, Promise!Land
<1>11. ASSUME NEW p \in Parts, Fetcher(p) PROVE UNCHANGED Promise!vars
  BY <1>11 DEF Fetcher, Resume, Open, Chunk, Break, Eof, Backoff, Frozen
<1>12. CASE Feed \/ FeedTimeout \/ Cancel \/ Reader
  BY <1>12 DEF Feed, FeedTimeout, Cancel, Reader
<1>13. CASE Crash
  BY <1>13 DEF Crash, Promise!Crash
<1>14. CASE UNCHANGED vars
  BY <1>14 DEF vars
<1>15. QED
  BY <1>1, <1>2, <1>3, <1>4, <1>5, <1>6, <1>7, <1>8, <1>9, <1>10, <1>11, <1>12,
     <1>13, <1>14, StepCases DEF StageThread, Outside

(* DONE is reported of a landed artifact only, and no step of a stage, of a *)
(* later one or of a crash takes it away.  That the stage ends at all is    *)
(* the rest of KeepsPromise.                                                *)
THEOREM Refinement == Spec => Promise!Safety
<1>1. Init => Promise!Init
  BY DEF Init, Promise!Init, Landed
<1>2. IInv /\ [Next]_vars => [Promise!Next]_(Promise!vars)
  BY PromiseStep
<1>3. QED
  BY <1>1, <1>2, InductiveInvariant, PTL DEF Spec, Promise!Safety
=============================================================================
