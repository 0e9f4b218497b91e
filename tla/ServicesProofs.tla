--------------------------- MODULE ServicesProofs ---------------------------
(***************************************************************************)
(* Proofs about the components of Services, for any number of jobs,        *)
(* callers, workers, writers, processes, requests, payloads and sources.   *)
(***************************************************************************)
EXTENDS Services, FiniteSetTheorems, SequenceTheorems, WellFoundedInduction, TLAPS

(* A step of Services is a step of one of its components or none of theirs. *)
LEMMA StepsOfComponents ==
  [Next]_vars => /\ [J!Next]_(J!vars)
                 /\ [F!Next]_(F!vars)
                 /\ [P!Next]_(P!vars)
                 /\ [S!Next]_(S!vars)
<1> SUFFICES ASSUME [Next]_vars
             PROVE  /\ [J!Next]_(J!vars) /\ [F!Next]_(F!vars)
                    /\ [P!Next]_(P!vars) /\ [S!Next]_(S!vars)
  OBVIOUS
<1> USE DEF registry, files, payloads, sources, analysis,
            J!vars, F!vars, P!vars, S!vars
<1>1. CASE Registry
  BY <1>1 DEF Registry, InJobs
<1>2. CASE JsonFiles
  BY <1>2 DEF JsonFiles, InFiles
<1>3. CASE Queries
  BY <1>3 DEF Queries, InCache
<1>4. CASE Passes
  BY <1>4 DEF Passes, InAnalysis
<1>5. CASE Lookups
  BY <1>5 DEF Lookups, InSources, S!Next
<1>6. CASE Listings
  BY <1>6 DEF Listings, InSources, S!Next
<1>7. CASE Attempts
  BY <1>7 DEF Attempts, InSources, S!Next, S!World
<1>8. CASE UNCHANGED vars
  BY <1>8 DEF vars
<1>9. QED
  BY <1>1, <1>2, <1>3, <1>4, <1>5, <1>6, <1>7, <1>8 DEF Next

-----------------------------------------------------------------------------
(* The registry.  A job is in one place until it has ended: with the caller *)
(* that puts it, once in a queue, or with a worker.                         *)
JobStates == {"QUEUED", "RUNNING", "DONE", "FAILED", "CANCELLED"}
JobRecords == [work : Works, state : JobStates]

RegistryTyped ==
  /\ jobs \in Seq(JobRecords)
  /\ queued \in [{"mat", "dl"} -> Seq(DOMAIN jobs)]
  /\ worker \in [Workers -> ({"get"} \X {0}) \union ({"taken", "fn"} \X DOMAIN jobs)]
  /\ caller \in [Callers -> ({"idle"} \X {0}) \union ({"put", "cancel"} \X DOMAIN jobs)]

Putting(c, i)    == caller[c] = <<"put", i>>
Waiting(l, n, i) == n \in DOMAIN queued[l] /\ queued[l][n] = i
Has(w, i)        == worker[w] \in {<<"taken", i>>, <<"fn", i>>}

InOnePlace ==
  /\ \A c, d \in Callers, i \in DOMAIN jobs : Putting(c, i) /\ Putting(d, i) => c = d
  /\ \A l, k \in {"mat", "dl"}, n, m \in Nat, i \in DOMAIN jobs :
       Waiting(l, n, i) /\ Waiting(k, m, i) => l = k /\ n = m
  /\ \A w, x \in Workers, i \in DOMAIN jobs : Has(w, i) /\ Has(x, i) => w = x
  /\ \A c \in Callers, l \in {"mat", "dl"}, n \in Nat, i \in DOMAIN jobs :
       ~(Putting(c, i) /\ Waiting(l, n, i))
  /\ \A c \in Callers, w \in Workers, i \in DOMAIN jobs : ~(Putting(c, i) /\ Has(w, i))
  /\ \A l \in {"mat", "dl"}, n \in Nat, w \in Workers, i \in DOMAIN jobs :
       ~(Waiting(l, n, i) /\ Has(w, i))

(* Only a job that a worker is at runs; what is on its way has not begun.   *)
Pending(i) == jobs[i].state \in {"QUEUED", "CANCELLED"}

StatesAgree ==
  /\ \A c \in Callers, i \in DOMAIN jobs : Putting(c, i) => Pending(i)
  /\ \A l \in {"mat", "dl"}, n \in Nat, i \in DOMAIN jobs : Waiting(l, n, i) => Pending(i)
  /\ \A w \in Workers, i \in DOMAIN jobs : worker[w] = <<"taken", i>> => Pending(i)
  /\ \A w \in Workers, i \in DOMAIN jobs :
       worker[w] = <<"fn", i>> => jobs[i].state = "RUNNING"
  /\ \A i \in DOMAIN jobs :
       jobs[i].state = "RUNNING" => \E w \in Workers : worker[w] = <<"fn", i>>

NoTwins ==
  \A i, j \in DOMAIN jobs :
    (i # j /\ jobs[i].work = jobs[j].work) => ~(J!Active(i) /\ J!Active(j))

RegistryInv == RegistryTyped /\ InOnePlace /\ StatesAgree /\ NoTwins

(* What the two ways to write the registry do to it.                        *)
LEMMA SetFacts ==
  ASSUME jobs \in Seq(JobRecords), NEW i \in DOMAIN jobs, NEW s \in JobStates,
         J!Set(i, s)
  PROVE  /\ jobs' \in Seq(JobRecords) /\ DOMAIN jobs' = DOMAIN jobs
         /\ jobs'[i].work = jobs[i].work /\ jobs'[i].state = s
         /\ \A j \in DOMAIN jobs : j # i => jobs'[j] = jobs[j]
<1>1. jobs' = [jobs EXCEPT ![i] = [jobs[i] EXCEPT !.state = s]]
  BY DEF J!Set
<1>2. jobs[i] \in JobRecords
  OBVIOUS
<1>3. [jobs[i] EXCEPT !.state = s] \in JobRecords
  BY <1>2 DEF JobRecords
<1>4. QED
  BY <1>1, <1>2, <1>3 DEF JobRecords

LEMMA AppendFacts ==
  ASSUME jobs \in Seq(JobRecords), NEW r \in JobRecords, jobs' = Append(jobs, r)
  PROVE  /\ jobs' \in Seq(JobRecords)
         /\ Len(jobs') = Len(jobs) + 1 /\ Len(jobs') \notin DOMAIN jobs
         /\ DOMAIN jobs' = DOMAIN jobs \union {Len(jobs')}
         /\ jobs'[Len(jobs')] = r
         /\ \A j \in DOMAIN jobs : jobs'[j] = jobs[j]
  OBVIOUS

LEMMA RegisterKeeps ==
  ASSUME RegistryInv, NEW c \in Callers, NEW work \in Works, J!Register(c, work)
  PROVE  RegistryInv'
<1> DEFINE r == [work |-> work, state |-> "QUEUED"]
<1>1. r \in JobRecords
  BY DEF JobRecords, JobStates
<1> PICK n : n = Len(jobs')
  OBVIOUS
<1>2. /\ jobs' = Append(jobs, r) /\ caller' = [caller EXCEPT ![c] = <<"put", n>>]
      /\ queued' = queued /\ worker' = worker
  BY DEF J!Register
<1>3. /\ jobs' \in Seq(JobRecords)
      /\ n \notin DOMAIN jobs /\ DOMAIN jobs' = DOMAIN jobs \union {n}
      /\ jobs'[n] = r /\ \A j \in DOMAIN jobs : jobs'[j] = jobs[j]
  BY <1>1, <1>2, AppendFacts DEF RegistryInv, RegistryTyped
<1>4. RegistryTyped'
  BY <1>2, <1>3 DEF RegistryInv, RegistryTyped
<1>5. /\ \A l \in {"mat", "dl"}, k \in Nat : ~Waiting(l, k, n)
      /\ \A w \in Workers : ~Has(w, n)
  BY <1>3 DEF RegistryInv, RegistryTyped, Waiting, Has
<1>6. /\ \A d \in Callers : Putting(d, n)' => d = c
      /\ \A d \in Callers, i \in DOMAIN jobs : Putting(d, i)' => Putting(d, i)
      /\ \A l \in {"mat", "dl"}, k \in Nat, i \in DOMAIN jobs' :
           Waiting(l, k, i)' <=> Waiting(l, k, i)
      /\ \A w \in Workers, i \in DOMAIN jobs' : Has(w, i)' <=> Has(w, i)
  BY <1>2, <1>3 DEF RegistryInv, RegistryTyped, Putting, Waiting, Has
<1>8. InOnePlace'
  BY <1>3, <1>5, <1>6 DEF RegistryInv, InOnePlace
<1>9. /\ \A i \in DOMAIN jobs : Pending(i)' <=> Pending(i)
      /\ Pending(n)' /\ jobs'[n].state # "RUNNING"
      /\ \A i \in DOMAIN jobs : jobs'[i].state = jobs[i].state
  BY <1>3 DEF Pending
<1>10. \A w \in Workers : worker[w] # <<"taken", n>> /\ worker[w] # <<"fn", n>>
  BY <1>5 DEF Has
<1>11. StatesAgree'
  BY ZenonT(60), <1>2, <1>3, <1>5, <1>6, <1>9, <1>10 DEF RegistryInv, StatesAgree
<1>7. NoTwins'
  <2>1. \A i \in DOMAIN jobs : J!Active(i)' <=> J!Active(i)
    BY <1>3 DEF J!Active
  <2>2. \A i \in DOMAIN jobs : J!Active(i) => jobs[i].work # jobs'[n].work
    BY <1>3 DEF J!Register
  <2>3. QED
    BY <1>3, <2>1, <2>2 DEF RegistryInv, NoTwins
<1>12. QED
  BY <1>4, <1>7, <1>8, <1>11 DEF RegistryInv

LEMMA PutKeeps ==
  ASSUME RegistryInv, NEW c \in Callers, J!Put(c)
  PROVE  RegistryInv'
<1>1. PICK i \in DOMAIN jobs : caller[c] = <<"put", i>>
  BY DEF RegistryInv, RegistryTyped, J!Put
<1> DEFINE l == J!Lane(jobs[i].work)
<1>2. l \in {"mat", "dl"}
  BY DEF J!Lane
<1>3. /\ queued' = [queued EXCEPT ![l] = Append(@, i)]
      /\ caller' = [caller EXCEPT ![c] = <<"idle", 0>>]
      /\ jobs' = jobs /\ worker' = worker
  BY <1>1 DEF J!Put
<1> HIDE DEF l
<1>4. RegistryTyped'
  BY <1>1, <1>2, <1>3 DEF RegistryInv, RegistryTyped
<1>5. \A k \in {"mat", "dl"}, n \in Nat, j \in DOMAIN jobs :
        Waiting(k, n, j)' => \/ Waiting(k, n, j)
                             \/ k = l /\ n = Len(queued[l]) + 1 /\ j = i
  BY <1>2, <1>3 DEF RegistryInv, RegistryTyped, Waiting
<1>6. \A d \in Callers, j \in DOMAIN jobs : Putting(d, j)' => Putting(d, j) /\ d # c
  BY <1>3 DEF RegistryInv, RegistryTyped, Putting
<1>7. Putting(c, i)
  BY <1>1 DEF Putting
<1>8. \A w \in Workers, j \in DOMAIN jobs : Has(w, j)' <=> Has(w, j)
  BY <1>3 DEF Has
<1>9. InOnePlace'
  BY <1>3, <1>5, <1>6, <1>7, <1>8 DEF RegistryInv, InOnePlace
<1>10. StatesAgree'
  BY ZenonT(60), <1>3, <1>5, <1>6, <1>7 DEF RegistryInv, StatesAgree, Pending
<1>11. NoTwins'
  BY <1>3 DEF RegistryInv, NoTwins, J!Active
<1>12. QED
  BY <1>4, <1>9, <1>10, <1>11 DEF RegistryInv

LEMMA SnapshotKeeps ==
  ASSUME RegistryInv, NEW c \in Callers, NEW i \in 1..MaxJobs, J!Snapshot(c, i)
  PROVE  RegistryInv'
<1>1. /\ i \in DOMAIN jobs /\ caller' = [caller EXCEPT ![c] = <<"cancel", i>>]
      /\ jobs' = jobs /\ queued' = queued /\ worker' = worker
  BY DEF J!Snapshot
<1>2. RegistryTyped'
  BY <1>1 DEF RegistryInv, RegistryTyped
<1>3. \A d \in Callers, j \in DOMAIN jobs : Putting(d, j)' => Putting(d, j)
  BY <1>1 DEF RegistryInv, RegistryTyped, Putting
<1>4. InOnePlace'
  BY <1>1, <1>3 DEF RegistryInv, InOnePlace, Waiting, Has
<1>5. StatesAgree' /\ NoTwins'
  BY <1>1, <1>3 DEF RegistryInv, StatesAgree, Pending, Waiting, NoTwins, J!Active
<1>6. QED
  BY <1>2, <1>4, <1>5 DEF RegistryInv

LEMMA CancelKeeps ==
  ASSUME RegistryInv, NEW c \in Callers, J!Cancel(c)
  PROVE  RegistryInv'
<1>1. PICK i \in DOMAIN jobs : caller[c] = <<"cancel", i>>
  BY DEF RegistryInv, RegistryTyped, J!Cancel
<1>2. /\ caller' = [caller EXCEPT ![c] = <<"idle", 0>>]
      /\ queued' = queued /\ worker' = worker
  BY DEF J!Cancel
<1>3. \A d \in Callers, j \in DOMAIN jobs : Putting(d, j)' => Putting(d, j)
  BY <1>2 DEF RegistryInv, RegistryTyped, Putting
<1>4. CASE jobs[i].state = "QUEUED"
  <2>1. J!Set(i, "CANCELLED")
    BY <1>1, <1>4 DEF J!Cancel
  <2>2. /\ jobs' \in Seq(JobRecords) /\ DOMAIN jobs' = DOMAIN jobs
        /\ jobs'[i].work = jobs[i].work /\ jobs'[i].state = "CANCELLED"
        /\ \A j \in DOMAIN jobs : j # i => jobs'[j] = jobs[j]
    BY <2>1, SetFacts DEF RegistryInv, RegistryTyped, JobStates
  <2>3. RegistryTyped'
    BY <1>2, <2>2 DEF RegistryInv, RegistryTyped
  <2>4. InOnePlace'
    BY <1>2, <1>3, <2>2 DEF RegistryInv, InOnePlace, Waiting, Has
  <2>5. \A j \in DOMAIN jobs : /\ Pending(j) => Pending(j)'
                               /\ jobs'[j].state = "RUNNING" <=> jobs[j].state = "RUNNING"
    BY <1>4, <2>2 DEF Pending
  <2>6. StatesAgree'
    BY <1>2, <1>3, <2>2, <2>5 DEF RegistryInv, StatesAgree, Waiting
  <2>7. NoTwins'
    BY <2>2 DEF RegistryInv, NoTwins, J!Active
  <2>8. QED
    BY <2>3, <2>4, <2>6, <2>7 DEF RegistryInv
<1>5. CASE jobs[i].state # "QUEUED"
  <2>1. jobs' = jobs
    BY <1>1, <1>5 DEF J!Cancel
  <2>2. RegistryTyped'
    BY <1>2, <2>1 DEF RegistryInv, RegistryTyped
  <2>3. InOnePlace'
    BY <1>2, <1>3, <2>1 DEF RegistryInv, InOnePlace, Waiting, Has
  <2>4. StatesAgree' /\ NoTwins'
    BY <1>2, <1>3, <2>1 DEF RegistryInv, StatesAgree, NoTwins, Waiting, Pending, J!Active
  <2>5. QED
    BY <2>2, <2>3, <2>4 DEF RegistryInv
<1>6. QED
  BY <1>4, <1>5

LEMMA TakeKeeps ==
  ASSUME RegistryInv, NEW w \in Workers, J!Take(w)
  PROVE  RegistryInv'
<1> DEFINE l == LaneOf[w]
<1>1. l \in {"mat", "dl"} /\ queued[l] # <<>> /\ worker[w][1] = "get"
  BY JobsAssumption DEF J!Staffed, J!Take
<1> HIDE DEF l
<1>2. queued[l] \in Seq(DOMAIN jobs)
  BY <1>1 DEF RegistryInv, RegistryTyped
<1>3. /\ Head(queued[l]) \in DOMAIN jobs /\ Tail(queued[l]) \in Seq(DOMAIN jobs)
      /\ 1 \in DOMAIN queued[l] /\ Head(queued[l]) = queued[l][1]
  <2>1. Head(queued[l]) \in DOMAIN jobs /\ Tail(queued[l]) \in Seq(DOMAIN jobs)
    BY <1>1, <1>2, HeadTailProperties
  <2>2. Len(queued[l]) \in Nat /\ Len(queued[l]) # 0 /\ DOMAIN queued[l] = 1..Len(queued[l])
    BY <1>1, <1>2, EmptySeq, LenProperties
  <2>3. QED
    BY <1>2, <2>1, <2>2
<1>4. PICK i \in DOMAIN jobs : Head(queued[l]) = i /\ Waiting(l, 1, i)
  BY <1>3 DEF Waiting
<1>5. /\ worker' = [worker EXCEPT ![w] = <<"taken", i>>]
      /\ queued' = [queued EXCEPT ![l] = Tail(@)]
      /\ jobs' = jobs /\ caller' = caller
  BY <1>4 DEF J!Take, l
<1>6. RegistryTyped'
  BY <1>1, <1>4, <1>5, <1>3 DEF RegistryInv, RegistryTyped
<1>7. \A n \in Nat, j \in DOMAIN jobs :
        Waiting(l, n, j)' => n + 1 \in Nat /\ n + 1 # 1 /\ Waiting(l, n + 1, j)
  BY SMTT(30), <1>1, <1>5 DEF RegistryInv, RegistryTyped, Waiting
<1>8. \A k \in {"mat", "dl"}, n \in Nat, j \in DOMAIN jobs :
        k # l => (Waiting(k, n, j)' <=> Waiting(k, n, j))
  BY <1>1, <1>5 DEF RegistryInv, RegistryTyped, Waiting
<1>9. \A x \in Workers, j \in DOMAIN jobs :
        Has(x, j)' => Has(x, j) \/ (x = w /\ j = i)
  BY <1>5 DEF RegistryInv, RegistryTyped, Has
<1>10. \A c \in Callers, j \in DOMAIN jobs : Putting(c, j)' <=> Putting(c, j)
  BY <1>5 DEF Putting
<1>11. \A k \in {"mat", "dl"}, n \in Nat : ~Waiting(k, n, i)'
  <2>1. \A n \in Nat : ~Waiting(l, n, i)'
    BY <1>1, <1>4, <1>7 DEF RegistryInv, InOnePlace
  <2>2. \A k \in {"mat", "dl"}, n \in Nat : k # l => ~Waiting(k, n, i)'
    BY <1>1, <1>4, <1>8 DEF RegistryInv, InOnePlace
  <2>3. QED
    BY <2>1, <2>2
<1>12. \A x \in Workers : ~Has(x, i)
  BY <1>1, <1>4 DEF RegistryInv, InOnePlace
<1>13. \A c \in Callers : ~Putting(c, i)
  BY <1>1, <1>4 DEF RegistryInv, InOnePlace
<1>14. InOnePlace'
  <2>1. \A c, d \in Callers, j \in DOMAIN jobs' :
          Putting(c, j)' /\ Putting(d, j)' => c = d
    BY <1>5, <1>10 DEF RegistryInv, InOnePlace
  <2>2. \A k, m \in {"mat", "dl"}, n, o \in Nat, j \in DOMAIN jobs' :
          Waiting(k, n, j)' /\ Waiting(m, o, j)' => k = m /\ n = o
    <3> SUFFICES ASSUME NEW k \in {"mat", "dl"}, NEW m \in {"mat", "dl"},
                        NEW n \in Nat, NEW o \in Nat, NEW j \in DOMAIN jobs,
                        Waiting(k, n, j)', Waiting(m, o, j)'
                 PROVE  k = m /\ n = o
      BY <1>5
    <3>1. CASE k = l /\ m = l
      <4>1. n + 1 = o + 1
        BY <1>1, <1>7, <3>1 DEF RegistryInv, InOnePlace
      <4>2. QED
        BY <3>1, <4>1
    <3>2. CASE k = l /\ m # l
      BY <1>1, <1>7, <1>8, <3>2 DEF RegistryInv, InOnePlace
    <3>3. CASE k # l /\ m = l
      BY <1>1, <1>7, <1>8, <3>3 DEF RegistryInv, InOnePlace
    <3>4. CASE k # l /\ m # l
      BY <1>8, <3>4 DEF RegistryInv, InOnePlace
    <3>5. QED
      BY <3>1, <3>2, <3>3, <3>4
  <2>3. \A x, y \in Workers, j \in DOMAIN jobs' : Has(x, j)' /\ Has(y, j)' => x = y
    BY <1>5, <1>9, <1>12 DEF RegistryInv, InOnePlace
  <2>4. \A k \in {"mat", "dl"}, n \in Nat, j \in DOMAIN jobs :
          Waiting(k, n, j)' => j # i /\ \E o \in Nat : Waiting(k, o, j)
    BY <1>7, <1>8, <1>11
  <2>5. \A c \in Callers, k \in {"mat", "dl"}, n \in Nat, j \in DOMAIN jobs' :
          ~(Putting(c, j)' /\ Waiting(k, n, j)')
    BY <1>5, <1>10, <2>4 DEF RegistryInv, InOnePlace
  <2>6. \A c \in Callers, x \in Workers, j \in DOMAIN jobs' :
          ~(Putting(c, j)' /\ Has(x, j)')
    BY <1>5, <1>9, <1>10, <1>13 DEF RegistryInv, InOnePlace
  <2>7. \A k \in {"mat", "dl"}, n \in Nat, x \in Workers, j \in DOMAIN jobs' :
          ~(Waiting(k, n, j)' /\ Has(x, j)')
    BY <1>5, <1>9, <2>4 DEF RegistryInv, InOnePlace
  <2>8. QED
    BY <2>1, <2>2, <2>3, <2>5, <2>6, <2>7 DEF InOnePlace
<1>15. StatesAgree'
  <2>1. \A j \in DOMAIN jobs : Pending(j)' <=> Pending(j)
    BY <1>5 DEF Pending
  <2>2. Pending(i)
    BY <1>1, <1>4 DEF RegistryInv, StatesAgree
  <2>3. \A k \in {"mat", "dl"}, n \in Nat, j \in DOMAIN jobs :
          Waiting(k, n, j)' => \E o \in Nat : Waiting(k, o, j)
    BY <1>7, <1>8
  <2>4. \A x \in Workers, j \in DOMAIN jobs :
          /\ worker'[x] = <<"taken", j>> => worker[x] = <<"taken", j>> \/ j = i
          /\ worker'[x] = <<"fn", j>> => worker[x] = <<"fn", j>>
          /\ worker[x] = <<"fn", j>> => worker'[x] = <<"fn", j>>
    BY <1>1, <1>5 DEF RegistryInv, RegistryTyped
  <2>5. QED
    BY <1>5, <1>10, <2>1, <2>2, <2>3, <2>4 DEF RegistryInv, StatesAgree
<1>16. NoTwins'
  BY <1>5 DEF RegistryInv, NoTwins, J!Active
<1>17. QED
  BY <1>6, <1>14, <1>15, <1>16 DEF RegistryInv

(* A worker that lets go of its job, or goes on with it, leaves every other *)
(* job where it is.                                                         *)
LEMMA WorkerKeepsPlaces ==
  ASSUME RegistryInv, NEW w \in Workers, NEW i \in DOMAIN jobs, Has(w, i),
         NEW to \in {<<"get", 0>>, <<"fn", i>>}, worker' = [worker EXCEPT ![w] = to],
         jobs' \in Seq(JobRecords), DOMAIN jobs' = DOMAIN jobs,
         queued' = queued, caller' = caller
  PROVE  /\ RegistryTyped' /\ InOnePlace'
         /\ \A l \in {"mat", "dl"}, n \in Nat, j \in DOMAIN jobs :
              Waiting(l, n, j)' => Waiting(l, n, j) /\ j # i
         /\ \A c \in Callers, j \in DOMAIN jobs :
              Putting(c, j)' => Putting(c, j) /\ j # i
         /\ \A x \in Workers, j \in DOMAIN jobs : Has(x, j)' => Has(x, j)
<1>1. RegistryTyped'
  BY DEF RegistryInv, RegistryTyped
<1>2. \A x \in Workers, j \in DOMAIN jobs : Has(x, j)' => Has(x, j)
  BY DEF RegistryInv, RegistryTyped, Has
<1>3. /\ \A l \in {"mat", "dl"}, n \in Nat, j \in DOMAIN jobs :
           Waiting(l, n, j)' <=> Waiting(l, n, j)
      /\ \A c \in Callers, j \in DOMAIN jobs : Putting(c, j)' <=> Putting(c, j)
  BY DEF Waiting, Putting
<1>4. InOnePlace
  BY DEF RegistryInv
<1>5. InOnePlace'
  <2>1. \A c, d \in Callers, j \in DOMAIN jobs : Putting(c, j)' /\ Putting(d, j)' => c = d
    BY <1>3, <1>4 DEF InOnePlace
  <2>2. \A l, k \in {"mat", "dl"}, n, m \in Nat, j \in DOMAIN jobs :
          Waiting(l, n, j)' /\ Waiting(k, m, j)' => l = k /\ n = m
    BY <1>3, <1>4 DEF InOnePlace
  <2>3. \A x, y \in Workers, j \in DOMAIN jobs : Has(x, j)' /\ Has(y, j)' => x = y
    BY <1>2, <1>4 DEF InOnePlace
  <2>4. QED
    BY <1>2, <1>3, <1>4, <2>1, <2>2, <2>3 DEF InOnePlace
<1>6. QED
  BY <1>1, <1>2, <1>3, <1>4, <1>5 DEF InOnePlace

LEMMA EnterKeeps ==
  ASSUME RegistryInv, NEW w \in Workers, J!Enter(w)
  PROVE  RegistryInv'
<1>1. PICK i \in DOMAIN jobs : worker[w] = <<"taken", i>>
  BY DEF RegistryInv, RegistryTyped, J!Enter
<1>2. queued' = queued /\ caller' = caller /\ Has(w, i) /\ Pending(i)
  BY <1>1 DEF J!Enter, Has, RegistryInv, StatesAgree
<1>3. CASE jobs[i].state = "CANCELLED"
  <2>1. worker' = [worker EXCEPT ![w] = <<"get", 0>>] /\ jobs' = jobs
    BY <1>1, <1>3 DEF J!Enter
  <2>2. jobs' \in Seq(JobRecords) /\ DOMAIN jobs' = DOMAIN jobs
    BY <2>1 DEF RegistryInv, RegistryTyped
  <2>3. /\ RegistryTyped' /\ InOnePlace'
        /\ \A l \in {"mat", "dl"}, n \in Nat, j \in DOMAIN jobs :
             Waiting(l, n, j)' => Waiting(l, n, j)
        /\ \A c \in Callers, j \in DOMAIN jobs : Putting(c, j)' => Putting(c, j)
    BY <1>2, <2>1, <2>2, WorkerKeepsPlaces
  <2>4. \A x \in Workers, j \in DOMAIN jobs :
          /\ worker'[x] = <<"taken", j>> => worker[x] = <<"taken", j>>
          /\ worker'[x] = <<"fn", j>> <=> worker[x] = <<"fn", j>>
    BY <1>1, <2>1 DEF RegistryInv, RegistryTyped
  <2>5. \A j \in DOMAIN jobs : Pending(j)' <=> Pending(j)
    BY <2>1 DEF Pending
  <2>6. StatesAgree'
    BY <2>1, <2>3, <2>4, <2>5 DEF RegistryInv, StatesAgree
  <2>7. NoTwins'
    BY <2>1 DEF RegistryInv, NoTwins, J!Active
  <2>8. QED
    BY <2>3, <2>6, <2>7 DEF RegistryInv
<1>4. CASE jobs[i].state # "CANCELLED"
  <2>1. worker' = [worker EXCEPT ![w][1] = "fn"] /\ J!Set(i, "RUNNING")
    BY <1>1, <1>4 DEF J!Enter
  <2>2. worker' = [worker EXCEPT ![w] = <<"fn", i>>]
    <3>1. [worker[w] EXCEPT ![1] = "fn"] = <<"fn", i>>
      BY <1>1
    <3>2. QED
      BY <2>1, <3>1
  <2>3. /\ jobs' \in Seq(JobRecords) /\ DOMAIN jobs' = DOMAIN jobs
        /\ jobs'[i].work = jobs[i].work /\ jobs'[i].state = "RUNNING"
        /\ \A j \in DOMAIN jobs : j # i => jobs'[j] = jobs[j]
    BY <2>1, SetFacts DEF RegistryInv, RegistryTyped, JobStates
  <2>4. /\ RegistryTyped' /\ InOnePlace'
        /\ \A l \in {"mat", "dl"}, n \in Nat, j \in DOMAIN jobs :
             Waiting(l, n, j)' => Waiting(l, n, j) /\ j # i
        /\ \A c \in Callers, j \in DOMAIN jobs :
             Putting(c, j)' => Putting(c, j) /\ j # i
    BY <1>2, <2>2, <2>3, WorkerKeepsPlaces
  <2>5. \A x \in Workers, j \in DOMAIN jobs :
          /\ worker'[x] = <<"taken", j>> => worker[x] = <<"taken", j>> /\ x # w
          /\ worker'[x] = <<"fn", j>> <=> worker[x] = <<"fn", j>> \/ (x = w /\ j = i)
    BY <1>1, <2>2 DEF RegistryInv, RegistryTyped
  <2>6. \A x \in Workers : worker[x] = <<"taken", i>> => x = w
    BY <1>1 DEF RegistryInv, InOnePlace, Has
  <2>7. \A j \in DOMAIN jobs : j # i => /\ Pending(j)' <=> Pending(j)
                                       /\ jobs'[j].state = jobs[j].state
    BY <2>3 DEF Pending
  <2>8. StatesAgree'
    <3>1. /\ \A c \in Callers, j \in DOMAIN jobs' : Putting(c, j)' => Pending(j)'
          /\ \A l \in {"mat", "dl"}, n \in Nat, j \in DOMAIN jobs' :
               Waiting(l, n, j)' => Pending(j)'
      BY <2>3, <2>4, <2>7 DEF RegistryInv, StatesAgree
    <3>2. \A x \in Workers, j \in DOMAIN jobs' : worker'[x] = <<"taken", j>> => Pending(j)'
      BY <2>3, <2>5, <2>6, <2>7 DEF RegistryInv, StatesAgree
    <3>3. \A x \in Workers, j \in DOMAIN jobs' :
            worker'[x] = <<"fn", j>> => jobs'[j].state = "RUNNING"
      BY <2>3, <2>5, <2>7 DEF RegistryInv, StatesAgree
    <3>4. \A j \in DOMAIN jobs' : jobs'[j].state = "RUNNING" =>
            \E x \in Workers : worker'[x] = <<"fn", j>>
      BY SMTT(30), <2>3, <2>5, <2>7 DEF RegistryInv, StatesAgree
    <3>5. QED
      BY <3>1, <3>2, <3>3, <3>4 DEF StatesAgree
  <2>9. NoTwins'
    <3>1. J!Active(i)
      BY <1>2, <1>4 DEF Pending, J!Active
    <3>2. QED
      BY <2>3, <3>1 DEF RegistryInv, NoTwins, J!Active
  <2>10. QED
    BY <2>4, <2>8, <2>9 DEF RegistryInv
<1>5. QED
  BY <1>3, <1>4

LEMMA LeaveKeeps ==
  ASSUME RegistryInv, NEW w \in Workers, J!Leave(w)
  PROVE  RegistryInv'
<1>1. PICK i \in DOMAIN jobs : worker[w] = <<"fn", i>>
  BY DEF RegistryInv, RegistryTyped, J!Leave
<1>2. /\ queued' = queued /\ caller' = caller /\ Has(w, i)
      /\ worker' = [worker EXCEPT ![w] = <<"get", 0>>]
  BY <1>1 DEF J!Leave, Has
<1>3. PICK s \in {"DONE", "FAILED", "CANCELLED"} : J!Set(i, s)
  BY <1>1 DEF J!Leave
<1>4. /\ jobs' \in Seq(JobRecords) /\ DOMAIN jobs' = DOMAIN jobs
      /\ jobs'[i].work = jobs[i].work /\ jobs'[i].state = s
      /\ \A j \in DOMAIN jobs : j # i => jobs'[j] = jobs[j]
  <2>1. s \in JobStates
    BY DEF JobStates
  <2>2. QED
    BY <1>3, <2>1, SetFacts DEF RegistryInv, RegistryTyped
<1>5. /\ RegistryTyped' /\ InOnePlace'
      /\ \A l \in {"mat", "dl"}, n \in Nat, j \in DOMAIN jobs :
           Waiting(l, n, j)' => Waiting(l, n, j) /\ j # i
      /\ \A c \in Callers, j \in DOMAIN jobs :
           Putting(c, j)' => Putting(c, j) /\ j # i
  BY <1>2, <1>4, WorkerKeepsPlaces
<1>6. \A x \in Workers, j \in DOMAIN jobs :
        /\ worker'[x] = <<"taken", j>> => worker[x] = <<"taken", j>>
        /\ worker'[x] = <<"fn", j>> <=> worker[x] = <<"fn", j>> /\ x # w
  BY <1>1, <1>2 DEF RegistryInv, RegistryTyped
<1>7. \A x \in Workers : Has(x, i) => x = w
  BY <1>2 DEF RegistryInv, InOnePlace
<1>8. \A j \in DOMAIN jobs : j # i => /\ Pending(j)' <=> Pending(j)
                                     /\ jobs'[j].state = jobs[j].state
  BY <1>4 DEF Pending
<1>9. StatesAgree'
  <2>1. \A x \in Workers : worker[x] = <<"taken", i>> => x = w
    BY <1>7 DEF Has
  <2>2. \A x \in Workers, j \in DOMAIN jobs : worker[x] = <<"fn", j>> /\ x # w => j # i
    BY <1>7 DEF Has
  <2>3. \A j \in DOMAIN jobs : j # i => worker[w] # <<"fn", j>>
    BY <1>1
  <2>4. /\ \A c \in Callers, j \in DOMAIN jobs' : Putting(c, j)' => Pending(j)'
        /\ \A l \in {"mat", "dl"}, n \in Nat, j \in DOMAIN jobs' :
             Waiting(l, n, j)' => Pending(j)'
    BY <1>4, <1>5, <1>8 DEF RegistryInv, StatesAgree
  <2>5. \A x \in Workers, j \in DOMAIN jobs' : worker'[x] = <<"taken", j>> => Pending(j)'
    <3>1. worker'[w] # <<"taken", i>>
      BY <1>2 DEF RegistryInv, RegistryTyped
    <3>2. QED
      BY <1>4, <1>6, <1>8, <2>1, <3>1 DEF RegistryInv, StatesAgree
  <2>6. \A x \in Workers, j \in DOMAIN jobs' :
          worker'[x] = <<"fn", j>> => jobs'[j].state = "RUNNING"
    BY <1>4, <1>6, <1>8, <2>2 DEF RegistryInv, StatesAgree
  <2>7. \A j \in DOMAIN jobs' : jobs'[j].state = "RUNNING" =>
          \E x \in Workers : worker'[x] = <<"fn", j>>
    <3> SUFFICES ASSUME NEW j \in DOMAIN jobs, jobs'[j].state = "RUNNING"
                 PROVE  \E x \in Workers : worker'[x] = <<"fn", j>>
      BY <1>4
    <3>1. j # i /\ jobs[j].state = "RUNNING"
      BY <1>4, <1>8
    <3>2. PICK x \in Workers : worker[x] = <<"fn", j>>
      BY <3>1 DEF RegistryInv, StatesAgree
    <3>3. worker'[x] = <<"fn", j>>
      BY <1>6, <2>3, <3>1, <3>2
    <3>4. QED
      BY <3>3
  <2>8. QED
    BY <2>4, <2>5, <2>6, <2>7 DEF StatesAgree
<1>10. NoTwins'
  BY <1>4 DEF RegistryInv, NoTwins, J!Active
<1>11. QED
  BY <1>5, <1>9, <1>10 DEF RegistryInv

LEMMA RegistryInvariant ==
  /\ J!Idle => RegistryInv
  /\ RegistryInv /\ [J!Next]_(J!vars) => RegistryInv'
<1>1. J!Idle => RegistryInv
  <2> SUFFICES ASSUME J!Idle PROVE RegistryInv
    OBVIOUS
  <2> USE DEF J!Idle
  <2>1. DOMAIN jobs = {} /\ jobs \in Seq(JobRecords)
    OBVIOUS
  <2>2. RegistryTyped
    BY <2>1 DEF RegistryTyped
  <2>3. QED
    BY <2>1, <2>2 DEF RegistryInv, InOnePlace, StatesAgree, NoTwins
<1>2. RegistryInv /\ [J!Next]_(J!vars) => RegistryInv'
  <2> SUFFICES ASSUME RegistryInv, [J!Next]_(J!vars) PROVE RegistryInv'
    OBVIOUS
  <2>1. ASSUME NEW c \in Callers, J!Ask(c) PROVE RegistryInv'
    BY <2>1, RegisterKeeps, SnapshotKeeps DEF J!Ask
  <2>2. ASSUME NEW c \in Callers, J!Go(c) PROVE RegistryInv'
    BY <2>2, PutKeeps, CancelKeeps DEF J!Go
  <2>3. ASSUME NEW w \in Workers, J!Work(w) PROVE RegistryInv'
    BY <2>3, TakeKeeps, EnterKeeps, LeaveKeeps DEF J!Work
  <2>4. CASE UNCHANGED J!vars
    <3>1. jobs' = jobs /\ queued' = queued /\ worker' = worker /\ caller' = caller
      BY <2>4 DEF J!vars
    <3>2. RegistryTyped' /\ StatesAgree'
      BY <3>1 DEF RegistryInv, RegistryTyped, StatesAgree, Pending, Waiting, Putting
    <3>3. InOnePlace' /\ NoTwins'
      BY <3>1 DEF RegistryInv, InOnePlace, Waiting, Putting, Has, NoTwins, J!Active
    <3>4. QED
      BY <3>2, <3>3 DEF RegistryInv
  <2>5. QED
    BY <2>1, <2>2, <2>3, <2>4 DEF J!Next
<1>3. QED
  BY <1>1, <1>2

(* "An identical active job is returned instead of duplicated", and a       *)
(* running job is in the hands of one worker.                               *)
THEOREM OneJobAtATime == Spec => []OneActive
<1>1. RegistryInv => OneActive
  <2> SUFFICES ASSUME RegistryInv PROVE OneActive
    OBVIOUS
  <2>1. ASSUME NEW i \in DOMAIN jobs, jobs[i].state = "RUNNING"
        PROVE  Cardinality({w \in Workers : worker[w] = <<"fn", i>>}) = 1
    <3>1. PICK w \in Workers : worker[w] = <<"fn", i>>
      BY <2>1 DEF RegistryInv, StatesAgree
    <3>2. \A x \in Workers : worker[x] = <<"fn", i>> => x = w
      BY <3>1 DEF RegistryInv, InOnePlace, Has
    <3>3. {x \in Workers : worker[x] = <<"fn", i>>} = {w}
      BY <3>1, <3>2
    <3>4. QED
      BY <3>3, FS_Singleton
  <2>2. NoTwins
    BY DEF RegistryInv
  <2>3. \A i \in DOMAIN jobs :
          jobs[i].state = "RUNNING" =>
            Cardinality({w \in Workers : worker[w] = <<"fn", i>>}) = 1
    BY <2>1
  <2>4. QED
    BY <2>2, <2>3 DEF NoTwins, OneActive, J!OneActive, J!Cardinality, Cardinality
<1>2. Init => J!Idle
  BY DEF Init
<1>3. QED
  BY <1>1, <1>2, RegistryInvariant, StepsOfComponents, PTL DEF Spec, Safety

(* A job that has ended is not taken up again.                              *)
THEOREM EndedForGood == Spec => EndedStays
<1>1. RegistryInv /\ [J!Next]_(J!vars)
        => [\A i \in DOMAIN jobs : ~J!Active(i) => jobs'[i] = jobs[i]]_(J!vars)
  <2> SUFFICES ASSUME RegistryInv, J!Next, NEW i \in DOMAIN jobs, ~J!Active(i)
               PROVE  jobs'[i] = jobs[i]
    OBVIOUS
  <2>1. ASSUME NEW c \in Callers, J!Ask(c) PROVE jobs'[i] = jobs[i]
    <3>1. ASSUME NEW work \in Works, J!Register(c, work) PROVE jobs'[i] = jobs[i]
      <4>1. [work |-> work, state |-> "QUEUED"] \in JobRecords
        BY DEF JobRecords, JobStates
      <4>2. QED
        BY <3>1, <4>1, AppendFacts DEF J!Register, RegistryInv, RegistryTyped
    <3>2. QED
      BY <2>1, <3>1 DEF J!Ask, J!Snapshot
  <2>2. ASSUME NEW c \in Callers, J!Go(c) PROVE jobs'[i] = jobs[i]
    BY <2>2 DEF J!Go, J!Put, J!Cancel, J!Set, J!Active, RegistryInv, RegistryTyped
  <2>3. ASSUME NEW w \in Workers, J!Enter(w) PROVE jobs'[i] = jobs[i]
    <3>1. PICK j \in DOMAIN jobs : worker[w] = <<"taken", j>>
      BY <2>3 DEF RegistryInv, RegistryTyped, J!Enter
    <3>2. jobs[j].state \in {"QUEUED", "CANCELLED"}
      BY <3>1 DEF RegistryInv, StatesAgree, Pending
    <3>3. CASE jobs[j].state = "CANCELLED"
      BY <2>3, <3>1, <3>3 DEF J!Enter
    <3>4. CASE jobs[j].state = "QUEUED"
      BY <2>3, <3>1, <3>4 DEF J!Enter, J!Set, J!Active, RegistryInv, RegistryTyped
    <3>5. QED
      BY <3>2, <3>3, <3>4
  <2>4. ASSUME NEW w \in Workers, J!Leave(w) PROVE jobs'[i] = jobs[i]
    <3>1. PICK j \in DOMAIN jobs : worker[w] = <<"fn", j>>
      BY <2>4 DEF RegistryInv, RegistryTyped, J!Leave
    <3>2. j # i
      BY <3>1 DEF RegistryInv, StatesAgree, J!Active
    <3>3. QED
      BY <2>4, <3>1, <3>2 DEF J!Leave, J!Set, RegistryInv, RegistryTyped
  <2>5. QED
    BY <2>1, <2>2, <2>3, <2>4 DEF J!Next, J!Work, J!Take
<1>2. Init => J!Idle
  BY DEF Init
<1>3. QED
  BY <1>1, <1>2, RegistryInvariant, StepsOfComponents, PTL
     DEF Spec, Safety, EndedStays, J!EndedStays

-----------------------------------------------------------------------------
(* The JSON files.  Whoever is past the flock is its holder, so nobody else *)
(* writes between its read and its rename: what it has read is what the     *)
(* file still holds, and the temporary file is the one it wrote.  The lock  *)
(* of the threads plays no part in it.                                      *)
WriterPhases == {"idle", "lock", "flock", "read", "open", "dump", "replace", "unlock",
                 "done", "dead"}
Locked(w) == writing[w] \in {"read", "open", "dump", "replace", "unlock"}
HasRead(w) == writing[w] \in {"open", "dump", "replace"}

FilesInv ==
  /\ writing \in [Writers -> WriterPhases]
  /\ seen \in [Writers -> SUBSET Writers]
  /\ tmp \in [F!Processes -> [whole : BOOLEAN, marks : SUBSET Writers]]
  /\ file \in [whole : BOOLEAN, marks : SUBSET Writers]
  /\ stored \subseteq Writers
  /\ \A w \in Writers :
       /\ Locked(w) => flock = w
       /\ HasRead(w) => file.marks \union {w} \subseteq seen[w]
       /\ writing[w] = "replace" => tmp[ProcessOf[w]] = F!Json(seen[w])
  /\ UpdatesSurvive

LEMMA FilesInvariant ==
  /\ F!Idle => FilesInv
  /\ FilesInv /\ [F!Next]_(F!vars) => FilesInv'
<1> USE DEF UpdatesSurvive, F!UpdatesSurvive, F!Json, F!Broken, WriterPhases, Locked, HasRead
<1>1. F!Idle => FilesInv
  BY DEF F!Idle, FilesInv
<1>2. FilesInv /\ [F!Next]_(F!vars) => FilesInv'
  <2> SUFFICES ASSUME FilesInv, [F!Next]_(F!vars) PROVE FilesInv'
    OBVIOUS
  <2>1. ASSUME NEW w \in Writers, F!Ask(w) PROVE FilesInv'
    BY <2>1 DEF F!Ask, F!Step, FilesInv
  <2>2. ASSUME NEW w \in Writers, F!LockThreads(w) PROVE FilesInv'
    BY <2>2 DEF F!LockThreads, F!Step, FilesInv
  <2>3. ASSUME NEW w \in Writers, F!LockProcesses(w) PROVE FilesInv'
    BY <2>3, WritersAssumption DEF F!LockProcesses, F!Step, FilesInv
  <2>4. ASSUME NEW w \in Writers, F!Read(w) PROVE FilesInv'
    BY <2>4 DEF F!Read, F!Step, FilesInv
  <2>5. ASSUME NEW w \in Writers, F!Open(w) PROVE FilesInv'
    BY <2>5 DEF F!Open, F!Step, FilesInv, F!Processes
  <2>6. ASSUME NEW w \in Writers, F!Dump(w) PROVE FilesInv'
    BY <2>6 DEF F!Dump, F!Step, FilesInv, F!Processes
  <2>7. ASSUME NEW w \in Writers, F!Replace(w) PROVE FilesInv'
    <3>1. /\ writing[w] = "replace" /\ writing' = [writing EXCEPT ![w] = "unlock"]
          /\ stored' = stored \union {w} /\ file' = F!Json(seen[w])
          /\ tmp' = tmp /\ flock' = flock /\ seen' = seen
      BY <2>7 DEF F!Replace, F!Step, FilesInv
    <3>2. /\ file.marks \union {w} \subseteq seen[w]
          /\ \A x \in Writers : Locked(x) => x = w
      BY <3>1 DEF FilesInv
    <3>3. UpdatesSurvive'
      BY <3>1, <3>2 DEF FilesInv
    <3>4. \A x \in Writers : ~HasRead(x)'
      BY <3>1, <3>2 DEF FilesInv
    <3>5. \A x \in Writers : Locked(x)' => flock' = x
      BY <3>1 DEF FilesInv
    <3>6. QED
      BY <3>1, <3>3, <3>4, <3>5 DEF FilesInv
  <2>8. ASSUME NEW w \in Writers, F!Raise(w) PROVE FilesInv'
    BY <2>8 DEF F!Raise, FilesInv
  <2>9. ASSUME NEW w \in Writers, F!Unlock(w) PROVE FilesInv'
    BY <2>9, WritersAssumption DEF F!Unlock, F!Step, FilesInv
  <2>10. ASSUME NEW p \in F!Processes, F!Crash(p) PROVE FilesInv'
    BY <2>10, WritersAssumption DEF F!Crash, FilesInv
  <2>11. CASE UNCHANGED F!vars
    BY <2>11 DEF F!vars, FilesInv
  <2>12. QED
    BY <2>1, <2>2, <2>3, <2>4, <2>5, <2>6, <2>7, <2>8, <2>9, <2>10, <2>11
       DEF F!Next, F!Update
<1>3. QED
  BY <1>1, <1>2

(* No update of a JSON file is lost, by any number of threads and processes *)
(* that fail or die at any step.                                            *)
THEOREM NoUpdateIsLost == Spec => []UpdatesSurvive
<1>1. FilesInv => UpdatesSurvive
  BY DEF FilesInv
<1>2. Init => F!Idle
  BY DEF Init
<1>3. QED
  BY <1>1, <1>2, FilesInvariant, StepsOfComponents, PTL DEF Spec, Safety

-----------------------------------------------------------------------------
(* The sources.  A lookup under way has settled the lanes it has passed:    *)
(* each was not reached, or what it had when the lookup began is taken from *)
(* it or from a lane before it.                                             *)
LookupPhases == {"idle", "release", "idx", "merge", "view"}
LookupStates ==
  [at : LookupPhases, i : Nat, plan : [S!Files -> S!Names \union {S!None}],
   has : SUBSET S!Files, failed : SUBSET S!Names, error : BOOLEAN]

Settles(l, k) ==
  \A f \in S!Files : S!Has(Lanes[k], f) =>
    \/ Lanes[k] \in l.failed
    \/ \E j \in 1..k : l.plan[f] = Lanes[j]

LookupInv ==
  /\ lookup \in LookupStates
  /\ published \in [S!Names -> SUBSET S!Files]
  /\ before \in [S!Names -> SUBSET S!Files]
  /\ \A l \in S!Names : before[l] \subseteq published[l]
  /\ lookup.error <=> lookup.failed # {}
  /\ lookup.at \in {"release", "idx", "merge"} => lookup.i \in 1..Len(Lanes)
  /\ lookup.at = "view" => lookup.i = Len(Lanes) + 1
  /\ \A k \in 1..Len(Lanes) : k < lookup.i => Settles(lookup, k)
  /\ \A f \in S!Files : lookup.plan[f] # S!None =>
       \E k \in 1..Len(Lanes) : k < lookup.i /\ lookup.plan[f] = Lanes[k]
  /\ lookup.at = "idx" => lookup.has = {"hprof"}
  /\ lookup.at = "merge" => before[Lanes[lookup.i]] \union {"hprof"} \subseteq lookup.has
  /\ view.queried =>
       /\ lookup.at = "idle" /\ lookup.i = Len(Lanes) + 1
       /\ view.from = lookup.plan
       /\ view.error <=> lookup.error /\ lookup.plan = S!NoPlan

LEMMA LaneFacts ==
  /\ Len(Lanes) \in Nat /\ Len(Lanes) > 0 /\ DOMAIN Lanes = 1..Len(Lanes)
  /\ S!Names = {Lanes[k] : k \in 1..Len(Lanes)}
  /\ S!None \notin S!Names
<1>1. Lanes \in Seq(S!Names) /\ Lanes # <<>>
  BY LanesAssumption DEF S!Ordered
<1>2. Len(Lanes) \in Nat /\ Len(Lanes) # 0 /\ DOMAIN Lanes = 1..Len(Lanes)
  BY <1>1, EmptySeq, LenProperties
<1>3. S!Names = {Lanes[k] : k \in 1..Len(Lanes)}
  BY <1>2 DEF S!Names, S!Range
<1>4. S!None \notin S!Names
  BY LanesAssumption DEF S!Ordered, S!None
<1>5. QED
  BY <1>2, <1>3, <1>4

(* What a lookup does when it goes on to the next lane.                     *)
LEMMA NextLaneFacts ==
  ASSUME NEW l \in LookupStates, l.i \in 1..Len(Lanes)
  PROVE  /\ S!NextLane(l) \in LookupStates
         /\ S!NextLane(l).i = l.i + 1
         /\ S!NextLane(l).at \in {"release", "view"}
         /\ S!NextLane(l).at = "view" => l.i + 1 = Len(Lanes) + 1
         /\ S!NextLane(l).at = "release" => l.i + 1 \in 1..Len(Lanes)
         /\ S!NextLane(l).plan = l.plan
         /\ S!NextLane(l).failed = l.failed
         /\ S!NextLane(l).error = l.error
<1>1. S!NextLane(l) = [at |-> IF l.i = Len(Lanes) THEN "view" ELSE "release",
                       i |-> l.i + 1, plan |-> l.plan, has |-> {},
                       failed |-> l.failed, error |-> l.error]
  <2>1. PICK a : a = IF l.i = Len(Lanes) THEN "view" ELSE "release"
    OBVIOUS
  <2>2. S!NextLane(l) = [l EXCEPT !.i = l.i + 1, !.at = a, !.has = {}]
    BY <2>1 DEF S!NextLane
  <2>3. S!NextLane(l) = [at |-> a, i |-> l.i + 1, plan |-> l.plan, has |-> {},
                         failed |-> l.failed, error |-> l.error]
    BY <2>2 DEF LookupStates
  <2>4. QED
    BY <2>1, <2>3
<1>2. /\ l.i \in Nat /\ l.i + 1 \in Nat
      /\ l.i # Len(Lanes) => l.i + 1 \in 1..Len(Lanes)
  BY LaneFacts DEF LookupStates
<1>3. (IF l.i = Len(Lanes) THEN "view" ELSE "release") \in LookupPhases
  BY DEF LookupPhases
<1>4. S!NextLane(l) \in LookupStates
  BY <1>1, <1>2, <1>3 DEF LookupStates
<1>5. QED
  BY <1>1, <1>2, <1>4

(* A lookup that leaves a settled lane for the next one.                    *)
LEMMA LaneIsLeft ==
  ASSUME LookupInv, lookup.at \in {"release", "idx", "merge"},
         NEW l \in LookupStates, l.i = lookup.i, lookup' = S!NextLane(l),
         l.error <=> l.failed # {}, lookup.failed \subseteq l.failed,
         \A f \in S!Files : \/ l.plan[f] = lookup.plan[f]
                            \/ /\ lookup.plan[f] = S!None
                               /\ l.plan[f] = Lanes[lookup.i],
         Settles(l, lookup.i),
         published' = published, before' = before, view' = view
  PROVE  LookupInv'
<1>1. lookup.i \in 1..Len(Lanes)
  BY DEF LookupInv
<1>2. /\ lookup' \in LookupStates /\ lookup'.i = lookup.i + 1
      /\ lookup'.at \in {"release", "view"}
      /\ lookup'.at = "view" => lookup'.i = Len(Lanes) + 1
      /\ lookup'.at = "release" => lookup'.i \in 1..Len(Lanes)
      /\ lookup'.plan = l.plan /\ lookup'.failed = l.failed
  BY <1>1, NextLaneFacts
<1>3. lookup'.error <=> lookup'.failed # {}
  BY <1>1, NextLaneFacts
<1>4. ~view.queried
  BY DEF LookupInv
<1>5. \A k \in 1..Len(Lanes) : k < lookup'.i => Settles(lookup, k)'
  <2> SUFFICES ASSUME NEW k \in 1..Len(Lanes), k < lookup.i + 1 PROVE Settles(lookup, k)'
    BY <1>2
  <2>1. CASE k = lookup.i
    BY <1>2, <2>1 DEF Settles, S!Has
  <2>2. CASE k < lookup.i
    <3>1. Settles(lookup, k)
      BY <2>2 DEF LookupInv
    <3>2. SUFFICES ASSUME NEW f \in S!Files, S!Has(Lanes[k], f)
                   PROVE  \/ Lanes[k] \in l.failed
                          \/ \E j \in 1..k : l.plan[f] = Lanes[j]
      BY <1>2 DEF Settles, S!Has
    <3>3. CASE Lanes[k] \in lookup.failed
      BY <3>3
    <3>4. ASSUME NEW j \in 1..k, lookup.plan[f] = Lanes[j]
          PROVE  l.plan[f] = Lanes[j]
      <4>1. Lanes[j] # S!None
        BY LaneFacts
      <4>2. QED
        BY <3>4, <4>1
    <3>5. QED
      BY <3>1, <3>2, <3>3, <3>4 DEF Settles
  <2>3. QED
    BY <1>1, <2>1, <2>2
<1>6. \A f \in S!Files : lookup'.plan[f] # S!None =>
        \E k \in 1..Len(Lanes) : k < lookup'.i /\ lookup'.plan[f] = Lanes[k]
  <2> SUFFICES ASSUME NEW f \in S!Files, l.plan[f] # S!None
               PROVE  \E k \in 1..Len(Lanes) : k < lookup.i + 1 /\ l.plan[f] = Lanes[k]
    BY <1>2
  <2>1. CASE l.plan[f] = Lanes[lookup.i]
    BY <1>1, <2>1
  <2>2. CASE l.plan[f] = lookup.plan[f]
    BY <2>2 DEF LookupInv
  <2>3. QED
    BY <2>1, <2>2
<1>7. QED
  BY <1>2, <1>3, <1>4, <1>5, <1>6 DEF LookupInv

LEMMA LookKeeps ==
  ASSUME LookupInv, S!Look
  PROVE  LookupInv'
<1> USE DEF S!world
<1>1. CASE S!Ask
  <2>1. lookup' = [at |-> "release", i |-> 1, plan |-> S!NoPlan, has |-> {},
                   failed |-> {}, error |-> FALSE]
    BY <1>1 DEF S!Ask, S!AtRest
  <2>2. published' = published /\ before' = published /\ ~view'.queried
    BY <1>1 DEF S!Ask, S!Unasked
  <2>3. lookup' \in LookupStates
    BY <2>1 DEF LookupStates, LookupPhases, S!NoPlan
  <2>4. 1 \in 1..Len(Lanes)
    BY LaneFacts
  <2>5. \A f \in S!Files : lookup'.plan[f] = S!None
    BY <2>1 DEF S!NoPlan
  <2>6. QED
    BY <2>1, <2>2, <2>3, <2>4, <2>5 DEF LookupInv
<1>2. CASE S!Release
  <2>1. /\ lookup.at = "release" /\ published' = published /\ before' = before
        /\ view' = view /\ lookup.i \in 1..Len(Lanes)
    BY <1>2 DEF S!Release, LookupInv
  <2>2. CASE "hprof" \in published[S!Lane]
    <3>1. lookup' = [lookup EXCEPT !.at = "idx", !.has = {"hprof"}]
      BY <1>2, <2>2 DEF S!Release
    <3>2. /\ lookup' \in LookupStates /\ lookup'.at = "idx" /\ lookup'.has = {"hprof"}
          /\ lookup'.i = lookup.i /\ lookup'.plan = lookup.plan
          /\ lookup'.failed = lookup.failed /\ lookup'.error = lookup.error
      BY <3>1 DEF LookupInv, LookupStates, LookupPhases, S!Files
    <3>3. \A k \in 1..Len(Lanes) : Settles(lookup, k)' <=> Settles(lookup, k)
      BY <2>1, <3>2 DEF Settles, S!Has
    <3>4. QED
      BY <2>1, <3>2, <3>3 DEF LookupInv
  <2>3. CASE "hprof" \notin published[S!Lane]
    <3>1. lookup' = S!NextLane(lookup)
      BY <1>2, <2>3 DEF S!Release
    <3>2. Settles(lookup, lookup.i)
      BY <2>1, <2>3, LaneFacts DEF Settles, S!Has, S!Lane, LookupInv
    <3>3. QED
      BY <2>1, <3>1, <3>2, LaneIsLeft DEF LookupInv
  <2>4. QED
    BY <2>2, <2>3
<1>3. CASE S!IdxRelease
  <2>1. /\ lookup.at = "idx" /\ published' = published /\ before' = before
        /\ view' = view /\ lookup.i \in 1..Len(Lanes) /\ lookup.has = {"hprof"}
    BY <1>3 DEF S!IdxRelease, LookupInv
  <2> DEFINE has == {"hprof"} \union (published[Lanes[lookup.i]] \intersect {"data", "indexes"})
  <2>2. lookup' = [lookup EXCEPT !.at = "merge", !.has = has]
    BY <1>3, <2>1 DEF S!IdxRelease, S!Lane
  <2>3. has \in SUBSET S!Files /\ before[Lanes[lookup.i]] \union {"hprof"} \subseteq has
    BY <2>1, LaneFacts DEF LookupInv, S!Files
  <2> HIDE DEF has
  <2>4. /\ lookup' \in LookupStates /\ lookup'.at = "merge" /\ lookup'.has = has
        /\ lookup'.i = lookup.i /\ lookup'.plan = lookup.plan
        /\ lookup'.failed = lookup.failed /\ lookup'.error = lookup.error
    BY <2>2, <2>3 DEF LookupInv, LookupStates, LookupPhases
  <2>5. \A k \in 1..Len(Lanes) : Settles(lookup, k)' <=> Settles(lookup, k)
    BY <2>1, <2>4 DEF Settles, S!Has
  <2>6. QED
    BY <2>1, <2>3, <2>4, <2>5 DEF LookupInv
<1>4. CASE S!Unreached
  <2> DEFINE l == [lookup EXCEPT !.failed = @ \union {S!Lane}, !.error = TRUE]
  <2>1. /\ lookup.at \in {"release", "idx"} /\ published' = published /\ before' = before
        /\ view' = view /\ lookup' = S!NextLane(l) /\ lookup.i \in 1..Len(Lanes)
    BY <1>4 DEF S!Unreached, LookupInv
  <2>2. Lanes[lookup.i] \in S!Names
    BY <2>1, LaneFacts
  <2>3. /\ l \in LookupStates /\ l.i = lookup.i /\ l.plan = lookup.plan
        /\ l.failed = lookup.failed \union {Lanes[lookup.i]} /\ l.error = TRUE
    BY <2>2 DEF LookupInv, LookupStates, S!Lane
  <2> HIDE DEF l
  <2>4. Settles(l, lookup.i)
    BY <2>3 DEF Settles
  <2>5. QED
    BY <2>1, <2>3, <2>4, LaneIsLeft
<1>5. CASE S!Merge
  <2> DEFINE plan == S!Merged(lookup.plan, lookup.has)
             l == [lookup EXCEPT !.plan = plan]
  <2>1. /\ lookup.at = "merge" /\ published' = published /\ before' = before
        /\ view' = view /\ lookup' = S!NextLane(l) /\ lookup.i \in 1..Len(Lanes)
    BY <1>5 DEF S!Merge, LookupInv
  <2>2. Lanes[lookup.i] \in S!Names /\ S!Lane = Lanes[lookup.i]
    BY <2>1, LaneFacts DEF S!Lane
  <2>3. /\ plan \in [S!Files -> S!Names \union {S!None}]
        /\ \A f \in S!Files : plan[f] = IF lookup.plan[f] = S!None /\ f \in lookup.has
                                         THEN Lanes[lookup.i] ELSE lookup.plan[f]
    BY <2>2 DEF S!Merged, LookupInv, LookupStates
  <2> HIDE DEF plan
  <2>4. /\ l \in LookupStates /\ l.i = lookup.i /\ l.plan = plan
        /\ l.failed = lookup.failed /\ l.error = lookup.error
    BY <2>3 DEF LookupInv, LookupStates
  <2> HIDE DEF l
  <2>5. Settles(l, lookup.i)
    <3> SUFFICES ASSUME NEW f \in S!Files, S!Has(Lanes[lookup.i], f)
                 PROVE  \E j \in 1..lookup.i : l.plan[f] = Lanes[j]
      BY DEF Settles
    <3>1. f \in lookup.has
      BY <2>1 DEF LookupInv, S!Has
    <3>2. CASE lookup.plan[f] = S!None
      BY <2>1, <2>3, <2>4, <3>1, <3>2
    <3>3. CASE lookup.plan[f] # S!None
      BY <2>1, <2>3, <2>4, <3>3 DEF LookupInv
    <3>4. QED
      BY <3>2, <3>3
  <2>6. QED
    BY <2>1, <2>3, <2>4, <2>5, LaneIsLeft DEF LookupInv
<1>6. CASE S!Answer
  <2>1. /\ lookup.at = "view" /\ lookup.i = Len(Lanes) + 1
        /\ lookup' = [lookup EXCEPT !.at = "idle"]
        /\ published' = published /\ before' = before
    BY <1>6 DEF S!Answer, LookupInv
  <2>2. /\ lookup' \in LookupStates /\ lookup'.at = "idle"
        /\ lookup'.i = lookup.i /\ lookup'.plan = lookup.plan
        /\ lookup'.failed = lookup.failed /\ lookup'.error = lookup.error
    BY <2>1 DEF LookupInv, LookupStates, LookupPhases
  <2>3. /\ view'.from = lookup'.plan
        /\ view'.error <=> lookup'.error /\ lookup'.plan = S!NoPlan
    BY <1>6, <2>2 DEF S!Answer
  <2>4. \A k \in 1..Len(Lanes) : Settles(lookup, k)' <=> Settles(lookup, k)
    BY <2>1, <2>2 DEF Settles, S!Has
  <2>5. QED
    BY <2>1, <2>2, <2>3, <2>4 DEF LookupInv
<1>7. QED
  BY <1>1, <1>2, <1>3, <1>4, <1>5, <1>6 DEF S!Look

(* The attempts at a part look nothing up and list nothing.                 *)
LEMMA AttemptsElsewhere ==
  ASSUME S!Attempt \/ S!Bucket
  PROVE  UNCHANGED S!world /\ UNCHANGED S!looking /\ UNCHANGED S!listing
<1>1. CASE S!StartPart
  BY <1>1 DEF S!StartPart
<1>2. CASE S!Resolve
  BY <1>2 DEF S!Resolve
<1>3. CASE S!Arrive
  BY <1>3 DEF S!Arrive
<1>4. CASE S!Break
  BY <1>4 DEF S!Break
<1>5. CASE S!Abandon
  BY <1>5 DEF S!Abandon
<1>6. CASE S!Elapse
  BY <1>6 DEF S!Elapse
<1>7. ASSUME NEW l \in Probed, S!Replace(l)
      PROVE  UNCHANGED S!world /\ UNCHANGED S!looking /\ UNCHANGED S!listing
  BY <1>7 DEF S!Replace
<1>8. QED
  BY <1>1, <1>2, <1>3, <1>4, <1>5, <1>6, <1>7 DEF S!Attempt, S!Bucket

LEMMA LookupInvariant ==
  /\ S!Idle => LookupInv
  /\ LookupInv /\ [S!Next]_(S!vars) => LookupInv'
<1>1. S!Idle => LookupInv
  <2> SUFFICES ASSUME S!Idle PROVE LookupInv
    OBVIOUS
  <2>1. lookup = [at |-> "idle", i |-> 0, plan |-> S!NoPlan, has |-> {},
                  failed |-> {}, error |-> FALSE]
    BY DEF S!Idle, S!AtRest
  <2>2. lookup \in LookupStates
    BY <2>1 DEF LookupStates, LookupPhases, S!NoPlan
  <2>3. \A f \in S!Files : lookup.plan[f] = S!None
    BY <2>1 DEF S!NoPlan
  <2>4. ~view.queried
    BY DEF S!Idle, S!Unasked
  <2>5. QED
    BY <2>1, <2>2, <2>3, <2>4 DEF LookupInv, S!Idle
<1>2. LookupInv /\ [S!Next]_(S!vars) => LookupInv'
  <2> SUFFICES ASSUME LookupInv, [S!Next]_(S!vars) PROVE LookupInv'
    OBVIOUS
  <2>1. ASSUME NEW l \in S!Names, NEW f \in S!Files, S!Publish(l, f) PROVE LookupInv'
    <3>1. /\ published' = [published EXCEPT ![l] = @ \union {f}]
          /\ lookup' = lookup /\ before' = before /\ view' = view
      BY <2>1 DEF S!Publish, S!looking
    <3>2. \A k \in 1..Len(Lanes) : Settles(lookup, k)' <=> Settles(lookup, k)
      BY <3>1 DEF Settles, S!Has
    <3>3. QED
      BY <3>1, <3>2 DEF LookupInv
  <2>2. ASSUME UNCHANGED <<published, lookup, before, view>> PROVE LookupInv'
    <3>1. \A k \in 1..Len(Lanes) : Settles(lookup, k)' <=> Settles(lookup, k)
      BY <2>2 DEF Settles, S!Has
    <3>2. QED
      BY <2>2, <3>1 DEF LookupInv
  <2>3. CASE S!Listing
    BY <2>2, <2>3 DEF S!Listing, S!List, S!looking
  <2>4. CASE S!Attempt \/ S!Bucket
    <3>1. UNCHANGED <<published, lookup, before, view>>
      BY <2>4, AttemptsElsewhere DEF S!looking, S!world
    <3>2. QED
      BY <2>2, <3>1
  <2>5. CASE S!World
    BY <2>1, <2>2, <2>5 DEF S!World, S!Outage, S!Flip, S!looking
  <2>6. CASE S!Aging
    BY <2>2, <2>6 DEF S!Aging, S!Expire, S!looking
  <2>7. CASE UNCHANGED S!vars
    BY <2>2, <2>7 DEF S!vars
  <2>8. QED
    BY LookKeeps, <2>3, <2>4, <2>5, <2>6, <2>7 DEF S!Next
<1>3. QED
  BY <1>1, <1>2

(* A view is the best its sources could give: nothing is absent that a      *)
(* source had, and nothing is taken from a later source that an earlier one *)
(* could give, for any number of sources.                                   *)
THEOREM BestView == Spec => []ViewIsTheBest
<1>1. LookupInv => ViewIsTheBest
  <2> SUFFICES ASSUME LookupInv, view.queried PROVE ViewIsTheBest
    BY DEF ViewIsTheBest, S!ViewIsTheBest
  <2>1. view.from = lookup.plan /\ (view.error <=> lookup.error /\ lookup.plan = S!NoPlan)
    BY DEF LookupInv
  <2>2. \A k \in 1..Len(Lanes) : Settles(lookup, k)
    BY LaneFacts DEF LookupInv
  <2>3. ASSUME NEW f \in S!Files, NEW l \in S!Names, S!Has(l, f)
        PROVE  \/ l \in lookup.failed
               \/ view.from[f] = l
               \/ S!Ahead(view.from[f], l)
    <3>1. PICK k \in 1..Len(Lanes) : l = Lanes[k]
      BY LaneFacts
    <3>2. CASE l \in lookup.failed
      BY <3>2
    <3>3. ASSUME NEW j \in 1..k, lookup.plan[f] = Lanes[j]
          PROVE  view.from[f] = l \/ S!Ahead(view.from[f], l)
      <4>1. CASE j = k
        BY <2>1, <3>1, <3>3, <4>1
      <4>2. CASE j < k
        BY <2>1, <3>1, <3>3, <4>2, LaneFacts DEF S!Ahead
      <4>3. QED
        BY <4>1, <4>2
    <3>4. QED
      BY <2>2, <2>3, <3>1, <3>2, <3>3 DEF Settles
  <2>4. ASSUME ~view.error, view.from = S!NoPlan
        PROVE  lookup.failed = {} /\ \A l \in S!Names : "hprof" \notin before[l]
    <3>1. lookup.failed = {}
      BY <2>1, <2>4 DEF LookupInv
    <3>2. ASSUME NEW l \in S!Names, "hprof" \in before[l] PROVE FALSE
      <4>1. S!Has(l, "hprof") /\ "hprof" \in S!Files
        BY <3>2 DEF S!Has, S!Files
      <4>2. view.from["hprof"] = S!None
        BY <2>4, <4>1 DEF S!NoPlan
      <4>3. S!None \in S!Names
        BY <2>3, <3>1, <4>1, <4>2, LaneFacts DEF S!Ahead
      <4>4. QED
        BY <4>3, LaneFacts
    <3>3. QED
      BY <3>1, <3>2
  <2>5. QED
    BY <2>3, <2>4 DEF ViewIsTheBest, S!ViewIsTheBest
<1>2. Init => S!Idle
  BY DEF Init
<1>3. QED
  BY <1>1, <1>2, LookupInvariant, StepsOfComponents, PTL DEF Spec, Safety

-----------------------------------------------------------------------------
(* What list() has answered it has cached, and a dump that is cached is     *)
(* published.                                                               *)
ListingInv ==
  /\ rows \in [S!Names -> {S!None, "empty", "dump"}]
  /\ listed \in [S!Names -> {S!None, "empty", "dump", "error"}]
  /\ published \in [S!Names -> SUBSET S!Files]
  /\ \A l \in S!Names :
       /\ listed[l] \in {"empty", "dump"} => rows[l] # S!None
       /\ listed[l] = "dump" => rows[l] = "dump"
       /\ rows[l] = "dump" => "hprof" \in published[l]

(* A hit is as old as the attempt it is used in is late, unless a retry has *)
(* asked anew: the last attempt is later than a hit is believed, and goes   *)
(* to the owner.                                                            *)
FetchStates == [at : {"idle", "resolve", "get", "failed"}, try : 1..Len(Due),
                tried : SUBSET S!Names, again : BOOLEAN]
AsOldAs(l, i) == age[l] >= ProbeTtl \/ age[l] >= Due[i]

RoutingInv ==
  /\ probe \in [S!Names -> {S!None, "miss", "hit"}]
  /\ age \in [S!Names -> Nat]
  /\ fetch \in FetchStates
  /\ fetch.at \in {"resolve", "get"} /\ ~fetch.again =>
       \A l \in Probed : probe[l] = "hit" => AsOldAs(l, fetch.try)
  /\ fetch.at = "get" /\ fetch.try = Len(Due) =>
       fetch.again \/ served = S!Owner
  /\ fetch.at = "get" => served \in S!Names
  /\ OwnerIsAsked

LEMMA ListingInvariant ==
  /\ S!Idle => ListingInv
  /\ ListingInv /\ [S!Next]_(S!vars) => ListingInv'
<1>1. S!Idle => ListingInv
  BY DEF S!Idle, ListingInv, S!None
<1>2. ListingInv /\ [S!Next]_(S!vars) => ListingInv'
  <2> SUFFICES ASSUME ListingInv, [S!Next]_(S!vars) PROVE ListingInv'
    OBVIOUS
  <2>1. ASSUME NEW l \in S!Names, S!List(l) PROVE ListingInv'
    BY <2>1 DEF S!List, S!Runs, S!Rows, ListingInv, S!None
  <2>2. ASSUME NEW l \in S!Names, NEW f \in S!Files, S!Publish(l, f) PROVE ListingInv'
    BY <2>2 DEF S!Publish, S!listing, ListingInv
  <2>3. ASSUME UNCHANGED <<published, rows, listed>> PROVE ListingInv'
    BY <2>3 DEF ListingInv
  <2>4. CASE S!Look
    BY <2>3, <2>4 DEF S!Look, S!Ask, S!Release, S!IdxRelease, S!Unreached, S!Merge,
       S!Answer, S!world, S!listing
  <2>5. CASE S!Attempt \/ S!Bucket
    <3>1. UNCHANGED <<published, rows, listed>>
      BY <2>5, AttemptsElsewhere DEF S!listing, S!world
    <3>2. QED
      BY <2>3, <3>1
  <2>6. QED
    BY <2>1, <2>2, <2>3, <2>4, <2>5
       DEF S!Next, S!Listing, S!World, S!Outage, S!Flip, S!Aging, S!Expire, S!listing, S!vars
<1>3. QED
  BY <1>1, <1>2

LEMMA DueFacts ==
  /\ ProbeTtl \in Nat /\ Len(Due) \in Nat /\ Len(Due) > 1
  /\ \A i \in 1..Len(Due) : Due[i] \in Nat
  /\ \A i \in 1..Len(Due) : i < Len(Due) => i + 1 \in 1..Len(Due) /\ Due[i] <= Due[i + 1]
  /\ Due[1] = 0 /\ Due[Len(Due)] >= ProbeTtl
<1>1. /\ ProbeTtl \in Nat \ {0} /\ Due \in Seq(Nat) /\ Due # <<>> /\ Due[1] = 0
      /\ \A i \in 2..Len(Due) : Due[i - 1] <= Due[i]
      /\ Due[Len(Due)] >= ProbeTtl
  BY TriesAssumption DEF S!Patient
<1>2. Len(Due) \in Nat /\ Len(Due) > 0 /\ \A i \in 1..Len(Due) : Due[i] \in Nat
  BY <1>1, LenProperties, EmptySeq, ElementOfSeq
<1>3. Len(Due) # 1
  BY <1>1, <1>2
<1>4. ASSUME NEW i \in 1..Len(Due), i < Len(Due)
      PROVE  i + 1 \in 1..Len(Due) /\ Due[i] <= Due[i + 1]
  <2>1. i + 1 \in 2..Len(Due) /\ i + 1 \in 1..Len(Due) /\ (i + 1) - 1 = i
    BY <1>2, <1>4
  <2>2. QED
    BY <1>1, <2>1
<1>5. QED
  BY <1>1, <1>2, <1>3, <1>4

(* One lane is the first of those that have the part.                       *)
LEMMA FirstHit ==
  ASSUME NEW l \in Probed, NEW k \in Probed, l \in S!Hits, k \in S!Hits,
         S!Reached(l), S!Reached(k)
  PROVE  l = k
<1>1. l \in S!Names /\ k \in S!Names
  BY LanesAssumption DEF S!Ordered
<1>2. PICK i \in 1..Len(Lanes), j \in 1..Len(Lanes) : Lanes[i] = l /\ Lanes[j] = k
  BY <1>1, LaneFacts
<1>3. DOMAIN Lanes = 1..Len(Lanes) /\ Len(Lanes) \in Nat
  BY LanesAssumption, LenProperties DEF S!Ordered
<1>4. ~S!Ahead(k, l) /\ ~S!Ahead(l, k)
  BY DEF S!Reached
<1>5. ~(i < j) /\ ~(j < i)
  BY <1>2, <1>3, <1>4 DEF S!Ahead
<1>6. QED
  BY <1>2, <1>3, <1>5

LEMMA ResolveKeeps ==
  ASSUME RoutingInv, S!Resolve
  PROVE  RoutingInv'
<1>1. PICK l \in S!Names :
        /\ IF S!Hits = {} THEN l = S!Owner ELSE l \in S!Hits /\ S!Reached(l)
        /\ served' = l
        /\ fetch' = [fetch EXCEPT !.at = "get",
                       !.again = IF S!AskedAnew(l) THEN TRUE ELSE @]
  BY Zenon DEF S!Resolve
<1>2. /\ fetch.at = "resolve"
      /\ probe' = [k \in S!Names |-> IF S!Reached(k) THEN S!Answered(k) ELSE probe[k]]
      /\ age' = [k \in S!Names |-> IF S!Reached(k) /\ ~S!Fresh(k) THEN 0 ELSE age[k]]
  BY DEF S!Resolve
<1>3. Probed \subseteq S!Names
  BY LanesAssumption DEF S!Ordered
<1>0. PICK again : again = IF S!AskedAnew(l) THEN TRUE ELSE fetch.again
  OBVIOUS
<1>4. fetch' = [at |-> "get", try |-> fetch.try, tried |-> fetch.tried, again |-> again]
  <2>1. PICK f : f = [fetch EXCEPT !.at = "get"]
    OBVIOUS
  <2>2. f = [at |-> "get", try |-> fetch.try, tried |-> fetch.tried, again |-> fetch.again]
    BY <2>1 DEF RoutingInv, FetchStates
  <2>3. [f EXCEPT !.again = again] =
          [at |-> "get", try |-> fetch.try, tried |-> fetch.tried, again |-> again]
    BY <2>2
  <2>4. fetch' = [f EXCEPT !.again = again]
    BY <1>0, <1>1, <2>1
  <2>5. QED
    BY <2>3, <2>4
<1>5. fetch' \in FetchStates
  <2>1. again \in BOOLEAN
    BY <1>0 DEF RoutingInv, FetchStates
  <2>2. QED
    BY <1>4, <2>1 DEF RoutingInv, FetchStates
<1>6. probe' \in [S!Names -> {S!None, "miss", "hit"}]
  BY <1>2 DEF RoutingInv, S!Answered
<1>7. age' \in [S!Names -> Nat]
  BY <1>2 DEF RoutingInv
<1>8. ASSUME NEW k \in Probed, probe'[k] = "hit", ~again
      PROVE  AsOldAs(k, fetch.try)'
  <2>1. CASE S!Reached(k) /\ ~S!Fresh(k)
    <3>1. S!Answered(k) = "hit" /\ age'[k] = 0
      BY <1>2, <1>3, <1>8, <2>1
    <3>2. k \in S!Hits
      BY <3>1 DEF S!Hits
    <3>3. l \in S!Hits /\ S!Reached(l) /\ l \in Probed
      BY <1>1, <3>2 DEF S!Reached
    <3>4. l = k
      BY <2>1, <3>2, <3>3, FirstHit
    <3>5. ~(fetch.try > 1) /\ fetch.try \in 1..Len(Due)
      BY <1>0, <1>8, <2>1, <3>4 DEF S!AskedAnew, RoutingInv, FetchStates
    <3>6. fetch.try = 1
      BY <3>5, DueFacts
    <3>7. QED
      BY <1>4, <3>1, <3>6, DueFacts DEF AsOldAs
  <2>2. CASE ~(S!Reached(k) /\ ~S!Fresh(k))
    <3>1. age'[k] = age[k] /\ probe[k] = "hit"
      BY <1>2, <1>3, <1>8, <2>2 DEF S!Answered
    <3>2. ~fetch.again
      BY <1>0, <1>8
    <3>3. AsOldAs(k, fetch.try)
      BY <1>2, <3>1, <3>2 DEF RoutingInv
    <3>4. QED
      BY <1>4, <3>1, <3>3 DEF AsOldAs
  <2>3. QED
    BY <2>1, <2>2
<1>9. ASSUME fetch.try = Len(Due), ~again PROVE l = S!Owner
  <2>1. CASE S!Hits = {}
    BY <1>1, <2>1
  <2>2. CASE S!Hits # {}
    <3>1. l \in Probed /\ S!Answered(l) = "hit"
      BY <1>1, <2>2 DEF S!Hits
    <3>2. S!Fresh(l) /\ ~fetch.again
      BY <1>0, <1>9, <3>1, DueFacts DEF S!AskedAnew
    <3>3. probe[l] = "hit" /\ age[l] < ProbeTtl
      BY <3>1, <3>2 DEF S!Answered, S!Fresh
    <3>4. age[l] >= ProbeTtl \/ age[l] >= Due[Len(Due)]
      BY <1>2, <1>9, <3>1, <3>2, <3>3 DEF RoutingInv, AsOldAs
    <3>5. age[l] \in Nat /\ Due[Len(Due)] \in Nat
      BY DueFacts DEF RoutingInv
    <3>6. QED
      BY <3>3, <3>4, <3>5, DueFacts
  <2>3. QED
    BY <2>1, <2>2
<1>10. /\ served' = l
       /\ fetch'.at = "get" /\ fetch'.try = fetch.try /\ fetch'.again = again
  <2>1. served' = l
    BY <1>1
  <2>2. QED
    BY <1>4, <2>1
<1>11. OwnerIsAsked'
  BY <1>10 DEF OwnerIsAsked, S!OwnerIsAsked
<1>12. QED
  BY <1>5, <1>6, <1>7, <1>8, <1>9, <1>10, <1>11 DEF RoutingInv

(* Time passes for the probes: what is as old as an attempt stays so, and   *)
(* after the wait it is as old as the next.                                 *)
LEMMA OlderFacts ==
  ASSUME RoutingInv, NEW n \in Nat, S!Older(n)
  PROVE  /\ age' \in [S!Names -> Nat]
         /\ \A l \in Probed, i \in 1..Len(Due) : AsOldAs(l, i) => AsOldAs(l, i)'
         /\ \A l \in Probed, i \in 1..Len(Due) :
              i < Len(Due) /\ n = Due[i + 1] - Due[i] /\ AsOldAs(l, i)
                => AsOldAs(l, i + 1)'
<1>1. /\ age' = [l \in S!Names |-> IF age[l] + n < ProbeTtl THEN age[l] + n ELSE ProbeTtl]
      /\ age \in [S!Names -> Nat]
  BY DEF S!Older, RoutingInv
<1>2. Probed \subseteq S!Names
  BY LanesAssumption DEF S!Ordered
<1>3. age' \in [S!Names -> Nat]
  BY <1>1, DueFacts
<1>4. \A l \in Probed : age'[l] = ProbeTtl \/ age'[l] = age[l] + n
  BY <1>1, <1>2
<1>5. \A l \in Probed : age[l] \in Nat /\ age'[l] \in Nat
  BY <1>1, <1>2, <1>3
<1>6. ASSUME NEW l \in Probed, NEW i \in 1..Len(Due), AsOldAs(l, i)
      PROVE  /\ AsOldAs(l, i)'
             /\ i < Len(Due) /\ n = Due[i + 1] - Due[i] => AsOldAs(l, i + 1)'
  <2>1. /\ age[l] \in Nat /\ age'[l] \in Nat /\ Due[i] \in Nat /\ ProbeTtl \in Nat
        /\ age'[l] = ProbeTtl \/ age'[l] = age[l] + n
        /\ age[l] >= ProbeTtl \/ age[l] >= Due[i]
    BY <1>4, <1>5, <1>6, DueFacts DEF AsOldAs
  <2>2. AsOldAs(l, i)'
    BY <2>1 DEF AsOldAs
  <2>3. ASSUME i < Len(Due), n = Due[i + 1] - Due[i] PROVE AsOldAs(l, i + 1)'
    <3>1. PICK due : due = Due[i + 1]
      OBVIOUS
    <3>2. due \in Nat /\ n = due - Due[i]
      BY <2>3, <3>1, DueFacts
    <3>3. age'[l] >= ProbeTtl \/ age'[l] >= due
      BY <2>1, <3>2
    <3>4. age'[l] >= ProbeTtl \/ age'[l] >= Due[i + 1]
      BY <3>1, <3>3
    <3>5. QED
      BY <3>4 DEF AsOldAs
  <2>4. QED
    BY <2>2, <2>3
<1>7. QED
  BY <1>3, <1>6

LEMMA BreakKeeps ==
  ASSUME RoutingInv, S!Break
  PROVE  RoutingInv'
<1>1. /\ fetch.at = "get" /\ fetch \in FetchStates /\ served \in S!Names
      /\ probe' = probe /\ served' = served
  BY DEF S!Break, RoutingInv
<1>2. fetch.try \in 1..Len(Due) /\ fetch.tried \subseteq S!Names
  BY <1>1 DEF FetchStates
<1>3. CASE fetch.try < Len(Due)
  <2>1. /\ S!Older(Due[fetch.try + 1] - Due[fetch.try])
        /\ fetch' = [fetch EXCEPT !.at = "resolve", !.try = @ + 1,
                                  !.tried = @ \union {served}]
    BY <1>3 DEF S!Break
  <2>2. fetch' = [at |-> "resolve", try |-> fetch.try + 1,
                  tried |-> fetch.tried \union {served}, again |-> fetch.again]
    <3>1. PICK f : f = [fetch EXCEPT !.at = "resolve", !.try = fetch.try + 1]
      OBVIOUS
    <3>2. f = [at |-> "resolve", try |-> fetch.try + 1, tried |-> fetch.tried,
               again |-> fetch.again]
      BY <1>1, <3>1 DEF FetchStates
    <3>3. fetch' = [f EXCEPT !.tried = fetch.tried \union {served}]
      BY <2>1, <3>1
    <3>4. QED
      BY <3>2, <3>3
  <2> PICK i \in 1..Len(Due) : i = fetch.try
    BY <1>2
  <2>3. fetch.try + 1 \in 1..Len(Due) /\ Due[fetch.try + 1] - Due[fetch.try] \in Nat
    BY <1>2, <1>3, DueFacts
  <2>4. fetch' \in FetchStates
    BY <1>1, <1>2, <2>2, <2>3 DEF FetchStates
  <2>5. age' \in [S!Names -> Nat]
    BY <2>1, <2>3, OlderFacts
  <2>6. ASSUME ~fetch'.again, NEW l \in Probed, probe'[l] = "hit"
        PROVE  AsOldAs(l, i + 1)'
    <3>1. AsOldAs(l, i)
      BY <1>1, <2>2, <2>6 DEF RoutingInv
    <3>2. PICK n \in Nat : n = Due[i + 1] - Due[i]
      BY <2>3
    <3>3. S!Older(n) /\ i < Len(Due)
      BY <1>3, <2>1, <3>2
    <3>4. QED
      BY <3>1, <3>2, <3>3, OlderFacts
  <2>7. fetch'.at = "resolve" /\ fetch'.try = i + 1
    BY <2>2
  <2>8. \A l \in Probed : AsOldAs(l, i + 1)' => AsOldAs(l, fetch.try)'
    BY <2>7 DEF AsOldAs
  <2>9. OwnerIsAsked'
    BY <2>7 DEF OwnerIsAsked, S!OwnerIsAsked
  <2>10. probe' \in [S!Names -> {S!None, "miss", "hit"}]
    BY <1>1 DEF RoutingInv
  <2>11. QED
    BY <2>4, <2>5, <2>6, <2>7, <2>8, <2>9, <2>10 DEF RoutingInv
<1>4. CASE ~(fetch.try < Len(Due))
  <2>1. fetch.try = Len(Due)
    BY <1>2, <1>4, DueFacts
  <2>2. /\ age' = age
        /\ fetch' = [fetch EXCEPT !.at = "failed", !.tried = @ \union {served}]
    BY <1>4 DEF S!Break
  <2>3. fetch' = [at |-> "failed", try |-> fetch.try,
                  tried |-> fetch.tried \union {served}, again |-> fetch.again]
    <3>1. PICK f : f = [fetch EXCEPT !.at = "failed"]
      OBVIOUS
    <3>2. f = [at |-> "failed", try |-> fetch.try, tried |-> fetch.tried,
               again |-> fetch.again]
      BY <1>1, <3>1 DEF FetchStates
    <3>3. fetch' = [f EXCEPT !.tried = fetch.tried \union {served}]
      BY <2>2, <3>1
    <3>4. QED
      BY <3>2, <3>3
  <2>4. fetch' \in FetchStates
    BY <1>1, <1>2, <2>3 DEF FetchStates
  <2>5. fetch.again \/ served = S!Owner
    BY <1>1, <2>1 DEF RoutingInv
  <2>6. OwnerIsAsked'
    BY <2>3, <2>5 DEF OwnerIsAsked, S!OwnerIsAsked
  <2>7. fetch'.at = "failed"
    BY <2>3
  <2>8. QED
    BY <1>1, <2>2, <2>4, <2>6, <2>7 DEF RoutingInv
<1>5. QED
  BY <1>3, <1>4

LEMMA RoutingInvariant ==
  /\ S!Idle => RoutingInv
  /\ RoutingInv /\ [S!Next]_(S!vars) => RoutingInv'
<1>1. ASSUME S!Idle PROVE RoutingInv
  <2>1. /\ probe = [l \in S!Names |-> S!None] /\ age = [l \in S!Names |-> 0]
        /\ fetch = [at |-> "idle", try |-> 1, tried |-> {}, again |-> FALSE]
    BY <1>1 DEF S!Idle, S!Unstarted
  <2>2. fetch \in FetchStates /\ fetch.at = "idle"
    BY <2>1, DueFacts DEF FetchStates
  <2>3. OwnerIsAsked
    BY <2>2 DEF OwnerIsAsked, S!OwnerIsAsked
  <2>4. QED
    BY <2>1, <2>2, <2>3 DEF RoutingInv
<1>2. ASSUME RoutingInv, [S!Next]_(S!vars) PROVE RoutingInv'
  <2>1. ASSUME UNCHANGED S!routing PROVE RoutingInv'
    BY <1>2, <2>1 DEF S!routing, RoutingInv, AsOldAs, OwnerIsAsked, S!OwnerIsAsked
  <2>2. CASE S!StartPart
    <3>1. /\ probe' = probe /\ age' = age
          /\ fetch' = [at |-> "resolve", try |-> 1, tried |-> {}, again |-> FALSE]
      BY <2>2 DEF S!StartPart, S!Unstarted
    <3>2. fetch' \in FetchStates
      BY <3>1, DueFacts DEF FetchStates
    <3>3. \A l \in Probed : age[l] \in Nat
      BY <1>2, LanesAssumption DEF RoutingInv, S!Ordered
    <3>4. \A l \in Probed : AsOldAs(l, 1)'
      BY <3>1, <3>3, DueFacts DEF AsOldAs
    <3>5. fetch'.at = "resolve" /\ fetch'.try = 1
      BY <3>1
    <3>6. \A l \in Probed : AsOldAs(l, fetch.try)'
      BY <3>4, <3>5 DEF AsOldAs
    <3>7. OwnerIsAsked'
      BY <3>5 DEF OwnerIsAsked, S!OwnerIsAsked
    <3>8. QED
      BY <1>2, <3>1, <3>2, <3>5, <3>6, <3>7 DEF RoutingInv
  <2>3. CASE S!Arrive \/ S!Abandon
    <3>1. /\ probe' = probe /\ age' = age
          /\ fetch' = [fetch EXCEPT !.at = "idle"]
      BY <2>3 DEF S!Arrive, S!Abandon
    <3>2. fetch' \in FetchStates /\ fetch'.at = "idle"
      BY <1>2, <3>1 DEF RoutingInv, FetchStates
    <3>3. OwnerIsAsked'
      BY <3>2 DEF OwnerIsAsked, S!OwnerIsAsked
    <3>4. QED
      BY <1>2, <3>1, <3>2, <3>3 DEF RoutingInv
  <2>4. CASE S!Elapse
    <3>1. S!Older(1) /\ probe' = probe /\ fetch' = fetch /\ served' = served
      BY <2>4 DEF S!Elapse
    <3>2. /\ age' \in [S!Names -> Nat]
          /\ \A l \in Probed, i \in 1..Len(Due) : AsOldAs(l, i) => AsOldAs(l, i)'
      BY <1>2, <3>1, OlderFacts
    <3>3. fetch.try \in 1..Len(Due) /\ fetch'.try = fetch.try
      BY <1>2, <3>1 DEF RoutingInv, FetchStates
    <3>4. \A l \in Probed : AsOldAs(l, fetch.try) => age'[l] >= ProbeTtl \/ age'[l] >= Due[fetch.try]
      BY <3>2, <3>3 DEF AsOldAs
    <3>5. \A l \in Probed : AsOldAs(l, fetch.try) => AsOldAs(l, fetch.try)'
      BY <3>3, <3>4 DEF AsOldAs
    <3>6. OwnerIsAsked'
      BY <1>2, <3>1 DEF RoutingInv, OwnerIsAsked, S!OwnerIsAsked
    <3>7. QED
      BY <1>2, <3>1, <3>2, <3>5, <3>6 DEF RoutingInv
  <2>5. CASE (\E l \in Probed : S!Replace(l)) \/ S!Look \/ S!Listing \/ S!World \/ S!Aging
    <3>1. UNCHANGED <<probe, age, fetch, served>>
      BY <2>5 DEF S!Replace, S!Look, S!Ask, S!Release, S!IdxRelease, S!Unreached, S!Merge,
         S!Answer, S!Listing, S!List, S!World, S!Outage, S!Publish, S!Flip, S!Aging,
         S!Expire, S!routing
    <3>2. QED
      BY <1>2, <3>1 DEF RoutingInv, AsOldAs, OwnerIsAsked, S!OwnerIsAsked
  <2>6. QED
    BY <1>2, <2>1, <2>2, <2>3, <2>4, <2>5, ResolveKeeps, BreakKeeps
       DEF S!Next, S!Attempt, S!Bucket, S!vars, S!routing
<1>3. QED
  BY <1>1, <1>2

(* "A failure is never swallowed into an EMPTY result": once list() has     *)
(* answered it answers, and a dump that was listed stays listed.            *)
THEOREM ListingsStay == Spec => ListingSurvives
<1>1. ListingInv /\ [S!Next]_(S!vars)
        => [\A l \in S!Names :
              /\ listed[l] \in {"empty", "dump"} => listed'[l] # "error"
              /\ listed[l] = "dump" => listed'[l] = "dump"]_listed
  <2> SUFFICES ASSUME ListingInv, S!Next, listed' # listed, NEW l \in S!Names
               PROVE  /\ listed[l] \in {"empty", "dump"} => listed'[l] # "error"
                      /\ listed[l] = "dump" => listed'[l] = "dump"
    BY DEF S!vars
  <2>1. ASSUME NEW k \in S!Names, S!List(k)
        PROVE  /\ listed[l] \in {"empty", "dump"} => listed'[l] # "error"
               /\ listed[l] = "dump" => listed'[l] = "dump"
    BY <2>1 DEF S!List, S!Runs, S!Rows, ListingInv, S!None
  <2>2. CASE S!Look
    BY <2>2 DEF S!Look, S!Ask, S!Release, S!IdxRelease, S!Unreached, S!Merge,
       S!Answer, S!listing
  <2>3. CASE S!Attempt \/ S!Bucket
    BY <2>3, AttemptsElsewhere DEF S!listing
  <2>4. QED
    BY <2>1, <2>2, <2>3 DEF S!Next, S!Listing, S!World, S!Outage, S!Flip, S!Publish,
       S!Aging, S!Expire, S!listing
<1>2. Init => S!Idle
  BY DEF Init
<1>3. QED
  BY <1>1, <1>2, ListingInvariant, StepsOfComponents, PTL
     DEF Spec, Safety, ListingSurvives, S!ListingSurvives

(* A lane that has a part and does not deliver it never costs a stage the   *)
(* part its owner has, for any lanes, waits and lifetime of a probe that    *)
(* the attempts outlast, unless it has said once more that it has it.       *)
THEOREM OwnerGetsItsTurn == Spec => []OwnerIsAsked
<1>1. RoutingInv => OwnerIsAsked
  BY DEF RoutingInv
<1>2. Init => S!Idle
  BY DEF Init
<1>3. QED
  BY <1>1, <1>2, RoutingInvariant, StepsOfComponents, PTL DEF Spec, Safety

-----------------------------------------------------------------------------
(* The payload cache.  Whatever a call has in hand is no older than its     *)
(* fingerprint, and a call is made after the fingerprint of its caller: so  *)
(* what is put together of nested payloads is no older than the one it is   *)
(* stored under, nor than the request.                                      *)
CallPhases == {"fp", "look", "wait", "read", "call", "free", "raised"}
LoadPhases == {"read", "call", "free", "raised"}
CallStates == [key : Keys, at : CallPhases, fp : Nat, val : SUBSET Nat, next : Nat]

(* since: the version the request came in at.                               *)
CallOK(c, since, now) ==
  /\ c \in CallStates /\ c.next > 0 /\ c.fp <= now
  /\ c.at # "fp" => c.fp > 0 /\ since <= c.fp
  /\ \A v \in c.val : c.fp <= v /\ v <= now
  /\ c.at \in {"fp", "look", "wait", "read"} => c.val = {} /\ c.next = 1
  /\ c.at = "call" /\ (c.key \in ReadsDb \/ c.next > 1) => c.val # {}
  /\ c.at = "free" => c.val # {}

StackOK(s, since, now) ==
  /\ s \in Seq(CallStates)
  /\ \A i \in 1..Len(s) : CallOK(s[i], since, now)
  /\ \A i \in 1..Len(s) : i < Len(s) => s[i].at = "call"
  /\ \A i, j \in 1..Len(s) : i < j /\ s[j].at # "fp" => s[i].fp <= s[j].fp

Entries == [fp : Nat, val : SUBSET Nat, seen : SUBSET Nat]

EntryOK(e, now) ==
  /\ e \in Entries /\ e.fp <= now
  /\ e.fp > 0 => e.val # {}
  /\ \A v \in e.val : e.fp <= v /\ v <= now

Leads(r, i, k) ==
  i \in 1..Len(calls[r]) /\ calls[r][i].key = k /\ calls[r][i].at \in LoadPhases

OneLoads ==
  /\ loading \subseteq Keys
  /\ \A r \in Requests, i \in Nat, k \in Keys : Leads(r, i, k) => k \in loading
  /\ \A r, s \in Requests, i, j \in Nat, k \in Keys :
       Leads(r, i, k) /\ Leads(s, j, k) => r = s /\ i = j

RequestOK(r) ==
  /\ asked[r] \in Nat /\ asked[r] <= version /\ answer[r] \subseteq Nat
  /\ asked[r] = 0 => answer[r] = {} /\ calls[r] = <<>>
  /\ \A v \in answer[r] : v # 0 => v >= asked[r]
  /\ StackOK(calls[r], asked[r], version)

PayloadInv ==
  /\ version \in Nat /\ version > 0
  /\ cache \in [Keys -> Entries] /\ turn \in [Requests -> Nat]
  /\ \A k \in Keys : EntryOK(cache[k], version)
  /\ calls \in [Requests -> Seq(CallStates)]
  /\ asked \in [Requests -> Nat] /\ answer \in [Requests -> SUBSET Nat]
  /\ \A r \in Requests : RequestOK(r)
  /\ OneLoads

-----------------------------------------------------------------------------
(* Stacks: the innermost call is replaced, one is made, one returns.        *)
LEMMA FrontFacts ==
  ASSUME NEW T, NEW s \in Seq(T), s # <<>>
  PROVE  /\ Len(s) \in Nat /\ Len(s) > 0 /\ DOMAIN s = 1..Len(s)
         /\ P!Last(s) = s[Len(s)] /\ s[Len(s)] \in T
         /\ P!Front(s) \in Seq(T) /\ Len(P!Front(s)) = Len(s) - 1
         /\ \A i \in 1..Len(s) - 1 : P!Front(s)[i] = s[i]
<1>1. Len(s) \in Nat /\ Len(s) > 0 /\ DOMAIN s = 1..Len(s)
  BY EmptySeq, LenProperties
<1>2. \A i \in 1..Len(s) - 1 : s[i] \in T
  BY <1>1, ElementOfSeq
<1>3. /\ SubSeq(s, 1, Len(s) - 1) \in Seq(T)
      /\ Len(SubSeq(s, 1, Len(s) - 1)) = Len(s) - 1
      /\ \A i \in 1..Len(s) - 1 : SubSeq(s, 1, Len(s) - 1)[i] = s[i]
  <2>1. Len(s) - 1 \in Int /\ 1 \in Int
    BY <1>1
  <2>2. /\ SubSeq(s, 1, Len(s) - 1) \in Seq(T)
        /\ Len(SubSeq(s, 1, Len(s) - 1)) =
             IF 1 <= Len(s) - 1 THEN (Len(s) - 1) - 1 + 1 ELSE 0
        /\ \A i \in 1..(Len(s) - 1) - 1 + 1 : SubSeq(s, 1, Len(s) - 1)[i] = s[1 + i - 1]
    BY <1>2, <2>1, SubSeqProperties
  <2>3. QED
    BY <1>1, <2>2
<1>4. QED
  BY <1>1, <1>3, ElementOfSeq DEF P!Front, P!Last

LEMMA ReplaceFacts ==
  ASSUME NEW T, NEW s \in Seq(T), s # <<>>, NEW c \in T
  PROVE  /\ P!Front(s) \o <<c>> \in Seq(T)
         /\ Len(P!Front(s) \o <<c>>) = Len(s)
         /\ (P!Front(s) \o <<c>>)[Len(s)] = c
         /\ \A i \in 1..Len(s) - 1 : (P!Front(s) \o <<c>>)[i] = s[i]
<1>1. <<c>> \in Seq(T) /\ Len(<<c>>) = 1 /\ <<c>>[1] = c
  OBVIOUS
<1>2. P!Front(s) \in Seq(T) /\ Len(P!Front(s)) = Len(s) - 1 /\ Len(s) \in Nat /\ Len(s) > 0
  BY FrontFacts
<1>3. QED
  BY <1>1, <1>2, FrontFacts, ConcatProperties

LEMMA StackReplaced ==
  ASSUME NEW s, NEW since \in Nat, NEW now \in Nat, StackOK(s, since, now), s # <<>>,
         NEW c, CallOK(c, since, now),
         c.at # "fp" => \A i \in 1..Len(s) - 1 : s[i].fp <= c.fp
  PROVE  StackOK(P!Front(s) \o <<c>>, since, now)
<1>1. s \in Seq(CallStates) /\ c \in CallStates
  BY DEF StackOK, CallOK
<1> DEFINE t == P!Front(s) \o <<c>>
<1>2. /\ Len(s) \in Nat /\ Len(s) > 0
      /\ t \in Seq(CallStates) /\ Len(t) = Len(s) /\ t[Len(s)] = c
      /\ \A i \in 1..Len(s) - 1 : t[i] = s[i]
  <2>1. Len(s) \in Nat /\ Len(s) > 0
    BY <1>1, FrontFacts
  <2>2. /\ t \in Seq(CallStates) /\ Len(t) = Len(s) /\ t[Len(s)] = c
        /\ \A i \in 1..Len(s) - 1 : t[i] = s[i]
    BY <1>1, ReplaceFacts
  <2>3. QED
    BY <2>1, <2>2
<1> HIDE DEF t
<1>3. \A i \in 1..Len(s) : i = Len(s) \/ (i \in 1..Len(s) - 1 /\ t[i] = s[i])
  BY <1>2
<1>4. ASSUME NEW i \in 1..Len(s)
      PROVE  CallOK(t[i], since, now) /\ (i < Len(s) => t[i].at = "call")
  <2>1. CASE i = Len(s)
    BY <1>2, <2>1
  <2>2. CASE i # Len(s)
    BY <1>3, <2>2 DEF StackOK
  <2>3. QED
    BY <2>1, <2>2
<1>5. ASSUME NEW i \in 1..Len(s), NEW j \in 1..Len(s), i < j, t[j].at # "fp"
      PROVE  t[i].fp <= t[j].fp
  <2>1. i \in 1..Len(s) - 1 /\ t[i] = s[i]
    BY <1>2, <1>5
  <2>2. CASE j = Len(s)
    BY <1>2, <1>5, <2>1, <2>2
  <2>3. CASE j # Len(s)
    BY <1>2, <1>3, <1>5, <2>1, <2>3 DEF StackOK
  <2>4. QED
    BY <2>2, <2>3
<1>6. StackOK(t, since, now)
  BY <1>2, <1>4, <1>5 DEF StackOK
<1>7. QED
  BY <1>6 DEF t

LEMMA StackPopped ==
  ASSUME NEW s, NEW since \in Nat, NEW now \in Nat, StackOK(s, since, now), s # <<>>
  PROVE  /\ StackOK(P!Front(s), since, now)
         /\ P!Front(s) # <<>> =>
              /\ P!Last(P!Front(s)).at = "call"
              /\ P!Last(s).at # "fp" => P!Last(P!Front(s)).fp <= P!Last(s).fp
<1>1. s \in Seq(CallStates)
  BY DEF StackOK
<1>2. /\ Len(s) \in Nat /\ Len(s) > 0 /\ P!Last(s) = s[Len(s)]
      /\ P!Front(s) \in Seq(CallStates) /\ Len(P!Front(s)) = Len(s) - 1
      /\ \A i \in 1..Len(s) - 1 : P!Front(s)[i] = s[i]
  BY <1>1, FrontFacts
<1>3. StackOK(P!Front(s), since, now)
  BY <1>2 DEF StackOK
<1>4. ASSUME P!Front(s) # <<>>
      PROVE  /\ P!Last(P!Front(s)).at = "call"
             /\ P!Last(s).at # "fp" => P!Last(P!Front(s)).fp <= P!Last(s).fp
  <2>1. P!Last(P!Front(s)) = P!Front(s)[Len(s) - 1] /\ Len(s) - 1 > 0
    BY <1>2, <1>4, FrontFacts
  <2>2. P!Last(P!Front(s)) = s[Len(s) - 1] /\ Len(s) - 1 \in 1..Len(s)
    BY <1>2, <2>1
  <2>3. QED
    BY <1>2, <2>2 DEF StackOK
<1>5. QED
  BY <1>3, <1>4

LEMMA StackPushed ==
  ASSUME NEW s, NEW since \in Nat, NEW now \in Nat, StackOK(s, since, now),
         s = <<>> \/ P!Last(s).at = "call",
         NEW c, CallOK(c, since, now), c.at = "fp"
  PROVE  StackOK(Append(s, c), since, now)
<1>1. s \in Seq(CallStates) /\ c \in CallStates
  BY DEF StackOK, CallOK
<1>2. /\ Len(s) \in Nat /\ Append(s, c) \in Seq(CallStates)
      /\ Len(Append(s, c)) = Len(s) + 1 /\ Append(s, c)[Len(s) + 1] = c
      /\ \A i \in 1..Len(s) : Append(s, c)[i] = s[i]
  BY <1>1, AppendProperties, LenProperties
<1>3. \A i \in 1..Len(s) : s[i].at = "call"
  <2>1. CASE s = <<>>
    BY <2>1
  <2>2. CASE s # <<>>
    BY <1>1, <2>2, FrontFacts DEF StackOK
  <2>3. QED
    BY <2>1, <2>2
<1>4. \A i \in 1..Len(s) + 1 : i = Len(s) + 1 \/ (i \in 1..Len(s) /\ Append(s, c)[i] = s[i])
  BY <1>2
<1>5. QED
  BY <1>2, <1>3, <1>4 DEF StackOK

-----------------------------------------------------------------------------
(* What a request is at.                                                    *)
LEMMA TopFacts ==
  ASSUME PayloadInv, NEW r \in Requests, P!Calling(r)
  PROVE  /\ calls[r] # <<>> /\ calls[r] \in Seq(CallStates)
         /\ Len(calls[r]) \in Nat /\ Len(calls[r]) > 0
         /\ P!Top(r) = calls[r][Len(calls[r])] /\ P!Top(r) \in CallStates
         /\ CallOK(P!Top(r), asked[r], version)
         /\ StackOK(calls[r], asked[r], version)
         /\ P!Top(r).at # "fp" =>
              \A i \in 1..Len(calls[r]) - 1 : calls[r][i].fp <= P!Top(r).fp
         /\ asked[r] \in Nat /\ asked[r] # 0 /\ version \in Nat
<1>1. RequestOK(r) /\ calls[r] # <<>> /\ version \in Nat
  BY DEF PayloadInv, P!Calling
<1>2. calls[r] \in Seq(CallStates) /\ StackOK(calls[r], asked[r], version)
  BY <1>1 DEF RequestOK, StackOK
<1>3. /\ Len(calls[r]) \in Nat /\ Len(calls[r]) > 0
      /\ P!Top(r) = calls[r][Len(calls[r])] /\ P!Top(r) \in CallStates
  BY <1>1, <1>2, FrontFacts DEF P!Top
<1>4. CallOK(P!Top(r), asked[r], version)
  BY <1>2, <1>3 DEF StackOK
<1>5. P!Top(r).at # "fp" =>
        \A i \in 1..Len(calls[r]) - 1 : calls[r][i].fp <= P!Top(r).fp
  BY <1>2, <1>3 DEF StackOK
<1>6. asked[r] \in Nat /\ asked[r] # 0
  BY <1>1 DEF RequestOK
<1>7. QED
  BY <1>1, <1>2, <1>3, <1>4, <1>5, <1>6

(* A step of one request.                                                   *)
LEMMA OneRequestMoves ==
  ASSUME PayloadInv, NEW r \in Requests, asked[r] # 0,
         NEW s, calls' = [calls EXCEPT ![r] = s], StackOK(s, asked[r], version),
         version' = version, asked' = asked,
         cache' \in [Keys -> Entries], turn' \in [Requests -> Nat],
         \A k \in Keys : EntryOK(cache'[k], version),
         NEW a \in SUBSET Nat, \A v \in a : v # 0 => v >= asked[r],
         answer' \in {answer, [answer EXCEPT ![r] = a]},
         OneLoads'
  PROVE  PayloadInv'
<1>1. s \in Seq(CallStates)
  BY DEF StackOK
<1>2. /\ calls' \in [Requests -> Seq(CallStates)] /\ calls'[r] = s
      /\ \A q \in Requests : q # r => calls'[q] = calls[q]
  BY <1>1 DEF PayloadInv
<1>3. /\ answer' \in [Requests -> SUBSET Nat]
      /\ \A q \in Requests : q # r => answer'[q] = answer[q]
      /\ answer'[r] \in {answer[r], a}
  <2>1. CASE answer' = answer
    BY <2>1 DEF PayloadInv
  <2>2. CASE answer' = [answer EXCEPT ![r] = a]
    BY <2>2 DEF PayloadInv
  <2>3. QED
    BY <2>1, <2>2
<1>4. RequestOK(r)'
  BY <1>2, <1>3 DEF PayloadInv, RequestOK
<1>5. \A q \in Requests : q # r => RequestOK(q)'
  BY <1>2, <1>3 DEF PayloadInv, RequestOK
<1>6. QED
  BY <1>2, <1>3, <1>4, <1>5 DEF PayloadInv

LEMMA LoadsKept ==
  ASSUME PayloadInv, loading' = loading,
         \A r \in Requests, i \in Nat, k \in Keys : Leads(r, i, k)' => Leads(r, i, k)
  PROVE  OneLoads'
  BY DEF PayloadInv, OneLoads

(* The innermost call goes on.                                              *)
LEMMA TopMoves ==
  ASSUME PayloadInv, NEW r \in Requests, P!Calling(r), NEW c, P!Now(r, c),
         CallOK(c, asked[r], version), c.key = P!Top(r).key,
         c.at # "fp" => \A i \in 1..Len(calls[r]) - 1 : calls[r][i].fp <= c.fp,
         version' = version, asked' = asked, answer' = answer,
         cache' \in [Keys -> Entries], turn' \in [Requests -> Nat],
         \A k \in Keys : EntryOK(cache'[k], version)
  PROVE  /\ \A q \in Requests, i \in Nat, k \in Keys :
              Leads(q, i, k)' => \/ Leads(q, i, k) /\ (q # r \/ i < Len(calls[r]))
                                 \/ /\ q = r /\ i = Len(calls[r]) /\ k = c.key
                                    /\ c.at \in LoadPhases
         /\ OneLoads' => PayloadInv'
<1> DEFINE s == P!Front(calls[r]) \o <<c>>
<1>1. calls' = [calls EXCEPT ![r] = s]
  BY DEF P!Now
<1>2. /\ calls[r] \in Seq(CallStates) /\ calls[r] # <<>> /\ asked[r] # 0
      /\ StackOK(calls[r], asked[r], version) /\ asked[r] \in Nat /\ version \in Nat
      /\ Len(calls[r]) \in Nat
  BY TopFacts
<1>3. c \in CallStates
  BY DEF CallOK
<1>4. /\ Len(s) = Len(calls[r]) /\ s[Len(calls[r])] = c
      /\ \A i \in 1..Len(calls[r]) - 1 : s[i] = calls[r][i]
  <2>1. PICK t : t = calls[r]
    OBVIOUS
  <2>2. t \in Seq(CallStates) /\ t # <<>>
    BY <1>2, <2>1
  <2>3. /\ Len(P!Front(t) \o <<c>>) = Len(t) /\ (P!Front(t) \o <<c>>)[Len(t)] = c
        /\ \A i \in 1..Len(t) - 1 : (P!Front(t) \o <<c>>)[i] = t[i]
    BY <1>3, <2>2, ReplaceFacts
  <2>4. QED
    BY <2>1, <2>3
<1>5. StackOK(s, asked[r], version)
  BY <1>2, StackReplaced
<1> HIDE DEF s
<1>6. calls'[r] = s /\ \A q \in Requests : q # r => calls'[q] = calls[q]
  BY <1>1 DEF PayloadInv
<1>7. ASSUME NEW q \in Requests, NEW i \in Nat, NEW k \in Keys, Leads(q, i, k)'
      PROVE  \/ Leads(q, i, k) /\ (q # r \/ i < Len(calls[r]))
             \/ /\ q = r /\ i = Len(calls[r]) /\ k = c.key
                /\ c.at \in LoadPhases
  <2>1. CASE q # r
    BY <1>6, <1>7, <2>1 DEF Leads
  <2>2. CASE q = r /\ i = Len(calls[r])
    BY <1>4, <1>6, <1>7, <2>2 DEF Leads
  <2>3. CASE q = r /\ i # Len(calls[r])
    <3>1. i \in 1..Len(calls[r]) - 1 /\ i \in 1..Len(calls[r])
      BY <1>2, <1>4, <1>6, <1>7, <2>3 DEF Leads
    <3>2. QED
      BY <1>2, <1>4, <1>6, <1>7, <2>3, <3>1 DEF Leads
  <2>4. QED
    BY <2>1, <2>2, <2>3
<1>8. ASSUME OneLoads' PROVE PayloadInv'
  <2>1. {} \in SUBSET Nat /\ \A v \in {} : v # 0 => v >= asked[r]
    OBVIOUS
  <2>2. QED
    BY <1>1, <1>2, <1>5, <1>8, <2>1, OneRequestMoves
<1>9. QED
  BY <1>7, <1>8

(* What a call returns: an error, or versions no older than its fingerprint. *)
Returned(val, c, now) ==
  \/ val = P!Error
  \/ val # {} /\ val \subseteq Nat /\ \A v \in val : 0 < v /\ c.fp <= v /\ v <= now

LEMMA CallStamped ==
  ASSUME NEW c \in CallStates, NEW a, NEW f
  PROVE  [c EXCEPT !.at = a, !.fp = f] =
           [key |-> c.key, at |-> a, fp |-> f, val |-> c.val, next |-> c.next]
<1>1. PICK d : d = [c EXCEPT !.at = a]
  OBVIOUS
<1>2. d = [key |-> c.key, at |-> a, fp |-> c.fp, val |-> c.val, next |-> c.next]
  BY <1>1 DEF CallStates
<1>3. [d EXCEPT !.fp = f] =
        [key |-> c.key, at |-> a, fp |-> f, val |-> c.val, next |-> c.next]
  BY <1>2
<1>4. QED
  BY <1>1, <1>3

LEMMA CallRead ==
  ASSUME NEW c \in CallStates, NEW a, NEW v
  PROVE  /\ [c EXCEPT !.at = a, !.val = v] =
              [key |-> c.key, at |-> a, fp |-> c.fp, val |-> v, next |-> c.next]
         /\ [c EXCEPT !.at = a] =
              [key |-> c.key, at |-> a, fp |-> c.fp, val |-> c.val, next |-> c.next]
<1>1. PICK d : d = [c EXCEPT !.at = a]
  OBVIOUS
<1>2. d = [key |-> c.key, at |-> a, fp |-> c.fp, val |-> c.val, next |-> c.next]
  BY <1>1 DEF CallStates
<1>3. [d EXCEPT !.val = v] =
        [key |-> c.key, at |-> a, fp |-> c.fp, val |-> v, next |-> c.next]
  BY <1>2
<1>4. QED
  BY <1>1, <1>2, <1>3

(* What CallOK says of a call, told field by field.                         *)
LEMMA CallIsOK ==
  ASSUME NEW key \in Keys, NEW to \in CallPhases, NEW fp \in Nat, NEW val \in SUBSET Nat,
         NEW next \in Nat, NEW since, NEW now, next > 0, fp <= now,
         to # "fp" => fp > 0 /\ since <= fp,
         \A v \in val : fp <= v /\ v <= now,
         to \in {"fp", "look", "wait", "read"} => val = {} /\ next = 1,
         to = "call" /\ (key \in ReadsDb \/ next > 1) => val # {},
         to = "free" => val # {}
  PROVE  CallOK([key |-> key, at |-> to, fp |-> fp, val |-> val, next |-> next], since, now)
  BY DEF CallOK, CallStates

LEMMA Resumed ==
  ASSUME NEW s, NEW since \in Nat, NEW now \in Nat, StackOK(s, since, now), s # <<>>,
         P!Last(s).at # "fp", NEW val, Returned(val, P!Last(s), now)
  PROVE  LET t == P!Resume(P!Front(s), val)
         IN /\ StackOK(t, since, now) /\ Len(t) = Len(s) - 1
            /\ \A i \in 1..Len(t) : i \in 1..Len(s) /\ t[i].key = s[i].key
                                     /\ s[i].at = "call"
<1> DEFINE t == P!Resume(P!Front(s), val)
<1>1. PICK f : f = P!Front(s)
  OBVIOUS
<1>2. /\ StackOK(f, since, now) /\ f \in Seq(CallStates)
      /\ f # <<>> => P!Last(f).at = "call" /\ P!Last(f).fp <= P!Last(s).fp
  BY <1>1, StackPopped DEF StackOK
<1>3. s \in Seq(CallStates)
  BY DEF StackOK
<1>4. /\ Len(s) \in Nat /\ Len(s) > 0 /\ Len(f) = Len(s) - 1
      /\ \A i \in 1..Len(s) - 1 : f[i] = s[i]
  BY <1>1, <1>3, FrontFacts
<1>5. \A i \in 1..Len(f) : i \in 1..Len(s) /\ f[i] = s[i] /\ s[i].at = "call"
  BY <1>4 DEF StackOK
<1>6. CASE f = <<>>
  <2>1. t = f
    BY <1>1, <1>6 DEF P!Resume
  <2>2. QED
    BY <1>2, <1>4, <1>5, <2>1
<1>7. CASE f # <<>>
  <2> PICK top : top = P!Last(f)
    OBVIOUS
  <2>1. PICK v : v = IF val = P!Error THEN top.val ELSE top.val \union val
    OBVIOUS
  <2>2. PICK to : to = IF val = P!Error THEN "raised" ELSE top.at
    OBVIOUS
  <2>3. PICK c : c = [top EXCEPT !.val = v, !.next = top.next + 1, !.at = to]
    OBVIOUS
  <2>4. t = P!Front(f) \o <<c>>
    BY <1>1, <1>7, <2>1, <2>2, <2>3 DEF P!Resume
  <2>5. top \in CallStates /\ top = f[Len(f)] /\ Len(f) \in 1..Len(f)
    <3>1. Len(f) \in Nat /\ Len(f) > 0 /\ P!Last(f) = f[Len(f)] /\ f[Len(f)] \in CallStates
      BY <1>2, <1>7, FrontFacts
    <3>2. QED
      BY <3>1
  <2>6. CallOK(top, since, now) /\ top.at = "call"
    BY <1>2, <1>7, <2>5 DEF StackOK
  <2>7. CallOK(c, since, now) /\ c.key = top.key /\ c.fp = top.fp
    <3>1. c = [key |-> top.key, at |-> to, fp |-> top.fp, val |-> v, next |-> top.next + 1]
      <4>1. PICK d : d = [top EXCEPT !.val = v]
        OBVIOUS
      <4>2. d = [key |-> top.key, at |-> top.at, fp |-> top.fp, val |-> v,
                 next |-> top.next]
        BY <2>5, <4>1 DEF CallStates
      <4>3. PICK e : e = [d EXCEPT !.next = top.next + 1]
        OBVIOUS
      <4>4. e = [key |-> top.key, at |-> top.at, fp |-> top.fp, val |-> v,
                 next |-> top.next + 1]
        BY <4>2, <4>3
      <4>5. [e EXCEPT !.at = to] = [key |-> top.key, at |-> to, fp |-> top.fp, val |-> v,
                                    next |-> top.next + 1]
        BY <4>4
      <4>6. QED
        BY <2>3, <4>1, <4>3, <4>5
    <3>2. /\ top.key \in Keys /\ top.fp \in Nat /\ top.next \in Nat /\ top.next > 0
          /\ top.val \subseteq Nat /\ 0 < top.fp /\ since <= top.fp /\ top.fp <= now
          /\ \A w \in top.val : top.fp <= w /\ w <= now
      BY <2>5, <2>6 DEF CallOK, CallStates
    <3>3. CASE val = P!Error
      <4>1. v = top.val /\ to = "raised" /\ to \in CallPhases
        BY <2>1, <2>2, <3>3 DEF CallPhases
      <4>2. v \in SUBSET Nat /\ top.next + 1 \in Nat /\ top.next + 1 > 0
        BY <3>2, <4>1
      <4>3. CallOK([key |-> top.key, at |-> to, fp |-> top.fp, val |-> v,
                    next |-> top.next + 1], since, now)
        BY <3>2, <4>1, <4>2, CallIsOK
      <4>4. QED
        BY <3>1, <4>3
    <3>4. CASE val # P!Error
      <4>1. val # {} /\ val \subseteq Nat /\ \A w \in val : P!Last(s).fp <= w /\ w <= now
        BY <3>4 DEF Returned
      <4>2. P!Last(s) \in CallStates
        BY <1>3, FrontFacts
      <4>3. top.fp <= P!Last(s).fp /\ P!Last(s).fp \in Nat
        BY <1>2, <1>7, <4>2 DEF CallStates
      <4>4. \A w \in val : top.fp <= w
        BY <3>2, <4>1, <4>3
      <4>5. v = top.val \union val /\ to = "call" /\ to \in CallPhases
        BY <2>6, <2>1, <2>2, <3>4 DEF CallPhases
      <4>6. v # {} /\ v \subseteq Nat /\ \A w \in v : top.fp <= w /\ w <= now
        BY <3>2, <4>1, <4>4, <4>5
      <4>7. v \in SUBSET Nat /\ top.next + 1 \in Nat /\ top.next + 1 > 0
        BY <3>2, <4>6
      <4>8. CallOK([key |-> top.key, at |-> to, fp |-> top.fp, val |-> v,
                    next |-> top.next + 1], since, now)
        BY <3>2, <4>5, <4>6, <4>7, CallIsOK
      <4>9. QED
        BY <3>1, <4>8
    <3>5. QED
      BY <3>3, <3>4
  <2>8. \A i \in 1..Len(f) - 1 : f[i].fp <= c.fp
    BY <1>2, <2>5, <2>6, <2>7 DEF StackOK
  <2>9. StackOK(P!Front(f) \o <<c>>, since, now)
    BY <1>2, <1>7, <2>7, <2>8, StackReplaced
  <2>10. /\ Len(P!Front(f) \o <<c>>) = Len(f) /\ (P!Front(f) \o <<c>>)[Len(f)] = c
        /\ \A i \in 1..Len(f) - 1 : (P!Front(f) \o <<c>>)[i] = f[i]
    <3>1. c \in CallStates
      BY <2>7 DEF CallOK
    <3>2. QED
      BY <1>2, <1>7, <3>1, ReplaceFacts
  <2> HIDE DEF t
  <2>11. ASSUME NEW i \in 1..Len(f) PROVE t[i].key = f[i].key
    <3>1. CASE i = Len(f)
      BY <2>4, <2>5, <2>7, <2>10, <3>1
    <3>2. CASE i # Len(f)
      BY <1>4, <2>4, <2>10, <3>2
    <3>3. QED
      BY <3>1, <3>2
  <2>12. QED
    BY <1>4, <1>5, <2>4, <2>9, <2>10, <2>11 DEF t
<1>8. QED
  BY <1>6, <1>7

LEMMA FingerprintKeeps ==
  ASSUME PayloadInv, NEW r \in Requests, P!Fingerprint(r)
  PROVE  PayloadInv'
<1> DEFINE top == P!Top(r)
           c == [top EXCEPT !.at = "look", !.fp = version]
<1>1. /\ P!Calling(r) /\ top.at = "fp" /\ P!Now(r, c)
      /\ version' = version /\ cache' = cache /\ loading' = loading
      /\ asked' = asked /\ turn' = turn /\ answer' = answer
  BY DEF P!Fingerprint
<1>2. /\ top \in CallStates /\ CallOK(top, asked[r], version)
      /\ StackOK(calls[r], asked[r], version) /\ version \in Nat
      /\ asked[r] \in Nat /\ asked[r] # 0
  BY <1>1, TopFacts
<1>3. asked[r] <= version
  BY DEF PayloadInv, RequestOK
<1> HIDE DEF top
<1>4. c = [key |-> top.key, at |-> "look", fp |-> version, val |-> top.val,
           next |-> top.next]
  BY <1>2, CallStamped
<1>5. CallOK(c, asked[r], version) /\ c.key = top.key
  BY <1>1, <1>2, <1>3, <1>4 DEF CallOK, CallStates, CallPhases
<1>6. \A i \in 1..Len(calls[r]) - 1 : calls[r][i].fp <= c.fp
  <2>1. Len(calls[r]) \in Nat
    BY <1>1, TopFacts
  <2>2. \A i \in 1..Len(calls[r]) - 1 : i \in 1..Len(calls[r])
    BY <2>1
  <2>3. QED
    BY <1>2, <1>4, <2>2 DEF StackOK, CallOK
<1>7. c.at \notin LoadPhases
  BY <1>4 DEF LoadPhases
<1>8. /\ cache' \in [Keys -> Entries] /\ turn' \in [Requests -> Nat]
      /\ \A k \in Keys : EntryOK(cache'[k], version)
  BY <1>1 DEF PayloadInv
<1> HIDE DEF c
<1>9. /\ \A q \in Requests, i \in Nat, k \in Keys : Leads(q, i, k)' => Leads(q, i, k)
      /\ OneLoads' => PayloadInv'
  BY <1>1, <1>5, <1>6, <1>7, <1>8, TopMoves DEF top
<1>10. QED
  BY <1>1, <1>9, LoadsKept
(* A call that goes on with its key, its fingerprint and its place.         *)
LEMMA CallGoesOn ==
  ASSUME PayloadInv, NEW r \in Requests, P!Calling(r), P!Top(r).at # "fp",
         NEW c \in CallStates, c.key = P!Top(r).key, c.fp = P!Top(r).fp,
         c.next = P!Top(r).next, c.at # "fp",
         \A v \in c.val : c.fp <= v /\ v <= version,
         c.at \in {"look", "wait", "read"} => c.val = {} /\ c.next = 1,
         c.at = "call" /\ (c.key \in ReadsDb \/ c.next > 1) => c.val # {},
         c.at = "free" => c.val # {}
  PROVE  /\ CallOK(c, asked[r], version)
         /\ \A i \in 1..Len(calls[r]) - 1 : calls[r][i].fp <= c.fp
<1> DEFINE top == P!Top(r)
<1>1. /\ top \in CallStates /\ CallOK(top, asked[r], version)
      /\ \A i \in 1..Len(calls[r]) - 1 : calls[r][i].fp <= top.fp
  BY TopFacts
<1>2. c.next > 0 /\ c.fp <= version /\ c.fp > 0 /\ asked[r] <= c.fp
  BY <1>1 DEF CallOK
<1>3. CallOK(c, asked[r], version)
  BY <1>2 DEF CallOK
<1>4. QED
  BY <1>1, <1>3

LEMMA FollowKeeps ==
  ASSUME PayloadInv, NEW r \in Requests, P!Follow(r)
  PROVE  PayloadInv'
<1> DEFINE top == P!Top(r)
           c == [top EXCEPT !.at = "wait"]
<1>1. /\ P!Calling(r) /\ top.at = "look" /\ P!Now(r, c)
      /\ version' = version /\ cache' = cache /\ loading' = loading
      /\ asked' = asked /\ turn' = turn /\ answer' = answer
  BY DEF P!Follow
<1>2. top \in CallStates /\ CallOK(top, asked[r], version)
  BY <1>1, TopFacts
<1>3. c = [key |-> top.key, at |-> "wait", fp |-> top.fp, val |-> top.val,
           next |-> top.next]
  BY <1>2, CallRead
<1>4. top.val = {} /\ top.next = 1
  BY <1>1, <1>2 DEF CallOK
<1>5. /\ CallOK(c, asked[r], version) /\ c.key = top.key /\ c.at = "wait"
      /\ \A i \in 1..Len(calls[r]) - 1 : calls[r][i].fp <= c.fp
  <2>1. /\ "wait" \in CallPhases \ {"fp"} /\ top.val \in SUBSET Nat
        /\ \A v \in top.val : top.fp <= v /\ v <= version
    BY <1>4 DEF CallPhases
  <2>2. P!Calling(r) /\ P!Top(r).at # "fp"
    BY <1>1
  <2> HIDE DEF c
  <2>3. /\ c \in CallStates /\ c.key = top.key /\ c.at = "wait" /\ c.fp = top.fp
        /\ c.val = top.val /\ c.next = top.next
    <3>1. /\ c.key = top.key /\ c.at = "wait" /\ c.fp = top.fp
          /\ c.val = top.val /\ c.next = top.next
      BY <1>3
    <3>2. c \in CallStates
      <4> HIDE DEF top
      <4> QED
        BY <1>2, <2>1, <1>3 DEF CallStates
    <3>3. QED
      BY <3>1, <3>2
  <2>4. QED
    BY <1>4, <2>1, <2>2, <2>3, CallGoesOn
<1>6. c.at \notin LoadPhases
  BY <1>5 DEF LoadPhases
<1>7. /\ cache' \in [Keys -> Entries] /\ turn' \in [Requests -> Nat]
      /\ \A k \in Keys : EntryOK(cache'[k], version)
  BY <1>1 DEF PayloadInv
<1> HIDE DEF c
<1>8. /\ \A q \in Requests, i \in Nat, k \in Keys : Leads(q, i, k)' => Leads(q, i, k)
      /\ OneLoads' => PayloadInv'
  BY <1>1, <1>5, <1>6, <1>7, TopMoves
<1>9. QED
  BY <1>1, <1>8, LoadsKept

LEMMA LeadKeeps ==
  ASSUME PayloadInv, NEW r \in Requests, P!Lead(r)
  PROVE  PayloadInv'
<1> DEFINE top == P!Top(r)
           to == IF top.key \in ReadsDb THEN "read" ELSE "call"
           c == [top EXCEPT !.at = to]
<1>1. /\ P!Calling(r) /\ top.at = "look" /\ P!Now(r, c) /\ top.key \notin loading
      /\ version' = version /\ cache' = cache /\ loading' = loading \union {top.key}
      /\ asked' = asked /\ turn' = turn /\ answer' = answer
  BY DEF P!Lead
<1>2. top \in CallStates /\ CallOK(top, asked[r], version)
  BY <1>1, TopFacts
<1>3. c = [key |-> top.key, at |-> to, fp |-> top.fp, val |-> top.val,
           next |-> top.next]
  BY <1>2, CallRead
<1>4. top.val = {} /\ top.next = 1 /\ top.key \in Keys
  BY <1>1, <1>2 DEF CallOK, CallStates
<1>5. /\ to \in CallPhases \ {"fp"}
      /\ to = "call" => top.key \notin ReadsDb
      /\ to # "free"
  BY DEF CallPhases
<1>6. /\ CallOK(c, asked[r], version) /\ c.key = top.key /\ c.at = to
      /\ \A i \in 1..Len(calls[r]) - 1 : calls[r][i].fp <= c.fp
  <2>1. /\ top.val \in SUBSET Nat
        /\ \A v \in top.val : top.fp <= v /\ v <= version
    BY <1>4
  <2>2. P!Calling(r) /\ P!Top(r).at # "fp"
    BY <1>1
  <2> HIDE DEF to, c
  <2>3. /\ c \in CallStates /\ c.key = top.key /\ c.at = to /\ c.fp = top.fp
        /\ c.val = top.val /\ c.next = top.next
    <3>1. /\ c.key = top.key /\ c.at = to /\ c.fp = top.fp
          /\ c.val = top.val /\ c.next = top.next
      BY <1>3
    <3>2. c \in CallStates
      <4> HIDE DEF top
      <4> QED
        BY <1>2, <1>5, <2>1, <1>3 DEF CallStates
    <3>3. QED
      BY <3>1, <3>2
  <2>4. QED
    BY <1>4, <1>5, <2>1, <2>2, <2>3, CallGoesOn
<1>7. /\ cache' \in [Keys -> Entries] /\ turn' \in [Requests -> Nat]
      /\ \A k \in Keys : EntryOK(cache'[k], version)
  BY <1>1 DEF PayloadInv
<1> HIDE DEF c, to
<1>8. /\ \A q \in Requests, i \in Nat, k \in Keys :
            Leads(q, i, k)' => \/ Leads(q, i, k)
                               \/ q = r /\ i = Len(calls[r]) /\ k = top.key
      /\ OneLoads' => PayloadInv'
  BY <1>1, <1>6, <1>7, TopMoves
<1>9. OneLoads'
  <2>1. /\ loading \subseteq Keys
        /\ \A q \in Requests, i \in Nat, k \in Keys : Leads(q, i, k) => k \in loading
        /\ \A q, s \in Requests, i, j \in Nat, k \in Keys :
             Leads(q, i, k) /\ Leads(s, j, k) => q = s /\ i = j
    BY DEF PayloadInv, OneLoads
  <2>2. loading' \subseteq Keys
    BY <1>1, <1>4, <2>1
  <2>3. \A q \in Requests, i \in Nat, k \in Keys : Leads(q, i, k)' => k \in loading'
    BY <1>1, <1>8, <2>1
  <2>4. \A q, s \in Requests, i, j \in Nat, k \in Keys :
             Leads(q, i, k)' /\ Leads(s, j, k)' => q = s /\ i = j
    BY <1>1, <1>8, <2>1
  <2>5. QED
    BY <2>2, <2>3, <2>4 DEF OneLoads
<1>10. QED
  BY <1>8, <1>9

LEMMA ReadDbKeeps ==
  ASSUME PayloadInv, NEW r \in Requests, P!ReadDb(r)
  PROVE  PayloadInv'
<1> DEFINE top == P!Top(r)
<1>1. PICK c : /\ P!Now(r, c)
               /\ c \in {[top EXCEPT !.at = "call", !.val = {version}],
                         [top EXCEPT !.at = "raised"]}
  BY DEF P!ReadDb
<1>2. /\ P!Calling(r) /\ top.at = "read"
      /\ version' = version /\ cache' = cache /\ loading' = loading
      /\ asked' = asked /\ turn' = turn /\ answer' = answer
  BY DEF P!ReadDb
<1>3. /\ top \in CallStates /\ CallOK(top, asked[r], version) /\ version \in Nat
      /\ P!Top(r) = calls[r][Len(calls[r])] /\ Len(calls[r]) \in 1..Len(calls[r])
      /\ Len(calls[r]) \in Nat
  BY <1>2, TopFacts
<1>4. top.val = {} /\ top.next = 1 /\ top.fp <= version /\ top.key \in Keys
  BY <1>2, <1>3 DEF CallOK, CallStates
<1>5. PICK to \in {"call", "raised"}, val \in {{version}, {}} :
        /\ to = "call" => val # {}
        /\ c = [key |-> top.key, at |-> to, fp |-> top.fp, val |-> val,
                next |-> top.next]
  <2>1. CASE c = [top EXCEPT !.at = "call", !.val = {version}]
    BY <1>3, <2>1, CallRead
  <2>2. CASE c = [top EXCEPT !.at = "raised"]
    BY ZenonT(60), <1>3, <1>4, <2>2, CallRead
  <2>3. QED
    BY <1>1, <2>1, <2>2
<1>6. /\ val \in SUBSET Nat /\ \A v \in val : top.fp <= v /\ v <= version
      /\ to \in CallPhases \ {"fp"} /\ to \in LoadPhases
      /\ to \notin {"look", "wait", "read", "free"}
  BY <1>3, <1>4, <1>5 DEF CallPhases, LoadPhases
<1>7. /\ CallOK(c, asked[r], version) /\ c.key = top.key /\ c.at = to
      /\ \A i \in 1..Len(calls[r]) - 1 : calls[r][i].fp <= c.fp
  <2>1. P!Calling(r) /\ P!Top(r).at # "fp"
    BY <1>2
  <2>2. /\ c \in CallStates /\ c.key = top.key /\ c.at = to /\ c.fp = top.fp
        /\ c.val = val /\ c.next = top.next
    <3>1. /\ c.key = top.key /\ c.at = to /\ c.fp = top.fp
          /\ c.val = val /\ c.next = top.next
      BY <1>5
    <3>2. c \in CallStates
      <4> HIDE DEF top
      <4> QED
        BY <1>3, <1>6, <1>5 DEF CallStates
    <3>3. QED
      BY <3>1, <3>2
  <2>3. QED
    BY <1>5, <1>6, <2>1, <2>2, CallGoesOn
<1>8. /\ cache' \in [Keys -> Entries] /\ turn' \in [Requests -> Nat]
      /\ \A k \in Keys : EntryOK(cache'[k], version)
  BY <1>2 DEF PayloadInv
<1>9. Leads(r, Len(calls[r]), top.key)
  BY <1>2, <1>3 DEF Leads, LoadPhases
<1>10. /\ \A q \in Requests, i \in Nat, k \in Keys : Leads(q, i, k)' => Leads(q, i, k)
       /\ OneLoads' => PayloadInv'
  BY <1>1, <1>2, <1>7, <1>8, <1>9, TopMoves
<1>11. QED
  BY <1>2, <1>10, LoadsKept

(* A load is stored when it has asked for all it needs: it has a value.     *)
LEMMA StoreKeeps ==
  ASSUME PayloadInv, NEW r \in Requests, P!Store(r)
  PROVE  PayloadInv'
<1> DEFINE top == P!Top(r)
           c == [top EXCEPT !.at = "free"]
           e == [fp |-> top.fp, val |-> top.val, seen |-> P!Captured(r)]
<1>1. /\ P!Calling(r) /\ top.at = "call" /\ P!Now(r, c)
      /\ top.next > Len(Needs[top.key])
      /\ version' = version /\ loading' = loading
      /\ cache' = [cache EXCEPT ![top.key] = e]
      /\ asked' = asked /\ turn' = turn /\ answer' = answer
  BY DEF P!Store
<1>2. /\ top \in CallStates /\ CallOK(top, asked[r], version) /\ version \in Nat
      /\ P!Top(r) = calls[r][Len(calls[r])] /\ Len(calls[r]) \in 1..Len(calls[r])
      /\ Len(calls[r]) \in Nat
  BY <1>1, TopFacts
<1>3. c = [key |-> top.key, at |-> "free", fp |-> top.fp, val |-> top.val,
           next |-> top.next]
  BY <1>2, CallRead
<1>4. /\ top.key \in Keys /\ top.next \in Nat /\ top.val \in SUBSET Nat
      /\ top.fp \in Nat /\ top.fp <= version
      /\ \A v \in top.val : top.fp <= v /\ v <= version
      /\ top.key \in ReadsDb \/ top.next > 1 => top.val # {}
  BY <1>1, <1>2 DEF CallOK, CallStates
<1>5. top.val # {}
  <2>1. CASE top.key \in ReadsDb
    BY <1>4, <2>1
  <2>2. CASE top.key \notin ReadsDb
    <3>1. Needs[top.key] \in Seq(Keys) /\ Needs[top.key] # <<>>
      BY <1>4, <2>2, LoadsAssumption DEF P!LoadersAreAcyclic
    <3>2. Len(Needs[top.key]) \in Nat /\ Len(Needs[top.key]) > 0
      BY <3>1, FrontFacts
    <3>3. QED
      BY <1>1, <1>4, <3>2
  <2>3. QED
    BY <2>1, <2>2
<1>6. /\ CallOK(c, asked[r], version) /\ c.key = top.key /\ c.at = "free"
      /\ \A i \in 1..Len(calls[r]) - 1 : calls[r][i].fp <= c.fp
  <2>1. "free" \in CallPhases \ {"fp"}
    BY DEF CallPhases
  <2>2. P!Calling(r) /\ P!Top(r).at # "fp"
    BY <1>1
  <2> HIDE DEF c
  <2>3. /\ c \in CallStates /\ c.key = top.key /\ c.at = "free" /\ c.fp = top.fp
        /\ c.val = top.val /\ c.next = top.next
    <3>1. /\ c.key = top.key /\ c.at = "free" /\ c.fp = top.fp
          /\ c.val = top.val /\ c.next = top.next
      BY <1>3
    <3>2. c \in CallStates
      <4> HIDE DEF top
      <4> QED
        BY <1>2, <1>4, <2>1, <1>3 DEF CallStates
    <3>3. QED
      BY <3>1, <3>2
  <2>4. QED
    BY <1>4, <1>5, <2>1, <2>2, <2>3, CallGoesOn
<1>7. /\ cache' \in [Keys -> Entries] /\ turn' \in [Requests -> Nat]
      /\ \A k \in Keys : EntryOK(cache'[k], version)
  <2>1. P!Captured(r) \in SUBSET Nat
    BY DEF PayloadInv, P!Captured
  <2> HIDE DEF top
  <2>2. e \in Entries
    BY <1>4, <2>1 DEF Entries
  <2>3. e.fp = top.fp /\ e.val = top.val
    OBVIOUS
  <2> HIDE DEF e
  <2>4. EntryOK(e, version)
    BY <1>4, <1>5, <2>2, <2>3 DEF EntryOK
  <2>5. /\ cache \in [Keys -> Entries] /\ turn \in [Requests -> Nat]
        /\ \A k \in Keys : EntryOK(cache[k], version)
    BY DEF PayloadInv
  <2>6. cache' = [cache EXCEPT ![top.key] = e] /\ top.key \in Keys /\ turn' = turn
    BY <1>1, <1>4
  <2>7. cache' \in [Keys -> Entries]
    BY <2>2, <2>5, <2>6
  <2>8. \A k \in Keys : cache'[k] = cache[k] \/ cache'[k] = e
    BY <2>5, <2>6
  <2>9. QED
    BY <2>4, <2>5, <2>6, <2>7, <2>8
<1>8. Leads(r, Len(calls[r]), top.key)
  BY <1>1, <1>2 DEF Leads, LoadPhases
<1> HIDE DEF c, e
<1>9. /\ \A q \in Requests, i \in Nat, k \in Keys : Leads(q, i, k)' => Leads(q, i, k)
      /\ OneLoads' => PayloadInv'
  BY <1>1, <1>6, <1>7, <1>8, TopMoves
<1>10. QED
  BY <1>1, <1>9, LoadsKept

LEMMA NestedKeeps ==
  ASSUME PayloadInv, NEW r \in Requests, P!Nested(r)
  PROVE  PayloadInv'
<1> DEFINE top == P!Top(r)
           k == Needs[top.key][top.next]
           s == Append(calls[r], P!Call(k))
<1>1. /\ P!Calling(r) /\ top.at = "call" /\ top.next <= Len(Needs[top.key])
      /\ calls' = [calls EXCEPT ![r] = s]
      /\ version' = version /\ cache' = cache /\ loading' = loading
      /\ asked' = asked /\ turn' = turn /\ answer' = answer
  BY DEF P!Nested
<1>2. /\ top \in CallStates /\ CallOK(top, asked[r], version) /\ version \in Nat
      /\ calls[r] \in Seq(CallStates) /\ StackOK(calls[r], asked[r], version)
      /\ asked[r] \in Nat /\ asked[r] # 0 /\ calls[r] # <<>>
  BY <1>1, TopFacts
<1>3. k \in Keys
  <2>1. top.key \in Keys /\ top.next \in Nat /\ top.next > 0
    BY <1>2 DEF CallOK, CallStates
  <2>2. PICK n : n = Needs[top.key]
    OBVIOUS
  <2>3. n \in Seq(Keys)
    BY <2>1, <2>2, LoadsAssumption DEF P!LoadersAreAcyclic
  <2>4. Len(n) \in Nat /\ top.next \in 1..Len(n)
    BY <1>1, <2>1, <2>2, <2>3, LenProperties
  <2>5. QED
    BY <2>2, <2>3, <2>4, ElementOfSeq
<1> HIDE DEF k
<1>4. P!Call(k) = [key |-> k, at |-> "fp", fp |-> 0, val |-> {}, next |-> 1]
  BY DEF P!Call
<1>5. CallOK(P!Call(k), asked[r], version) /\ P!Call(k).at = "fp" /\ P!Call(k) \in CallStates
  BY <1>2, <1>3, <1>4 DEF CallOK, CallStates, CallPhases
<1>6. P!Last(calls[r]).at = "call"
  BY <1>1 DEF P!Top
<1>7. PICK c : c = P!Call(k)
  OBVIOUS
<1>8. PICK q : q = calls[r]
  OBVIOUS
<1>9. StackOK(s, asked[r], version)
  <2>1. StackOK(Append(q, c), asked[r], version)
    BY <1>2, <1>5, <1>6, <1>7, <1>8, StackPushed
  <2>2. QED
    BY <1>7, <1>8, <2>1
<1>10. /\ Len(s) = Len(calls[r]) + 1 /\ s[Len(calls[r]) + 1].at = "fp"
       /\ \A i \in 1..Len(calls[r]) : s[i] = calls[r][i]
       /\ Len(calls[r]) \in Nat
  <2>1. /\ Len(Append(q, c)) = Len(q) + 1 /\ Append(q, c)[Len(q) + 1] = c
        /\ \A i \in 1..Len(q) : Append(q, c)[i] = q[i] /\ Len(q) \in Nat
    BY <1>2, <1>5, <1>7, <1>8, AppendProperties, LenProperties
  <2>2. QED
    BY <1>2, <1>5, <1>7, <1>8, <2>1, LenProperties
<1> HIDE DEF s
<1>11. ASSUME NEW w \in Requests, NEW i \in Nat, NEW l \in Keys, Leads(w, i, l)'
       PROVE  Leads(w, i, l)
  <2>1. CASE w # r
    BY <1>1, <1>11, <2>1 DEF Leads, PayloadInv
  <2>2. CASE w = r
    <3>1. calls'[r] = s
      BY <1>1 DEF PayloadInv
    <3>2. i \in 1..Len(calls[r]) + 1 /\ s[i].key = l /\ s[i].at \in LoadPhases
      BY <1>10, <1>11, <2>2, <3>1 DEF Leads
    <3>3. i # Len(calls[r]) + 1
      BY <1>10, <3>2 DEF LoadPhases
    <3>4. i \in 1..Len(calls[r])
      BY <1>10, <3>2, <3>3
    <3>5. QED
      BY <1>10, <2>2, <3>2, <3>4 DEF Leads
  <2>3. QED
    BY <2>1, <2>2
<1>12. OneLoads'
  BY <1>1, <1>11, LoadsKept
<1>13. /\ cache' \in [Keys -> Entries] /\ turn' \in [Requests -> Nat]
       /\ \A l \in Keys : EntryOK(cache'[l], version)
  BY <1>1 DEF PayloadInv
<1>14. {} \in SUBSET Nat /\ \A v \in {} : v # 0 => v >= asked[r]
  OBVIOUS
<1>15. QED
  BY <1>1, <1>2, <1>9, <1>12, <1>13, <1>14, OneRequestMoves

(* What a request has with what it gets of the outermost call of its own.   *)
LEMMA AnswerIsFresh ==
  ASSUME PayloadInv, NEW r \in Requests, P!Calling(r), P!Top(r).at # "fp",
         NEW val, Returned(val, P!Top(r), version)
  PROVE  /\ answer[r] \union val \in SUBSET Nat
         /\ \A v \in answer[r] \union val : v # 0 => v >= asked[r]
<1>1. CallOK(P!Top(r), asked[r], version) /\ asked[r] \in Nat /\ P!Top(r) \in CallStates
  BY TopFacts
<1>2. asked[r] <= P!Top(r).fp /\ P!Top(r).fp \in Nat
  BY <1>1 DEF CallOK, CallStates
<1>3. val \in SUBSET Nat /\ \A v \in val : v # 0 => v >= asked[r]
  <2>1. CASE val = P!Error
    BY <2>1 DEF P!Error
  <2>2. CASE val # P!Error
    <3>1. val \subseteq Nat /\ \A v \in val : P!Top(r).fp <= v
      BY <2>2 DEF Returned
    <3>2. QED
      BY <1>1, <1>2, <3>1
  <2>3. QED
    BY <2>1, <2>2
<1>4. answer[r] \in SUBSET Nat /\ \A v \in answer[r] : v # 0 => v >= asked[r]
  BY DEF PayloadInv, RequestOK
<1>5. QED
  BY <1>3, <1>4

LEMMA HitKeeps ==
  ASSUME PayloadInv, NEW r \in Requests, P!Hit(r)
  PROVE  PayloadInv'
<1> DEFINE top == P!Top(r)
           val == cache[top.key].val
           got == answer[r] \union val
           t == P!Resume(P!Front(calls[r]), val)
<1>1. /\ P!Calling(r) /\ top.at = "look" /\ cache[top.key].fp = top.fp
      /\ calls' = [calls EXCEPT ![r] = t]
      /\ answer' \in {answer, [answer EXCEPT ![r] = got]}
      /\ version' = version /\ cache' = cache /\ loading' = loading
      /\ asked' = asked /\ turn' = turn
  BY DEF P!Hit, P!Return, P!Answered
<1>2. /\ top \in CallStates /\ CallOK(top, asked[r], version) /\ version \in Nat
      /\ calls[r] \in Seq(CallStates) /\ StackOK(calls[r], asked[r], version)
      /\ asked[r] \in Nat /\ asked[r] # 0 /\ calls[r] # <<>>
      /\ Len(calls[r]) \in Nat
  BY <1>1, TopFacts
<1>3. Returned(val, top, version)
  <2>1. top.key \in Keys /\ top.fp > 0 /\ top.fp \in Nat
    BY <1>1, <1>2 DEF CallOK, CallStates
  <2>2. EntryOK(cache[top.key], version)
    BY <2>1 DEF PayloadInv
  <2>3. val # {} /\ val \subseteq Nat /\ \A v \in val : top.fp <= v /\ v <= version
    BY <1>1, <2>1, <2>2 DEF EntryOK, Entries
  <2>4. QED
    BY <2>1, <2>3 DEF Returned
<1> HIDE DEF val
<1>4. /\ StackOK(t, asked[r], version) /\ Len(t) = Len(calls[r]) - 1
      /\ \A i \in 1..Len(t) : i \in 1..Len(calls[r]) /\ t[i].key = calls[r][i].key
                               /\ calls[r][i].at = "call"
  <2>1. P!Last(calls[r]) = top
    BY DEF P!Top
  <2>2. QED
    BY <1>1, <1>2, <1>3, <2>1, Resumed
<1> HIDE DEF t
<1>5. ASSUME NEW w \in Requests, NEW i \in Nat, NEW l \in Keys, Leads(w, i, l)'
      PROVE  Leads(w, i, l)
  <2>1. CASE w # r
    BY <1>1, <1>5, <2>1 DEF Leads, PayloadInv
  <2>2. CASE w = r
    <3>1. calls'[r] = t
      BY <1>1 DEF PayloadInv
    <3>2. QED
      BY <1>4, <1>5, <2>2, <3>1 DEF Leads, LoadPhases
  <2>3. QED
    BY <2>1, <2>2
<1>6. OneLoads'
  BY <1>1, <1>5, LoadsKept
<1>7. /\ cache' \in [Keys -> Entries] /\ turn' \in [Requests -> Nat]
      /\ \A l \in Keys : EntryOK(cache'[l], version)
  BY <1>1 DEF PayloadInv
<1>8. got \in SUBSET Nat /\ \A v \in got : v # 0 => v >= asked[r]
  BY <1>1, <1>3, AnswerIsFresh
<1> HIDE DEF got
<1>9. QED
  BY <1>1, <1>2, <1>4, <1>6, <1>7, <1>8, OneRequestMoves

(* Who waits for the event of a load looks again; nobody else moves.        *)
LEMMA WokenFacts ==
  ASSUME PayloadInv, NEW q \in Requests, NEW key, NEW val
  PROVE  /\ StackOK(P!Woken(q, key, val), asked[q], version)
         /\ Len(P!Woken(q, key, val)) = Len(calls[q])
         /\ \A i \in 1..Len(calls[q]) :
              P!Woken(q, key, val)[i].at \in LoadPhases =>
                P!Woken(q, key, val)[i] = calls[q][i]
<1> DEFINE s == calls[q]
           wait == P!Calling(q) /\ P!Top(q).at = "wait" /\ P!Top(q).key = key
           c == [P!Top(q) EXCEPT !.at = "look"]
<1>1. StackOK(s, asked[q], version)
  BY DEF PayloadInv, RequestOK
<1>2. CASE ~wait
  <2>1. P!Woken(q, key, val) = s
    BY <1>2 DEF P!Woken
  <2>2. QED
    BY <1>1, <2>1
<1>3. CASE wait
  <2>1. P!Woken(q, key, val) = P!Front(s) \o <<c>>
    BY <1>3 DEF P!Woken
  <2>2. /\ P!Top(q) \in CallStates /\ CallOK(P!Top(q), asked[q], version)
        /\ s # <<>> /\ s \in Seq(CallStates) /\ Len(s) \in Nat
        /\ asked[q] \in Nat /\ version \in Nat
    BY <1>3, TopFacts
  <2>3. c = [key |-> P!Top(q).key, at |-> "look", fp |-> P!Top(q).fp,
             val |-> P!Top(q).val, next |-> P!Top(q).next]
    BY <2>2, CallRead
  <2>4. P!Top(q).val = {} /\ P!Top(q).next = 1
    BY <1>3, <2>2 DEF CallOK
  <2>5. /\ "look" \in CallPhases \ {"fp"} /\ P!Top(q).val \in SUBSET Nat
        /\ \A v \in P!Top(q).val : P!Top(q).fp <= v /\ v <= version
    BY <2>4 DEF CallPhases
  <2>6. P!Calling(q) /\ P!Top(q).at # "fp"
    BY <1>3
  <2> HIDE DEF c
  <2>7. /\ CallOK(c, asked[q], version) /\ c.at = "look"
        /\ \A i \in 1..Len(s) - 1 : s[i].fp <= c.fp
    <3>1. /\ c \in CallStates /\ c.key = P!Top(q).key /\ c.at = "look"
          /\ c.fp = P!Top(q).fp /\ c.val = P!Top(q).val /\ c.next = P!Top(q).next
      <4>1. /\ c.key = P!Top(q).key /\ c.at = "look" /\ c.fp = P!Top(q).fp
            /\ c.val = P!Top(q).val /\ c.next = P!Top(q).next
        BY <2>3
      <4>2. c \in CallStates
        BY <2>2, <2>5, <2>3 DEF CallStates
      <4>3. QED
        BY <4>1, <4>2
    <3>2. QED
      BY <2>4, <2>5, <2>6, <3>1, CallGoesOn
  <2>8. StackOK(P!Front(s) \o <<c>>, asked[q], version)
    BY <1>1, <2>2, <2>7, StackReplaced
  <2>9. /\ Len(P!Front(s) \o <<c>>) = Len(s) /\ (P!Front(s) \o <<c>>)[Len(s)] = c
        /\ \A i \in 1..Len(s) - 1 : (P!Front(s) \o <<c>>)[i] = s[i]
    <3>1. c \in CallStates
      BY <2>7 DEF CallOK
    <3>2. PICK z : z = s
      OBVIOUS
    <3>3. z \in Seq(CallStates) /\ z # <<>>
      BY <2>2, <3>2
    <3>4. /\ Len(P!Front(z) \o <<c>>) = Len(z) /\ (P!Front(z) \o <<c>>)[Len(z)] = c
          /\ \A i \in 1..Len(z) - 1 : (P!Front(z) \o <<c>>)[i] = z[i]
      BY <3>1, <3>3, ReplaceFacts
    <3>5. QED
      BY <3>2, <3>4
  <2>10. \A i \in 1..Len(s) : i = Len(s) \/ i \in 1..Len(s) - 1
    BY <2>2
  <2>11. "look" \notin LoadPhases
    BY DEF LoadPhases
  <2> HIDE DEF s
  <2>12. QED
    BY <2>1, <2>7, <2>8, <2>9, <2>10, <2>11 DEF s
<1>4. QED
  BY <1>2, <1>3

LEMMA FreeKeeps ==
  ASSUME PayloadInv, NEW r \in Requests, P!Free(r)
  PROVE  PayloadInv'
<1> DEFINE top == P!Top(r)
           val == IF top.at = "free" THEN top.val ELSE P!Error
           got == answer[r] \union val
           t == P!Resume(P!Front(calls[r]), val)
<1>1. /\ P!Calling(r) /\ top.at \in {"free", "raised"}
      /\ calls' = [w \in Requests |-> IF w = r THEN t ELSE P!Woken(w, top.key, val)]
      /\ answer' \in {answer, [answer EXCEPT ![r] = got]}
      /\ version' = version /\ cache' = cache /\ loading' = loading \ {top.key}
      /\ asked' = asked /\ turn' = turn
  BY DEF P!Free, P!Answered
<1>2. /\ top \in CallStates /\ CallOK(top, asked[r], version) /\ version \in Nat
      /\ calls[r] \in Seq(CallStates) /\ StackOK(calls[r], asked[r], version)
      /\ asked[r] \in Nat /\ asked[r] # 0 /\ calls[r] # <<>>
      /\ Len(calls[r]) \in Nat /\ Len(calls[r]) > 0 /\ top = calls[r][Len(calls[r])]
  BY <1>1, TopFacts
<1>3. Returned(val, top, version)
  <2>1. CASE top.at = "free"
    <3>1. val # {} /\ val \subseteq Nat /\ top.fp > 0 /\ top.fp \in Nat
      BY <1>2, <2>1 DEF CallOK, CallStates
    <3>2. \A v \in val : top.fp <= v /\ v <= version
      BY <1>2, <2>1 DEF CallOK
    <3>3. QED
      BY <3>1, <3>2 DEF Returned
  <2>2. CASE top.at # "free"
    BY <2>2 DEF Returned
  <2>3. QED
    BY <2>1, <2>2
<1> HIDE DEF val
<1>4. /\ StackOK(t, asked[r], version) /\ Len(t) = Len(calls[r]) - 1
      /\ \A i \in 1..Len(t) : i \in 1..Len(calls[r]) /\ t[i].key = calls[r][i].key
                               /\ calls[r][i].at = "call"
  <2>1. P!Last(calls[r]) = top
    BY DEF P!Top
  <2>2. QED
    BY <1>1, <1>2, <1>3, <2>1, Resumed
<1> HIDE DEF t
<1>5. /\ calls'[r] = t
      /\ \A w \in Requests : w # r => calls'[w] = P!Woken(w, top.key, val)
  BY <1>1
<1>6. \A w \in Requests : StackOK(calls'[w], asked[w], version)
  BY <1>4, <1>5, WokenFacts
<1>7. calls' \in [Requests -> Seq(CallStates)]
  <2>1. \A w \in Requests : calls'[w] \in Seq(CallStates)
    BY <1>6 DEF StackOK
  <2>2. QED
    BY <1>1, <2>1
<1>8. got \in SUBSET Nat /\ \A v \in got : v # 0 => v >= asked[r]
  BY <1>1, <1>3, AnswerIsFresh
<1> HIDE DEF got
<1>9. /\ answer' \in [Requests -> SUBSET Nat]
      /\ \A w \in Requests : w # r => answer'[w] = answer[w]
      /\ answer'[r] \in {answer[r], got}
  <2>1. CASE answer' = answer
    BY <2>1 DEF PayloadInv
  <2>2. CASE answer' = [answer EXCEPT ![r] = got]
    BY <1>8, <2>2 DEF PayloadInv
  <2>3. QED
    BY <1>1, <2>1, <2>2
<1>10. RequestOK(r)'
  BY <1>1, <1>2, <1>6, <1>8, <1>9 DEF PayloadInv, RequestOK
<1>11. ASSUME NEW w \in Requests, w # r PROVE RequestOK(w)'
  <2>1. RequestOK(w) /\ answer'[w] = answer[w] /\ asked'[w] = asked[w] /\ version' = version
    BY <1>1, <1>9, <1>11 DEF PayloadInv
  <2>2. asked[w] = 0 => calls'[w] = <<>>
    <3>1. ASSUME asked[w] = 0 PROVE P!Woken(w, top.key, val) = <<>>
      BY <2>1, <3>1 DEF RequestOK, P!Woken, P!Calling
    <3>2. QED
      BY <1>5, <1>11, <3>1
  <2>3. StackOK(calls'[w], asked[w], version)
    BY <1>6
  <2>4. QED
    BY <2>1, <2>2, <2>3 DEF RequestOK
<1>12. Leads(r, Len(calls[r]), top.key) /\ top.key \in Keys
  BY <1>1, <1>2 DEF Leads, LoadPhases, CallStates
<1>13. ASSUME NEW w \in Requests, NEW i \in Nat, NEW l \in Keys, Leads(w, i, l)'
       PROVE  Leads(w, i, l) /\ l # top.key
  <2>1. Leads(w, i, l) /\ (w = r => i # Len(calls[r]))
    <3>1. CASE w = r
      BY <1>2, <1>4, <1>5, <1>13, <3>1 DEF Leads, LoadPhases
    <3>2. CASE w # r
      <4>1. PICK s : s = P!Woken(w, top.key, val)
        OBVIOUS
      <4>2. calls'[w] = s
        BY <1>5, <3>2, <4>1
      <4>3. /\ Len(s) = Len(calls[w])
            /\ \A j \in 1..Len(calls[w]) : s[j].at \in LoadPhases => s[j] = calls[w][j]
        BY <4>1, WokenFacts
      <4>4. QED
        BY <1>13, <3>2, <4>2, <4>3 DEF Leads
    <3>3. QED
      BY <3>1, <3>2
  <2>2. QED
    BY <1>2, <1>12, <2>1 DEF PayloadInv, OneLoads
<1>14. OneLoads'
  <2>1. /\ loading \subseteq Keys
        /\ \A q \in Requests, i \in Nat, k \in Keys : Leads(q, i, k) => k \in loading
        /\ \A q, s \in Requests, i, j \in Nat, k \in Keys :
             Leads(q, i, k) /\ Leads(s, j, k) => q = s /\ i = j
    BY DEF PayloadInv, OneLoads
  <2>2. \A q \in Requests, i \in Nat, k \in Keys : Leads(q, i, k)' => k \in loading'
    BY <1>1, <1>13, <2>1
  <2>3. \A q, s \in Requests, i, j \in Nat, k \in Keys :
             Leads(q, i, k)' /\ Leads(s, j, k)' => q = s /\ i = j
    BY <1>13, <2>1
  <2>4. loading' \subseteq Keys
    BY <1>1, <2>1
  <2>5. QED
    BY <2>2, <2>3, <2>4 DEF OneLoads
<1>15. /\ version' \in Nat /\ version' > 0 /\ asked' \in [Requests -> Nat]
       /\ cache' \in [Keys -> Entries] /\ turn' \in [Requests -> Nat]
       /\ \A k \in Keys : EntryOK(cache'[k], version')
  BY <1>1 DEF PayloadInv
<1>16. QED
  BY <1>7, <1>9, <1>10, <1>11, <1>14, <1>15 DEF PayloadInv

LEMMA AskKeeps ==
  ASSUME PayloadInv, NEW r \in Requests, P!Ask(r)
  PROVE  PayloadInv'
<1> DEFINE c == P!Call(Wanted[r][1])
<1>1. /\ asked[r] = 0 /\ asked' = [asked EXCEPT ![r] = version]
      /\ calls' = [calls EXCEPT ![r] = <<c>>]
      /\ turn' = [turn EXCEPT ![r] = 1]
      /\ version' = version /\ cache' = cache /\ loading' = loading /\ answer' = answer
  BY DEF P!Ask
<1>2. c = [key |-> Wanted[r][1], at |-> "fp", fp |-> 0, val |-> {}, next |-> 1]
  BY DEF P!Call
<1>3. Wanted[r][1] \in Keys
  <2>1. Wanted[r] \in Seq(Keys) /\ Wanted[r] # <<>>
    BY LoadsAssumption DEF P!LoadersAreAcyclic
  <2>2. 1 \in 1..Len(Wanted[r])
    BY <2>1, FrontFacts
  <2>3. QED
    BY <2>1, <2>2, ElementOfSeq
<1>4. version \in Nat /\ version > 0 /\ RequestOK(r)
  BY DEF PayloadInv
<1>5. CallOK(c, version, version) /\ c \in CallStates /\ c.at = "fp"
  BY <1>2, <1>3, <1>4 DEF CallOK, CallStates, CallPhases
<1> HIDE DEF c
<1>6. StackOK(<<c>>, version, version)
  <2>1. <<c>> \in Seq(CallStates) /\ Len(<<c>>) = 1 /\ <<c>>[1] = c
    BY <1>5
  <2>2. QED
    BY <1>5, <2>1 DEF StackOK
<1>7. /\ calls' \in [Requests -> Seq(CallStates)] /\ calls'[r] = <<c>>
      /\ \A q \in Requests : q # r => calls'[q] = calls[q]
  BY <1>1, <1>6 DEF PayloadInv, StackOK
<1>8. /\ asked' \in [Requests -> Nat] /\ asked'[r] = version
      /\ \A q \in Requests : q # r => asked'[q] = asked[q]
  BY <1>1, <1>4 DEF PayloadInv
<1>9. RequestOK(r)'
  <2>1. answer[r] = {}
    BY <1>1, <1>4 DEF RequestOK
  <2>2. QED
    BY <1>1, <1>4, <1>6, <1>7, <1>8, <2>1 DEF RequestOK
<1>10. \A q \in Requests : q # r => RequestOK(q)'
  BY <1>1, <1>7, <1>8 DEF PayloadInv, RequestOK
<1>11. ASSUME NEW w \in Requests, NEW i \in Nat, NEW l \in Keys, Leads(w, i, l)'
       PROVE  Leads(w, i, l)
  <2>1. w # r
    <3>1. ASSUME w = r PROVE FALSE
      <4>1. i = 1 /\ <<c>>[i].at \in LoadPhases
        BY <1>7, <1>11, <3>1 DEF Leads
      <4>2. QED
        BY <1>5, <4>1 DEF LoadPhases
    <3>2. QED
      BY <3>1
  <2>2. QED
    BY <1>7, <1>11, <2>1 DEF Leads
<1>12. OneLoads'
  BY <1>1, <1>11, LoadsKept
<1>13. cache' \in [Keys -> Entries] /\ turn' \in [Requests -> Nat]
  BY <1>1 DEF PayloadInv
<1>14. QED
  BY <1>1, <1>7, <1>8, <1>9, <1>10, <1>12, <1>13 DEF PayloadInv

(* The next payload of a query that has the answers for those before it.    *)
LEMMA GoOnKeeps ==
  ASSUME PayloadInv, NEW r \in Requests, P!GoOn(r)
  PROVE  PayloadInv'
<1> DEFINE key == Wanted[r][turn[r] + 1]
           c == P!Call(key)
<1>1. /\ calls[r] = <<>> /\ asked[r] # 0 /\ turn[r] \in 1..Len(Wanted[r]) - 1
      /\ calls' = [calls EXCEPT ![r] = <<c>>]
      /\ turn' = [turn EXCEPT ![r] = turn[r] + 1]
      /\ version' = version /\ cache' = cache /\ loading' = loading
      /\ asked' = asked /\ answer' = answer
  BY DEF P!GoOn, P!Between, P!Calling
<1>2. c = [key |-> key, at |-> "fp", fp |-> 0, val |-> {}, next |-> 1]
  BY DEF P!Call
<1>3. key \in Keys
  <2>1. Wanted[r] \in Seq(Keys) /\ Wanted[r] # <<>>
    BY LoadsAssumption DEF P!LoadersAreAcyclic
  <2>2. Len(Wanted[r]) \in Nat /\ turn[r] \in Nat
    BY <2>1, FrontFacts DEF PayloadInv
  <2>3. turn[r] + 1 \in 1..Len(Wanted[r])
    BY <1>1, <2>2
  <2>4. QED
    BY <2>1, <2>3, ElementOfSeq
<1> HIDE DEF key
<1>4. version \in Nat /\ asked[r] \in Nat
  BY DEF PayloadInv
<1>5. CallOK(c, asked[r], version) /\ c \in CallStates /\ c.at = "fp"
  BY <1>2, <1>3, <1>4 DEF CallOK, CallStates, CallPhases
<1> HIDE DEF c
<1>6. StackOK(<<c>>, asked[r], version)
  <2>1. <<c>> \in Seq(CallStates) /\ Len(<<c>>) = 1 /\ <<c>>[1] = c
    BY <1>5
  <2>2. QED
    BY <1>5, <2>1 DEF StackOK
<1>7. calls'[r] = <<c>> /\ \A q \in Requests : q # r => calls'[q] = calls[q]
  BY <1>1 DEF PayloadInv
<1>8. ASSUME NEW w \in Requests, NEW i \in Nat, NEW l \in Keys, Leads(w, i, l)'
      PROVE  Leads(w, i, l)
  <2>1. w # r
    <3>1. ASSUME w = r PROVE FALSE
      <4>1. i = 1 /\ <<c>>[i].at \in LoadPhases
        BY <1>7, <1>8, <3>1 DEF Leads
      <4>2. QED
        BY <1>5, <4>1 DEF LoadPhases
    <3>2. QED
      BY <3>1
  <2>2. QED
    BY <1>7, <1>8, <2>1 DEF Leads
<1>9. OneLoads'
  BY <1>1, <1>8, LoadsKept
<1>10. /\ cache' \in [Keys -> Entries] /\ turn' \in [Requests -> Nat]
       /\ \A k \in Keys : EntryOK(cache'[k], version)
  BY <1>1 DEF PayloadInv
<1>11. {} \in SUBSET Nat /\ \A v \in {} : v # 0 => v >= asked[r]
  OBVIOUS
<1>12. QED
  BY <1>1, <1>6, <1>9, <1>10, <1>11, OneRequestMoves

LEMMA NotAnalyzedKeeps ==
  ASSUME PayloadInv, NEW r \in Requests, P!NotAnalyzed(r)
  PROVE  PayloadInv'
<1>1. /\ turn' = [turn EXCEPT ![r] = Len(Wanted[r])]
      /\ version' = version /\ cache' = cache /\ loading' = loading
      /\ calls' = calls /\ asked' = asked /\ answer' = answer
  BY DEF P!NotAnalyzed
<1>2. Len(Wanted[r]) \in Nat
  BY LoadsAssumption, FrontFacts DEF P!LoadersAreAcyclic
<1>3. turn' \in [Requests -> Nat]
  BY <1>1, <1>2 DEF PayloadInv
<1>4. (\A q \in Requests : RequestOK(q)') /\ OneLoads'
  BY <1>1 DEF PayloadInv, RequestOK, OneLoads, Leads
<1>5. QED
  BY <1>1, <1>3, <1>4 DEF PayloadInv

(* The database moves on; what was in hand of it is no newer than it is.    *)
LEMMA CommitKeeps ==
  ASSUME PayloadInv, P!Commit
  PROVE  PayloadInv'
<1>1. /\ version' = version + 1 /\ cache' = cache /\ loading' = loading
      /\ calls' = calls /\ asked' = asked /\ turn' = turn /\ answer' = answer
  BY DEF P!Commit
<1>2. version \in Nat /\ version' \in Nat
  BY <1>1 DEF PayloadInv
<1>3. ASSUME NEW k \in Keys PROVE EntryOK(cache[k], version')
  BY <1>1, <1>2 DEF PayloadInv, EntryOK, Entries
<1>4. ASSUME NEW c, NEW since \in Nat, CallOK(c, since, version)
      PROVE  CallOK(c, since, version')
  BY <1>1, <1>2, <1>4 DEF CallOK, CallStates
<1>5. ASSUME NEW r \in Requests PROVE RequestOK(r)'
  <2>1. RequestOK(r) /\ asked[r] \in Nat
    BY DEF PayloadInv
  <2>2. StackOK(calls[r], asked[r], version')
    BY <1>4, <2>1 DEF RequestOK, StackOK
  <2>3. QED
    BY <1>1, <1>2, <2>1, <2>2 DEF RequestOK
<1>6. OneLoads'
  BY <1>1 DEF PayloadInv, OneLoads, Leads
<1>7. QED
  BY <1>1, <1>2, <1>3, <1>5, <1>6 DEF PayloadInv

LEMMA InvalidateKeeps ==
  ASSUME PayloadInv, P!Invalidate
  PROVE  PayloadInv'
<1>1. /\ version' = version /\ cache' = [k \in Keys |-> P!None] /\ loading' = loading
      /\ calls' = calls /\ asked' = asked /\ turn' = turn /\ answer' = answer
  BY DEF P!Invalidate
<1>2. \A k \in Keys : EntryOK(cache'[k], version)
  BY <1>1 DEF PayloadInv, EntryOK, P!None, Entries
<1>3. cache' \in [Keys -> Entries] /\ turn' \in [Requests -> Nat]
  BY <1>1 DEF PayloadInv, P!None, Entries
<1>4. \A r \in Requests : RequestOK(r)'
  BY <1>1 DEF PayloadInv, RequestOK
<1>5. OneLoads'
  BY <1>1 DEF PayloadInv, OneLoads, Leads
<1>6. QED
  BY <1>1, <1>2, <1>3, <1>4, <1>5 DEF PayloadInv

LEMMA PayloadInvariant ==
  /\ P!Idle => PayloadInv
  /\ PayloadInv /\ [P!Next]_(P!vars) => PayloadInv'
<1>1. ASSUME P!Idle PROVE PayloadInv
  <2>1. /\ version = 1 /\ cache = [k \in Keys |-> P!None] /\ loading = {}
        /\ calls = [r \in Requests |-> <<>>]
        /\ asked = [r \in Requests |-> 0] /\ turn = [r \in Requests |-> 0]
        /\ answer = [r \in Requests |-> {}]
    BY <1>1 DEF P!Idle
  <2>2. <<>> \in Seq(CallStates) /\ Len(<<>>) = 0
    OBVIOUS
  <2>3. StackOK(<<>>, 0, 1)
    BY <2>2 DEF StackOK
  <2>4. \A r \in Requests : RequestOK(r)
    BY <2>1, <2>3 DEF RequestOK
  <2>5. OneLoads
    BY <2>1, <2>2 DEF OneLoads, Leads
  <2>6. \A k \in Keys : EntryOK(cache[k], version)
    BY <2>1 DEF EntryOK, P!None, Entries
  <2>7. cache \in [Keys -> Entries]
    BY <2>1 DEF P!None, Entries
  <2>8. QED
    BY <2>1, <2>2, <2>4, <2>5, <2>6, <2>7 DEF PayloadInv
<1>2. ASSUME PayloadInv, P!Next PROVE PayloadInv'
  <2>1. CASE P!Commit
    BY <1>2, <2>1, CommitKeeps
  <2>2. CASE P!Invalidate
    BY <1>2, <2>2, InvalidateKeeps
  <2>3. ASSUME NEW r \in Requests, P!Ask(r) \/ P!Step(r) PROVE PayloadInv'
    BY <1>2, <2>3, AskKeeps, FingerprintKeeps, HitKeeps, LeadKeeps, FollowKeeps,
       ReadDbKeeps, NestedKeeps, StoreKeeps, FreeKeeps, GoOnKeeps, NotAnalyzedKeeps DEF P!Step
  <2>4. QED
    BY <1>2, <2>1, <2>2, <2>3 DEF P!Next
<1>3. ASSUME PayloadInv, UNCHANGED P!vars PROVE PayloadInv'
  BY <1>3 DEF P!vars, PayloadInv, RequestOK, OneLoads, Leads
<1>4. QED
  BY <1>1, <1>2, <1>3

(* No request is answered with anything older than what was committed when *)
(* it came in, nothing stale lies under the fingerprint of today, and no    *)
(* key is loaded twice at a time: whoever leads, waits, raises or clears    *)
(* the cache, and whatever is committed between two parts of a payload.     *)
THEOREM NothingStale == Spec => []ServedIsCurrent
<1>1. PayloadInv => ServedIsCurrent
  <2> SUFFICES ASSUME PayloadInv PROVE ServedIsCurrent
    OBVIOUS
  <2>1. \A r \in Requests : \A v \in answer[r] : v # 0 => v >= asked[r]
    BY DEF PayloadInv, RequestOK
  <2>2. ASSUME NEW k \in Keys, cache[k].fp = version PROVE cache[k].val = {version}
    <3>1. EntryOK(cache[k], version) /\ version \in Nat /\ version > 0
      BY DEF PayloadInv
    <3>2. cache[k].val # {} /\ \A v \in cache[k].val : v = version
      BY <2>2, <3>1 DEF EntryOK, Entries
    <3>3. QED
      BY <3>2
  <2>3. ASSUME NEW k \in Keys
        PROVE  Cardinality({r \in Requests : P!Loads(r, k)}) <= 1
    <3>1. ASSUME NEW r \in Requests, P!Loads(r, k) PROVE \E i \in Nat : Leads(r, i, k)
      <4>1. calls[r] \in Seq(CallStates)
        BY DEF PayloadInv
      <4>2. DOMAIN calls[r] = 1..Len(calls[r]) /\ Len(calls[r]) \in Nat
        BY <4>1, LenProperties
      <4>3. QED
        BY <3>1, <4>2 DEF P!Loads, Leads, LoadPhases
    <3>2. \A r, s \in Requests : P!Loads(r, k) /\ P!Loads(s, k) => r = s
      BY <3>1 DEF PayloadInv, OneLoads
    <3>3. CASE \A r \in Requests : ~P!Loads(r, k)
      <4>1. {r \in Requests : P!Loads(r, k)} = {}
        BY <3>3
      <4>2. QED
        BY <4>1, FS_EmptySet
    <3>4. CASE \E r \in Requests : P!Loads(r, k)
      <4>1. PICK r \in Requests : P!Loads(r, k)
        BY <3>4
      <4>2. {s \in Requests : P!Loads(s, k)} = {r}
        BY <3>2, <4>1
      <4>3. Cardinality({r}) = 1
        BY FS_Singleton
      <4>4. QED
        BY <4>2, <4>3
    <3>5. QED
      BY <3>3, <3>4
  <2>4. QED
    BY <2>1, <2>2, <2>3 DEF ServedIsCurrent, P!ServedIsCurrent, P!Cardinality, Cardinality
<1>2. Init => P!Idle
  BY DEF Init
<1>3. QED
  BY <1>1, <1>2, PayloadInvariant, StepsOfComponents, PTL DEF Spec, Safety
-----------------------------------------------------------------------------
(* Reachability.  A set of numbers that holds 0 and the successor of each   *)
(* of its members holds every number: the least one missing has no place.   *)
LEMMA SetInduction ==
  ASSUME NEW I \in SUBSET Nat, 0 \in I, \A n \in I : n + 1 \in I
  PROVE  I = Nat
<1> DEFINE R == {p \in Nat \X Nat : p[1] < p[2]}
           Out == Nat \ I
<1>1. IsWellFoundedOn(R, Nat)
  <2>1. OpToRel(<, Nat) = R
    BY DEF OpToRel
  <2>2. QED
    BY <2>1, NatLessThanWellFounded
<1>2. ASSUME Out # {} PROVE FALSE
  <2>1. \E x \in Out : \A y \in Out : <<y, x>> \notin R
    <3>1. Out \in SUBSET Nat
      OBVIOUS
    <3> HIDE DEF R, Out
    <3>2. QED
      BY <1>1, <1>2, <3>1, WFMin
  <2>2. PICK x \in Out : \A y \in Out : <<y, x>> \notin R
    BY <2>1
  <2>3. x # 0 /\ x - 1 \in Nat
    OBVIOUS
  <2>4. <<x - 1, x>> \in R
    BY <2>3
  <2>5. x - 1 \in I
    BY <2>2, <2>3, <2>4
  <2>6. QED
    BY <2>3, <2>5
<1>3. QED
  BY <1>2

(* The walk of the reference definition, along any graph: sets, each with   *)
(* what one step from the one before it leads to.                           *)
Stepped(adj, s) == s \union UNION {adj[o] : o \in s}
Ladder(adj, f, from, n) ==
  f = [i \in 0..n |-> IF i = 0 THEN from ELSE Stepped(adj, f[i - 1])]

LEMMA AlongUnfolds ==
  \A adj, from, n : Along(adj, from, n) = (CHOOSE f : Ladder(adj, f, from, n))[n]
  BY DEF Along, Ladder, Stepped

LEMMA LaddersExist ==
  \A adj, from : \A n \in Nat : \E f : Ladder(adj, f, from, n)
<1> SUFFICES ASSUME NEW adj, NEW from
             PROVE  \A n \in Nat : \E f : Ladder(adj, f, from, n)
  OBVIOUS
<1> DEFINE I == {n \in Nat : \E f : Ladder(adj, f, from, n)}
<1>1. 0 \in I
  <2>1. Ladder(adj, [i \in 0..0 |-> from], from, 0)
    BY DEF Ladder
  <2>2. QED
    BY <2>1
<1>2. ASSUME NEW n \in I PROVE n + 1 \in I
  <2>1. PICK f : Ladder(adj, f, from, n)
    BY <1>2
  <2> DEFINE g == [i \in 0..n + 1 |-> IF i = n + 1 THEN Stepped(adj, f[n]) ELSE f[i]]
  <2>2. ASSUME NEW i \in 0..n + 1
        PROVE  g[i] = IF i = 0 THEN from ELSE Stepped(adj, g[i - 1])
    <3>1. CASE i = n + 1
      BY <3>1
    <3>2. CASE i # n + 1
      <4>1. i \in 0..n /\ g[i] = f[i] /\ (i # 0 => i - 1 \in 0..n + 1 /\ g[i - 1] = f[i - 1])
        BY <3>2
      <4>2. f[i] = IF i = 0 THEN from ELSE Stepped(adj, f[i - 1])
        BY <2>1, <4>1 DEF Ladder
      <4>3. QED
        BY <4>1, <4>2
    <3>3. QED
      BY <3>1, <3>2
  <2>3. Ladder(adj, g, from, n + 1)
    BY <2>2 DEF Ladder
  <2>4. QED
    BY <2>3
<1>3. I = Nat
  BY <1>1, <1>2, SetInduction
<1>4. QED
  BY <1>3

LEMMA LaddersAgree ==
  \A adj, from, f, g : \A n, m \in Nat :
    Ladder(adj, f, from, n) /\ Ladder(adj, g, from, m) =>
      \A i \in Nat : i <= n /\ i <= m => f[i] = g[i]
<1> SUFFICES ASSUME NEW adj, NEW from, NEW f, NEW g, NEW n \in Nat, NEW m \in Nat,
                    Ladder(adj, f, from, n), Ladder(adj, g, from, m)
             PROVE  \A i \in Nat : i <= n /\ i <= m => f[i] = g[i]
  OBVIOUS
<1> DEFINE I == {i \in Nat : i <= n /\ i <= m => f[i] = g[i]}
<1>1. 0 \in I
  BY DEF Ladder
<1>2. ASSUME NEW i \in I PROVE i + 1 \in I
  <2>1. SUFFICES ASSUME i + 1 <= n, i + 1 <= m PROVE f[i + 1] = g[i + 1]
    OBVIOUS
  <2>2. i + 1 \in 0..n /\ i + 1 \in 0..m /\ i + 1 # 0 /\ (i + 1) - 1 = i
    BY <2>1
  <2>3. f[i] = g[i]
    BY <2>1
  <2>4. f[i + 1] = Stepped(adj, f[i]) /\ g[i + 1] = Stepped(adj, g[i])
    BY <2>2 DEF Ladder
  <2>5. QED
    BY <2>3, <2>4
<1>3. I = Nat
  BY <1>1, <1>2, SetInduction
<1>4. QED
  BY <1>3

LEMMA AlongSteps ==
  \A adj, from : /\ Along(adj, from, 0) = from
                 /\ \A n \in Nat : Along(adj, from, n + 1) = Stepped(adj, Along(adj, from, n))
<1> SUFFICES ASSUME NEW adj, NEW from
             PROVE  /\ Along(adj, from, 0) = from
                    /\ \A n \in Nat :
                         Along(adj, from, n + 1) = Stepped(adj, Along(adj, from, n))
  OBVIOUS
<1> DEFINE L(n) == CHOOSE f : Ladder(adj, f, from, n)
<1>1. \A n \in Nat : Ladder(adj, L(n), from, n)
  BY LaddersExist
<1>2. \A n \in Nat : Along(adj, from, n) = L(n)[n]
  BY AlongUnfolds
<1> HIDE DEF L
<1>3. Along(adj, from, 0) = from
  BY <1>1, <1>2 DEF Ladder
<1>4. ASSUME NEW n \in Nat
      PROVE  Along(adj, from, n + 1) = Stepped(adj, Along(adj, from, n))
  <2>1. n + 1 \in Nat /\ n + 1 \in 0..n + 1 /\ n + 1 # 0 /\ (n + 1) - 1 = n
    OBVIOUS
  <2>2. L(n + 1)[n + 1] = Stepped(adj, L(n + 1)[n])
    BY <1>1, <2>1 DEF Ladder
  <2>3. L(n + 1)[n] = L(n)[n]
    BY <1>1, <2>1, LaddersAgree
  <2>4. QED
    BY <1>2, <2>1, <2>2, <2>3
<1>5. QED
  BY <1>3, <1>4

(* A walk stays in every set around its start that no step leaves.          *)
Keeps(adj, s) == \A o \in s : adj[o] \subseteq s

LEMMA AlongIsLeast ==
  \A adj, from, s : from \subseteq s /\ Keeps(adj, s) =>
                      \A n \in Nat : Along(adj, from, n) \subseteq s
<1> SUFFICES ASSUME NEW adj, NEW from, NEW s, from \subseteq s, Keeps(adj, s)
             PROVE  \A n \in Nat : Along(adj, from, n) \subseteq s
  OBVIOUS
<1> DEFINE I == {n \in Nat : Along(adj, from, n) \subseteq s}
<1>1. 0 \in I
  BY AlongSteps
<1>2. ASSUME NEW n \in I PROVE n + 1 \in I
  BY AlongSteps DEF Stepped, Keeps
<1>3. I = Nat
  BY <1>1, <1>2, SetInduction
<1>4. QED
  BY <1>3

LEMMA AlongGrows ==
  \A adj, from : \A n, k \in Nat : Along(adj, from, n) \subseteq Along(adj, from, n + k)
<1> SUFFICES ASSUME NEW adj, NEW from, NEW n \in Nat
             PROVE  \A k \in Nat : Along(adj, from, n) \subseteq Along(adj, from, n + k)
  OBVIOUS
<1> DEFINE I == {k \in Nat : Along(adj, from, n) \subseteq Along(adj, from, n + k)}
<1>1. 0 \in I
  OBVIOUS
<1>2. ASSUME NEW k \in I PROVE k + 1 \in I
  <2>1. n + k \in Nat /\ n + (k + 1) = (n + k) + 1
    OBVIOUS
  <2>2. Along(adj, from, n + (k + 1)) = Stepped(adj, Along(adj, from, n + k))
    BY <2>1, AlongSteps
  <2>3. QED
    BY <2>2 DEF Stepped
<1>3. I = Nat
  BY <1>1, <1>2, SetInduction
<1>4. QED
  BY <1>3

(* As many steps as there are objects are enough: each of them finds one,   *)
(* or nothing is left to find.                                              *)
LEMMA AlongCloses ==
  ASSUME NEW adj, \A o \in Objects : adj[o] \subseteq Objects, NEW from \in SUBSET Objects
  PROVE  LET w == Along(adj, from, Cardinality(Objects))
         IN from \subseteq w /\ w \subseteq Objects /\ Keeps(adj, w)
<1> DEFINE W(n) == Along(adj, from, n)
           N == Cardinality(Objects)
<1>1. IsFiniteSet(Objects) /\ N \in Nat
  BY GraphAssumption, FS_CardinalityType
<1>2. W(0) = from /\ \A n \in Nat : W(n + 1) = Stepped(adj, W(n))
  BY AlongSteps
<1>3. \A n \in Nat : W(n) \subseteq Objects
  BY AlongIsLeast DEF Keeps
<1>4. \A n \in Nat : IsFiniteSet(W(n)) /\ Cardinality(W(n)) \in Nat
  BY <1>1, <1>3, FS_Subset, FS_CardinalityType
<1> HIDE DEF W, N
<1> DEFINE I == {n \in Nat : Keeps(adj, W(n)) \/ Cardinality(W(n)) >= n}
<1>5. 0 \in I
  BY <1>4
<1>6. ASSUME NEW n \in I PROVE n + 1 \in I
  <2>1. W(n + 1) = Stepped(adj, W(n)) /\ n + 1 \in Nat
    BY <1>2
  <2>2. CASE Keeps(adj, W(n))
    <3>1. Stepped(adj, W(n)) = W(n)
      BY <2>2 DEF Stepped, Keeps
    <3>2. QED
      BY <2>1, <2>2, <3>1
  <2>3. CASE ~Keeps(adj, W(n))
    <3>1. W(n) \subseteq W(n + 1) /\ W(n) # W(n + 1)
      BY <2>1, <2>3 DEF Stepped, Keeps
    <3>2. Cardinality(W(n)) >= n
      BY <2>3
    <3>3. Cardinality(W(n)) <= Cardinality(W(n + 1)) /\ Cardinality(W(n)) # Cardinality(W(n + 1))
      BY <1>4, <2>1, <3>1, FS_Subset
    <3>4. Cardinality(W(n)) \in Nat /\ Cardinality(W(n + 1)) \in Nat
      BY <1>4, <2>1
    <3>5. Cardinality(W(n + 1)) >= n + 1
      BY <3>2, <3>3, <3>4
    <3>6. QED
      BY <2>1, <3>5
  <2>4. QED
    BY <2>2, <2>3
<1>7. I = Nat
  BY <1>5, <1>6, SetInduction
<1>8. Keeps(adj, W(N))
  <2>1. CASE Cardinality(W(N)) >= N
    <3>1. W(N) \in SUBSET Objects
      BY <1>1, <1>3
    <3>2. Cardinality(W(N)) <= N
      BY <1>1, <3>1, FS_Subset DEF N
    <3>3. Cardinality(W(N)) = Cardinality(Objects)
      BY <1>1, <1>4, <2>1, <3>2 DEF N
    <3>4. W(N) = Objects
      BY <1>1, <3>1, <3>3, FS_Subset
    <3>5. QED
      BY <3>4 DEF Keeps
  <2>2. QED
    BY <1>1, <1>7, <2>1
<1>9. from \subseteq W(N)
  <2>1. W(0) \subseteq W(0 + N)
    BY <1>1, AlongGrows DEF W
  <2>2. 0 + N = N
    BY <1>1
  <2>3. QED
    BY <1>2, <2>1, <2>2
<1>10. QED
  BY <1>1, <1>3, <1>8, <1>9 DEF W, N

(* The objects and their references.                                        *)
Closed(s) == \A o \in s : Succ(o) \subseteq s

LEMMA SuccFacts ==
  /\ \A o : Succ(o) \subseteq Objects
  /\ \A o \in Objects : References[o] = Succ(o)
  BY DEF Succ, Targets, References

LEMMA WithinSteps ==
  \A from \in SUBSET Objects :
    /\ Within(from, 0) = from
    /\ \A n \in Nat :
         /\ Within(from, n) \subseteq Objects
         /\ Within(from, n + 1) = Within(from, n) \union UNION {Succ(o) : o \in Within(from, n)}
<1> SUFFICES ASSUME NEW from \in SUBSET Objects
             PROVE  /\ Within(from, 0) = from
                    /\ \A n \in Nat :
                         /\ Within(from, n) \subseteq Objects
                         /\ Within(from, n + 1)
                              = Within(from, n) \union UNION {Succ(o) : o \in Within(from, n)}
  OBVIOUS
<1>1. \A n : Within(from, n) = Along(References, from, n)
  BY DEF Within
<1>2. Keeps(References, Objects)
  BY SuccFacts DEF Keeps
<1>3. \A n \in Nat : Within(from, n) \subseteq Objects
  BY <1>1, <1>2, AlongIsLeast
<1>4. ASSUME NEW n \in Nat
      PROVE  Within(from, n + 1) = Within(from, n) \union UNION {Succ(o) : o \in Within(from, n)}
  <2>1. Within(from, n + 1) = Stepped(References, Within(from, n))
    BY <1>1, AlongSteps
  <2>2. \A o \in Within(from, n) : References[o] = Succ(o)
    BY <1>3, SuccFacts
  <2>3. QED
    BY <2>1, <2>2 DEF Stepped
<1>5. QED
  BY <1>1, <1>3, <1>4, AlongSteps

LEMMA WithinIsLeast ==
  \A from : \A s \in SUBSET Objects :
    from \subseteq s /\ Closed(s) => \A n \in Nat : Within(from, n) \subseteq s
<1> SUFFICES ASSUME NEW from, NEW s \in SUBSET Objects, from \subseteq s, Closed(s)
             PROVE  \A n \in Nat : Within(from, n) \subseteq s
  OBVIOUS
<1>1. Keeps(References, s)
  BY SuccFacts DEF Keeps, Closed
<1>2. QED
  BY <1>1, AlongIsLeast DEF Within

LEMMA WithinGrows ==
  \A from : \A n, k \in Nat : Within(from, n) \subseteq Within(from, n + k)
  BY AlongGrows DEF Within

LEMMA ReachableIsClosed ==
  \A from \in SUBSET Objects : /\ from \subseteq Reachable(from)
                               /\ Reachable(from) \subseteq Objects
                               /\ Closed(Reachable(from))
<1> SUFFICES ASSUME NEW from \in SUBSET Objects
             PROVE  /\ from \subseteq Reachable(from)
                    /\ Reachable(from) \subseteq Objects
                    /\ Closed(Reachable(from))
  OBVIOUS
<1>1. Reachable(from) = Along(References, from, Cardinality(Objects))
  BY DEF Reachable, Within
<1>2. \A o \in Objects : References[o] \subseteq Objects
  BY SuccFacts
<1>3. /\ from \subseteq Reachable(from) /\ Reachable(from) \subseteq Objects
      /\ Keeps(References, Reachable(from))
  BY <1>1, <1>2, AlongCloses
<1>4. QED
  BY <1>3, SuccFacts DEF Keeps, Closed

LEMMA ReachableIsLeast ==
  \A from : \A s \in SUBSET Objects :
    from \subseteq s /\ Closed(s) => Reachable(from) \subseteq s
<1>1. Cardinality(Objects) \in Nat
  BY GraphAssumption, FS_CardinalityType
<1>2. QED
  BY <1>1, WithinIsLeast DEF Reachable

(* The passes' instances of the graph's definitions.                        *)
LEMMA ReachGraph ==
  /\ A!R!Roots = Roots
  /\ \A o : A!R!Succ(o) = Succ(o)
  /\ \A adj, from, n : A!R!Along(adj, from, n) = Along(adj, from, n)
  /\ \A from, n : A!R!Within(from, n) = Within(from, n)
  /\ \A from : A!R!Reachable(from) = Reachable(from)
<1>1. \A o : A!R!Succ(o) = Succ(o)
  BY DEF A!R!Succ, Succ, A!R!Targets, Targets
<1>2. \A adj, from, n : A!R!Along(adj, from, n) = (CHOOSE f : Ladder(adj, f, from, n))[n]
  BY DEF A!R!Along, Ladder, Stepped
<1>3. A!R!Roots = Roots
  BY DEF A!R!Roots, Roots
<1>4. \A adj, from, n : A!R!Along(adj, from, n) = Along(adj, from, n)
  BY <1>2, AlongUnfolds
<1>5. A!R!References = References
  BY <1>1 DEF A!R!References, References
<1>6. \A from, n : A!R!Within(from, n) = Within(from, n)
  BY <1>4, <1>5 DEF A!R!Within, Within
<1>7. \A from : A!R!Reachable(from) = Reachable(from)
  BY <1>6 DEF A!R!Reachable, Reachable, A!R!Cardinality, Cardinality
<1>8. QED
  BY <1>1, <1>3, <1>4, <1>6, <1>7

LEMMA BuildGraph ==
  /\ A!A!Roots = Roots
  /\ \A o : A!A!Succ(o) = Succ(o)
  /\ \A from, n : A!A!Within(from, n) = Within(from, n)
  /\ \A from : A!A!Reachable(from) = Reachable(from)
<1>1. \A o : A!A!Succ(o) = Succ(o)
  BY DEF A!A!Succ, Succ, A!A!Targets, Targets
<1>2. \A adj, from, n : A!A!Along(adj, from, n) = (CHOOSE f : Ladder(adj, f, from, n))[n]
  BY DEF A!A!Along, Ladder, Stepped
<1>3. A!A!Roots = Roots
  BY DEF A!A!Roots, Roots
<1>4. \A adj, from, n : A!A!Along(adj, from, n) = Along(adj, from, n)
  BY <1>2, AlongUnfolds
<1>5. A!A!References = References
  BY <1>1 DEF A!A!References, References
<1>6. \A from, n : A!A!Within(from, n) = Within(from, n)
  BY <1>4, <1>5 DEF A!A!Within, Within
<1>7. \A from : A!A!Reachable(from) = Reachable(from)
  BY <1>6 DEF A!A!Reachable, Reachable, A!A!Cardinality, Cardinality
<1>8. QED
  BY <1>1, <1>3, <1>6, <1>7

(* A finite set as a sequence has all its elements.                         *)
LEMMA OrderFacts ==
  ASSUME NEW T, IsFiniteSet(T), NEW f \in [1..Cardinality(T) -> T], IsInjective(f)
  PROVE  f \in Seq(T) /\ Len(f) = Cardinality(T) /\ \A x \in T : \E i \in 1..Len(f) : f[i] = x
<1> DEFINE n == Cardinality(T)
<1>1. n \in Nat
  BY FS_CardinalityType
<1>2. IsFiniteSet(1..n) /\ Cardinality(1..n) = n
  BY <1>1, FS_Interval
<1> HIDE DEF n
<1>3. f \in Injection(1..n, T)
  BY DEF Injection, n
<1>4. f \in Surjection(1..n, T)
  BY <1>2, <1>3, FS_Injection DEF n
<1>5. f \in Seq(T) /\ Len(f) = n
  BY <1>1 DEF n
<1>6. QED
  BY <1>4, <1>5 DEF Surjection, n

LEMMA SetToSeqFacts ==
  ASSUME NEW T, IsFiniteSet(T)
  PROVE  /\ A!R!SetToSeq(T) \in Seq(T)
         /\ \A x \in T : \E i \in 1..Len(A!R!SetToSeq(T)) : A!R!SetToSeq(T)[i] = x
<1>1. PICK f \in [1..Cardinality(T) -> T] : IsInjective(f)
  BY FS_CardinalityType DEF ExistsBijection, Bijection, Injection
<1>2. A!R!SetToSeq(T) = CHOOSE g \in [1..Cardinality(T) -> T] : IsInjective(g)
  BY DEF A!R!SetToSeq, A!R!IsInjective, IsInjective, A!R!Cardinality, Cardinality
<1>3. /\ A!R!SetToSeq(T) \in [1..Cardinality(T) -> T]
      /\ IsInjective(A!R!SetToSeq(T))
  BY <1>1, <1>2
<1>4. QED
  BY <1>3, OrderFacts

LEMMA PushFacts ==
  ASSUME NEW T, NEW s \in Seq(T), NEW t \in Seq(T), NEW both, both = s \o t
  PROVE  /\ both \in Seq(T) /\ Len(both) = Len(s) + Len(t)
         /\ Len(s) \in Nat /\ Len(t) \in Nat
         /\ \A i \in 1..Len(s) : i \in 1..Len(both) /\ both[i] = s[i]
         /\ \A i \in 1..Len(t) : Len(s) + i \in 1..Len(both) /\ both[Len(s) + i] = t[i]
OBVIOUS

LEMMA SetToSeqsFacts ==
  ASSUME NEW T, IsFiniteSet(T), NEW f \in A!A!SetToSeqs(T)
  PROVE  f \in Seq(T) /\ \A x \in T : \E i \in 1..Len(f) : f[i] = x
<1>1. /\ f \in [1..A!A!Cardinality(T) -> T]
      /\ \A i, j \in 1..A!A!Cardinality(T) : i # j => f[i] # f[j]
  BY DEF A!A!SetToSeqs
<1>2. A!A!Cardinality(T) = Cardinality(T)
  BY DEF A!A!Cardinality, Cardinality
<1>3. f \in [1..Cardinality(T) -> T] /\ IsInjective(f)
  BY <1>1, <1>2 DEF IsInjective
<1>4. QED
  BY <1>3, OrderFacts

-----------------------------------------------------------------------------
(* The root masks.  A mask has only roots that reach the object; and as far *)
(* as the worklist is done, the objects an object refers to have its mask.  *)
Queued(o)   == \E i \in 1..Len(queue) : queue[i] = o
Handed(u)   == \A v \in Succ(u) : mask[u] \subseteq mask[v]

MasksTyped ==
  /\ mask \in [Objects -> SUBSET Roots]
  /\ \A r \in Roots : r \in mask[r]
  /\ \A o \in Objects : \A r \in mask[o] : o \in Reachable({r})

MaskInv ==
  /\ pc \in {"idle", "mask", "levels", "caps", "done"}
  /\ part = "analysis" => graph \in Graphs
  /\ part # "analysis" => pc = "idle"
  /\ pc # "idle" => MasksTyped
  /\ pc = "mask" => queue \in Seq(Objects) /\ \A u \in Objects : Queued(u) \/ Handed(u)
  /\ pc \in {"levels", "caps", "done"} => \A u \in Objects : Handed(u)

LEMMA GraphFacts ==
  ASSUME graph \in Graphs
  PROVE  /\ graph.roots \in Seq(Objects) /\ Roots \subseteq Objects
         /\ \A r \in Roots : \E i \in 1..Len(graph.roots) : graph.roots[i] = r
<1>1. graph.roots \in Seq(Objects)
  BY GraphAssumption
<1>2. DOMAIN graph.roots = 1..Len(graph.roots)
  BY <1>1
<1>3. QED
  BY <1>1, <1>2 DEF Roots

LEMMA SameGraph ==
  ASSUME graph' = graph
  PROVE  /\ Roots' = Roots /\ \A o : Succ(o)' = Succ(o)
         /\ \A from, n : Within(from, n)' = Within(from, n)
         /\ \A from : Reachable(from)' = Reachable(from)
BY DEF Roots, Reachable, Within, Along, References, Succ, Targets

LEMMA StartMasks ==
  ASSUME MaskInv, InAnalysis, A!R!Start
  PROVE  MaskInv'
<1>1. /\ pc' = "mask" /\ queue' = graph.roots /\ graph' = graph
      /\ mask' = [o \in Objects |-> {o} \intersect Roots]
      /\ part = "analysis" /\ part' = part
  BY ReachGraph DEF A!R!Start, InAnalysis
<1>2. /\ graph.roots \in Seq(Objects) /\ Roots \subseteq Objects
      /\ \A r \in Roots : \E i \in 1..Len(graph.roots) : graph.roots[i] = r
  BY <1>1, GraphFacts DEF MaskInv
<1>3. \A r \in Roots : r \in Reachable({r})
  BY <1>2, ReachableIsClosed
<1>4. MasksTyped'
  BY <1>1, <1>2, <1>3, SameGraph DEF MasksTyped
<1>5. \A u \in Objects : Queued(u)' \/ Handed(u)'
  BY <1>1, <1>2 DEF Queued, Handed
<1>6. QED
  BY <1>1, <1>2, <1>4, <1>5 DEF MaskInv

LEMMA SpreadMasks ==
  ASSUME MaskInv, InAnalysis, A!R!Spread
  PROVE  MaskInv'
<1> DEFINE u == Head(queue)
           gain == {v \in Succ(u) : ~(mask[u] \subseteq mask[v])}
           order == A!R!SetToSeq(gain)
<1>1. /\ pc = "mask" /\ pc' = pc /\ graph' = graph /\ queue # <<>>
      /\ mask' = [o \in Objects |-> IF o \in gain THEN mask[o] \union mask[u] ELSE mask[o]]
      /\ queue' = Tail(queue) \o order
      /\ part = "analysis" /\ part' = part
  BY ReachGraph DEF A!R!Spread, InAnalysis
<1>2. /\ queue \in Seq(Objects) /\ MasksTyped
      /\ \A w \in Objects : Queued(w) \/ Handed(w)
  BY <1>1 DEF MaskInv
<1>3. u \in Objects
  BY <1>1, <1>2
<1>4. gain \subseteq Objects /\ IsFiniteSet(gain)
  BY SuccFacts, GraphAssumption, FS_Subset
<1>5. order \in Seq(Objects) /\ \A v \in gain : \E i \in 1..Len(order) : order[i] = v
  <2>1. order \in Seq(gain) /\ \A v \in gain : \E i \in 1..Len(order) : order[i] = v
    <3> HIDE DEF gain
    <3> QED
      BY <1>4, SetToSeqFacts
  <2> HIDE DEF gain, order
  <2>2. QED
    BY <1>4, <2>1
<1>6. \A w \in Objects : Handed(w) <=> \A v \in Succ(w) : mask[w] \subseteq mask[v]
  BY DEF Handed
<1>7. u \notin gain /\ \A v \in Succ(u) : v \notin gain => mask[u] \subseteq mask[v]
  OBVIOUS
<1>8. gain \subseteq Succ(u)
  OBVIOUS
<1> HIDE DEF u, gain, order
<1>9. MasksTyped'
  <2>1. mask' \in [Objects -> SUBSET Roots] /\ \A r \in Roots : r \in mask'[r]
    <3>1. /\ mask \in [Objects -> SUBSET Roots] /\ mask[u] \subseteq Roots
          /\ \A r \in Roots : r \in mask[r] /\ r \in Objects
      BY <1>1, <1>2, <1>3, GraphFacts DEF MasksTyped, MaskInv
    <3>2. \A o \in Objects : mask'[o] \subseteq Roots /\ mask[o] \subseteq mask'[o]
      BY <1>1, <3>1
    <3>3. QED
      BY <1>1, <3>1, <3>2
  <2>2. ASSUME NEW o \in Objects, NEW r \in mask'[o]
        PROVE  o \in Reachable({r})
    <3>1. CASE r \in mask[o]
      BY <1>2, <3>1 DEF MasksTyped
    <3>2. CASE r \notin mask[o]
      <4>1. o \in Succ(u) /\ r \in mask[u]
        BY <1>1, <1>8, <3>2
      <4>2. u \in Reachable({r}) /\ r \in Objects
        BY <1>1, <1>2, <1>3, <4>1, GraphFacts DEF MasksTyped, MaskInv
      <4>3. QED
        BY <4>1, <4>2, ReachableIsClosed DEF Closed
    <3>3. QED
      BY <3>1, <3>2
  <2>3. QED
    BY <1>1, <2>1, <2>2, SameGraph DEF MasksTyped
<1>10. queue' \in Seq(Objects)
  BY <1>1, <1>2, <1>5
<1>11. ASSUME NEW w \in Objects
       PROVE  Queued(w)' \/ Handed(w)'
  <2>1. mask \in [Objects -> SUBSET Roots] /\ Succ(w) \subseteq Objects /\ Succ(w)' = Succ(w)
    BY <1>1, <1>2, SuccFacts, SameGraph DEF MasksTyped
  <2>2. CASE w \in gain
    <3>1. PICK i \in 1..Len(order) : order[i] = w
      BY <1>5, <2>2
    <3>2. /\ Len(Tail(queue)) + i \in 1..Len(queue')
          /\ queue'[Len(Tail(queue)) + i] = w
      BY <1>1, <1>2, <1>5, <3>1
    <3>3. QED
      BY <3>2 DEF Queued
  <2>3. CASE w \notin gain /\ (w = u \/ Handed(w))
    <3>1. mask'[w] = mask[w] /\ \A v \in Succ(w) : mask[v] \subseteq mask'[v]
      BY <1>1, <2>1, <2>3
    <3>2. ASSUME NEW v \in Succ(w) PROVE mask'[w] \subseteq mask'[v]
      <4>1. CASE mask[w] \subseteq mask[v]
        BY <3>1, <4>1
      <4>2. CASE ~(mask[w] \subseteq mask[v])
        <5>1. w = u /\ v \in gain
          BY <1>6, <1>7, <2>3, <4>2
        <5>2. QED
          BY <1>1, <2>1, <3>1, <5>1
      <4>3. QED
        BY <4>1, <4>2
    <3>3. QED
      BY <2>1, <3>2 DEF Handed
  <2>4. CASE w \notin gain /\ w # u /\ ~Handed(w)
    <3>1. PICK i \in 1..Len(queue) : queue[i] = w
      BY <1>2, <2>4 DEF Queued
    <3>2. i # 1
      BY <2>4, <3>1 DEF u
    <3>3. /\ i - 1 \in 1..Len(queue') /\ queue'[i - 1] = w
      BY <1>1, <1>2, <1>5, <3>1, <3>2
    <3>4. QED
      BY <3>3 DEF Queued
  <2>5. QED
    BY <2>2, <2>3, <2>4
<1>12. QED
  BY <1>1, <1>9, <1>10, <1>11 DEF MaskInv

LEMMA MasksRest ==
  ASSUME MaskInv, part' = part, graph' = graph, mask' = mask,
         \/ pc' = pc /\ queue' = queue
         \/ pc \in {"levels", "caps"} /\ pc' \in {"levels", "caps", "done"}
                                      /\ part = "analysis"
  PROVE  MaskInv'
<1>1. pc # "idle" => MasksTyped'
  BY SameGraph DEF MaskInv, MasksTyped
<1>2. \A u \in Objects : Handed(u)' <=> Handed(u)
  BY SameGraph DEF Handed
<1>3. CASE pc' = pc /\ queue' = queue
  <2>1. \A u \in Objects : Queued(u)' <=> Queued(u)
    BY <1>3 DEF Queued
  <2>2. QED
    BY <1>1, <1>2, <1>3, <2>1 DEF MaskInv
<1>4. CASE pc \in {"levels", "caps"} /\ pc' \in {"levels", "caps", "done"} /\ part = "analysis"
  BY <1>1, <1>2, <1>4 DEF MaskInv
<1>5. QED
  BY <1>3, <1>4

LEMMA StartLevelsMasks ==
  ASSUME MaskInv, InAnalysis, A!R!StartLevels
  PROVE  MaskInv'
<1>1. /\ pc = "mask" /\ pc' = "levels" /\ graph' = graph /\ mask' = mask /\ queue = <<>>
      /\ part = "analysis" /\ part' = part
  BY DEF A!R!StartLevels, InAnalysis
<1>2. \A u \in Objects : Handed(u)
  BY <1>1 DEF MaskInv, Queued
<1>3. MasksTyped'
  BY <1>1, SameGraph DEF MaskInv, MasksTyped
<1>4. \A u \in Objects : Handed(u)'
  BY <1>1, <1>2, SameGraph DEF Handed
<1>5. QED
  BY <1>1, <1>3, <1>4 DEF MaskInv

LEMMA NextMasks ==
  ASSUME MaskInv, [Next]_vars
  PROVE  MaskInv'
<1>1. CASE Passes /\ A!Compute
  <2>1. InAnalysis /\ (A!R!Start \/ A!R!Work)
    BY <1>1 DEF Passes, A!Compute
  <2>2. CASE A!R!Start \/ A!R!Spread \/ A!R!StartLevels
    BY <2>1, <2>2, StartMasks, SpreadMasks, StartLevelsMasks
  <2>3. CASE A!R!Level \/ A!R!StartGroups \/ A!R!FoldClass \/ A!R!FoldSmallest \/ A!R!Sum
    <3>1. /\ part' = part /\ part = "analysis" /\ graph' = graph /\ mask' = mask
          /\ pc \in {"levels", "caps"} /\ pc' \in {"levels", "caps", "done"}
      BY <2>1, <2>3 DEF A!R!Level, A!R!StartGroups, A!R!FoldClass, A!R!FoldSmallest, A!R!Sum,
                        InAnalysis
    <3>2. QED
      BY <3>1, MasksRest
  <2>4. QED
    BY <2>1, <2>2, <2>3 DEF A!R!Work
<1>2. CASE Passes /\ A!Build
  <2>1. part' = part /\ graph' = graph /\ mask' = mask /\ pc' = pc /\ queue' = queue
    BY <1>2 DEF Passes, InAnalysis, A!Build, A!reaching, A!A!Start, A!A!Work, A!A!Walk,
                A!A!Classify, A!A!NextGroup, A!A!NextCluster, A!A!Reseed
  <2>2. QED
    BY <2>1, MasksRest
<1>3. CASE Registry \/ JsonFiles \/ Queries \/ Lookups \/ Listings \/ Attempts \/ UNCHANGED vars
  <2>1. part' = part /\ UNCHANGED analysis
    BY <1>3 DEF Registry, InJobs, JsonFiles, InFiles, Queries, InCache, Lookups, Listings,
                Attempts, InSources, vars
  <2>2. QED
    BY <2>1, MasksRest DEF analysis
<1>4. QED
  BY <1>1, <1>2, <1>3 DEF Next, Passes, A!Next

(* The number of sampled roots that hold an object is right (reach.py): the *)
(* masks are exact as soon as the worklist of _root_reach is empty, for     *)
(* every finite graph, whatever cycles and references upward it has.        *)
THEOREM MasksAreExact == Spec => []MasksAreReachability
<1>1. Init => MaskInv
  <2> SUFFICES ASSUME Init PROVE MaskInv
    OBVIOUS
  <2>1. pc = "idle" /\ (part = "analysis" => graph \in Graphs)
    BY DEF Init, Parts, A!Init, A!Begin, A!R!Idle
  <2>2. QED
    BY <2>1 DEF MaskInv
<1>2. MaskInv /\ [Next]_vars => MaskInv'
  BY NextMasks
<1>3. MaskInv => MasksAreReachability
  <2> SUFFICES ASSUME MaskInv, pc \in {"levels", "caps", "done"}, NEW o \in Objects
               PROVE  mask[o] = {r \in Roots : o \in Reachable({r})}
    BY ReachGraph DEF MasksAreReachability, A!MasksAreReachability,
                      A!R!MasksAreReachability
  <2>1. MasksTyped /\ Roots \subseteq Objects /\ \A u \in Objects : Handed(u)
    BY GraphFacts DEF MaskInv
  <2>2. ASSUME NEW r \in Roots, o \in Reachable({r})
        PROVE  r \in mask[o]
    <3> DEFINE held == {v \in Objects : r \in mask[v]}
    <3>1. {r} \subseteq held /\ held \in SUBSET Objects
      BY <2>1 DEF MasksTyped
    <3>2. Closed(held)
      BY <2>1, SuccFacts DEF Closed, Handed
    <3>3. Reachable({r}) \subseteq held
      <4> HIDE DEF held
      <4> QED
        BY <3>1, <3>2, ReachableIsLeast
    <3>4. QED
      BY <2>2, <3>3
  <2>3. QED
    BY <2>1, <2>2 DEF MasksTyped
<1>4. QED
  BY <1>1, <1>2, <1>3, PTL DEF Spec, Safety

-----------------------------------------------------------------------------
(* Sums of sizes.  The sum over a set takes some element first; it may as   *)
(* well be any other, and a set has at least the bytes of its parts.        *)
Taken(s) == CHOOSE x \in s : TRUE
Adding(f, s) == IF s = {} THEN 0 ELSE Used[Taken(s)] + f[s \ {Taken(s)}]

LEMMA BytesUnfolds ==
  \A t : A!R!Bytes(t) = (CHOOSE f : f = [s \in SUBSET t |-> Adding(f, s)])[t]
  BY DEF A!R!Bytes, A!R!MapThenSumSet, A!R!MapThenFoldSet, Adding, Taken

LEMMA PartFacts ==
  \A s \in SUBSET Objects :
    /\ IsFiniteSet(s) /\ Cardinality(s) \in Nat
    /\ s = {} <=> Cardinality(s) = 0
    /\ \A x \in s : /\ s \ {x} \in SUBSET Objects /\ Used[x] \in Nat
                    /\ Cardinality(s \ {x}) = Cardinality(s) - 1
    /\ s # {} => Taken(s) \in s
<1> SUFFICES ASSUME NEW s \in SUBSET Objects
             PROVE  /\ IsFiniteSet(s) /\ Cardinality(s) \in Nat
                    /\ s = {} <=> Cardinality(s) = 0
                    /\ \A x \in s : /\ s \ {x} \in SUBSET Objects /\ Used[x] \in Nat
                                    /\ Cardinality(s \ {x}) = Cardinality(s) - 1
                    /\ s # {} => Taken(s) \in s
  OBVIOUS
<1>1. IsFiniteSet(s)
  BY GraphAssumption, FS_Subset
<1>2. \A x \in s : Cardinality(s \ {x}) = Cardinality(s) - 1
  BY <1>1, FS_RemoveElement
<1>3. \A x \in s : s \ {x} \in SUBSET Objects /\ Used[x] \in Nat
  BY GraphAssumption
<1>4. Cardinality(s) \in Nat /\ (s = {} <=> Cardinality(s) = 0)
  BY <1>1, FS_CardinalityType, FS_EmptySet
<1>5. s # {} => Taken(s) \in s
  BY DEF Taken
<1>6. QED
  BY <1>1, <1>2, <1>3, <1>4, <1>5

LEMMA SumExists ==
  \E f : f = [s \in SUBSET Objects |-> Adding(f, s)]
<1> DEFINE Upto(f, n) == /\ f = [s \in SUBSET Objects |-> f[s]]
                         /\ \A s \in SUBSET Objects :
                              Cardinality(s) <= n => f[s] = Adding(f, s)
           I == {n \in Nat : \E f : Upto(f, n)}
<1>1. 0 \in I
  <2>1. \A s \in SUBSET Objects : Cardinality(s) <= 0 => s = {}
    BY PartFacts
  <2> DEFINE f == [s \in SUBSET Objects |-> 0]
  <2>2. \A s \in SUBSET Objects : Cardinality(s) <= 0 => f[s] = Adding(f, s)
    BY <2>1 DEF Adding
  <2>3. Upto(f, 0)
    BY <2>2
  <2> HIDE DEF Upto, f
  <2>4. QED
    BY <2>3
<1>2. ASSUME NEW n \in I PROVE n + 1 \in I
  <2>1. PICK f : Upto(f, n)
    BY <1>2
  <2> DEFINE g == [s \in SUBSET Objects |-> IF Cardinality(s) <= n THEN f[s] ELSE Adding(f, s)]
  <2>2. ASSUME NEW s \in SUBSET Objects, Cardinality(s) <= n + 1
        PROVE  g[s] = Adding(g, s)
    <3>1. CASE s = {}
      BY <2>1, <3>1, PartFacts DEF Adding
    <3>2. CASE s # {}
      <4>1. /\ s \ {Taken(s)} \in SUBSET Objects /\ Cardinality(s \ {Taken(s)}) <= n
            /\ Cardinality(s) \in Nat
        BY <2>2, <3>2, PartFacts
      <4>2. g[s \ {Taken(s)}] = f[s \ {Taken(s)}]
        BY <4>1
      <4>3. g[s] = Adding(f, s)
        BY <2>1
      <4>4. QED
        BY <4>2, <4>3 DEF Adding
    <3>3. QED
      BY <3>1, <3>2
  <2>3. g = [s \in SUBSET Objects |-> g[s]]
    OBVIOUS
  <2>4. Upto(g, n + 1)
    BY <2>2, <2>3
  <2> HIDE DEF g, Upto
  <2>5. QED
    BY <2>4
<1>3. I = Nat
  BY <1>1, <1>2, SetInduction
<1>4. Cardinality(Objects) \in Nat /\ \A s \in SUBSET Objects : Cardinality(s) <= Cardinality(Objects)
  BY GraphAssumption, FS_Subset, FS_CardinalityType
<1>5. PICK f : Upto(f, Cardinality(Objects))
  BY <1>3, <1>4
<1>6. f = [s \in SUBSET Objects |-> Adding(f, s)]
  BY <1>4, <1>5
<1>7. QED
  BY <1>6

Sums == CHOOSE f : f = [s \in SUBSET Objects |-> Adding(f, s)]

LEMMA BytesAreSums ==
  \A t \in SUBSET Objects : A!R!Bytes(t) = Sums[t]
<1> SUFFICES ASSUME NEW t \in SUBSET Objects
             PROVE  A!R!Bytes(t) = Sums[t]
  OBVIOUS
<1> DEFINE Local == CHOOSE f : f = [s \in SUBSET t |-> Adding(f, s)]
           below == [s \in SUBSET t |-> Sums[s]]
<1>1. \A s \in SUBSET Objects : Sums[s] = Adding(Sums, s)
  BY SumExists DEF Sums
<1>2. \A s \in SUBSET t : below[s] = Adding(below, s)
  BY <1>1, PartFacts DEF Adding
<1>3. below = [s \in SUBSET t |-> Adding(below, s)]
  BY <1>2
<1>4. Local = [s \in SUBSET t |-> Adding(Local, s)]
  <2> HIDE DEF below
  <2> QED
    BY <1>3
<1>5. A!R!Bytes(t) = Local[t]
  BY BytesUnfolds
<1> HIDE DEF Local, below
<1> DEFINE I == {n \in Nat : \A s \in SUBSET t : Cardinality(s) = n => Local[s] = Sums[s]}
<1>6. 0 \in I
  <2>1. \A s \in SUBSET t : Cardinality(s) = 0 => s = {}
    BY PartFacts
  <2>2. Sums[{}] = 0 /\ Local[{}] = 0
    BY <1>1, <1>4 DEF Adding
  <2>3. QED
    BY <2>1, <2>2
<1>7. ASSUME NEW n \in I PROVE n + 1 \in I
  <2>1. ASSUME NEW s \in SUBSET t, Cardinality(s) = n + 1
        PROVE  Local[s] = Sums[s]
    <3>1. s # {} /\ s \in SUBSET Objects
      BY <2>1, PartFacts
    <3>2. Cardinality(s \ {Taken(s)}) = n /\ s \ {Taken(s)} \in SUBSET t
      BY <2>1, <3>1, PartFacts
    <3>3. Local[s \ {Taken(s)}] = Sums[s \ {Taken(s)}]
      BY <1>7, <3>2
    <3>4. QED
      BY <1>1, <1>4, <3>1, <3>3 DEF Adding
  <2>2. QED
    BY <2>1
<1>8. I = Nat
  BY <1>6, <1>7, SetInduction
<1>9. QED
  BY <1>5, <1>8, PartFacts

LEMMA SumsAreNumbers ==
  \A s \in SUBSET Objects : Sums[s] \in Nat
<1>1. \A s \in SUBSET Objects : Sums[s] = Adding(Sums, s)
  BY SumExists DEF Sums
<1> DEFINE I == {n \in Nat : \A s \in SUBSET Objects : Cardinality(s) = n => Sums[s] \in Nat}
<1>2. 0 \in I
  <2>1. \A s \in SUBSET Objects : Cardinality(s) = 0 => s = {}
    BY PartFacts
  <2>2. Sums[{}] = 0
    BY <1>1 DEF Adding
  <2>3. QED
    BY <2>1, <2>2
<1>3. ASSUME NEW n \in I PROVE n + 1 \in I
  <2>1. ASSUME NEW s \in SUBSET Objects, Cardinality(s) = n + 1
        PROVE  Sums[s] \in Nat
    <3>1. s # {} /\ Cardinality(s \ {Taken(s)}) = n /\ s \ {Taken(s)} \in SUBSET Objects
                 /\ Used[Taken(s)] \in Nat
      BY <2>1, PartFacts
    <3>2. Sums[s] = Used[Taken(s)] + Sums[s \ {Taken(s)}]
      BY <1>1, <3>1 DEF Adding
    <3>3. Sums[s \ {Taken(s)}] \in Nat
      BY <1>3, <3>1
    <3>4. QED
      BY <3>1, <3>2, <3>3
  <2>2. QED
    BY <2>1
<1>4. I = Nat
  BY <1>2, <1>3, SetInduction
<1>5. QED
  BY <1>4, PartFacts

LEMMA AnyFirst ==
  \A s \in SUBSET Objects : \A x \in s : Sums[s] = Used[x] + Sums[s \ {x}]
<1>1. \A s \in SUBSET Objects : s # {} => Sums[s] = Used[Taken(s)] + Sums[s \ {Taken(s)}]
  BY SumExists DEF Sums, Adding
<1> DEFINE I == {n \in Nat : \A s \in SUBSET Objects : Cardinality(s) = n =>
                               \A x \in s : Sums[s] = Used[x] + Sums[s \ {x}]}
<1>2. 0 \in I
  BY PartFacts
<1>3. ASSUME NEW n \in I PROVE n + 1 \in I
  <2>1. ASSUME NEW s \in SUBSET Objects, Cardinality(s) = n + 1, NEW x \in s,
               x # Taken(s)
        PROVE  Sums[s] = Used[x] + Sums[s \ {x}]
    <3> DEFINE p == Taken(s)
               rest == s \ {p}
               other == s \ {x}
    <3>1. p \in s
      BY PartFacts
    <3>2. /\ rest \in SUBSET Objects /\ Cardinality(rest) = n /\ x \in rest
          /\ other \in SUBSET Objects /\ Cardinality(other) = n /\ p \in other
      BY <2>1, <3>1, PartFacts
    <3>3. rest \ {x} = other \ {p} /\ rest \ {x} \in SUBSET Objects
      BY <3>2
    <3>4. /\ Used[x] \in Nat /\ Used[p] \in Nat /\ Sums[rest \ {x}] \in Nat
      BY <3>1, <3>3, GraphAssumption, SumsAreNumbers
    <3>5. Sums[s] = Used[p] + Sums[rest]
      BY <1>1
    <3> HIDE DEF p, rest, other
    <3>6. Sums[rest] = Used[x] + Sums[rest \ {x}]
      BY <1>3, <3>2
    <3>7. Sums[other] = Used[p] + Sums[other \ {p}]
      BY <1>3, <3>2
    <3> DEFINE a == Used[x]
               b == Used[p]
               c == Sums[rest \ {x}]
    <3>8. a \in Nat /\ b \in Nat /\ c \in Nat /\ Sums[s] = b + (a + c) /\ Sums[other] = b + c
      BY <3>3, <3>4, <3>5, <3>6, <3>7
    <3> HIDE DEF a, b, c
    <3>9. Sums[s] = a + Sums[other]
      BY <3>8
    <3>10. QED
      BY <3>9 DEF other, a
  <2>2. QED
    BY <1>1, <2>1
<1>4. I = Nat
  BY <1>2, <1>3, SetInduction
<1>5. QED
  BY <1>4, PartFacts

LEMMA BytesFacts ==
  /\ \A s \in SUBSET Objects : A!R!Bytes(s) \in Nat
  /\ \A s \in SUBSET Objects : \A t \in SUBSET s : A!R!Bytes(t) <= A!R!Bytes(s)
<1> DEFINE I == {n \in Nat : \A s \in SUBSET Objects : Cardinality(s) = n =>
                               \A t \in SUBSET s : Sums[t] <= Sums[s]}
<1>1. 0 \in I
  <2>1. ASSUME NEW s \in SUBSET Objects, Cardinality(s) = 0, NEW t \in SUBSET s
        PROVE  Sums[t] <= Sums[s]
    <3>1. t = s /\ Sums[s] \in Nat
      BY <2>1, PartFacts, SumsAreNumbers
    <3>2. QED
      BY <3>1
  <2>2. QED
    BY <2>1
<1>2. ASSUME NEW n \in I PROVE n + 1 \in I
  <2>1. ASSUME NEW s \in SUBSET Objects, Cardinality(s) = n + 1, NEW t \in SUBSET s
        PROVE  Sums[t] <= Sums[s]
    <3>1. CASE t = s
      BY <3>1, SumsAreNumbers
    <3>2. CASE t # s
      <4>1. PICK x \in s : x \notin t
        BY <3>2
      <4>2. s \ {x} \in SUBSET Objects /\ Cardinality(s \ {x}) = n /\ Used[x] \in Nat
        BY <2>1, PartFacts
      <4>3. Sums[t] <= Sums[s \ {x}]
        BY <1>2, <4>1, <4>2
      <4>4. Sums[t] \in Nat /\ Sums[s \ {x}] \in Nat
        BY <4>2, SumsAreNumbers
      <4>5. QED
        BY <4>2, <4>3, <4>4, AnyFirst
    <3>3. QED
      BY <3>1, <3>2
  <2>2. QED
    BY <2>1
<1>3. I = Nat
  BY <1>1, <1>2, SetInduction
<1>4. \A s \in SUBSET Objects : \A t \in SUBSET s : Sums[t] <= Sums[s]
  BY <1>3, PartFacts
<1>5. QED
  BY <1>4, BytesAreSums, SumsAreNumbers

-----------------------------------------------------------------------------
(* The split groups.  Among finitely many numbers one is largest, so the n  *)
(* largest groups of a class exist.                                         *)
LEMMA LargestExists ==
  ASSUME NEW T, NEW z, NEW bound \in Nat, T # {},
         \A x \in T : z[x] \in Nat /\ z[x] <= bound
  PROVE  \E x \in T : \A y \in T : z[y] <= z[x]
<1> DEFINE I == {n \in Nat : (\A x \in T : z[x] <= n) => \E x \in T : \A y \in T : z[y] <= z[x]}
<1>1. 0 \in I
  <2>1. ASSUME \A x \in T : z[x] <= 0 PROVE \A x, y \in T : z[y] <= z[x]
    BY <2>1
  <2>2. QED
    BY <2>1
<1>2. ASSUME NEW n \in I PROVE n + 1 \in I
  <2>1. ASSUME \A x \in T : z[x] <= n + 1 PROVE \E x \in T : \A y \in T : z[y] <= z[x]
    <3>1. CASE \E x \in T : z[x] = n + 1
      BY <2>1, <3>1
    <3>2. CASE \A x \in T : z[x] # n + 1
      <4>1. \A x \in T : z[x] <= n
        BY <2>1, <3>2
      <4>2. QED
        BY <1>2, <4>1
    <3>3. QED
      BY <3>1, <3>2
  <2>2. QED
    BY <2>1
<1>3. I = Nat
  BY <1>1, <1>2, SetInduction
<1>4. QED
  BY <1>3

LEMMA TopExists ==
  ASSUME NEW T, NEW z, NEW bound \in Nat, IsFiniteSet(T),
         \A x \in T : z[x] \in Nat /\ z[x] <= bound
  PROVE  \A n \in Nat : n <= Cardinality(T) =>
           \E top \in SUBSET T : /\ Cardinality(top) = n
                                 /\ \A x \in top, y \in T \ top : z[x] >= z[y]
<1> DEFINE Top(top, n) == /\ Cardinality(top) = n
                          /\ \A x \in top, y \in T \ top : z[x] >= z[y]
           I == {n \in Nat : n <= Cardinality(T) => \E top \in SUBSET T : Top(top, n)}
<1>1. 0 \in I
  <2>1. Top({}, 0)
    BY FS_EmptySet
  <2>2. QED
    BY <2>1
<1>2. ASSUME NEW n \in I PROVE n + 1 \in I
  <2>1. ASSUME n + 1 <= Cardinality(T) PROVE \E top \in SUBSET T : Top(top, n + 1)
    <3>1. Cardinality(T) \in Nat /\ n <= Cardinality(T)
      BY <2>1, FS_CardinalityType
    <3>2. PICK top \in SUBSET T : Top(top, n)
      BY <1>2, <3>1
    <3>3. IsFiniteSet(top) /\ T \ top # {}
      BY <2>1, <3>1, <3>2, FS_Subset
    <3>4. PICK x \in T \ top : \A y \in T \ top : z[y] <= z[x]
      BY <3>3, LargestExists
    <3>5. Cardinality(top \union {x}) = n + 1
      BY <3>2, <3>3, <3>4, FS_AddElement
    <3>6. Top(top \union {x}, n + 1)
      BY <3>2, <3>4, <3>5
    <3>7. QED
      BY <3>6
  <2>2. QED
    BY <2>1
<1>3. I = Nat
  BY <1>1, <1>2, SetInduction
<1>4. QED
  BY <1>3

(* Objects of one class with the same holder classes are folded together;   *)
(* nothing of a class with too many groups is folded yet; in a class what   *)
(* is folded weighs no more than what is not; the inspected class is whole. *)
Key(o)    == A!R!KeyOf(o)
Weight(o) == A!R!Bytes({p \in Objects : Key(p) = Key(o)})
Own(g, c) == {k \in {g[o] : o \in Objects} : k.cls = c /\ ~k.rest}
Over(g)   == {c \in Classes : Cardinality(Own(g, c)) > MaxGroupsPerClass}
Inspected(o) == graph.roots # <<>> /\ graph.cls[o] = A!R!RootCls

FoldedWell(g) ==
  /\ \A o \in Objects : g[o] \in {Key(o), A!R!Residual(graph.cls[o])}
  /\ \A o, p \in Objects : Key(o) = Key(p) => g[o] = g[p]
  /\ \A o, p \in Objects :
       graph.cls[o] = graph.cls[p] /\ g[o].rest /\ ~g[p].rest => Weight(o) <= Weight(p)
  /\ \A o \in Objects : graph.cls[o] \in Over(g) \/ Inspected(o) => ~g[o].rest

GroupInv ==
  pc \in {"caps", "done"} => FoldedWell(group) /\ (pc = "done" => Over(group) = {})

LEMMA KeyFacts ==
  ASSUME graph \in Graphs
  PROVE  /\ \A o \in Objects : /\ Key(o).cls = graph.cls[o] /\ ~Key(o).rest
                               /\ graph.cls[o] \in Classes
                               /\ Inspected(o) => Key(o) = A!R!Whole(A!R!RootCls)
         /\ \A c : A!R!Residual(c).cls = c /\ A!R!Residual(c).rest
<1>1. graph.cls \in [Objects -> Classes]
  BY GraphAssumption
<1>2. QED
  BY <1>1 DEF Key, A!R!KeyOf, A!R!Whole, A!R!Copy, A!R!Residual, Inspected

LEMMA GroupFacts ==
  ASSUME graph \in Graphs, FoldedWell(group)
  PROVE  /\ A!R!OverM = Over(group)
         /\ \A c : {k \in A!R!KeysOf(c) : ~k.rest} = Own(group, c)
         /\ \A o \in Objects : ~group[o].rest => group[o] = Key(o) /\ A!R!Size(Key(o)) = Weight(o)
         /\ \A o \in Objects : group[o].cls = graph.cls[o] /\ group[o] \in A!R!KeysOf(graph.cls[o])
         /\ \A k : A!R!Size(k) \in Nat /\ A!R!Size(k) <= A!R!Bytes(Objects)
<1>1. \A c : {k \in A!R!KeysOf(c) : ~k.rest} = Own(group, c)
  BY DEF A!R!KeysOf, A!R!GroupKeys, Own
<1>2. A!R!OverM = Over(group)
  BY <1>1 DEF A!R!OverM, Over, A!R!Cardinality, Cardinality
<1>3. \A o \in Objects : group[o].cls = graph.cls[o] /\ (~group[o].rest => group[o] = Key(o))
  BY KeyFacts DEF FoldedWell
<1>4. \A o \in Objects : group[o] \in A!R!KeysOf(graph.cls[o])
  BY <1>3 DEF A!R!KeysOf, A!R!GroupKeys
<1>5. ASSUME NEW o \in Objects, ~group[o].rest
      PROVE  A!R!Size(Key(o)) = Weight(o)
  <2>1. \A p \in Objects : group[p] = Key(o) <=> Key(p) = Key(o)
    BY <1>3, <1>5, KeyFacts DEF FoldedWell
  <2>2. QED
    BY <2>1 DEF A!R!Size, A!R!Members, Weight
<1>6. \A k : A!R!Size(k) \in Nat /\ A!R!Size(k) <= A!R!Bytes(Objects)
  <2>1. \A k : A!R!Members(k) \subseteq Objects
    BY DEF A!R!Members
  <2>2. QED
    BY <2>1, BytesFacts DEF A!R!Size
<1>7. QED
  BY <1>1, <1>2, <1>3, <1>4, <1>5, <1>6

LEMMA FoldKeeps ==
  ASSUME graph \in Graphs, FoldedWell(group), NEW ks, NEW h,
         h = [o \in Objects |-> IF group[o] \in ks THEN A!R!Residual(group[o].cls) ELSE group[o]],
         \A k \in ks : ~k.rest,
         \A o, p \in Objects :
           graph.cls[o] = graph.cls[p] /\ group[o] \in ks /\ group[p] \notin ks /\ ~group[p].rest =>
             Weight(o) <= Weight(p),
         \A o \in Objects : group[o] \in ks => ~Inspected(o) /\ graph.cls[o] \notin Over(h),
         Over(h) \subseteq Over(group)
  PROVE  FoldedWell(h)
<1>1. \A o \in Objects : group[o].cls = graph.cls[o] /\ (~group[o].rest => group[o] = Key(o))
  BY GroupFacts
<1>2. \A o \in Objects : h[o] = IF group[o] \in ks THEN A!R!Residual(graph.cls[o]) ELSE group[o]
  BY <1>1
<1>3. \A o \in Objects : h[o] \in {Key(o), A!R!Residual(graph.cls[o])}
  BY <1>2 DEF FoldedWell
<1>4. \A o, p \in Objects : Key(o) = Key(p) => h[o] = h[p]
  <2>1. \A o, p \in Objects : Key(o) = Key(p) => graph.cls[o] = graph.cls[p] /\ group[o] = group[p]
    BY KeyFacts DEF FoldedWell
  <2>2. QED
    BY <1>2, <2>1
<1>5. ASSUME NEW o \in Objects, NEW p \in Objects,
             graph.cls[o] = graph.cls[p], h[o].rest, ~h[p].rest
      PROVE  Weight(o) <= Weight(p)
  <2>1. group[p] \notin ks /\ ~group[p].rest
    BY <1>2, <1>5, KeyFacts
  <2>2. group[o] \in ks \/ group[o].rest
    BY <1>2, <1>5
  <2>3. QED
    BY <1>5, <2>1, <2>2 DEF FoldedWell
<1>6. \A o \in Objects : graph.cls[o] \in Over(h) \/ Inspected(o) => ~h[o].rest
  BY <1>2 DEF FoldedWell
<1>7. QED
  BY <1>3, <1>4, <1>5, <1>6 DEF FoldedWell

LEMMA SameFolds ==
  ASSUME graph' = graph
  PROVE  /\ \A o : Key(o)' = Key(o)
         /\ FoldedWell(group)' <=> FoldedWell(group')
         /\ Over(group)' = Over(group')
<1>1. \A o : Key(o)' = Key(o)
  BY DEF Key, A!R!KeyOf, A!R!RootCls, A!R!Holders, A!R!Succ, A!R!Targets, A!R!Whole, A!R!Copy
<1>2. \A o : Weight(o)' = Weight(o)
  <2>1. \A o : {p \in Objects : Key(p) = Key(o)}' = {p \in Objects : Key(p) = Key(o)}
    BY <1>1
  <2>2. QED
    BY <2>1 DEF Weight
<1>3. \A o : Inspected(o)' <=> Inspected(o)
  BY DEF Inspected, A!R!RootCls
<1>4. Over(group)' = Over(group')
  BY DEF Over, Own
<1>5. QED
  BY <1>1, <1>2, <1>3, <1>4 DEF FoldedWell, A!R!Residual

LEMMA KeysAreFinite ==
  ASSUME NEW g, NEW c
  PROVE  /\ IsFiniteSet({g[o] : o \in Objects})
         /\ IsFiniteSet(Own(g, c)) /\ Cardinality(Own(g, c)) \in Nat
<1> DEFINE h == [o \in Objects |-> g[o]]
           keys == {g[o] : o \in Objects}
<1>1. h \in Surjection(Objects, keys)
  BY DEF Surjection
<1>2. IsFiniteSet(Objects)
  BY GraphAssumption
<1>3. IsFiniteSet(keys)
  <2> HIDE DEF h, keys
  <2> QED
    BY <1>1, <1>2, FS_Surjection
<1>4. Own(g, c) \in SUBSET keys
  BY DEF Own
<1>5. QED
  BY <1>3, <1>4, FS_Subset, FS_CardinalityType

LEMMA NotOver ==
  ASSUME NEW g, NEW c, NEW s, IsFiniteSet(s), Own(g, c) \subseteq s,
         Cardinality(s) <= MaxGroupsPerClass
  PROVE  c \notin Over(g)
<1>1. /\ Cardinality(Own(g, c)) <= Cardinality(s) /\ Cardinality(s) \in Nat
      /\ Cardinality(Own(g, c)) \in Nat /\ MaxGroupsPerClass \in Nat
  BY KeysAreFinite, FS_Subset, FS_CardinalityType, LimitsAssumption
<1>2. QED
  BY <1>1 DEF Over

LEMMA OverShrinks ==
  ASSUME NEW g, NEW h, NEW c \in Over(h), Own(h, c) \subseteq Own(g, c)
  PROVE  c \in Over(g)
<1>1. IsFiniteSet(Own(g, c)) /\ Cardinality(Own(g, c)) \in Nat /\ MaxGroupsPerClass \in Nat
  BY KeysAreFinite, LimitsAssumption
<1>2. Cardinality(Own(g, c)) > MaxGroupsPerClass
  BY <1>1, NotOver
<1>3. QED
  BY <1>2 DEF Over

LEMMA LargestFacts ==
  ASSUME graph \in Graphs, FoldedWell(group), NEW c \in Over(group)
  PROVE  LET top == A!R!Largest(A!R!KeysOf(c), MaxGroupsPerClass)
         IN /\ top \subseteq A!R!KeysOf(c) /\ Cardinality(top) = MaxGroupsPerClass
            /\ \A k \in top, l \in A!R!KeysOf(c) \ top : A!R!Size(k) >= A!R!Size(l)
<1> DEFINE ks == A!R!KeysOf(c)
           n == MaxGroupsPerClass
           z == [k \in ks |-> A!R!Size(k)]
           Top(top) == /\ Cardinality(top) = n
                       /\ \A k \in top, l \in ks \ top : A!R!Size(k) >= A!R!Size(l)
<1>1. n \in Nat
  BY LimitsAssumption
<1>2. IsFiniteSet(ks) /\ Cardinality(ks) \in Nat
  <2>1. ks \in SUBSET {group[o] : o \in Objects}
    BY DEF A!R!KeysOf, A!R!GroupKeys
  <2>2. IsFiniteSet({group[o] : o \in Objects})
    BY KeysAreFinite
  <2> HIDE DEF ks
  <2>3. QED
    BY <2>1, <2>2, FS_Subset, FS_CardinalityType
<1>3. n <= Cardinality(ks)
  <2>1. Own(group, c) \subseteq ks
    BY DEF Own, A!R!KeysOf, A!R!GroupKeys
  <2> HIDE DEF ks
  <2>2. QED
    BY <1>1, <1>2, <2>1, NotOver
<1>4. A!R!Bytes(Objects) \in Nat /\ \A k \in ks : z[k] \in Nat /\ z[k] <= A!R!Bytes(Objects)
  BY GroupFacts, BytesFacts
<1>5. \E top \in SUBSET ks : Top(top)
  <2>1. \A k \in ks : z[k] = A!R!Size(k)
    OBVIOUS
  <2> HIDE DEF z, ks, n
  <2>2. PICK top \in SUBSET ks : /\ Cardinality(top) = n
                                 /\ \A k \in top, l \in ks \ top : z[k] >= z[l]
    BY <1>1, <1>2, <1>3, <1>4, TopExists
  <2>3. Top(top)
    BY <2>1, <2>2
  <2>4. QED
    BY <2>3
<1>6. A!R!Largest(ks, n) = CHOOSE top \in {t \in SUBSET ks : Cardinality(t) = n} :
                             \A k \in top, l \in ks \ top : A!R!Size(k) >= A!R!Size(l)
  BY DEF A!R!Largest, A!R!kSubset, A!R!Cardinality, Cardinality
<1>7. A!R!Largest(ks, n) \in SUBSET ks /\ Top(A!R!Largest(ks, n))
  <2> HIDE DEF ks, n
  <2> QED
    BY <1>5, <1>6
<1>8. QED
  BY <1>7

LEMMA FoldClassGroups ==
  ASSUME graph \in Graphs, graph' = graph, pc' = pc, GroupInv, A!R!FoldClass
  PROVE  GroupInv'
<1>1. pc = "caps" /\ FoldedWell(group)
  BY DEF GroupInv, A!R!FoldClass
<1>2. PICK c \in A!R!OverM :
        A!R!Fold(A!R!KeysOf(c) \ A!R!Largest(A!R!KeysOf(c), MaxGroupsPerClass))
  BY DEF A!R!FoldClass
<1>3. c \in Over(group) /\ MaxGroupsPerClass \in Nat \ {0}
  BY <1>1, <1>2, GroupFacts, LimitsAssumption
<1> DEFINE top == A!R!Largest(A!R!KeysOf(c), MaxGroupsPerClass)
           ks == A!R!KeysOf(c) \ top
<1>4. group' = [o \in Objects |-> IF group[o] \in ks THEN A!R!Residual(group[o].cls) ELSE group[o]]
  BY <1>2 DEF A!R!Fold
<1>5. /\ top \subseteq A!R!KeysOf(c) /\ Cardinality(top) = MaxGroupsPerClass
      /\ \A k \in top, l \in ks : A!R!Size(k) >= A!R!Size(l)
  BY <1>1, <1>3, LargestFacts
<1> HIDE DEF top
<1>6. \A o \in Objects : /\ graph.cls[o] = c <=> group[o] \in A!R!KeysOf(c)
                         /\ graph.cls[o] = c => /\ ~group[o].rest /\ group[o] = Key(o)
                                                /\ A!R!Size(Key(o)) = Weight(o)
                                                /\ ~Inspected(o)
  <2>1. \A o \in Objects : graph.cls[o] = c <=> group[o] \in A!R!KeysOf(c)
    BY <1>1, GroupFacts DEF A!R!KeysOf
  <2>2. \A o \in Objects : graph.cls[o] = c => /\ ~group[o].rest /\ group[o] = Key(o)
                                               /\ A!R!Size(Key(o)) = Weight(o)
    BY <1>1, <1>3, GroupFacts DEF FoldedWell
  <2>3. ASSUME NEW p \in Objects, graph.cls[p] = c, Inspected(p) PROVE FALSE
    <3>1. \A o \in Objects : graph.cls[o] = c => group[o] = A!R!Whole(A!R!RootCls)
      BY <2>2, <2>3, KeyFacts DEF Inspected
    <3>2. Own(group, c) \subseteq {A!R!Whole(A!R!RootCls)}
      BY <1>1, <3>1, GroupFacts DEF Own
    <3>3. /\ IsFiniteSet({A!R!Whole(A!R!RootCls)})
          /\ Cardinality({A!R!Whole(A!R!RootCls)}) <= MaxGroupsPerClass
      BY <1>3, FS_Singleton
    <3>4. QED
      BY <1>3, <3>2, <3>3, NotOver
  <2>4. QED
    BY <2>1, <2>2, <2>3
<1>7. \A k \in ks : ~k.rest
  BY <1>6 DEF A!R!KeysOf, A!R!GroupKeys
<1>8. ASSUME NEW o \in Objects, NEW p \in Objects, graph.cls[o] = graph.cls[p],
             group[o] \in ks, group[p] \notin ks
      PROVE  Weight(o) <= Weight(p)
  <2>1. graph.cls[o] = c /\ graph.cls[p] = c
    BY <1>6, <1>8
  <2>2. /\ group[o] = Key(o) /\ A!R!Size(Key(o)) = Weight(o)
        /\ group[p] = Key(p) /\ A!R!Size(Key(p)) = Weight(p) /\ group[p] \in top
    BY <1>6, <1>8, <2>1
  <2>3. A!R!Size(group[p]) >= A!R!Size(group[o])
    BY <1>5, <1>8, <2>2
  <2>4. A!R!Size(group[p]) \in Nat /\ A!R!Size(group[o]) \in Nat
    BY <1>1, GroupFacts
  <2>5. QED
    BY <2>2, <2>3, <2>4
<1>9. \A o \in Objects : group'[o] = IF group[o] \in ks THEN A!R!Residual(c) ELSE group[o]
  BY <1>1, <1>4, <1>6, GroupFacts
<1>10. c \notin Over(group')
  <2>1. ASSUME NEW o \in Objects, group'[o].cls = c, ~group'[o].rest PROVE group'[o] \in top
    <3>1. group[o] \notin ks /\ group'[o] = group[o]
      BY <1>9, <2>1, KeyFacts
    <3>2. QED
      BY <1>1, <1>6, <2>1, <3>1, GroupFacts
  <2>2. Own(group', c) \subseteq top
    BY <2>1 DEF Own
  <2>3. top \in SUBSET {group[o] : o \in Objects}
    BY <1>5 DEF A!R!KeysOf, A!R!GroupKeys
  <2>4. IsFiniteSet({group[o] : o \in Objects})
    BY KeysAreFinite
  <2>5. IsFiniteSet(top) /\ Cardinality(top) <= MaxGroupsPerClass
    BY <1>3, <1>5, <2>3, <2>4, FS_Subset
  <2>6. QED
    BY <2>2, <2>5, NotOver
<1>11. ASSUME NEW d \in Over(group'), d # c PROVE d \in Over(group)
  <2>1. \A o \in Objects : group'[o].cls = d => group'[o] = group[o]
    BY <1>9, <1>11, KeyFacts
  <2>2. Own(group', d) \subseteq Own(group, d)
    BY <2>1 DEF Own
  <2>3. QED
    BY <1>11, <2>2, OverShrinks
<1>12. FoldedWell(group')
  <2>1. Over(group') \subseteq Over(group)
    BY <1>3, <1>11
  <2>2. \A o \in Objects : group[o] \in ks => ~Inspected(o) /\ graph.cls[o] \notin Over(group')
    BY <1>6, <1>10
  <2> HIDE DEF ks
  <2>3. QED
    BY <1>1, <1>4, <1>7, <1>8, <2>1, <2>2, FoldKeeps
<1>13. FoldedWell(group)'
  BY <1>12, SameFolds
<1>14. QED
  BY <1>1, <1>13 DEF GroupInv

LEMMA FoldSmallestGroups ==
  ASSUME graph \in Graphs, graph' = graph, pc' = pc, GroupInv, A!R!FoldSmallest
  PROVE  GroupInv'
<1>1. pc = "caps" /\ FoldedWell(group) /\ A!R!OverM = {}
  BY DEF GroupInv, A!R!FoldSmallest
<1>2. PICK k \in A!R!Victims : A!R!Fold({k})
  BY DEF A!R!FoldSmallest
<1>3. group' = [o \in Objects |-> IF group[o] \in {k} THEN A!R!Residual(group[o].cls) ELSE group[o]]
  BY <1>2 DEF A!R!Fold
<1>4. /\ ~k.rest /\ ~(graph.roots # <<>> /\ k.cls = A!R!RootCls)
      /\ \A l \in A!R!GroupKeys :
           ~l.rest /\ ~(graph.roots # <<>> /\ l.cls = A!R!RootCls) => A!R!Size(l) >= A!R!Size(k)
  BY <1>2 DEF A!R!Victims
<1>5. \A o \in Objects : group[o].cls = graph.cls[o]
  BY <1>1, GroupFacts
<1>6. ASSUME NEW o \in Objects, NEW p \in Objects, graph.cls[o] = graph.cls[p],
             group[o] \in {k}, group[p] \notin {k}, ~group[p].rest
      PROVE  Weight(o) <= Weight(p)
  <2>1. group[p] \in A!R!GroupKeys /\ group[p].cls = k.cls
    BY <1>5, <1>6 DEF A!R!GroupKeys
  <2>2. A!R!Size(group[p]) >= A!R!Size(group[o])
    BY <1>4, <1>6, <2>1
  <2>3. A!R!Size(group[p]) = Weight(p) /\ A!R!Size(group[o]) = Weight(o)
    BY <1>1, <1>4, <1>6, GroupFacts
  <2>4. A!R!Size(group[p]) \in Nat /\ A!R!Size(group[o]) \in Nat
    BY <1>1, GroupFacts
  <2>5. QED
    BY <2>2, <2>3, <2>4
<1>7. Over(group') = {}
  <2>1. ASSUME NEW c \in Over(group') PROVE FALSE
    <3>1. \A o \in Objects : ~group'[o].rest => group'[o] = group[o]
      BY <1>1, <1>3, KeyFacts
    <3>2. Own(group', c) \subseteq Own(group, c)
      BY <3>1 DEF Own
    <3>3. c \in Over(group)
      BY <2>1, <3>2, OverShrinks
    <3>4. QED
      BY <1>1, <3>3, GroupFacts
  <2>2. QED
    BY <2>1
<1>8. \A o \in Objects : group[o] \in {k} => ~Inspected(o) /\ graph.cls[o] \notin Over(group')
  BY <1>4, <1>5, <1>7 DEF Inspected
<1>9. FoldedWell(group')
  <2>1. Over(group') \subseteq Over(group) /\ \A l \in {k} : ~l.rest
    BY <1>4, <1>7
  <2>2. QED
    BY <1>1, <1>3, <1>6, <1>8, <2>1, FoldKeeps
<1>10. QED
  BY <1>1, <1>9, SameFolds DEF GroupInv

LEMMA NextGroups ==
  ASSUME MaskInv, GroupInv, [Next]_vars
  PROVE  GroupInv'
<1>1. CASE Passes /\ A!Compute
  <2>1. InAnalysis /\ graph \in Graphs /\ (A!R!Start \/ A!R!Work)
    BY <1>1 DEF Passes, A!Compute, InAnalysis, MaskInv
  <2>2. CASE A!R!Start \/ A!R!Spread \/ A!R!StartLevels \/ A!R!Level
    <3>1. pc' \in {"mask", "levels"}
      BY <2>2 DEF A!R!Start, A!R!Spread, A!R!StartLevels, A!R!Level
    <3>2. QED
      BY <3>1 DEF GroupInv
  <2>3. CASE A!R!StartGroups
    <3>1. pc' = "caps" /\ graph' = graph /\ group' = [o \in Objects |-> Key(o)]
      BY <2>3 DEF A!R!StartGroups, Key
    <3>2. FoldedWell(group')
      BY <2>1, <3>1, KeyFacts DEF FoldedWell
    <3>3. QED
      BY <3>1, <3>2, SameFolds DEF GroupInv
  <2>4. CASE A!R!FoldClass
    <3>1. graph' = graph /\ pc' = pc
      BY <2>4 DEF A!R!FoldClass
    <3>2. QED
      BY <2>1, <2>4, <3>1, FoldClassGroups
  <2>5. CASE A!R!FoldSmallest
    <3>1. graph' = graph /\ pc' = pc
      BY <2>5 DEF A!R!FoldSmallest
    <3>2. QED
      BY <2>1, <2>5, <3>1, FoldSmallestGroups
  <2>6. CASE A!R!Sum
    <3>1. pc = "caps" /\ pc' = "done" /\ graph' = graph /\ group' = group /\ A!R!OverM = {}
      BY <2>6 DEF A!R!Sum
    <3>2. FoldedWell(group) /\ Over(group) = {}
      BY <2>1, <3>1, GroupFacts DEF GroupInv
    <3>3. QED
      BY <3>1, <3>2, SameFolds DEF GroupInv
  <2>7. QED
    BY <2>1, <2>2, <2>3, <2>4, <2>5, <2>6 DEF A!R!Work
<1>2. CASE graph' = graph /\ pc' = pc /\ group' = group
  BY <1>2, SameFolds DEF GroupInv
<1>3. CASE Passes /\ A!Build
  <2>1. graph' = graph /\ pc' = pc /\ group' = group
    BY <1>3 DEF Passes, A!Build, A!reaching, A!A!Start, A!A!Work, A!A!Walk,
                A!A!Classify, A!A!NextGroup, A!A!NextCluster, A!A!Reseed
  <2>2. QED
    BY <1>2, <2>1
<1>4. CASE Registry \/ JsonFiles \/ Queries \/ Lookups \/ Listings \/ Attempts \/ UNCHANGED vars
  <2>1. UNCHANGED analysis
    BY <1>4 DEF Registry, InJobs, JsonFiles, InFiles, Queries, InCache, Lookups, Listings,
                Attempts, InSources, vars
  <2>2. QED
    BY <1>2, <2>1 DEF analysis
<1>5. QED
  BY <1>1, <1>3, <1>4 DEF Next, Passes, A!Next

(* Of the split groups the largest survive (reach.py): whatever the graph,  *)
(* the sizes and the caps, no group that was folded into a residual was     *)
(* larger than one of its class that was kept, a class keeps no more than   *)
(* its cap and the residual, and the inspected class is never folded.       *)
THEOREM LargestAreKept == Spec => []LargestSurvive
<1>1. Init => MaskInv /\ GroupInv
  <2> SUFFICES ASSUME Init PROVE MaskInv /\ GroupInv
    OBVIOUS
  <2>1. pc = "idle" /\ (part = "analysis" => graph \in Graphs)
    BY DEF Init, Parts, A!Init, A!Begin, A!R!Idle
  <2>2. QED
    BY <2>1 DEF MaskInv, GroupInv
<1>2. MaskInv /\ GroupInv /\ [Next]_vars => (MaskInv /\ GroupInv)'
  BY NextMasks, NextGroups
<1>3. MaskInv /\ GroupInv => LargestSurvive
  <2> SUFFICES ASSUME MaskInv, GroupInv, pc = "done"
               PROVE  LargestSurvive
    BY DEF LargestSurvive, A!LargestSurvive, A!R!LargestSurvive
  <2>1. FoldedWell(group) /\ Over(group) = {} /\ graph \in Graphs
    BY DEF GroupInv, MaskInv
  <2>2. ASSUME NEW k \in A!R!GroupKeys, NEW l \in A!R!GroupKeys,
               k.cls = l.cls, k.rest, ~l.rest, NEW o \in A!R!Members(k)
        PROVE  A!R!Bytes({p \in Objects : A!R!KeyOf(p) = A!R!KeyOf(o)}) <= A!R!Size(l)
    <3>1. PICK p \in Objects : l = group[p]
      BY DEF A!R!GroupKeys
    <3>2. o \in Objects /\ k = group[o]
      BY DEF A!R!Members
    <3>3. Weight(o) <= Weight(p)
      BY <2>1, <2>2, <3>1, <3>2, GroupFacts DEF FoldedWell
    <3>4. A!R!Size(l) = Weight(p)
      BY <2>1, <2>2, <3>1, GroupFacts
    <3>5. QED
      BY <3>3, <3>4 DEF Weight, Key
  <2>3. ASSUME NEW c \in Classes
        PROVE  A!R!Cardinality(A!R!KeysOf(c)) <= MaxGroupsPerClass + 1
    <3> DEFINE own == Own(group, c)
               all == own \union {A!R!Residual(c)}
    <3>1. IsFiniteSet(own) /\ Cardinality(own) \in Nat /\ MaxGroupsPerClass \in Nat
      BY KeysAreFinite, LimitsAssumption
    <3>2. Cardinality(own) <= MaxGroupsPerClass
      BY <2>1, <3>1 DEF Over
    <3>3. A!R!KeysOf(c) \in SUBSET all
      <4>1. ASSUME NEW k \in A!R!KeysOf(c) PROVE k \in all
        <5>1. k.cls = c /\ \E o \in Objects : k = group[o]
          BY DEF A!R!KeysOf, A!R!GroupKeys
        <5>2. PICK o \in Objects : k = group[o]
          BY <5>1
        <5>3. CASE ~k.rest
          BY <5>1, <5>2, <5>3 DEF Own
        <5>4. CASE k.rest
          BY <2>1, <5>1, <5>2, <5>4, KeyFacts DEF FoldedWell
        <5>5. QED
          BY <5>3, <5>4
      <4>2. QED
        BY <4>1
    <3> HIDE DEF own
    <3>4. IsFiniteSet(all) /\ Cardinality(all) \in Nat /\ Cardinality(all) <= MaxGroupsPerClass + 1
      <4>1. /\ IsFiniteSet(all)
            /\ Cardinality(all) = IF A!R!Residual(c) \in own THEN Cardinality(own)
                                 ELSE Cardinality(own) + 1
        BY <3>1, FS_AddElement
      <4>2. QED
        BY <3>1, <3>2, <4>1
    <3> HIDE DEF all
    <3>5. Cardinality(A!R!KeysOf(c)) <= Cardinality(all) /\ Cardinality(A!R!KeysOf(c)) \in Nat
      BY <3>3, <3>4, FS_Subset, FS_CardinalityType
    <3>6. QED
      BY <3>1, <3>4, <3>5 DEF A!R!Cardinality, Cardinality
  <2>4. ASSUME graph.roots # <<>> PROVE ~group[Head(graph.roots)].rest
    <3>1. Head(graph.roots) \in Objects
      BY <2>1, <2>4, GraphFacts
    <3>2. Inspected(Head(graph.roots))
      BY <2>4 DEF Inspected, A!R!RootCls
    <3>3. QED
      BY <2>1, <3>1, <3>2 DEF FoldedWell
  <2>5. QED
    BY <2>2, <2>3, <2>4 DEF LargestSurvive, A!LargestSurvive, A!R!LargestSurvive
<1>4. QED
  BY <1>1, <1>2, <1>3, PTL DEF Spec, Safety

-----------------------------------------------------------------------------
(* The levels.  The worklist of _levels is sorted by level and spans two,   *)
(* so what is reached first is reached by a shortest way.                   *)
Looked(u) == \A v \in Succ(u) : lvl[v] # -1 /\ lvl[v] <= lvl[u] + 1

LevelsTyped ==
  /\ lvl \in [Objects -> Nat \union {-1}]
  /\ \A r \in Roots : lvl[r] = 0
  /\ \A o \in Objects : lvl[o] # -1 => o \in Within(Roots, lvl[o])

LevelQueue ==
  /\ queue \in Seq(Objects)
  /\ \A i \in 1..Len(queue) : lvl[queue[i]] # -1
  /\ \A i, j \in 1..Len(queue) : i <= j => lvl[queue[i]] <= lvl[queue[j]]
  /\ queue # <<>> => \A o \in Objects : lvl[o] <= lvl[queue[1]] + 1
  /\ \A u \in Objects : lvl[u] # -1 => Queued(u) \/ Looked(u)

Summed ==
  reach = [c \in {graph.cls[o] : o \in Objects} |-> A!R!Rows(A!R!MembersOfClass(c))]

LevelInv ==
  /\ pc \in {"levels", "caps", "done"} => LevelsTyped
  /\ pc = "levels" => LevelQueue
  /\ pc \in {"caps", "done"} => \A u \in Objects : lvl[u] # -1 => Looked(u)
  /\ pc = "done" => Summed

LEMMA StartLevelsLevels ==
  ASSUME graph \in Graphs, graph' = graph, A!R!StartLevels
  PROVE  LevelInv'
<1>1. /\ pc' = "levels" /\ queue' = graph.roots
      /\ lvl' = [o \in Objects |-> IF o \in Roots THEN 0 ELSE -1]
  BY ReachGraph DEF A!R!StartLevels, A!R!Unlevelled
<1>2. /\ graph.roots \in Seq(Objects) /\ Roots \subseteq Objects
      /\ \A r \in Roots : \E i \in 1..Len(graph.roots) : graph.roots[i] = r
      /\ \A i \in 1..Len(graph.roots) : graph.roots[i] \in Roots
  BY GraphFacts DEF Roots
<1>3. Roots' = Roots /\ \A o \in Roots : o \in Within(Roots, 0)'
  BY <1>2, SameGraph, WithinSteps
<1>4. LevelsTyped'
  BY <1>1, <1>2, <1>3 DEF LevelsTyped
<1>5. LevelQueue'
  <2>1. \A u \in Objects : lvl'[u] # -1 => Queued(u)'
    BY <1>1, <1>2 DEF Queued
  <2>2. \A i \in 1..Len(queue') : lvl'[queue'[i]] = 0
    BY <1>1, <1>2
  <2>3. \A o \in Objects : lvl'[o] <= 0
    BY <1>1
  <2>4. queue' # <<>> => 1 \in 1..Len(queue')
    BY <1>1, <1>2
  <2>5. QED
    BY <1>1, <1>2, <2>1, <2>2, <2>3, <2>4 DEF LevelQueue
<1>6. QED
  BY <1>1, <1>4, <1>5 DEF LevelInv

LEMMA LevelLevels ==
  ASSUME graph \in Graphs, graph' = graph, LevelInv, A!R!Level
  PROVE  LevelInv'
<1> DEFINE u == Head(queue)
           new == {v \in Succ(u) : lvl[v] = -1}
           order == A!R!SetToSeq(new)
           d == lvl[u]
<1>1. /\ pc = "levels" /\ pc' = pc /\ queue # <<>>
      /\ lvl' = [o \in Objects |-> IF o \in new THEN d + 1 ELSE lvl[o]]
      /\ queue' = Tail(queue) \o order
  BY ReachGraph DEF A!R!Level, A!R!Unlevelled
<1>2. LevelsTyped /\ LevelQueue
  BY <1>1 DEF LevelInv
<1>3. queue \in Seq(Objects) /\ u \in Objects /\ u = queue[1] /\ 1 \in 1..Len(queue) /\ d \in Nat
  <2>1. queue \in Seq(Objects) /\ u \in Objects /\ u = queue[1] /\ 1 \in 1..Len(queue)
    BY <1>1, <1>2 DEF LevelQueue
  <2>2. QED
    BY <1>2, <2>1 DEF LevelQueue, LevelsTyped
<1>4. new \subseteq Objects /\ IsFiniteSet(new)
  BY SuccFacts, GraphAssumption, FS_Subset
<1>5. order \in Seq(new) /\ \A v \in new : \E i \in 1..Len(order) : order[i] = v
  <2> HIDE DEF new
  <2> QED
    BY <1>4, SetToSeqFacts
<1>6. /\ \A v \in Succ(u) : v \in new <=> lvl[v] = -1
      /\ new \subseteq Succ(u) /\ \A v \in new : lvl[v] = -1
  OBVIOUS
<1> HIDE DEF new, order, u, d
<1>7. \A o \in Objects : /\ o \in new => lvl'[o] = d + 1
                         /\ o \notin new => lvl'[o] = lvl[o]
                         /\ lvl[o] # -1 => o \notin new
  BY <1>1, <1>6
<1>8. LevelsTyped'
  <2>1. lvl' \in [Objects -> Nat \union {-1}]
    BY <1>1, <1>2, <1>3 DEF LevelsTyped
  <2>2. \A r \in Roots : lvl'[r] = 0
    BY <1>2, <1>7, GraphFacts DEF LevelsTyped
  <2>3. ASSUME NEW o \in Objects, lvl'[o] # -1 PROVE o \in Within(Roots, lvl'[o])
    <3>1. CASE o \in new
      <4>1. Roots \in SUBSET Objects /\ u \in Within(Roots, d) /\ o \in Succ(u)
        BY <1>2, <1>3, <1>6, <3>1, GraphFacts DEF LevelsTyped, d
      <4>2. Within(Roots, d + 1)
              = Within(Roots, d) \union UNION {Succ(w) : w \in Within(Roots, d)}
        BY <1>3, <4>1, WithinSteps
      <4>3. QED
        BY <1>7, <3>1, <4>1, <4>2
    <3>2. CASE o \notin new
      BY <1>2, <1>7, <2>3, <3>2 DEF LevelsTyped
    <3>3. QED
      BY <3>1, <3>2
  <2>4. QED
    BY <2>1, <2>2, <2>3, SameGraph DEF LevelsTyped
<1>9. /\ queue' \in Seq(Objects) /\ Len(Tail(queue)) \in Nat
      /\ \A i \in 1..Len(queue') :
           \/ i <= Len(Tail(queue)) /\ i + 1 \in 1..Len(queue) /\ queue'[i] = queue[i + 1]
           \/ i > Len(Tail(queue)) /\ queue'[i] \in new
  <2>1. Tail(queue) \in Seq(Objects) /\ order \in Seq(Objects)
    BY <1>1, <1>3, <1>4, <1>5
  <2>2. \A i \in 1..Len(order) : order[i] \in new
    BY <1>5
  <2>3. \A i \in 1..Len(Tail(queue)) : i + 1 \in 1..Len(queue) /\ Tail(queue)[i] = queue[i + 1]
    BY <1>1, <1>3
  <2>4. /\ queue' \in Seq(Objects) /\ Len(queue') = Len(Tail(queue)) + Len(order)
        /\ Len(Tail(queue)) \in Nat /\ Len(order) \in Nat
        /\ \A i \in 1..Len(Tail(queue)) : queue'[i] = Tail(queue)[i]
        /\ \A i \in 1..Len(order) : queue'[Len(Tail(queue)) + i] = order[i]
    BY <1>1, <2>1, PushFacts
  <2>5. ASSUME NEW i \in 1..Len(queue'), i > Len(Tail(queue)) PROVE queue'[i] \in new
    <3>1. /\ i - Len(Tail(queue)) \in 1..Len(order)
          /\ i = Len(Tail(queue)) + (i - Len(Tail(queue)))
      BY <2>4, <2>5
    <3>2. QED
      BY <2>2, <2>4, <3>1
  <2>6. QED
    BY <2>3, <2>4, <2>5
<1>10. \A i \in 1..Len(queue) : /\ queue[i] \in Objects /\ lvl[queue[i]] \in Nat
                                /\ d <= lvl[queue[i]] /\ lvl[queue[i]] <= d + 1
                                /\ lvl'[queue[i]] = lvl[queue[i]]
  <2>1. ASSUME NEW i \in 1..Len(queue)
        PROVE  queue[i] \in Objects /\ lvl[queue[i]] \in Nat /\ lvl'[queue[i]] = lvl[queue[i]]
    BY <1>2, <1>3, <1>7 DEF LevelsTyped, LevelQueue
  <2>2. \A i \in 1..Len(queue) : d <= lvl[queue[i]] /\ lvl[queue[i]] <= d + 1
    BY <1>1, <1>2, <1>3, <2>1 DEF LevelQueue, d
  <2>3. QED
    BY <2>1, <2>2
<1>11. \A o \in Objects : lvl'[o] <= d + 1
  BY <1>1, <1>2, <1>3, <1>7 DEF LevelQueue, d
<1>12. \A i \in 1..Len(queue') : /\ lvl'[queue'[i]] \in Nat
                                 /\ d <= lvl'[queue'[i]] /\ lvl'[queue'[i]] <= d + 1
                                 /\ i > Len(Tail(queue)) => lvl'[queue'[i]] = d + 1
  <2>1. ASSUME NEW i \in 1..Len(queue'), queue'[i] \in new PROVE lvl'[queue'[i]] = d + 1
    BY <1>4, <1>7, <2>1
  <2>2. ASSUME NEW i \in 1..Len(queue'), i <= Len(Tail(queue)), queue'[i] = queue[i + 1],
               i + 1 \in 1..Len(queue)
        PROVE  /\ lvl'[queue'[i]] \in Nat
               /\ d <= lvl'[queue'[i]] /\ lvl'[queue'[i]] <= d + 1
    BY <1>10, <2>2
  <2>3. QED
    BY <1>3, <1>9, <2>1, <2>2
<1>13. ASSUME NEW i \in 1..Len(queue'), NEW j \in 1..Len(queue'), i <= j
       PROVE  lvl'[queue'[i]] <= lvl'[queue'[j]]
  <2>1. CASE j > Len(Tail(queue))
    BY <1>12, <2>1
  <2>2. CASE j <= Len(Tail(queue))
    <3>1. i <= Len(Tail(queue)) /\ i + 1 <= j + 1
      BY <1>9, <1>13, <2>2
    <3>2. /\ i + 1 \in 1..Len(queue) /\ queue'[i] = queue[i + 1]
          /\ j + 1 \in 1..Len(queue) /\ queue'[j] = queue[j + 1]
      BY <1>9, <2>2, <3>1
    <3>3. lvl[queue[i + 1]] <= lvl[queue[j + 1]]
      BY <1>2, <3>1, <3>2 DEF LevelQueue
    <3>4. QED
      BY <1>10, <3>2, <3>3
  <2>3. QED
    BY <1>9, <2>1, <2>2
<1>14. ASSUME NEW w \in Objects, lvl'[w] # -1
       PROVE  Queued(w)' \/ Looked(w)'
  <2>1. Succ(w) \subseteq Objects /\ Succ(w)' = Succ(w)
    BY SuccFacts, SameGraph
  <2>2. CASE w \in new
    <3>1. PICK i \in 1..Len(order) : order[i] = w
      BY <1>5, <2>2
    <3>2. /\ Len(Tail(queue)) + i \in 1..Len(queue')
          /\ queue'[Len(Tail(queue)) + i] = w
      BY <1>1, <1>3, <1>5, <3>1
    <3>3. QED
      BY <3>2 DEF Queued
  <2>3. CASE w = u
    <3>1. \A v \in Succ(u) : lvl'[v] # -1 /\ lvl'[v] <= d + 1
      BY <1>3, <1>6, <1>7, <1>11, <2>1, <2>3
    <3>2. lvl'[w] = d
      BY <1>3, <1>7, <2>3 DEF d
    <3>3. QED
      BY <2>1, <2>3, <3>1, <3>2 DEF Looked
  <2>4. CASE w \notin new /\ w # u /\ Queued(w)
    <3>1. PICK i \in 1..Len(queue) : queue[i] = w
      BY <2>4 DEF Queued
    <3>2. i # 1
      BY <1>3, <2>4, <3>1
    <3>3. /\ i - 1 \in 1..Len(queue') /\ queue'[i - 1] = w
      BY <1>1, <1>3, <1>5, <3>1, <3>2
    <3>4. QED
      BY <3>3 DEF Queued
  <2>5. CASE w \notin new /\ Looked(w)
    <3>1. \A v \in Succ(w) : lvl'[v] # -1 /\ lvl'[v] <= lvl'[w] + 1
      BY <1>7, <2>1, <2>5 DEF Looked
    <3>2. QED
      BY <2>1, <3>1 DEF Looked
  <2>6. w \notin new => Queued(w) \/ Looked(w)
    BY <1>2, <1>7, <1>14 DEF LevelQueue
  <2>7. QED
    BY <2>2, <2>3, <2>4, <2>5, <2>6
<1>15. LevelQueue'
  <2>1. \A i \in 1..Len(queue') : lvl'[queue'[i]] # -1
    BY <1>12
  <2>2. ASSUME queue' # <<>>, NEW o \in Objects PROVE lvl'[o] <= lvl'[queue'[1]] + 1
    <3>1. 1 \in 1..Len(queue')
      BY <1>9, <2>2
    <3>2. d <= lvl'[queue'[1]] /\ lvl'[queue'[1]] \in Nat
      BY <1>12, <3>1
    <3>3. lvl'[o] <= d + 1 /\ lvl'[o] \in Nat \union {-1}
      BY <1>8, <1>11 DEF LevelsTyped
    <3>4. QED
      BY <1>3, <3>2, <3>3
  <2>3. QED
    BY <1>9, <1>13, <1>14, <2>1, <2>2 DEF LevelQueue
<1>16. QED
  BY <1>1, <1>8, <1>15 DEF LevelInv

LEMMA SameRows ==
  ASSUME graph' = graph, lvl' = lvl, mask' = mask
  PROVE  \A s : A!R!Rows(s)' = A!R!Rows(s)
<1>1. A!R!Descents' = A!R!Descents
  BY DEF A!R!Descents, A!R!Succ, A!R!Targets, A!R!Climbs
<1>2. \A s : A!R!Cone(s)' = A!R!Cone(s)
  BY <1>1 DEF A!R!Cone
<1>3. \A s : (A!R!Cone(s) \intersect A!R!Shared)' = A!R!Cone(s) \intersect A!R!Shared
  BY <1>2 DEF A!R!Shared
<1>4. QED
  BY <1>2, <1>3 DEF A!R!Rows

LEMMA SameLevels ==
  ASSUME LevelInv, graph' = graph, lvl' = lvl, pc' = pc, queue' = queue,
         mask' = mask, reach' = reach
  PROVE  LevelInv'
<1>1. /\ LevelsTyped' <=> LevelsTyped
      /\ \A u : Looked(u)' <=> Looked(u)
      /\ \A u : Queued(u)' <=> Queued(u)
  BY SameGraph DEF LevelsTyped, Looked, Queued
<1>2. LevelQueue' <=> LevelQueue
  BY <1>1 DEF LevelQueue
<1>3. Summed' <=> Summed
  BY SameRows DEF Summed, A!R!MembersOfClass
<1>4. QED
  BY <1>1, <1>2, <1>3 DEF LevelInv

LEMMA NextLevels ==
  ASSUME MaskInv, LevelInv, [Next]_vars
  PROVE  LevelInv'
<1>1. CASE Passes /\ A!Compute
  <2>1. InAnalysis /\ graph \in Graphs /\ (A!R!Start \/ A!R!Work)
    BY <1>1 DEF Passes, A!Compute, InAnalysis, MaskInv
  <2>2. CASE A!R!Start \/ A!R!Spread
    <3>1. pc' = "mask"
      BY <2>2 DEF A!R!Start, A!R!Spread
    <3>2. QED
      BY <3>1 DEF LevelInv
  <2>3. CASE A!R!StartLevels
    <3>1. graph' = graph
      BY <2>3 DEF A!R!StartLevels
    <3>2. QED
      BY <2>1, <2>3, <3>1, StartLevelsLevels
  <2>4. CASE A!R!Level
    <3>1. graph' = graph
      BY <2>4 DEF A!R!Level
    <3>2. QED
      BY <2>1, <2>4, <3>1, LevelLevels
  <2>5. CASE A!R!StartGroups \/ A!R!FoldClass \/ A!R!FoldSmallest
    <3>1. /\ pc \in {"levels", "caps"} /\ pc' = "caps" /\ graph' = graph /\ lvl' = lvl
          /\ pc = "levels" => queue = <<>>
      BY <2>5 DEF A!R!StartGroups, A!R!FoldClass, A!R!FoldSmallest
    <3>2. LevelsTyped /\ \A u \in Objects : lvl[u] # -1 => Looked(u)
      BY <3>1 DEF LevelInv, LevelQueue, Queued
    <3>3. LevelsTyped' /\ \A u \in Objects : lvl'[u] # -1 => Looked(u)'
      BY <3>1, <3>2, SameGraph DEF LevelsTyped, Looked
    <3>4. QED
      BY <3>1, <3>3 DEF LevelInv
  <2>6. CASE A!R!Sum
    <3>1. /\ pc = "caps" /\ pc' = "done" /\ graph' = graph /\ lvl' = lvl /\ mask' = mask
          /\ reach' = [c \in {graph.cls[o] : o \in Objects} |-> A!R!Rows(A!R!MembersOfClass(c))]
      BY <2>6 DEF A!R!Sum, A!R!results
    <3>2. LevelsTyped' /\ \A u \in Objects : lvl'[u] # -1 => Looked(u)'
      BY <3>1, SameGraph DEF LevelInv, LevelsTyped, Looked
    <3>3. Summed'
      BY <3>1, SameRows DEF Summed, A!R!MembersOfClass
    <3>4. QED
      BY <3>1, <3>2, <3>3 DEF LevelInv
  <2>7. QED
    BY <2>1, <2>2, <2>3, <2>4, <2>5, <2>6 DEF A!R!Work
<1>2. CASE Passes /\ A!Build
  <2>1. /\ graph' = graph /\ lvl' = lvl /\ pc' = pc /\ queue' = queue /\ mask' = mask
        /\ reach' = reach
    BY <1>2 DEF Passes, A!Build, A!reaching, A!A!Start, A!A!Work, A!A!Walk,
                A!A!Classify, A!A!NextGroup, A!A!NextCluster, A!A!Reseed
  <2>2. QED
    BY <2>1, SameLevels
<1>3. CASE Registry \/ JsonFiles \/ Queries \/ Lookups \/ Listings \/ Attempts \/ UNCHANGED vars
  <2>1. UNCHANGED analysis
    BY <1>3 DEF Registry, InJobs, JsonFiles, InFiles, Queries, InCache, Lookups, Listings,
                Attempts, InSources, vars
  <2>2. QED
    BY <2>1, SameLevels DEF analysis
<1>4. QED
  BY <1>1, <1>2, <1>3 DEF Next, Passes, A!Next

(* With the queue empty, levels are depths; a cone is the least set around  *)
(* its seeds that no reference which does not climb leaves.                 *)
LevelsDone == LevelsTyped /\ \A u \in Objects : lvl[u] # -1 => Looked(u)

LEMMA LevelsAreLeast ==
  ASSUME graph \in Graphs, LevelsDone
  PROVE  \A n \in Nat : \A o \in Within(Roots, n) : lvl[o] \in Nat /\ lvl[o] <= n
<1> DEFINE I == {n \in Nat : \A o \in Within(Roots, n) : lvl[o] \in Nat /\ lvl[o] <= n}
<1>1. Roots \in SUBSET Objects /\ lvl \in [Objects -> Nat \union {-1}]
  BY GraphFacts DEF LevelsDone, LevelsTyped
<1>2. 0 \in I
  BY <1>1, WithinSteps DEF LevelsDone, LevelsTyped
<1>3. ASSUME NEW n \in I PROVE n + 1 \in I
  <2>1. ASSUME NEW v \in Within(Roots, n + 1) PROVE lvl[v] \in Nat /\ lvl[v] <= n + 1
    <3>1. /\ Within(Roots, n) \subseteq Objects
          /\ Within(Roots, n + 1)
               = Within(Roots, n) \union UNION {Succ(o) : o \in Within(Roots, n)}
      BY <1>1, WithinSteps
    <3>2. CASE v \in Within(Roots, n)
      BY <1>3, <3>2
    <3>3. CASE v \notin Within(Roots, n)
      <4>1. PICK o \in Within(Roots, n) : v \in Succ(o)
        BY <2>1, <3>1, <3>3
      <4>2. o \in Objects /\ v \in Objects /\ lvl[o] \in Nat /\ lvl[o] <= n
        BY <1>3, <3>1, <4>1, SuccFacts
      <4>3. Looked(o)
        BY <4>2 DEF LevelsDone
      <4>4. lvl[v] # -1 /\ lvl[v] <= lvl[o] + 1
        BY <4>1, <4>3 DEF Looked
      <4>5. QED
        BY <1>1, <4>2, <4>4
    <3>4. QED
      BY <3>2, <3>3
  <2>2. QED
    BY <2>1
<1>4. I = Nat
  BY <1>2, <1>3, SetInduction
<1>5. QED
  BY <1>4

LEMMA LevelsAreDepths ==
  ASSUME graph \in Graphs, LevelsDone
  PROVE  \A o \in Reachable(Roots) : lvl[o] \in Nat /\ A!R!Depth(o) = lvl[o]
<1> SUFFICES ASSUME NEW o \in Reachable(Roots)
             PROVE  lvl[o] \in Nat /\ A!R!Depth(o) = lvl[o]
  OBVIOUS
<1> DEFINE N == Cardinality(Objects)
<1>1. N \in Nat /\ Roots \in SUBSET Objects
  BY GraphAssumption, FS_CardinalityType, GraphFacts
<1>2. o \in Objects /\ o \in Within(Roots, N)
  BY <1>1, ReachableIsClosed DEF Reachable
<1>3. lvl[o] \in Nat /\ lvl[o] <= N
  BY <1>1, <1>2, LevelsAreLeast
<1>4. o \in Within(Roots, lvl[o])
  BY <1>2, <1>3 DEF LevelsDone, LevelsTyped
<1> DEFINE Right(n) == o \in Within(Roots, n) /\ (n > 0 => o \notin Within(Roots, n - 1))
<1>5. Right(lvl[o])
  <2>1. ASSUME lvl[o] > 0, o \in Within(Roots, lvl[o] - 1) PROVE FALSE
    <3>1. lvl[o] - 1 \in Nat
      BY <1>3, <2>1
    <3>2. lvl[o] <= lvl[o] - 1
      BY <2>1, <3>1, LevelsAreLeast
    <3>3. QED
      BY <1>3, <3>2
  <2>2. QED
    BY <1>4, <2>1
<1>6. ASSUME NEW n \in 0..N, Right(n) PROVE n = lvl[o]
  <2>1. lvl[o] <= n /\ n \in Nat
    BY <1>1, <1>6, LevelsAreLeast
  <2>2. ASSUME lvl[o] < n PROVE FALSE
    <3>1. n - 1 - lvl[o] \in Nat /\ lvl[o] + (n - 1 - lvl[o]) = n - 1 /\ n > 0
      BY <1>3, <2>1, <2>2
    <3>2. Within(Roots, lvl[o]) \subseteq Within(Roots, lvl[o] + (n - 1 - lvl[o]))
      BY <1>3, <3>1, WithinGrows
    <3>3. QED
      BY <1>4, <1>6, <3>1, <3>2
  <2>3. QED
    BY <1>3, <2>1, <2>2
<1>7. A!R!Depth(o) = CHOOSE n \in 0..N : Right(n)
  BY ReachGraph DEF A!R!Depth, A!R!Cardinality, Cardinality
<1>8. lvl[o] \in 0..N
  BY <1>1, <1>3
<1> HIDE DEF Right, N
<1>9. QED
  BY <1>3, <1>5, <1>6, <1>7, <1>8

LEMMA ConeFacts ==
  ASSUME NEW s \in SUBSET Objects
  PROVE  /\ s \subseteq A!R!Cone(s) /\ A!R!Cone(s) \subseteq Objects
         /\ \A u \in A!R!Cone(s) : \A v \in Succ(u) : ~A!R!Climbs(u, v) => v \in A!R!Cone(s)
         /\ \A t \in SUBSET Objects :
              (/\ s \subseteq t
               /\ \A u \in t : \A v \in Succ(u) : ~A!R!Climbs(u, v) => v \in t)
              => A!R!Cone(s) \subseteq t
<1> DEFINE adj == A!R!Descents
           N == Cardinality(Objects)
<1>1. \A u \in Objects : adj[u] = {v \in Succ(u) : ~A!R!Climbs(u, v)}
  BY ReachGraph DEF A!R!Descents
<1>2. A!R!Cone(s) = Along(adj, s, N)
  BY ReachGraph DEF A!R!Cone, A!R!Cardinality, Cardinality
<1>3. N \in Nat
  BY GraphAssumption, FS_CardinalityType
<1> HIDE DEF adj
<1>4. \A u \in Objects : adj[u] \subseteq Objects
  BY <1>1, SuccFacts
<1>5. s \subseteq A!R!Cone(s) /\ A!R!Cone(s) \subseteq Objects /\ Keeps(adj, A!R!Cone(s))
  BY <1>2, <1>4, AlongCloses
<1>6. ASSUME NEW t \in SUBSET Objects, s \subseteq t,
             \A u \in t : \A v \in Succ(u) : ~A!R!Climbs(u, v) => v \in t
      PROVE  A!R!Cone(s) \subseteq t
  <2>1. Keeps(adj, t)
    BY <1>1, <1>6 DEF Keeps
  <2>2. QED
    BY <1>2, <1>3, <1>6, <2>1, AlongIsLeast
<1>7. QED
  BY <1>1, <1>5, <1>6 DEF Keeps

(* The roots' cone misses nothing: a nearest object not in it would be      *)
(* referred to by one that is nearer, along a reference that does not climb.*)
LEMMA RootsCone ==
  ASSUME graph \in Graphs, LevelsDone
  PROVE  A!R!Cone(Roots) = Reachable(Roots)
<1>1. Roots \in SUBSET Objects
  BY GraphFacts
<1>2. A!R!Cone(Roots) \subseteq Reachable(Roots)
  BY <1>1, ConeFacts, ReachableIsClosed DEF Closed
<1> DEFINE I == {n \in Nat : Within(Roots, n) \subseteq A!R!Cone(Roots)}
<1>3. 0 \in I
  BY <1>1, ConeFacts, WithinSteps
<1>4. ASSUME NEW n \in I PROVE n + 1 \in I
  <2>1. ASSUME NEW v \in Within(Roots, n + 1), v \notin Within(Roots, n)
        PROVE  v \in A!R!Cone(Roots)
    <3>1. /\ Within(Roots, n) \subseteq Objects
          /\ Within(Roots, n + 1)
               = Within(Roots, n) \union UNION {Succ(o) : o \in Within(Roots, n)}
      BY <1>1, WithinSteps
    <3>2. PICK u \in Within(Roots, n) : v \in Succ(u)
      BY <2>1, <3>1
    <3>3. lvl[u] \in Nat /\ lvl[u] <= n /\ lvl[v] \in Nat /\ v \in Objects
      BY <2>1, <3>2, LevelsAreLeast, SuccFacts
    <3>4. ASSUME lvl[v] <= n PROVE FALSE
      <4>1. v \in Within(Roots, lvl[v]) /\ n - lvl[v] \in Nat /\ lvl[v] + (n - lvl[v]) = n
        BY <3>3, <3>4 DEF LevelsDone, LevelsTyped
      <4>2. Within(Roots, lvl[v]) \subseteq Within(Roots, lvl[v] + (n - lvl[v]))
        BY <3>3, <4>1, WithinGrows
      <4>3. QED
        BY <2>1, <4>1, <4>2
    <3>5. ~A!R!Climbs(u, v)
      BY <3>3, <3>4 DEF A!R!Climbs
    <3>6. u \in A!R!Cone(Roots)
      BY <1>4
    <3>7. QED
      BY <1>1, <3>2, <3>5, <3>6, ConeFacts
  <2>2. QED
    BY <1>4, <2>1
<1>5. I = Nat
  BY <1>3, <1>4, SetInduction
<1>6. Cardinality(Objects) \in Nat
  BY GraphAssumption, FS_CardinalityType
<1>7. Reachable(Roots) \subseteq A!R!Cone(Roots)
  BY <1>5, <1>6 DEF Reachable
<1>8. QED
  BY <1>2, <1>7

(* "Who retains how much" (reach.py): for every finite graph and all sizes, *)
(* a class is not charged with an object nearer to the roots than all its   *)
(* instances, and the cut of references upward takes nothing from the       *)
(* inspected class: what it holds is all that is reachable, its shared part *)
(* all that several sampled instances reach.                                *)
THEOREM ConesAreOriented == Spec => []ConesLookDown
<1>1. Init => MaskInv /\ LevelInv
  <2> SUFFICES ASSUME Init PROVE MaskInv /\ LevelInv
    OBVIOUS
  <2>1. pc = "idle" /\ (part = "analysis" => graph \in Graphs)
    BY DEF Init, Parts, A!Init, A!Begin, A!R!Idle
  <2>2. QED
    BY <2>1 DEF MaskInv, LevelInv
<1>2. MaskInv /\ LevelInv /\ [Next]_vars => (MaskInv /\ LevelInv)'
  BY NextMasks, NextLevels
<1>3. MaskInv /\ LevelInv => ConesLookDown
  <2> SUFFICES ASSUME MaskInv, LevelInv, pc = "done" PROVE ConesLookDown
    BY DEF ConesLookDown, A!ConesLookDown, A!R!ConesLookDown
  <2>1. /\ graph \in Graphs /\ LevelsDone /\ Roots \in SUBSET Objects
        /\ DOMAIN reach = {graph.cls[o] : o \in Objects}
        /\ \A c \in DOMAIN reach : reach[c] = A!R!Rows(A!R!MembersOfClass(c))
    BY GraphFacts DEF MaskInv, LevelInv, LevelsDone, Summed
  <2>2. \A c : A!R!MembersOfClass(c) \in SUBSET Objects
    BY DEF A!R!MembersOfClass
  <2>3. \A s : /\ A!R!Rows(s).rincl = A!R!Bytes(A!R!Cone(s))
               /\ A!R!Rows(s).rshared = A!R!Bytes(A!R!Cone(s) \intersect A!R!Shared)
    BY DEF A!R!Rows
  <2>4. /\ Reachable(Roots) \subseteq Objects /\ Closed(Reachable(Roots))
        /\ \A o \in Reachable(Roots) : lvl[o] \in Nat /\ A!R!Depth(o) = lvl[o]
    BY <2>1, ReachableIsClosed, LevelsAreDepths
  <2>5. ASSUME NEW c \in DOMAIN reach, NEW ms, NEW above,
               ms = A!R!MembersOfClass(c), ms \subseteq Reachable(Roots),
               above = {o \in Reachable(Roots) : \A m \in ms : A!R!Depth(o) < A!R!Depth(m)}
        PROVE  reach[c].rincl <= A!R!Bytes(Reachable(ms) \ above)
    <3> DEFINE below == Reachable(ms) \ above
    <3>1. /\ ms \in SUBSET Objects /\ ms \subseteq Reachable(ms)
          /\ Reachable(ms) \subseteq Objects /\ Closed(Reachable(ms))
      BY <2>2, <2>5, ReachableIsClosed
    <3>2. Reachable(ms) \subseteq Reachable(Roots)
      BY <2>4, <2>5, ReachableIsLeast
    <3>3. ms \subseteq below
      BY <2>4, <2>5, <3>1
    <3>4. ASSUME NEW u \in below, NEW v \in Succ(u), ~A!R!Climbs(u, v) PROVE v \in below
      <4>1. v \in Reachable(ms) /\ u \in Reachable(Roots) /\ v \in Reachable(Roots)
        BY <3>1, <3>2 DEF Closed
      <4>2. lvl[u] \in Nat /\ lvl[v] \in Nat /\ lvl[u] <= lvl[v]
        BY <2>4, <3>4, <4>1 DEF A!R!Climbs, A!R!Unlevelled
      <4>3. PICK m \in ms : ~(A!R!Depth(u) < A!R!Depth(m))
        BY <2>5, <4>1
      <4>4. ~(A!R!Depth(v) < A!R!Depth(m))
        BY <2>4, <2>5, <4>1, <4>2, <4>3
      <4>5. QED
        BY <2>5, <4>1, <4>4
    <3>5. below \in SUBSET Objects
      BY <3>1
    <3> HIDE DEF below
    <3>6. A!R!Cone(ms) \subseteq below
      BY <3>1, <3>3, <3>4, <3>5, ConeFacts
    <3>7. A!R!Bytes(A!R!Cone(ms)) <= A!R!Bytes(below)
      BY <3>5, <3>6, BytesFacts
    <3>8. QED
      BY <2>1, <2>3, <2>5, <3>7 DEF below
  <2>6. ASSUME graph.roots # <<>>, A!R!MembersOfClass(A!R!RootCls) = Roots
        PROVE  /\ reach[A!R!RootCls].rincl = A!R!Bytes(Reachable(Roots))
               /\ reach[A!R!RootCls].rshared = A!R!Bytes(A!R!Shared)
    <3>1. Head(graph.roots) \in Objects
      BY <2>1, <2>6, GraphFacts
    <3>2. A!R!RootCls \in DOMAIN reach
      BY <2>1, <3>1 DEF A!R!RootCls
    <3>3. A!R!Cone(Roots) = Reachable(Roots)
      BY <2>1, RootsCone
    <3>4. A!R!Shared \subseteq Reachable(Roots)
      <4>1. ASSUME NEW o \in A!R!Shared PROVE o \in Reachable(Roots)
        <5>1. o \in Objects /\ Cardinality(mask[o]) >= 2
          BY DEF A!R!Shared, A!R!Cardinality, Cardinality
        <5>2. mask[o] # {}
          BY <5>1, FS_EmptySet
        <5>3. PICK r \in mask[o] : r \in Roots /\ o \in Reachable({r})
          BY <5>1, <5>2 DEF MaskInv, MasksTyped
        <5>4. {r} \subseteq Reachable(Roots)
          BY <2>1, <5>3, ReachableIsClosed
        <5>5. QED
          BY <2>4, <5>3, <5>4, ReachableIsLeast
      <4>2. QED
        BY <4>1
    <3>5. A!R!Cone(Roots) \intersect A!R!Shared = A!R!Shared
      BY <3>3, <3>4
    <3>6. QED
      BY <2>1, <2>3, <2>6, <3>2, <3>3, <3>5
  <2>7. QED
    BY <2>5, <2>6, ReachGraph DEF ConesLookDown, A!ConesLookDown, A!R!ConesLookDown
<1>4. QED
  BY <1>1, <1>2, <1>3, PTL DEF Spec, Safety

-----------------------------------------------------------------------------
(* The payload of one extraction.  What is counted has not been counted, so *)
(* nothing is counted twice, and the build ends with nothing left over.     *)
CountInv ==
  /\ shown \in [Objects -> {0, 1}]
  /\ at = "idle" => \A o \in Objects : shown[o] = 0
  /\ at = "done" => \A o \in Objects : shown[o] = 1

LEMMA CountKeeps ==
  ASSUME CountInv, NEW objs, A!A!Count(objs), at' # "idle", at' # "done",
         \A o \in Objects : o \in objs => shown[o] = 0
  PROVE  CountInv'
<1>1. shown' = [o \in Objects |-> shown[o] + IF o \in objs THEN 1 ELSE 0]
  BY DEF A!A!Count
<1>2. ASSUME NEW o \in Objects
      PROVE  shown[o] + (IF o \in objs THEN 1 ELSE 0) \in {0, 1}
  BY DEF CountInv
<1>3. QED
  BY <1>1, <1>2 DEF CountInv

(* An object that has not been counted, as the operators of the build say. *)
LEMMA LeftoverFacts ==
  ASSUME CountInv
  PROVE  /\ A!A!Leftover = {o \in Objects : shown[o] = 0}
         /\ A!A!Beyond \subseteq A!A!Leftover
         /\ \A o, t : t \in A!A!Unseen(o) => t \notin A!A!Visited
<1>1. A!A!Leftover = {o \in Objects : shown[o] = 0}
  BY DEF CountInv, A!A!Leftover, A!A!Visited
<1>2. A!A!Beyond \subseteq A!A!Leftover
  BY DEF A!A!Beyond
<1>3. \A o, t : t \in A!A!Unseen(o) => t \notin A!A!Visited
  BY DEF A!A!Unseen
<1>4. QED
  BY <1>1, <1>2, <1>3

LEMMA BuildKeepsCount ==
  ASSUME CountInv, A!A!Start \/ A!A!Work
  PROVE  CountInv'
<1>1. CASE A!A!Start
  <2>1. /\ at = "idle" /\ at' = "walk" /\ A!A!Count(A!A!Roots)
    BY <1>1 DEF A!A!Start
  <2>2. QED
    BY <2>1, CountKeeps DEF CountInv
<1>2. CASE A!A!Walk
  <2>1. at = "walk" /\ at' = "walk"
    BY <1>2 DEF A!A!Walk
  <2>2. \/ UNCHANGED shown
        \/ A!A!Count(A!A!Unseen(A!A!Last(stack)[1]))
    BY <1>2 DEF A!A!Walk
  <2>3. \A t \in Objects : t \in A!A!Unseen(A!A!Last(stack)[1]) => shown[t] = 0
    BY LeftoverFacts DEF CountInv, A!A!Visited
  <2>4. QED
    BY <2>1, <2>2, <2>3, CountKeeps DEF CountInv
<1>3. CASE A!A!Classify
  <2>1. UNCHANGED shown /\ (at' = "next" \/ (A!A!Leftover = {} /\ at' = "done"))
    BY <1>3 DEF A!A!Classify
  <2>2. QED
    BY <2>1, LeftoverFacts DEF CountInv
<1>4. CASE A!A!NextGroup
  <2>1. PICK objs : A!A!Seed(objs) /\ objs \subseteq A!A!Leftover
    BY <1>4 DEF A!A!NextGroup
  <2>2. QED
    BY <2>1, LeftoverFacts, CountKeeps DEF A!A!Seed
<1>5. CASE A!A!NextCluster
  <2>1. CASE A!A!Leftover = {}
    BY <1>5, <2>1, LeftoverFacts DEF A!A!NextCluster, CountInv
  <2>2. CASE A!A!Leftover # {}
    <3>1. PICK o \in A!A!Leftover : A!A!Seed({o})
      BY <1>5, <2>2 DEF A!A!NextCluster
    <3>2. QED
      BY <3>1, LeftoverFacts, CountKeeps DEF A!A!Seed
  <2>3. QED
    BY <2>1, <2>2
<1>6. CASE A!A!Reseed
  <2>1. CASE A!A!Beyond = {}
    BY <1>6, <2>1 DEF A!A!Reseed, CountInv
  <2>2. CASE A!A!Beyond # {}
    BY <1>6, <2>2, LeftoverFacts, CountKeeps DEF A!A!Reseed, A!A!Seed
  <2>3. QED
    BY <2>1, <2>2
<1>7. QED
  BY <1>1, <1>2, <1>3, <1>4, <1>5, <1>6 DEF A!A!Work

LEMMA NextCount ==
  ASSUME CountInv, [Next]_vars
  PROVE  CountInv'
<1>1. \/ A!A!Start \/ A!A!Work
      \/ UNCHANGED <<at, shown>>
  BY DEF Next, vars, Registry, JsonFiles, Queries, Lookups, Listings, Attempts,
         Passes, InJobs, InFiles, InCache, InSources, analysis,
         A!Next, A!Compute, A!Build, A!building
<1>2. QED
  BY <1>1, BuildKeepsCount DEF CountInv

(* "Each object is shown once": the tree and the groups of what it leaves   *)
(* out count every object of a retained set, and none twice, for any graph  *)
(* of objects, any depth limit and any order in which the walk goes on.     *)
THEOREM EachIsShownOnce == Spec => []ShownOnce
<1>1. Init => CountInv
  BY DEF Init, A!Init, A!Begin, A!A!Idle, CountInv
<1>2. CountInv /\ [Next]_vars => CountInv'
  BY NextCount
<1>3. CountInv => ShownOnce
  BY DEF CountInv, ShownOnce, A!ShownOnce, A!A!ShownOnce
<1>4. QED
  BY <1>1, <1>2, <1>3, PTL DEF Spec, Safety

-----------------------------------------------------------------------------
(* Why the payload says that something is left out.  Of what has been       *)
(* counted every object is yet to be expanded, was cut, or refers only to   *)
(* what has been counted or is known to be beyond the limit.                *)
Counted     == {o \in Objects : shown[o] = 1}
Stacked(o)  == \E i \in 1..Len(stack) : stack[i][1] = o
Expanded(o) == \A t \in Succ(o) : t \in Counted \/ reason[t] = "depth"
Named       == {"depth", "slots", "outside"}

BuildTyped ==
  /\ at \in {"idle", "walk", "next", "done"} /\ why \in {"tree", "cycle"} \union Named
  /\ stack \in Seq(Objects \X Nat) /\ cut \subseteq Counted
  /\ place \in [Objects -> {"none", "tree", "cycle"} \union Named]
  /\ reason \in [Objects -> {"none"} \union Named] /\ pending \subseteq Named

TreeInv ==
  /\ \A o \in Objects : place[o] = "tree" => o \in Within(Roots, MaxDepth)
  /\ why = "tree" => \A i \in 1..Len(stack) :
       stack[i][2] <= MaxDepth /\ stack[i][1] \in Within(Roots, stack[i][2])
  /\ why = "tree" /\ at \in {"idle", "walk"} =>
       \A o \in Objects : reason[o] = "none" /\ (o \in Counted => place[o] = "tree")

WalkInv ==
  /\ \A i \in 1..Len(stack) : stack[i][1] \in Counted
  /\ at = "idle" => why = "tree"
  /\ at \in {"walk", "next"} => Roots \subseteq Counted
  /\ at = "walk" => \A o \in Counted : Stacked(o) \/ o \in cut \/ Expanded(o)
  /\ at = "next" => stack = <<>> /\ \A o \in Counted : Expanded(o)

ReasonInv ==
  /\ \A o \in Objects : reason[o] = "depth" =>
       o \in Reachable(Roots) /\ (o \in Counted \/ "depth" \in pending)
  /\ \A o \in Objects : reason[o] \in {"slots", "outside"} => \A p \in Objects : o \notin Succ(p)

CycleInv ==
  /\ \A o \in Objects : place[o] = "cycle" => o \notin Reachable(Roots)
  /\ why = "cycle" => Reachable(Roots) \subseteq Counted

BuildInv == BuildTyped /\ TreeInv /\ WalkInv /\ ReasonInv /\ CycleInv

(* The build's view of what is counted, cut, and left over.                 *)
LEMMA BuildFacts ==
  ASSUME CountInv
  PROVE  /\ A!A!Visited = Counted /\ Counted \subseteq Objects
         /\ A!A!Leftover = Objects \ Counted
         /\ A!A!Beyond = {t \in Objects \ Counted : \E o \in cut : t \in Succ(o)}
         /\ A!A!HasParent = {t \in Objects \ Counted :
                               \E o \in Objects \ Counted : t \in Succ(o)}
         /\ \A o : A!A!Unseen(o) = Succ(o) \ Counted
<1>1. A!A!Visited = Counted
  BY DEF A!A!Visited, Counted, CountInv
<1>2. A!A!Leftover = Objects \ Counted
  BY <1>1 DEF A!A!Leftover
<1>3. A!A!Beyond = {t \in Objects \ Counted : \E o \in cut : t \in Succ(o)}
  BY <1>2, BuildGraph DEF A!A!Beyond
<1>4. A!A!HasParent = {t \in Objects \ Counted :
                         \E o \in Objects \ Counted : t \in Succ(o)}
  BY <1>2, BuildGraph DEF A!A!HasParent
<1>5. \A o : A!A!Unseen(o) = Succ(o) \ Counted
  BY <1>1, BuildGraph DEF A!A!Unseen
<1>6. QED
  BY <1>1, <1>2, <1>3, <1>4, <1>5 DEF Counted

LEMMA CountsMore ==
  ASSUME CountInv, NEW objs \in SUBSET (Objects \ Counted), A!A!Count(objs)
  PROVE  /\ Counted' = Counted \union objs
         /\ \A o \in Objects : place'[o] = IF o \in objs THEN why' ELSE place[o]
         /\ place' = [o \in Objects |-> IF o \in objs THEN why' ELSE place[o]]
<1>1. /\ shown' = [o \in Objects |-> shown[o] + IF o \in objs THEN 1 ELSE 0]
      /\ place' = [o \in Objects |-> IF o \in objs THEN why' ELSE place[o]]
  BY DEF A!A!Count
<1>2. ASSUME NEW o \in Objects
      PROVE  shown'[o] = 1 <=> shown[o] = 1 \/ o \in objs
  BY <1>1 DEF CountInv, Counted
<1>3. QED
  BY <1>1, <1>2 DEF Counted

LEMMA FramesFacts ==
  ASSUME NEW s \in Seq(Objects), NEW d \in Nat
  PROVE  /\ A!A!Frames(s, d) \in Seq(Objects \X Nat) /\ Len(A!A!Frames(s, d)) = Len(s)
         /\ \A i \in 1..Len(s) : /\ A!A!Frames(s, d)[i][1] = s[i]
                                 /\ A!A!Frames(s, d)[i][2] = d /\ s[i] \in Objects
<1>1. DOMAIN s = 1..Len(s) /\ Len(s) \in Nat /\ \A i \in 1..Len(s) : s[i] \in Objects
  OBVIOUS
<1>2. A!A!Frames(s, d) = [i \in 1..Len(s) |-> <<s[i], d>>]
  BY <1>1 DEF A!A!Frames
<1>3. \A i \in 1..Len(s) : <<s[i], d>> \in Objects \X Nat
  BY <1>1
<1>4. QED
  BY <1>1, <1>2, <1>3

LEMMA StartBuild ==
  ASSUME BuildInv, CountInv, graph \in Graphs, A!A!Start
  PROVE  BuildInv'
<1> DEFINE s == graph.roots
<1>1. /\ at = "idle" /\ at' = "walk" /\ why' = "tree" /\ A!A!Count(Roots)
      /\ stack' = A!A!Frames(s, 0)
      /\ graph' = graph /\ cut' = cut /\ reason' = reason /\ pending' = pending
  BY BuildGraph DEF A!A!Start
<1>2. /\ s \in Seq(Objects) /\ Roots \subseteq Objects
      /\ \A r \in Roots : \E i \in 1..Len(s) : s[i] = r
  BY GraphFacts
<1>3. \A i \in 1..Len(s) : s[i] \in Roots
  BY <1>2 DEF Roots
<1>4. Counted = {}
  BY <1>1 DEF CountInv, Counted
<1> HIDE DEF s
<1>5. /\ Counted' = Roots
      /\ place' = [o \in Objects |-> IF o \in Roots THEN "tree" ELSE place[o]]
  BY <1>1, <1>2, <1>4, CountsMore
<1>6. /\ stack' \in Seq(Objects \X Nat) /\ Len(stack') = Len(s)
      /\ \A i \in 1..Len(s) : stack'[i][1] = s[i] /\ stack'[i][2] = 0
  BY <1>1, <1>2, FramesFacts
<1>7. /\ why = "tree" /\ cut = {} /\ \A o \in Objects : reason[o] = "none"
      /\ place \in [Objects -> {"none", "tree", "cycle"} \union Named]
  BY <1>1, <1>4 DEF BuildInv, BuildTyped, WalkInv, TreeInv
<1>8. /\ MaxDepth \in Nat /\ Roots = Within(Roots, 0)
      /\ Within(Roots, 0) \subseteq Within(Roots, MaxDepth)
  <2>1. MaxDepth \in Nat /\ 0 + MaxDepth = MaxDepth
    BY LimitsAssumption
  <2>2. Roots = Within(Roots, 0)
    BY <1>2, WithinSteps
  <2>3. Within(Roots, 0) \subseteq Within(Roots, 0 + MaxDepth)
    BY <2>1, WithinGrows
  <2>4. QED
    BY <2>1, <2>2, <2>3
<1>9. BuildTyped'
  BY <1>1, <1>5, <1>6, <1>7 DEF BuildInv, BuildTyped
<1>10. TreeInv'
  <2>1. ASSUME NEW o \in Objects, place'[o] = "tree"
        PROVE  o \in Within(Roots, MaxDepth)
    BY <1>5, <1>8, <2>1 DEF BuildInv, TreeInv
  <2>2. ASSUME NEW i \in 1..Len(stack')
        PROVE  stack'[i][2] <= MaxDepth /\ stack'[i][1] \in Within(Roots, stack'[i][2])
    BY <1>3, <1>6, <1>8
  <2>3. \A o \in Objects : reason'[o] = "none" /\ (o \in Counted' => place'[o] = "tree")
    BY <1>1, <1>5, <1>7
  <2>4. QED
    BY <1>1, <2>1, <2>2, <2>3, SameGraph DEF TreeInv
<1>11. WalkInv'
  <2>1. \A i \in 1..Len(stack') : stack'[i][1] \in Counted'
    BY <1>3, <1>5, <1>6
  <2>2. \A o \in Counted' : Stacked(o)'
    BY <1>2, <1>5, <1>6 DEF Stacked
  <2>3. QED
    BY <1>1, <1>5, <2>1, <2>2, SameGraph DEF WalkInv
<1>12. ReasonInv'
  BY <1>1, <1>7 DEF ReasonInv
<1>13. CycleInv'
  BY <1>1, <1>5, SameGraph DEF BuildInv, CycleInv
<1>14. QED
  BY <1>9, <1>10, <1>11, <1>12, <1>13 DEF BuildInv

(* A walk of its own for objects that have not been counted.                *)
LEMMA SeedKeeps ==
  ASSUME BuildInv, CountInv, graph \in Graphs,
         NEW objs \in SUBSET (Objects \ Counted), A!A!Seed(objs),
         graph' = graph, reason' = reason, pending' \subseteq pending,
         why' \in {"cycle"} \union Named, Roots \subseteq Counted,
         why' = "cycle" => Reachable(Roots) \subseteq Counted,
         \A o \in Counted : \A t \in Succ(o) : t \in Counted \union objs \/ reason[t] = "depth",
         \A o \in Objects : reason[o] = "depth" =>
           o \in Counted \union objs \/ "depth" \in pending'
  PROVE  BuildInv'
<1>1. PICK s \in A!A!SetToSeqs(objs) : stack' = A!A!Frames(s, 0)
  BY DEF A!A!Seed
<1>2. at' = "walk" /\ cut' = {} /\ A!A!Count(objs)
  BY DEF A!A!Seed
<1>3. /\ Counted' = Counted \union objs
      /\ place' = [o \in Objects |-> IF o \in objs THEN why' ELSE place[o]]
  BY <1>2, CountsMore
<1>4. s \in Seq(objs) /\ s \in Seq(Objects) /\ \A x \in objs : \E i \in 1..Len(s) : s[i] = x
  <2>1. objs \in SUBSET Objects /\ IsFiniteSet(objs)
    BY GraphAssumption, FS_Subset
  <2>2. QED
    BY <1>1, <2>1, SetToSeqsFacts
<1>5. /\ stack' \in Seq(Objects \X Nat) /\ Len(stack') = Len(s)
      /\ \A i \in 1..Len(s) : stack'[i][1] = s[i] /\ s[i] \in objs
  BY <1>1, <1>4, FramesFacts
<1>6. BuildTyped'
  BY <1>2, <1>3, <1>5 DEF BuildInv, BuildTyped
<1>7. TreeInv'
  <2>1. why' # "tree"
    BY DEF Named
  <2>2. ASSUME NEW o \in Objects, place'[o] = "tree"
        PROVE  o \in Within(Roots, MaxDepth)
    BY <1>3, <2>1, <2>2 DEF BuildInv, TreeInv
  <2>3. QED
    BY <2>1, <2>2, SameGraph DEF TreeInv
<1>8. WalkInv'
  <2>1. \A i \in 1..Len(stack') : stack'[i][1] \in Counted'
    BY <1>3, <1>5
  <2>2. \A o \in objs : Stacked(o)'
    BY <1>4, <1>5 DEF Stacked
  <2>3. \A o \in Counted : Expanded(o)'
    BY <1>3, SameGraph DEF Expanded
  <2>4. QED
    BY <1>2, <1>3, <2>1, <2>2, <2>3, SameGraph DEF WalkInv
<1>9. ReasonInv'
  <2>1. ASSUME NEW o \in Objects, reason[o] = "depth"
        PROVE  o \in Reachable(Roots) /\ (o \in Counted' \/ "depth" \in pending')
    BY <1>3, <2>1 DEF BuildInv, ReasonInv
  <2>2. QED
    BY <2>1, SameGraph DEF BuildInv, ReasonInv
<1>10. CycleInv'
  <2>1. ASSUME NEW o \in Objects, place'[o] = "cycle"
        PROVE  o \notin Reachable(Roots)
    BY <1>3, <2>1 DEF BuildInv, CycleInv
  <2>2. QED
    BY <1>3, <2>1, SameGraph DEF CycleInv
<1>11. QED
  BY <1>6, <1>7, <1>8, <1>9, <1>10 DEF BuildInv

LEMMA NextGroupBuild ==
  ASSUME BuildInv, CountInv, graph \in Graphs, A!A!NextGroup
  PROVE  BuildInv'
<1>1. PICK w \in pending :
        /\ why' = w /\ pending' = pending \ {w}
        /\ A!A!Seed({o \in A!A!Leftover : reason[o] = w})
  BY DEF A!A!NextGroup
<1> DEFINE objs == {o \in Objects \ Counted : reason[o] = w}
<1>2. A!A!Seed(objs) /\ objs \in SUBSET (Objects \ Counted)
  BY <1>1, BuildFacts
<1>3. /\ at = "next" /\ graph' = graph /\ reason' = reason
      /\ w \in Named /\ w # "cycle" /\ Roots \subseteq Counted
      /\ \A o \in Counted : Expanded(o)
  BY DEF A!A!NextGroup, BuildInv, BuildTyped, WalkInv, Named
<1>4. \A o \in Counted : \A t \in Succ(o) : t \in Counted \union objs \/ reason[t] = "depth"
  BY <1>3 DEF Expanded
<1>5. \A o \in Objects : reason[o] = "depth" => o \in Counted \union objs \/ "depth" \in pending'
  BY <1>1 DEF BuildInv, ReasonInv
<1> HIDE DEF objs
<1>6. QED
  BY <1>1, <1>2, <1>3, <1>4, <1>5, SeedKeeps

LEMMA NextClusterBuild ==
  ASSUME BuildInv, CountInv, graph \in Graphs, A!A!NextCluster
  PROVE  BuildInv'
<1>1. /\ at = "next" /\ pending = {} /\ graph' = graph /\ reason' = reason
      /\ pending' = pending /\ Roots \subseteq Counted
      /\ \A o \in Counted : Expanded(o)
  BY DEF A!A!NextCluster, BuildInv, WalkInv
<1>2. Reachable(Roots) \subseteq Counted
  <2>1. \A o \in Objects : reason[o] = "depth" => o \in Counted
    BY <1>1 DEF BuildInv, ReasonInv
  <2>2. Closed(Counted)
    BY <1>1, <2>1, SuccFacts DEF Expanded, Closed
  <2>3. Counted \in SUBSET Objects
    BY DEF Counted
  <2>4. QED
    BY <1>1, <2>2, <2>3, ReachableIsLeast
<1>3. CASE A!A!Leftover = {}
  <2>1. /\ at' = "done" /\ why' = why /\ cut' = cut /\ shown' = shown /\ place' = place
        /\ stack' = stack
    BY <1>3 DEF A!A!NextCluster
  <2>2. Counted' = Counted
    BY <2>1 DEF Counted
  <2>3. BuildTyped' /\ ReasonInv' /\ CycleInv'
    BY <1>1, <2>1, <2>2, SameGraph DEF BuildInv, BuildTyped, ReasonInv, CycleInv
  <2>4. TreeInv' /\ WalkInv'
    BY <1>1, <2>1, <2>2, SameGraph DEF BuildInv, TreeInv, WalkInv
  <2>5. QED
    BY <2>3, <2>4 DEF BuildInv
<1>4. CASE A!A!Leftover # {}
  <2>1. PICK o \in Objects \ Counted : A!A!Seed({o})
    BY <1>4, BuildFacts DEF A!A!NextCluster
  <2>2. why' = "cycle"
    BY <1>4 DEF A!A!NextCluster
  <2>3. \A p \in Counted : \A t \in Succ(p) : t \in Counted \union {o} \/ reason[t] = "depth"
    BY <1>1 DEF Expanded
  <2>4. \A t \in Objects : reason[t] = "depth" => t \in Counted \union {o} \/ "depth" \in pending'
    BY <1>1 DEF BuildInv, ReasonInv
  <2>5. QED
    BY <1>1, <1>2, <2>1, <2>2, <2>3, <2>4, SeedKeeps
<1>5. QED
  BY <1>3, <1>4

LEMMA ReseedBuild ==
  ASSUME BuildInv, CountInv, graph \in Graphs, A!A!Reseed
  PROVE  BuildInv'
<1>1. /\ at = "walk" /\ stack = <<>> /\ why # "tree" /\ why' = why /\ graph' = graph
      /\ reason' = reason /\ pending' = pending /\ Roots \subseteq Counted
      /\ \A o \in Counted : o \in cut \/ Expanded(o)
  BY DEF A!A!Reseed, BuildInv, WalkInv, Stacked
<1>2. A!A!Beyond = {t \in Objects \ Counted : \E o \in cut : t \in Succ(o)}
  BY BuildFacts
<1>3. \A o \in Counted : \A t \in Succ(o) :
        t \in Counted \union A!A!Beyond \/ reason[t] = "depth"
  BY <1>1, <1>2, SuccFacts DEF Expanded
<1>4. CASE A!A!Beyond = {}
  <2>1. at' = "next" /\ cut' = cut /\ shown' = shown /\ place' = place /\ stack' = stack
    BY <1>4 DEF A!A!Reseed
  <2>2. Counted' = Counted
    BY <2>1 DEF Counted
  <2>3. \A o \in Counted : Expanded(o)'
    BY <1>1, <1>3, <1>4, <2>2, SameGraph DEF Expanded
  <2>4. BuildTyped' /\ ReasonInv' /\ CycleInv'
    BY <1>1, <2>1, <2>2, SameGraph DEF BuildInv, BuildTyped, ReasonInv, CycleInv
  <2>5. TreeInv'
    BY <1>1, <2>1, <2>2, SameGraph DEF BuildInv, TreeInv
  <2>6. WalkInv'
    BY <1>1, <2>1, <2>2, <2>3, SameGraph DEF BuildInv, WalkInv
  <2>7. QED
    BY <2>4, <2>5, <2>6 DEF BuildInv
<1>5. CASE A!A!Beyond # {}
  <2>1. A!A!Seed(A!A!Beyond) /\ A!A!Beyond \in SUBSET (Objects \ Counted)
    BY <1>2, <1>5 DEF A!A!Reseed
  <2>2. why' \in {"cycle"} \union Named
    BY <1>1 DEF BuildInv, BuildTyped
  <2>3. why' = "cycle" => Reachable(Roots) \subseteq Counted
    BY <1>1 DEF BuildInv, CycleInv
  <2>4. \A o \in Objects : reason[o] = "depth" =>
          o \in Counted \union A!A!Beyond \/ "depth" \in pending'
    BY <1>1 DEF BuildInv, ReasonInv
  <2>5. QED
    BY <1>1, <1>3, <2>1, <2>2, <2>3, <2>4, SeedKeeps
<1>6. QED
  BY <1>4, <1>5

(* What the tree shows it has reached; so has it what it has cut.           *)
LEMMA TreeIsReachable ==
  ASSUME BuildInv, graph \in Graphs, why = "tree", at = "walk"
  PROVE  Counted \subseteq Reachable(Roots)
<1>1. Counted \subseteq Within(Roots, MaxDepth)
  BY DEF BuildInv, TreeInv, Counted
<1>2. MaxDepth \in Nat /\ Roots \subseteq Objects
  BY LimitsAssumption, GraphFacts
<1>3. Within(Roots, MaxDepth) \subseteq Reachable(Roots)
  BY <1>2, ReachableIsClosed, WithinIsLeast
<1>4. QED
  BY <1>1, <1>3

LEMMA ClassifyBuild ==
  ASSUME BuildInv, CountInv, graph \in Graphs, A!A!Classify
  PROVE  BuildInv'
<1>1. /\ at = "walk" /\ stack = <<>> /\ why = "tree" /\ Roots \subseteq Counted
      /\ \A o \in Counted : o \in cut \/ Expanded(o)
      /\ \A o \in Objects : reason[o] = "none"
      /\ cut \subseteq Counted
      /\ graph' = graph /\ why' = why /\ stack' = stack /\ cut' = cut
      /\ shown' = shown /\ place' = place
  BY DEF A!A!Classify, BuildInv, BuildTyped, TreeInv, WalkInv, Stacked
<1>2. Counted' = Counted /\ Counted \subseteq Objects
  BY <1>1 DEF Counted
<1>3. CASE A!A!Leftover = {}
  <2>1. at' = "done" /\ reason' = reason /\ pending' = pending
    BY <1>3 DEF A!A!Classify
  <2>2. BuildTyped' /\ ReasonInv' /\ CycleInv'
    BY <1>1, <1>2, <2>1, SameGraph DEF BuildInv, BuildTyped, ReasonInv, CycleInv
  <2>3. TreeInv' /\ WalkInv'
    BY <1>1, <1>2, <2>1, SameGraph DEF BuildInv, TreeInv, WalkInv
  <2>4. QED
    BY <2>2, <2>3 DEF BuildInv
<1>4. CASE A!A!Leftover # {}
  <2> DEFINE beyond == {t \in Objects \ Counted : \E o \in cut : t \in Succ(o)}
             held == {t \in Objects \ Counted : \E o \in Objects \ Counted : t \in Succ(o)}
             lost(o) == graph.cls[o] \in graph.capped
  <2>1. /\ at' = "next"
        /\ reason' = [o \in Objects |->
             CASE o \in beyond -> "depth"
               [] o \in (Objects \ Counted) \ (beyond \union held) /\ lost(o) -> "slots"
               [] o \in (Objects \ Counted) \ (beyond \union held) /\ ~lost(o) -> "outside"
               [] OTHER -> "none"]
        /\ pending' = {reason'[o] : o \in Objects \ Counted} \ {"none"}
    BY <1>4, BuildFacts DEF A!A!Classify, A!A!Orphans
  <2>2. beyond \subseteq Objects \ Counted /\ held \subseteq Objects \ Counted
    OBVIOUS
  <2> HIDE DEF beyond, held, lost
  <2>3. ASSUME NEW o \in Objects
        PROVE  /\ reason'[o] \in {"none"} \union Named
               /\ reason'[o] = "depth" <=> o \in beyond
               /\ reason'[o] \in {"slots", "outside"} =>
                    o \notin Counted /\ o \notin beyond /\ o \notin held
    <3>1. CASE o \in Counted \/ (o \in held /\ o \notin beyond)
      <4>1. reason'[o] = "none"
        BY <2>1, <2>2, <3>1
      <4>2. QED
        BY <2>2, <3>1, <4>1 DEF Named
    <3>2. CASE o \in beyond
      <4>1. reason'[o] = "depth"
        BY <2>1, <2>2, <3>2
      <4>2. QED
        BY <3>2, <4>1 DEF Named
    <3>3. CASE o \notin Counted /\ o \notin held /\ o \notin beyond
      <4>1. reason'[o] \in {"slots", "outside"}
        BY <2>1, <3>3
      <4>2. QED
        BY <3>3, <4>1 DEF Named
    <3>4. QED
      BY <3>1, <3>2, <3>3
  <2>4. BuildTyped'
    <3>1. reason' \in [Objects -> {"none"} \union Named]
      BY <2>1, <2>3
    <3>2. pending' \subseteq Named
      BY <2>1, <2>3
    <3>3. QED
      BY <1>1, <1>2, <2>1, <3>1, <3>2 DEF BuildInv, BuildTyped
  <2>5. TreeInv'
    BY <1>1, <1>2, <2>1, SameGraph DEF BuildInv, TreeInv
  <2>6. WalkInv'
    <3>1. ASSUME NEW o \in Counted, NEW t \in Succ(o)
          PROVE  t \in Counted \/ reason'[t] = "depth"
      <4>1. t \in Objects
        BY SuccFacts
      <4>2. CASE o \in cut
        BY <2>3, <4>1, <4>2 DEF beyond
      <4>3. CASE Expanded(o)
        BY <1>1, <4>1, <4>3 DEF Expanded
      <4>4. QED
        BY <1>1, <4>2, <4>3
    <3>2. \A o \in Counted : Expanded(o)'
      BY <1>1, <1>2, <3>1, SameGraph DEF Expanded
    <3>3. QED
      BY <1>1, <1>2, <2>1, <3>2, SameGraph DEF BuildInv, WalkInv
  <2>7. ReasonInv'
    <3>1. ASSUME NEW o \in Objects, reason'[o] = "depth"
          PROVE  o \in Reachable(Roots) /\ "depth" \in pending'
      <4>1. o \in beyond
        BY <2>3, <3>1
      <4>2. PICK c \in cut : o \in Succ(c)
        BY <4>1 DEF beyond
      <4>3. c \in Reachable(Roots)
        BY <1>1, TreeIsReachable
      <4>4. o \in Reachable(Roots)
        BY <4>2, <4>3, GraphFacts, ReachableIsClosed DEF Closed
      <4>5. "depth" \in pending'
        BY <2>1, <2>2, <3>1, <4>1
      <4>6. QED
        BY <4>4, <4>5
    <3>2. ASSUME NEW o \in Objects, reason'[o] \in {"slots", "outside"}, NEW p \in Objects
          PROVE  o \notin Succ(p)
      <4>1. o \notin Counted /\ o \notin beyond /\ o \notin held
        BY <2>3, <3>2
      <4>2. CASE p \in Counted
        BY <1>1, <4>1, <4>2 DEF Expanded, beyond
      <4>3. CASE p \notin Counted
        BY <4>1, <4>3 DEF held
      <4>4. QED
        BY <4>2, <4>3
    <3>3. QED
      BY <1>1, <3>1, <3>2, SameGraph DEF ReasonInv
  <2>8. CycleInv'
    BY <1>1, <1>2, SameGraph DEF BuildInv, CycleInv
  <2>9. QED
    BY <2>4, <2>5, <2>6, <2>7, <2>8 DEF BuildInv
<1>5. QED
  BY <1>3, <1>4

LEMMA BelowFacts ==
  ASSUME NEW T, NEW s \in Seq(T), s # <<>>
  PROVE  /\ A!A!Front(s) \in Seq(T) /\ Len(A!A!Front(s)) = Len(s) - 1
         /\ \A i \in 1..Len(s) - 1 : A!A!Front(s)[i] = s[i]
<1>1. A!A!Front(s) = P!Front(s)
  BY DEF A!A!Front, P!Front
<1>2. QED
  BY <1>1, FrontFacts

LEMMA WalkBuild ==
  ASSUME BuildInv, CountInv, graph \in Graphs, A!A!Walk
  PROVE  BuildInv'
<1> DEFINE o == stack[Len(stack)][1]
           depth == stack[Len(stack)][2]
           below == A!A!Front(stack)
           more == Succ(o) \ Counted
<1>1. /\ at = "walk" /\ at' = at /\ stack # <<>> /\ graph' = graph /\ why' = why
      /\ reason' = reason /\ pending' = pending
  BY DEF A!A!Walk
<1>2. /\ stack \in Seq(Objects \X Nat) /\ Len(stack) \in Nat /\ Len(stack) > 0
      /\ stack[Len(stack)] \in Objects \X Nat
  BY <1>1 DEF BuildInv, BuildTyped
<1>3. /\ o \in Objects /\ depth \in Nat /\ o \in Counted
      /\ why = "tree" => depth <= MaxDepth /\ o \in Within(Roots, depth)
  BY <1>2 DEF BuildInv, TreeInv, WalkInv
<1>4. /\ below \in Seq(Objects \X Nat) /\ Len(below) = Len(stack) - 1
      /\ \A i \in 1..Len(stack) - 1 : below[i] = stack[i]
  BY <1>2, <1>1, BelowFacts
<1>5. \/ /\ depth >= MaxDepth
         /\ cut' = IF Succ(o) # {} THEN cut \union {o} ELSE cut
         /\ stack' = below /\ shown' = shown /\ place' = place
      \/ /\ depth < MaxDepth /\ cut' = cut /\ A!A!Count(more)
         /\ \E s \in A!A!SetToSeqs(more) : stack' = below \o A!A!Frames(s, depth + 1)
  <2>1. /\ A!A!Last(stack)[1] = o /\ A!A!Last(stack)[2] = depth
        /\ A!A!Succ(o) = Succ(o) /\ A!A!Unseen(o) = more
    BY BuildFacts, BuildGraph DEF A!A!Last
  <2>2. depth >= MaxDepth \/ depth < MaxDepth
    BY <1>3, LimitsAssumption
  <2> HIDE DEF o, depth, below, more
  <2>3. QED
    BY <2>1, <2>2 DEF A!A!Walk, below
<1>6. \A p \in Counted : \/ p = o \/ p \in cut \/ Expanded(p)
                         \/ \E i \in 1..Len(below) : below[i][1] = p
  <2>1. ASSUME NEW p \in Counted, p # o, Stacked(p)
        PROVE  \E i \in 1..Len(below) : below[i][1] = p
    <3>1. PICK i \in 1..Len(stack) : stack[i][1] = p
      BY <2>1 DEF Stacked
    <3>2. i # Len(stack)
      BY <2>1, <3>1
    <3>3. i \in 1..Len(stack) - 1 /\ i \in 1..Len(below)
      BY <1>2, <1>4, <3>2
    <3>4. QED
      BY <1>4, <3>1, <3>3
  <2>2. QED
    BY <1>1, <2>1 DEF BuildInv, WalkInv
<1> HIDE DEF o, depth, below
<1>7. CASE /\ depth >= MaxDepth
           /\ cut' = IF Succ(o) # {} THEN cut \union {o} ELSE cut
           /\ stack' = below /\ shown' = shown /\ place' = place
  <2>1. Counted' = Counted
    BY <1>7 DEF Counted
  <2>2. \A i \in 1..Len(stack') : i \in 1..Len(stack) /\ stack'[i] = stack[i]
    <3>1. stack' = below /\ Len(stack') = Len(stack) - 1
      BY <1>4, <1>7
    <3>2. ASSUME NEW i \in 1..Len(stack')
          PROVE  i \in 1..Len(stack) /\ i \in 1..Len(stack) - 1
      BY <1>2, <3>1
    <3>3. QED
      BY <1>4, <3>1, <3>2
  <2>3. BuildTyped'
    BY <1>1, <1>3, <1>4, <1>7, <2>1 DEF BuildInv, BuildTyped
  <2>4. TreeInv'
    BY <1>1, <1>7, <2>1, <2>2, SameGraph DEF BuildInv, TreeInv
  <2>5. WalkInv'
    <3>1. ASSUME NEW p \in Counted
          PROVE  Stacked(p)' \/ p \in cut' \/ Expanded(p)'
      <4>1. CASE p = o
        BY <1>1, <1>7, <4>1, SameGraph DEF Expanded
      <4>2. CASE p \in cut
        BY <1>7, <4>2
      <4>3. CASE Expanded(p)
        BY <1>1, <2>1, <4>3, SameGraph DEF Expanded
      <4>4. CASE \E i \in 1..Len(below) : below[i][1] = p
        BY <1>7, <4>4 DEF Stacked
      <4>5. QED
        BY <1>6, <4>1, <4>2, <4>3, <4>4
    <3>2. QED
      BY <1>1, <2>1, <2>2, <3>1, SameGraph DEF BuildInv, WalkInv
  <2>6. ReasonInv' /\ CycleInv'
    BY <1>1, <1>7, <2>1, SameGraph DEF BuildInv, ReasonInv, CycleInv
  <2>7. QED
    BY <2>3, <2>4, <2>5, <2>6 DEF BuildInv
<1>8. CASE /\ depth < MaxDepth /\ cut' = cut /\ A!A!Count(more)
           /\ \E s \in A!A!SetToSeqs(more) : stack' = below \o A!A!Frames(s, depth + 1)
  <2>1. PICK s \in A!A!SetToSeqs(more) : stack' = below \o A!A!Frames(s, depth + 1)
    BY <1>8
  <2>2. more \in SUBSET (Objects \ Counted) /\ IsFiniteSet(more) /\ more \subseteq Objects
    BY SuccFacts, GraphAssumption, FS_Subset
  <2>3. more \subseteq Succ(o) /\ \A t \in Succ(o) : t \in Counted \union more
    OBVIOUS
  <2> HIDE DEF more
  <2>4. /\ Counted' = Counted \union more
        /\ place' = [p \in Objects |-> IF p \in more THEN why' ELSE place[p]]
    BY <1>8, <2>2, CountsMore
  <2>5. s \in Seq(more) /\ s \in Seq(Objects) /\ \A x \in more : \E i \in 1..Len(s) : s[i] = x
    BY <2>2, SetToSeqsFacts
  <2> DEFINE top == A!A!Frames(s, depth + 1)
  <2>6. /\ top \in Seq(Objects \X Nat) /\ Len(top) = Len(s) /\ Len(s) \in Nat
        /\ \A i \in 1..Len(s) : top[i][1] = s[i] /\ top[i][2] = depth + 1 /\ s[i] \in more
    <3>1. depth + 1 \in Nat
      BY <1>3
    <3>2. /\ top \in Seq(Objects \X Nat) /\ Len(top) = Len(s)
          /\ \A i \in 1..Len(s) : top[i][1] = s[i] /\ top[i][2] = depth + 1
      BY SMTT(30), <2>5, <3>1, FramesFacts
    <3>3. Len(s) \in Nat /\ \A i \in 1..Len(s) : s[i] \in more
      BY <2>5
    <3>4. QED
      BY <3>2, <3>3
  <2> HIDE DEF top
  <2>7. /\ stack' \in Seq(Objects \X Nat) /\ Len(stack') = Len(below) + Len(s)
        /\ Len(below) \in Nat /\ Len(s) \in Nat
        /\ \A i \in 1..Len(below) :
             i \in 1..Len(stack) /\ i \in 1..Len(stack') /\ below[i] = stack[i]
             /\ stack'[i] = stack[i]
        /\ \A i \in 1..Len(s) : Len(below) + i \in 1..Len(stack')
                              /\ stack'[Len(below) + i] = top[i]
    <3>1. stack' = below \o top
      BY <2>1 DEF top
    <3>2. below \in Seq(Objects \X Nat) /\ top \in Seq(Objects \X Nat)
      BY <1>4, <2>6
    <3>3. /\ stack' \in Seq(Objects \X Nat) /\ Len(stack') = Len(below) + Len(top)
          /\ Len(below) \in Nat
          /\ \A i \in 1..Len(below) : i \in 1..Len(stack') /\ stack'[i] = below[i]
          /\ \A i \in 1..Len(top) : /\ Len(below) + i \in 1..Len(stack')
                                   /\ stack'[Len(below) + i] = top[i]
      BY <3>1, <3>2, PushFacts
    <3>4. \A i \in 1..Len(below) : i \in 1..Len(stack) /\ i \in 1..Len(stack) - 1
      BY <1>2, <1>4, <3>3
    <3>5. QED
      BY <1>4, <2>6, <3>3, <3>4
  <2>8. ASSUME NEW i \in 1..Len(stack')
        PROVE  \/ i \in 1..Len(stack) /\ stack'[i] = stack[i]
               \/ stack'[i][1] \in more /\ stack'[i][2] = depth + 1
    <3>1. CASE i <= Len(below)
      BY <2>7, <3>1
    <3>2. CASE i > Len(below)
      <4>1. i - Len(below) \in 1..Len(s) /\ Len(below) + (i - Len(below)) = i
        BY <2>7, <3>2
      <4>2. stack'[i] = top[i - Len(below)]
        BY <2>7, <4>1
      <4>3. QED
        BY <2>6, <4>1, <4>2
    <3>3. QED
      BY <2>7, <3>1, <3>2
  <2>9. BuildTyped'
    <3>1. why \in {"tree", "cycle"} \union Named
      BY DEF BuildInv, BuildTyped
    <3>2. place' \in [Objects -> {"none", "tree", "cycle"} \union Named]
      BY <1>1, <2>4, <3>1 DEF BuildInv, BuildTyped
    <3>3. QED
      BY <1>1, <1>8, <2>4, <2>7, <3>2 DEF BuildInv, BuildTyped
  <2>10. why = "tree" => more \subseteq Within(Roots, depth + 1) /\ depth + 1 <= MaxDepth
                         /\ Within(Roots, depth + 1) \subseteq Within(Roots, MaxDepth)
    <3>1. SUFFICES ASSUME why = "tree"
                   PROVE  more \subseteq Within(Roots, depth + 1) /\ depth + 1 <= MaxDepth
                          /\ Within(Roots, depth + 1) \subseteq Within(Roots, MaxDepth)
      OBVIOUS
    <3>2. Within(Roots, depth + 1)
            = Within(Roots, depth) \union UNION {Succ(p) : p \in Within(Roots, depth)}
      BY <1>3, GraphFacts, WithinSteps
    <3>3. more \subseteq Within(Roots, depth + 1)
      BY <1>3, <2>3, <3>1, <3>2
    <3>4. /\ depth + 1 \in Nat /\ MaxDepth - (depth + 1) \in Nat
          /\ (depth + 1) + (MaxDepth - (depth + 1)) = MaxDepth /\ depth + 1 <= MaxDepth
      BY <1>3, <1>8, LimitsAssumption
    <3>5. Within(Roots, depth + 1) \subseteq
            Within(Roots, (depth + 1) + (MaxDepth - (depth + 1)))
      BY <3>4, WithinGrows
    <3>6. QED
      BY <3>3, <3>4, <3>5
  <2>11. TreeInv'
    <3>1. ASSUME NEW p \in Objects, place'[p] = "tree"
          PROVE  p \in Within(Roots, MaxDepth)
      BY <1>1, <2>4, <2>10, <3>1 DEF BuildInv, TreeInv
    <3>2. ASSUME why = "tree", NEW i \in 1..Len(stack')
          PROVE  stack'[i][2] <= MaxDepth /\ stack'[i][1] \in Within(Roots, stack'[i][2])
      BY <2>8, <2>10, <3>2 DEF BuildInv, TreeInv
    <3>3. ASSUME why = "tree", NEW p \in Objects
          PROVE  reason[p] = "none" /\ (p \in Counted' => place'[p] = "tree")
      BY <1>1, <2>4, <3>3 DEF BuildInv, TreeInv
    <3>4. QED
      BY <1>1, <3>1, <3>2, <3>3, SameGraph DEF TreeInv
  <2>12. WalkInv'
    <3>1. ASSUME NEW p \in Counted'
          PROVE  Stacked(p)' \/ p \in cut' \/ Expanded(p)'
      <4>1. CASE p = o
        BY <1>1, <2>3, <2>4, <4>1, SameGraph DEF Expanded
      <4>2. CASE p \in cut
        BY <1>8, <4>2
      <4>3. CASE Expanded(p)
        BY <1>1, <2>4, <4>3, SameGraph DEF Expanded
      <4>4. CASE \E i \in 1..Len(below) : below[i][1] = p
        <5>1. PICK i \in 1..Len(below) : below[i][1] = p
          BY <4>4
        <5>2. i \in 1..Len(stack') /\ stack'[i] = below[i]
          BY <2>7
        <5>3. QED
          BY <5>1, <5>2 DEF Stacked
      <4>5. CASE p \in more
        <5>1. PICK i \in 1..Len(s) : s[i] = p
          BY <2>5, <4>5
        <5>2. Len(below) + i \in 1..Len(stack') /\ stack'[Len(below) + i][1] = p
          BY <2>6, <2>7, <5>1
        <5>3. QED
          BY <5>2 DEF Stacked
      <4>6. QED
        BY <1>6, <2>4, <4>1, <4>2, <4>3, <4>4, <4>5
    <3>2. ASSUME NEW i \in 1..Len(stack')
          PROVE  stack'[i][1] \in Counted'
      BY <2>4, <2>8 DEF BuildInv, WalkInv
    <3>3. QED
      BY <1>1, <2>4, <3>1, <3>2, SameGraph DEF BuildInv, WalkInv
  <2>13. ReasonInv'
    BY <1>1, <2>4, SameGraph DEF BuildInv, ReasonInv
  <2>14. CycleInv'
    <3>1. ASSUME NEW p \in Objects, place'[p] = "cycle"
          PROVE  p \notin Reachable(Roots)
      BY <1>1, <2>2, <2>4, <3>1 DEF BuildInv, CycleInv
    <3>2. QED
      BY <1>1, <2>4, <3>1, SameGraph DEF BuildInv, CycleInv
  <2>15. QED
    BY <2>9, <2>11, <2>12, <2>13, <2>14 DEF BuildInv
<1>9. QED
  BY <1>5, <1>7, <1>8

LEMMA BuildRests ==
  ASSUME BuildInv, graph' = graph,
         UNCHANGED <<at, why, stack, cut, shown, place, reason, pending>>
  PROVE  BuildInv'
<1>1. Counted' = Counted
  BY DEF Counted
<1>2. \A o : (Stacked(o)' <=> Stacked(o)) /\ (Expanded(o)' <=> Expanded(o))
  BY <1>1, SameGraph DEF Stacked, Expanded
<1>3. BuildTyped' /\ TreeInv' /\ WalkInv'
  BY <1>1, <1>2, SameGraph DEF BuildInv, BuildTyped, TreeInv, WalkInv
<1>4. ReasonInv' /\ CycleInv'
  BY <1>1, SameGraph DEF BuildInv, ReasonInv, CycleInv
<1>5. QED
  BY <1>3, <1>4 DEF BuildInv

LEMMA NextBuild ==
  ASSUME BuildInv, CountInv, MaskInv, [Next]_vars
  PROVE  BuildInv'
<1>1. CASE Passes /\ A!Build
  <2>1. graph \in Graphs /\ (A!A!Start \/ A!A!Work)
    BY <1>1 DEF Passes, InAnalysis, A!Build, MaskInv
  <2>2. QED
    BY <2>1, StartBuild, WalkBuild, ClassifyBuild, NextGroupBuild, NextClusterBuild,
       ReseedBuild DEF A!A!Work
<1>2. CASE Passes /\ A!Compute
  <2>1. graph' = graph /\ UNCHANGED <<at, why, stack, cut, shown, place, reason, pending>>
    BY <1>2 DEF Passes, A!Compute, A!building, A!R!Start, A!R!Work, A!R!Spread,
                A!R!StartLevels, A!R!Level, A!R!StartGroups, A!R!FoldClass,
                A!R!FoldSmallest, A!R!Sum
  <2>2. QED
    BY <2>1, BuildRests
<1>3. CASE Registry \/ JsonFiles \/ Queries \/ Lookups \/ Listings \/ Attempts \/ UNCHANGED vars
  <2>1. UNCHANGED analysis
    BY <1>3 DEF Registry, InJobs, JsonFiles, InFiles, Queries, InCache, Lookups, Listings,
                Attempts, InSources, vars
  <2>2. QED
    BY <2>1, BuildRests DEF analysis
<1>4. QED
  BY <1>1, <1>2, <1>3 DEF Next, Passes, A!Next

(* A cause that is named is the cause: what the tree shows is within the    *)
(* depth limit of the sampled instances, what is said to lie beyond the     *)
(* limit is reached from them, what has lost its holder has none in the     *)
(* set, and a cluster of its own is out of their reach: _anatomy_build.     *)
THEOREM CausesAreNamedRight == Spec => []CausesAreTrue
<1> DEFINE Inv == CountInv /\ MaskInv /\ BuildInv
<1>1. Init => Inv
  <2> SUFFICES ASSUME Init PROVE Inv
    OBVIOUS
  <2>1. /\ pc = "idle" /\ (part = "analysis" => graph \in Graphs)
        /\ A!A!Idle
    BY DEF Init, Parts, A!Init, A!Begin, A!R!Idle
  <2>2. MaskInv
    BY <2>1 DEF MaskInv
  <2>3. CountInv
    BY <2>1 DEF A!A!Idle, CountInv
  <2>4. Counted = {}
    BY <2>1 DEF A!A!Idle, Counted
  <2>5. BuildInv
    BY <2>1, <2>4, EmptySeq DEF A!A!Idle, BuildInv, BuildTyped, TreeInv, WalkInv, ReasonInv,
      CycleInv
  <2>6. QED
    BY <2>2, <2>3, <2>5
<1>2. Inv /\ [Next]_vars => Inv'
  BY NextMasks, NextCount, NextBuild
<1>3. Inv => CausesAreTrue
  <2> SUFFICES ASSUME BuildInv, NEW o \in Objects
               PROVE  /\ place[o] = "tree" => o \in Within(Roots, MaxDepth)
                      /\ reason[o] = "depth" => o \in Reachable(Roots)
                      /\ reason[o] \in {"slots", "outside"} => \A p \in Objects : o \notin Succ(p)
                      /\ place[o] = "cycle" => o \notin Reachable(Roots)
    BY BuildGraph DEF CausesAreTrue, A!CausesAreTrue, A!A!CausesAreTrue
  <2>1. QED
    BY DEF BuildInv, TreeInv, ReasonInv, CycleInv
<1>4. QED
  BY <1>1, <1>2, <1>3, PTL DEF Spec, Safety
=============================================================================
