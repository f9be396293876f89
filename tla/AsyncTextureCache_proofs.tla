---------------------- MODULE AsyncTextureCache_proofs ----------------------
(***************************************************************************)
(* Proofs of the safety properties of AsyncTextureCache, for every set of  *)
(* keys, Images and workers and every bound on the unused entries.         *)
(*                                                                         *)
(* ShownIsResident is not inductive: it needs that reference counts count  *)
(* users (else pruning could take a shown texture), that a key has at most *)
(* one job wherever jobs are (else a late result would upload twice), and  *)
(* that a job in flight is canceled exactly when its entry is gone.        *)
(***************************************************************************)
EXTENDS AsyncTextureCache, FiniteSetTheorems, TLAPS

RefCountIsUsers ==
  mainPc # "gone" => \A k \in Keys : refCount[k] = Cardinality(Users(k))

ShownHasSource ==
  \A i \in Images : shown[i] \/ listening[i] => source[i] \in Keys

\* At most one job for a key, wherever jobs can be.
JobsUnique ==
  /\ \A m, n \in 1..Len(queue) : queue[m] = queue[n] => m = n
  /\ \A v, w \in Workers : job[v] = job[w] /\ job[v] # NoKey => v = w
  /\ \A m, n \in 1..Len(results) : results[m].key = results[n].key => m = n
  /\ \A m, n \in 1..Len(batch) : batch[m].key = batch[n].key => m = n
  /\ \A n \in 1..Len(queue), w \in Workers : queue[n] # job[w]
  /\ \A n \in 1..Len(queue), m \in 1..Len(results) : queue[n] # results[m].key
  /\ \A n \in 1..Len(queue), m \in 1..Len(batch) : queue[n] # batch[m].key
  /\ \A w \in Workers, m \in 1..Len(results) : job[w] # results[m].key
  /\ \A w \in Workers, m \in 1..Len(batch) : job[w] # batch[m].key
  /\ \A m \in 1..Len(results), n \in 1..Len(batch) : results[m].key # batch[n].key

\* Control: a batch exists during dispatch only, a key during decode only.
ControlInv ==
  /\ mainPc = "dispatch" <=> batch # <<>>
  /\ \A w \in Workers : workerPc[w] = "decode" <=> job[w] # NoKey

\* What a job in flight says of its entry, until the entries are torn down.
FlightInv ==
  mainPc # "gone" => \A k \in Keys :
    /\ state[k] = "pending" => k \in inFlight
    /\ state[k] \in {"ready", "failed"} => k \notin inFlight
    /\ k \in inFlight => (k \in canceled <=> state[k] = "absent")

IInv ==
  /\ TypeOK
  /\ RefCountIsUsers
  /\ ShownHasSource
  /\ ShownIsResident
  /\ OneTexturePerReadyEntry
  /\ JobsUnique
  /\ ControlInv
  /\ InFlightIsTracked
  /\ FlightInv
-----------------------------------------------------------------------------
(* The steps that move no job and touch no entry.                           *)

LEMMA InitInv == Init => IInv
<1> SUFFICES ASSUME Init PROVE IInv
  OBVIOUS
<1> USE DEF Init
<1>1. TypeOK
  <2>1. <<>> \in Seq(Keys) /\ <<>> \in Seq(Result)
    OBVIOUS
  <2>2. [i \in Images |-> FALSE] \in [Images -> BOOLEAN]
    BY Zenon
  <2> QED
    BY <2>1, <2>2 DEF TypeOK, Entry
<1>2. RefCountIsUsers
  <2> SUFFICES ASSUME NEW k \in Keys PROVE Cardinality(Users(k)) = 0
    BY DEF RefCountIsUsers
  <2>1. Users(k) = {}
    BY NoKeyAssumption DEF Users
  <2> QED
    BY <2>1, FS_EmptySet
<1>3. ShownHasSource /\ ShownIsResident /\ OneTexturePerReadyEntry
  BY DEF ShownHasSource, ShownIsResident, OneTexturePerReadyEntry
<1>4. JobsUnique /\ ControlInv
  BY DEF JobsUnique, ControlInv
<1>5. InFlightIsTracked /\ FlightInv
  BY NoKeyAssumption DEF InFlightIsTracked, HasJob, Queued, Decoding, Decoded, FlightInv
<1> QED
  BY <1>1, <1>2, <1>3, <1>4, <1>5 DEF IInv

LEMMA QuietStep ==
  ASSUME IInv,
         \/ DispatchDrain
         \/ \E w \in Workers : WorkerSignal(w) \/ WorkerExit(w)
         \/ UNCHANGED vars
  PROVE  IInv'
<1>1. UNCHANGED <<entryVars, jobVars, job, results, batch, imageVars>>
  BY DEF DispatchDrain, WorkerSignal, WorkerExit, vars
<1>2. mainPc' # "gone" => mainPc # "gone"
  BY DEF DispatchDrain, WorkerSignal, WorkerExit, vars, IInv, TypeOK
<1> USE DEF entryVars, jobVars, imageVars
<1>3. TypeOK'
  <2>1. CASE DispatchDrain
    BY <1>1, <2>1 DEF IInv, TypeOK, DispatchDrain
  <2>2. CASE \E w \in Workers : WorkerSignal(w) \/ WorkerExit(w)
    BY <1>1, <2>2 DEF IInv, TypeOK, WorkerSignal, WorkerExit
  <2>3. CASE UNCHANGED vars
    BY <2>3 DEF IInv, TypeOK, vars
  <2> QED
    BY <2>1, <2>2, <2>3
<1>4. RefCountIsUsers' /\ ShownHasSource' /\ ShownIsResident' /\ OneTexturePerReadyEntry'
  BY <1>1, <1>2 DEF IInv, RefCountIsUsers, Users, ShownHasSource, ShownIsResident,
                    OneTexturePerReadyEntry
<1>5. JobsUnique'
  BY <1>1 DEF IInv, JobsUnique
<1>6. ControlInv'
  BY <1>1 DEF IInv, ControlInv, TypeOK, DispatchDrain, WorkerSignal, WorkerExit, vars
<1>7. InFlightIsTracked' /\ FlightInv'
  BY <1>1, <1>2 DEF IInv, InFlightIsTracked, HasJob, Queued, Decoding, Decoded, FlightInv
<1> QED
  BY <1>3, <1>4, <1>5, <1>6, <1>7 DEF IInv

\* The destructor moves no job either; it empties the entries.
LEMMA DestroyStep ==
  ASSUME IInv, DestroyBegin \/ DestroyEnd
  PROVE  IInv'
<1>1. UNCHANGED <<jobVars, job, results, batch, workerPc, source, shown, eventfd>>
  BY DEF DestroyBegin, DestroyEnd, imageVars
<1> USE DEF jobVars
<1>2. JobsUnique' /\ ControlInv' /\ InFlightIsTracked'
  BY <1>1 DEF IInv, JobsUnique, ControlInv, InFlightIsTracked, HasJob, Queued, Decoding,
              Decoded, DestroyBegin, DestroyEnd
<1>3. CASE DestroyBegin
  <2>1. TypeOK'
    BY <1>1, <1>3 DEF IInv, TypeOK, DestroyBegin, entryVars
  <2>2. /\ RefCountIsUsers' /\ ShownHasSource' /\ ShownIsResident'
        /\ OneTexturePerReadyEntry' /\ FlightInv'
    BY <1>1, <1>3 DEF IInv, RefCountIsUsers, Users, ShownHasSource, ShownIsResident,
                      OneTexturePerReadyEntry, FlightInv, DestroyBegin, entryVars
  <2> QED
    BY <1>2, <2>1, <2>2 DEF IInv
<1>4. CASE DestroyEnd
  <2>1. \A k \in Keys : live'[k] = 0
    BY <1>4 DEF IInv, TypeOK, OneTexturePerReadyEntry, DestroyEnd
  <2>2. TypeOK'
    BY <1>1, <1>4, <2>1 DEF IInv, TypeOK, Entry, DestroyEnd, imageVars
  <2>3. /\ RefCountIsUsers' /\ ShownHasSource' /\ ShownIsResident'
        /\ OneTexturePerReadyEntry' /\ FlightInv'
    BY <1>4, <2>1 DEF IInv, RefCountIsUsers, ShownHasSource, ShownIsResident,
                      OneTexturePerReadyEntry, FlightInv, DestroyEnd, imageVars
  <2> QED
    BY <1>2, <2>2, <2>3 DEF IInv
<1> QED
  BY <1>3, <1>4

-----------------------------------------------------------------------------
(* The steps that move a job from one place to the next.                    *)

\* The entries and the Images do not change when a job moves.
LEMMA MoveKeepsEntries ==
  ASSUME IInv, UNCHANGED <<entryVars, inFlight, canceled, imageVars>>,
         mainPc' # "gone" => mainPc # "gone"
  PROVE  /\ RefCountIsUsers' /\ ShownHasSource' /\ ShownIsResident'
         /\ OneTexturePerReadyEntry' /\ FlightInv'
  BY DEF IInv, RefCountIsUsers, Users, ShownHasSource, ShownIsResident,
         OneTexturePerReadyEntry, FlightInv, entryVars, imageVars

LEMMA ResultKey == \A s \in Seq(Result) : \A n \in 1..Len(s) : s[n].key \in Keys
<1> SUFFICES ASSUME NEW s \in Seq(Result), NEW n \in 1..Len(s) PROVE s[n].key \in Keys
  OBVIOUS
<1>1. s[n] \in Result
  OBVIOUS
<1> QED
  BY <1>1 DEF Result

LEMMA WorkerTakeStep ==
  ASSUME IInv, NEW w \in Workers, WorkerTake(w)
  PROVE  IInv'
<1> DEFINE k == Head(queue)
<1>1. /\ workerPc[w] = "wait" /\ queue # <<>>
      /\ job' = [job EXCEPT ![w] = k] /\ queue' = Tail(queue)
      /\ workerPc' = [workerPc EXCEPT ![w] = "decode"]
      /\ UNCHANGED <<entryVars, inFlight, canceled, results, eventfd, mainPc, batch, imageVars>>
  BY DEF WorkerTake
<1>2. /\ Len(queue) \in Nat \ {0} /\ k = queue[1] /\ k \in Keys
      /\ queue' \in Seq(Keys) /\ Len(queue') = Len(queue) - 1
      /\ \A n \in 1..Len(queue') : queue'[n] = queue[n + 1]
  BY <1>1 DEF IInv, TypeOK
<1>3. job \in [Workers -> Keys \cup {NoKey}] /\ job[w] = NoKey /\ k # NoKey
  BY <1>1, <1>2, NoKeyAssumption DEF IInv, TypeOK, ControlInv
<1>4. TypeOK'
  BY <1>1, <1>2 DEF IInv, TypeOK, entryVars, imageVars
<1>5. JobsUnique'
  <2>1. \A n \in 1..Len(queue') : n + 1 \in 1..Len(queue) /\ n + 1 # 1
    BY <1>2
  <2>2. \A n \in 1..Len(queue') : queue'[n] = queue[n + 1] /\ queue'[n] # k
    BY <1>2, <2>1 DEF IInv, JobsUnique
  <2>3. \A v \in Workers : job'[v] = IF v = w THEN k ELSE job[v]
    BY <1>1, <1>3
  <2>4. \A m, n \in 1..Len(queue') : queue'[m] = queue'[n] => m = n
    BY <1>2, <2>1, <2>2 DEF IInv, JobsUnique
  <2>5. 1 \in 1..Len(queue)
    BY <1>2
  <2>6. /\ \A n \in 1..Len(queue'), v \in Workers : queue'[n] # job'[v]
        /\ \A n \in 1..Len(queue'), m \in 1..Len(results) : queue'[n] # results[m].key
        /\ \A n \in 1..Len(queue'), m \in 1..Len(batch) : queue'[n] # batch[m].key
    BY <2>1, <2>2, <2>3 DEF IInv, JobsUnique
  <2>7. /\ \A u, v \in Workers : job'[u] = job'[v] /\ job'[u] # NoKey => u = v
        /\ \A v \in Workers, m \in 1..Len(results) : job'[v] # results[m].key
        /\ \A v \in Workers, m \in 1..Len(batch) : job'[v] # batch[m].key
    BY <1>2, <2>3, <2>5 DEF IInv, JobsUnique
  <2> QED
    BY SMTT(30), <1>1, <2>4, <2>6, <2>7 DEF IInv, JobsUnique
<1>6. ControlInv'
  BY <1>1, <1>3 DEF IInv, ControlInv, TypeOK
<1>7. InFlightIsTracked'
  <2> SUFFICES ASSUME NEW j \in Keys PROVE HasJob(j)' <=> HasJob(j)
    BY <1>1 DEF IInv, InFlightIsTracked
  <2>1. Decoded(j)' <=> Decoded(j)
    BY <1>1 DEF Decoded
  <2>2. Decoding(j)' <=> Decoding(j) \/ j = k
    BY <1>1, <1>3, NoKeyAssumption DEF Decoding
  <2>3. Queued(j) <=> Queued(j)' \/ j = k
    <3>1. ASSUME NEW n \in 1..Len(queue), queue[n] = j, j # k
          PROVE  n - 1 \in 1..Len(queue') /\ queue'[n - 1] = j
      BY <1>2, <3>1
    <3>2. ASSUME NEW n \in 1..Len(queue'), queue'[n] = j
          PROVE  n + 1 \in 1..Len(queue) /\ queue[n + 1] = j
      BY <1>2, <3>2
    <3> QED
      BY SMTT(30), <1>2, <3>1, <3>2 DEF Queued
  <2> QED
    BY <2>1, <2>2, <2>3 DEF HasJob
<1> QED
  BY <1>1, <1>4, <1>5, <1>6, <1>7, MoveKeepsEntries DEF IInv

LEMMA WorkerPushStep ==
  ASSUME IInv, NEW w \in Workers, WorkerPush(w)
  PROVE  IInv'
<1> DEFINE k == job[w]
<1>1. PICK f \in BOOLEAN : results' = Append(results, [key |-> k, failed |-> f])
  BY DEF WorkerPush
<1>2. /\ workerPc[w] = "decode"
      /\ job' = [job EXCEPT ![w] = NoKey]
      /\ workerPc' = [workerPc EXCEPT ![w] = "signal"]
      /\ UNCHANGED <<entryVars, jobVars, eventfd, mainPc, batch, imageVars>>
  BY DEF WorkerPush
<1>3. job \in [Workers -> Keys \cup {NoKey}] /\ k \in Keys /\ k # NoKey
  BY <1>2, NoKeyAssumption DEF IInv, TypeOK, ControlInv
<1>4. [key |-> k, failed |-> f] \in Result
  BY <1>3 DEF Result
<1>5. /\ Len(results) \in Nat /\ results' \in Seq(Result) /\ Len(results') = Len(results) + 1
      /\ \A n \in 1..Len(results) : results'[n] = results[n]
      /\ results'[Len(results) + 1].key = k
  BY <1>1, <1>4 DEF IInv, TypeOK
<1>6. TypeOK'
  BY <1>2, <1>3, <1>5 DEF IInv, TypeOK, entryVars, jobVars, imageVars
<1>7. JobsUnique'
  <2>1. \A n \in 1..Len(results') :
          \/ n \in 1..Len(results) /\ results'[n] = results[n]
          \/ n = Len(results) + 1 /\ results'[n].key = k
    BY <1>5
  <2>2. \A v \in Workers : job'[v] = IF v = w THEN NoKey ELSE job[v]
    BY <1>2, <1>3
  <2>3. \A n \in 1..Len(results) : results[n].key \in Keys
    BY ResultKey DEF IInv, TypeOK
  <2>4. \A n \in 1..Len(batch) : batch[n].key \in Keys
    BY ResultKey DEF IInv, TypeOK
  <2>5. \A n \in 1..Len(queue) : queue[n] \in Keys
    BY DEF IInv, TypeOK
  <2>6. \A m, n \in 1..Len(results') : results'[m].key = results'[n].key => m = n
    BY <1>3, <1>5, <2>1 DEF IInv, JobsUnique
  <2>7. \A m \in 1..Len(results') :
          /\ \A n \in 1..Len(queue) : queue[n] # results'[m].key
          /\ \A n \in 1..Len(batch) : results'[m].key # batch[n].key
          /\ \A v \in Workers : job'[v] # results'[m].key
    BY <1>3, <2>1, <2>2, <2>3, NoKeyAssumption DEF IInv, JobsUnique
  <2> QED
    BY <1>2, <2>2, <2>4, <2>5, <2>6, <2>7, NoKeyAssumption DEF IInv, JobsUnique, jobVars
<1>8. ControlInv'
  BY <1>2, <1>3 DEF IInv, ControlInv, TypeOK
<1>9. InFlightIsTracked'
  <2> SUFFICES ASSUME NEW j \in Keys PROVE HasJob(j)' <=> HasJob(j)
    BY <1>2 DEF IInv, InFlightIsTracked, jobVars
  <2>1. Queued(j)' <=> Queued(j)
    BY <1>2 DEF Queued, jobVars
  <2>2. Decoding(j) <=> Decoding(j)' \/ j = k
    BY <1>2, <1>3, NoKeyAssumption DEF Decoding
  <2>3. Decoded(j)' <=> Decoded(j) \/ j = k
    BY SMTT(30), <1>2, <1>5 DEF Decoded
  <2> QED
    BY <2>1, <2>2, <2>3 DEF HasJob
<1> QED
  BY <1>2, <1>6, <1>7, <1>8, <1>9, MoveKeepsEntries DEF IInv, jobVars

LEMMA DispatchTakeStep ==
  ASSUME IInv, DispatchTake
  PROVE  IInv'
<1>1. /\ mainPc = "take" /\ batch = <<>> /\ batch' = results /\ results' = <<>>
      /\ mainPc' = IF results = <<>> THEN "idle" ELSE "dispatch"
      /\ UNCHANGED <<entryVars, jobVars, workerPc, job, eventfd, imageVars>>
  BY DEF DispatchTake, IInv, ControlInv
<1>2. Len(results') = 0 /\ Len(batch) = 0
  BY <1>1
<1>3. TypeOK'
  BY <1>1 DEF IInv, TypeOK, entryVars, jobVars, imageVars
<1>4. JobsUnique'
  BY <1>1, <1>2 DEF IInv, JobsUnique, jobVars
<1>5. ControlInv'
  BY <1>1 DEF IInv, ControlInv
<1>6. InFlightIsTracked'
  BY <1>1, <1>2 DEF IInv, InFlightIsTracked, HasJob, Queued, Decoding, Decoded, jobVars
<1> QED
  BY <1>1, <1>3, <1>4, <1>5, <1>6, MoveKeepsEntries DEF IInv, jobVars

-----------------------------------------------------------------------------
(* The Images: references, and what pruning may evict.                      *)

LEMMA UsersFinite == \A k \in Keys : IsFiniteSet(Users(k)) /\ Cardinality(Users(k)) \in Nat
<1> SUFFICES ASSUME NEW k \in Keys
             PROVE  IsFiniteSet(Users(k)) /\ Cardinality(Users(k)) \in Nat
  OBVIOUS
<1>1. Users(k) \in SUBSET Images
  BY DEF Users
<1> QED
  BY <1>1, ImagesAssumption, FS_Subset, FS_CardinalityType

\* Pruning evicts resident entries without users only, and frees their texture.
LEMMA PruneEffect ==
  ASSUME TypeOK, OneTexturePerReadyEntry, NEW refs, NEW max,
         NEW order \in SUBSET (Keys \X Keys), Prune(refs, order, max)
  PROVE  /\ state' \in [Keys -> Entry] /\ live' \in [Keys -> Nat]
         /\ newer' \subseteq Keys \X Keys
         /\ OneTexturePerReadyEntry'
         /\ \A k \in Keys :
              \/ state'[k] = state[k]
              \/ /\ refs[k] = 0 /\ state[k] \in {"ready", "failed"}
                 /\ state'[k] = "absent"
<1> DEFINE gone == Evicted(refs, order, max)
<1>1. \A k \in gone : k \in Keys /\ refs[k] = 0 /\ state[k] \in {"ready", "failed"}
  BY DEF Evicted, Unused
<1> HIDE DEF gone
<1>2. /\ state' = [k \in Keys |-> IF k \in gone THEN "absent" ELSE state[k]]
      /\ live'  = [k \in Keys |-> IF k \in gone /\ state[k] = "ready" THEN live[k] - 1 ELSE live[k]]
      /\ newer' = {p \in order : p[1] \notin gone /\ p[2] \notin gone}
  BY DEF Prune, gone
<1>3. \A k \in Keys : live'[k] = IF state'[k] = "ready" THEN 1 ELSE 0
  BY <1>1, <1>2 DEF TypeOK, OneTexturePerReadyEntry
<1>4. state' \in [Keys -> Entry]
  BY <1>2 DEF TypeOK, Entry
<1>5. live' \in [Keys -> Nat]
  BY <1>2, <1>3
<1> QED
  BY <1>1, <1>2, <1>3, <1>4, <1>5 DEF OneTexturePerReadyEntry

LEMMA TouchType == ASSUME NEW k \in Keys, TypeOK PROVE Touch(k) \in SUBSET (Keys \X Keys)
  BY DEF Touch, Forget, TypeOK

\* Steps that keep the places of all jobs keep their uniqueness and control.
LEMMA JobsStay ==
  ASSUME IInv, UNCHANGED <<queue, workerPc, job, results, batch>>,
         mainPc' = mainPc
  PROVE  JobsUnique' /\ ControlInv' /\ \A k \in Keys : HasJob(k)' <=> HasJob(k)
  BY DEF IInv, JobsUnique, ControlInv, HasJob, Queued, Decoding, Decoded

LEMMA TrimUnusedStep ==
  ASSUME IInv, TrimUnused
  PROVE  IInv'
<1>1. /\ mainPc = "idle" /\ Prune(refCount, newer, 0)
      /\ UNCHANGED <<refCount, queue, inFlight, canceled, workerPc, job, results,
                     eventfd, mainPc, batch, source, shown, listening>>
  BY DEF TrimUnused, jobVars, imageVars
<1>2. TypeOK /\ OneTexturePerReadyEntry /\ newer \in SUBSET (Keys \X Keys)
  BY DEF IInv, TypeOK
<1>3. /\ state' \in [Keys -> Entry] /\ live' \in [Keys -> Nat]
      /\ newer' \subseteq Keys \X Keys
      /\ OneTexturePerReadyEntry'
      /\ \A k \in Keys : \/ state'[k] = state[k]
                         \/ /\ refCount[k] = 0 /\ state[k] \in {"ready", "failed"}
                            /\ state'[k] = "absent"
  BY <1>1, <1>2, PruneEffect
<1>4. TypeOK'
  BY <1>1, <1>2, <1>3 DEF TypeOK
<1>5. RefCountIsUsers' /\ ShownHasSource'
  BY <1>1 DEF IInv, RefCountIsUsers, Users, ShownHasSource
<1>6. ShownIsResident'
  <2> SUFFICES ASSUME NEW i \in Images, shown[i] PROVE state'[source[i]] = "ready"
    BY <1>1 DEF ShownIsResident
  <2>1. source[i] \in Keys /\ state[source[i]] = "ready" /\ i \in Users(source[i])
    BY <1>1 DEF IInv, ShownHasSource, ShownIsResident, Users
  <2>2. refCount[source[i]] # 0
    BY <1>1, <2>1, UsersFinite, FS_EmptySet DEF IInv, RefCountIsUsers
  <2> QED
    BY <1>3, <2>1, <2>2
<1>7. InFlightIsTracked'
  BY <1>1, JobsStay DEF IInv, InFlightIsTracked
<1>8. FlightInv'
  BY <1>1, <1>3 DEF IInv, FlightInv
<1> QED
  BY <1>1, <1>3, <1>4, <1>5, <1>6, <1>7, <1>8, JobsStay DEF IInv

LEMMA ClearSourceStep ==
  ASSUME IInv, NEW i \in Images, ClearSource(i)
  PROVE  IInv'
<1>0. PICK k \in Keys : k = source[i]
  BY DEF ClearSource, IInv, TypeOK
<1> DEFINE refs == [refCount EXCEPT ![k] = @ - 1]
<1>1. /\ mainPc = "idle" /\ Release(k)
      /\ source' = [source EXCEPT ![i] = NoKey]
      /\ shown' = [shown EXCEPT ![i] = FALSE]
      /\ listening' = [listening EXCEPT ![i] = FALSE]
      /\ UNCHANGED <<queue, workerPc, job, results, eventfd, mainPc, batch>>
  BY <1>0 DEF ClearSource
<1>2. TypeOK /\ OneTexturePerReadyEntry
  BY DEF IInv
<1>3. /\ i \in Users(k) /\ Users(k)' = Users(k) \ {i}
      /\ \A j \in Keys \ {k} : Users(j)' = Users(j)
  BY <1>0, <1>1, <1>2, NoKeyAssumption DEF Users, TypeOK
<1>4. refs \in [Keys -> Nat] /\ \A j \in Keys : refs[j] = Cardinality(Users(j)')
  <2>1. refCount \in [Keys -> Nat] /\ \A j \in Keys : refCount[j] = Cardinality(Users(j))
    BY <1>1, <1>2 DEF TypeOK, IInv, RefCountIsUsers
  <2>2. Cardinality(Users(k)') = Cardinality(Users(k)) - 1 /\ Cardinality(Users(k)') \in Nat
    <3>1. IsFiniteSet(Users(k))
      BY <1>1, UsersFinite
    <3> QED
      BY <1>3, <3>1, FS_RemoveElement, FS_CardinalityType
  <2>3. \A j \in Keys : refs[j] = IF j = k THEN refCount[j] - 1 ELSE refCount[j]
    BY <1>1, <2>1
  <2> QED
    BY <1>1, <1>3, <2>1, <2>2, <2>3
<1> HIDE DEF refs
<1>5. refCount' = refs
  BY <1>1 DEF Release, refs
\* The three cases of release, reduced to what they do to an entry and its job.
<1>6. /\ state' \in [Keys -> Entry] /\ live' \in [Keys -> Nat]
      /\ newer' \subseteq Keys \X Keys
      /\ OneTexturePerReadyEntry'
      /\ inFlight' = inFlight /\ canceled' \subseteq Keys
      /\ \A j \in Keys :
           \/ state'[j] = state[j] /\ (j \in canceled' <=> j \in canceled)
           \/ /\ refs[j] = 0 /\ state'[j] = "absent"
              /\ \/ state[j] \in {"ready", "failed"} /\ (j \in canceled' <=> j \in canceled)
                 \/ state[j] \in {"absent", "pending"} /\ (j \in canceled' <=> j \in inFlight \/ j \in canceled)
  <2>1. CASE refs[k] > 0
    <3>1. UNCHANGED <<state, newer, live, inFlight, canceled>>
      BY <1>1, <1>4, <2>1 DEF Release, refs
    <3> QED
      BY <1>2, <3>1 DEF TypeOK, OneTexturePerReadyEntry
  <2>2. CASE refs[k] = 0 /\ state[k] \in {"ready", "failed"}
    <3>1. Prune(refs, Touch(k), MaxUnused) /\ UNCHANGED <<inFlight, canceled>>
      BY <1>1, <1>4, <2>2 DEF Release, refs
    <3>2. Touch(k) \in SUBSET (Keys \X Keys)
      BY <1>1, <1>2, TouchType
    <3>3. /\ state' \in [Keys -> Entry] /\ live' \in [Keys -> Nat]
          /\ newer' \subseteq Keys \X Keys
          /\ OneTexturePerReadyEntry'
          /\ \A j \in Keys : \/ state'[j] = state[j]
                             \/ /\ refs[j] = 0 /\ state[j] \in {"ready", "failed"}
                                /\ state'[j] = "absent"
      BY <1>2, <3>1, <3>2, PruneEffect
    <3> QED
      BY <1>2, <3>1, <3>3 DEF TypeOK
  <2>3. CASE refs[k] = 0 /\ state[k] \in {"absent", "pending"}
    <3>1. /\ state' = [state EXCEPT ![k] = "absent"] /\ newer' = Forget(k)
          /\ canceled' = canceled \cup (inFlight \cap {k}) /\ inFlight' = inFlight
          /\ UNCHANGED live
      BY <1>1, <1>4, <2>3 DEF Release, Cancel, refs
    <3> QED
      BY <1>1, <1>2, <2>3, <3>1 DEF TypeOK, Entry, Forget, OneTexturePerReadyEntry
  <2> QED
    BY SMTT(30), <1>1, <1>2, <1>4, <2>1, <2>2, <2>3 DEF TypeOK, Entry
<1>7. TypeOK'
  BY <1>1, <1>2, <1>4, <1>5, <1>6 DEF TypeOK
<1>8. RefCountIsUsers' /\ ShownHasSource'
  BY <1>1, <1>2, <1>4, <1>5 DEF IInv, RefCountIsUsers, ShownHasSource, TypeOK
<1>9. ShownIsResident'
  <2> SUFFICES ASSUME NEW h \in Images, shown'[h] PROVE state'[source'[h]] = "ready"
    BY DEF ShownIsResident
  <2>1. h # i /\ shown[h] /\ source'[h] = source[h]
    BY <1>1, <1>2 DEF TypeOK
  <2>2. PICK g \in Keys : g = source[h] /\ state[g] = "ready"
    BY <1>1, <2>1 DEF IInv, ShownHasSource, ShownIsResident
  <2>3. h \in Users(g)'
    BY <1>1, <2>1, <2>2 DEF Users
  <2>4. IsFiniteSet(Users(g)')
    <3>1. IsFiniteSet(Users(g)) /\ IsFiniteSet(Users(k))
      BY <1>1, UsersFinite
    <3>2. IsFiniteSet(Users(k) \ {i})
      BY <3>1, FS_RemoveElement
    <3> QED
      BY <1>3, <3>1, <3>2
  <2>5. refs[g] # 0
    BY <1>4, <2>3, <2>4, FS_EmptySet
  <2> QED
    BY <1>6, <2>1, <2>2, <2>5
<1>10. InFlightIsTracked'
  BY <1>1, <1>6, JobsStay DEF IInv, InFlightIsTracked
<1>11. FlightInv'
  BY <1>1, <1>6 DEF IInv, FlightInv
<1> QED
  BY <1>1, <1>6, <1>7, <1>8, <1>9, <1>10, <1>11, JobsStay DEF IInv

LEMMA SetSourceStep ==
  ASSUME IInv, NEW i \in Images, NEW k \in Keys, SetSource(i, k)
  PROVE  IInv'
<1>1. /\ mainPc = "idle" /\ source[i] = NoKey /\ Acquire(k)
      /\ source' = [source EXCEPT ![i] = k]
      /\ shown' = [shown EXCEPT ![i] = state[k] = "ready"]
      /\ listening' = [listening EXCEPT ![i] = Subscribed(k)]
      /\ UNCHANGED <<live, workerPc, job, results, eventfd, mainPc, batch>>
  BY DEF SetSource
<1>2. TypeOK
  BY DEF IInv
<1>3. /\ i \notin Users(k) /\ Users(k)' = Users(k) \cup {i}
      /\ \A j \in Keys \ {k} : Users(j)' = Users(j)
  BY <1>1, <1>2, NoKeyAssumption DEF Users, TypeOK
<1>4. refCount' \in [Keys -> Nat] /\ \A j \in Keys : refCount'[j] = Cardinality(Users(j)')
  <2>1. refCount \in [Keys -> Nat] /\ \A j \in Keys : refCount[j] = Cardinality(Users(j))
    BY <1>1, <1>2 DEF TypeOK, IInv, RefCountIsUsers
  <2>2. Cardinality(Users(k)') = Cardinality(Users(k)) + 1
    BY <1>3, UsersFinite, FS_AddElement
  <2>3. refCount' = [refCount EXCEPT ![k] = @ + 1]
    BY <1>1 DEF Acquire
  <2>4. /\ refCount' \in [Keys -> Nat]
        /\ \A j \in Keys : refCount'[j] = IF j = k THEN refCount[j] + 1 ELSE refCount[j]
    BY <2>1, <2>3
  <2>5. ASSUME NEW j \in Keys PROVE refCount'[j] = Cardinality(Users(j)')
    <3>1. CASE j = k
      BY <2>1, <2>2, <2>4, <3>1
    <3>2. CASE j # k
      BY <1>3, <2>1, <2>4, <3>2
    <3> QED
      BY <3>1, <3>2
  <2> QED
    BY <2>4, <2>5
<1>5. newer' \subseteq Keys \X Keys
  BY <1>1, <1>2, TouchType DEF Acquire
<1>6. CASE state[k] \in {"ready", "failed"}
  <2>1. UNCHANGED <<state, queue, inFlight, canceled>>
    BY <1>1, <1>6 DEF Acquire
  <2>2. TypeOK'
    BY <1>1, <1>2, <1>4, <1>5, <2>1 DEF TypeOK, Subscribed
  <2>3. /\ RefCountIsUsers' /\ ShownHasSource' /\ ShownIsResident'
        /\ OneTexturePerReadyEntry' /\ FlightInv'
    BY <1>1, <1>2, <1>4, <2>1 DEF IInv, RefCountIsUsers, ShownHasSource, ShownIsResident,
                                  OneTexturePerReadyEntry, FlightInv, TypeOK
  <2> QED
    BY <1>1, <2>1, <2>2, <2>3, JobsStay DEF IInv, InFlightIsTracked
<1>7. CASE state[k] \in {"absent", "pending"}
  <2>1. /\ state' = [state EXCEPT ![k] = "pending"] /\ canceled' = canceled \ {k}
        /\ inFlight' = inFlight \cup {k}
        /\ queue' = IF k \in inFlight THEN queue ELSE Append(queue, k)
    BY <1>1, <1>7 DEF Acquire, Enqueue
  <2>2. /\ Len(queue) \in Nat /\ queue' \in Seq(Keys)
        /\ k \notin inFlight =>
             /\ Len(queue') = Len(queue) + 1
             /\ \A n \in 1..Len(queue) : queue'[n] = queue[n]
             /\ queue'[Len(queue) + 1] = k
    BY <1>2, <2>1 DEF TypeOK
  <2>3. TypeOK'
    BY <1>1, <1>2, <1>4, <1>5, <2>1, <2>2 DEF TypeOK, Entry, Subscribed
  <2>4. /\ RefCountIsUsers' /\ ShownHasSource' /\ ShownIsResident'
        /\ OneTexturePerReadyEntry' /\ FlightInv'
    BY ZenonT(30), <1>1, <1>2, <1>4, <1>7, <2>1 DEF IInv, RefCountIsUsers, ShownHasSource,
         ShownIsResident, OneTexturePerReadyEntry, FlightInv, TypeOK
  <2>5. JobsUnique' /\ InFlightIsTracked'
    <3>1. CASE k \in inFlight
      <4>1. UNCHANGED <<queue, inFlight>>
        BY <2>1, <3>1
      <4> QED
        BY <1>1, <4>1, JobsStay DEF IInv, InFlightIsTracked
    <3>2. CASE k \notin inFlight
      <4>1. ~Queued(k) /\ ~Decoding(k) /\ ~Decoded(k)
        BY <3>2 DEF IInv, InFlightIsTracked, HasJob
      <4>2. \A n \in 1..Len(queue') :
              \/ n \in 1..Len(queue) /\ queue'[n] = queue[n]
              \/ n = Len(queue) + 1 /\ queue'[n] = k
        <5>1. Len(queue') = Len(queue) + 1 /\ Len(queue) \in Nat
          BY <2>2, <3>2
        <5>2. queue'[Len(queue) + 1] = k /\ \A n \in 1..Len(queue) : queue'[n] = queue[n]
          BY <2>2, <3>2
        <5>3. ASSUME NEW n \in 1..Len(queue') PROVE n \in 1..Len(queue) \/ n = Len(queue) + 1
          BY <5>1
        <5> QED
          BY <5>2, <5>3
      <4>3. \A m, n \in 1..Len(queue') : queue'[m] = queue'[n] => m = n
        BY <4>1, <4>2 DEF IInv, JobsUnique, Queued
      <4>4. \A n \in 1..Len(queue') :
              /\ \A w \in Workers : queue'[n] # job[w]
              /\ \A m \in 1..Len(results) : queue'[n] # results[m].key
              /\ \A m \in 1..Len(batch) : queue'[n] # batch[m].key
        BY SMTT(30), <4>1, <4>2 DEF IInv, JobsUnique, Decoding, Decoded
      <4>5. JobsUnique'
        BY <1>1, <4>3, <4>4 DEF IInv, JobsUnique
      <4>6. \A j \in Keys : Queued(j)' <=> Queued(j) \/ j = k
        BY <2>2, <3>2, <4>2 DEF Queued
      <4> QED
        BY <1>1, <2>1, <4>5, <4>6 DEF IInv, InFlightIsTracked, HasJob, Decoding, Decoded
    <3> QED
      BY <3>1, <3>2
  <2> QED
    BY <1>1, <2>3, <2>4, <2>5 DEF IInv, ControlInv
<1> QED
  BY <1>2, <1>6, <1>7 DEF TypeOK, Entry

-----------------------------------------------------------------------------
(* Dispatch of one decoded job.                                             *)

LEMMA DispatchJobStep ==
  ASSUME IInv, DispatchJob
  PROVE  IInv'
<1>1. mainPc = "dispatch" /\ batch # <<>>
  BY DEF DispatchJob, IInv, ControlInv
<1>2. /\ TypeOK /\ Len(batch) \in Nat \ {0} /\ Head(batch) = batch[1] /\ 1 \in 1..Len(batch)
      /\ Tail(batch) \in Seq(Result) /\ Len(Tail(batch)) = Len(batch) - 1
      /\ \A n \in 1..Len(Tail(batch)) : Tail(batch)[n] = batch[n + 1]
  BY <1>1 DEF IInv, TypeOK
<1>3. PICK k \in Keys : k = Head(batch).key
  BY <1>2, ResultKey DEF TypeOK
<1>4. /\ batch' = Tail(batch)
      /\ mainPc' = IF Len(batch) = 1 THEN "idle" ELSE "dispatch"
      /\ inFlight' = inFlight \ {k} /\ canceled' = canceled \ {k}
      /\ UNCHANGED <<refCount, queue, workerPc, job, results, eventfd, source>>
  BY <1>3 DEF DispatchJob
<1>5. k \in inFlight /\ (k \in canceled <=> state[k] = "absent") /\ state[k] \in {"absent", "pending"}
  <2>1. k \in inFlight
    BY <1>2, <1>3 DEF IInv, InFlightIsTracked, HasJob, Decoded
  <2> QED
    BY <1>1, <2>1 DEF IInv, FlightInv, TypeOK, Entry
\* The entry of k is resolved, or was gone; nothing else changes.
<1>6. /\ newer' \subseteq Keys \X Keys
      /\ shown' \in [Images -> BOOLEAN] /\ listening' \in [Images -> BOOLEAN]
      /\ \E s \in {"absent", "ready", "failed"} :
           /\ state' = [state EXCEPT ![k] = s]
           /\ live' = [live EXCEPT ![k] = IF s = "ready" THEN @ + 1 ELSE @]
      /\ \A i \in Images : shown'[i] => shown[i] \/ (source[i] = k /\ state'[k] = "ready")
      /\ \A i \in Images : listening'[i] => listening[i]
  <2>1. CASE state[k] = "absent"
    <3>1. UNCHANGED <<state, newer, live, shown, listening>>
      BY <1>3, <2>1 DEF DispatchJob
    <3> QED
      BY <1>2, <2>1, <3>1 DEF TypeOK
  <2>2. CASE state[k] = "pending" /\ state' = [state EXCEPT ![k] = "failed"]
             /\ UNCHANGED <<newer, live, shown, listening>>
    BY <1>2, <2>2 DEF TypeOK
  <2>3. CASE /\ state[k] = "pending" /\ state' = [state EXCEPT ![k] = "ready"]
             /\ live' = [live EXCEPT ![k] = @ + 1] /\ newer' = Touch(k)
             /\ LET told == {i \in Images : listening[i] /\ source[i] = k} IN
                /\ shown' = [i \in Images |-> shown[i] \/ i \in told]
                /\ listening' = [i \in Images |-> listening[i] /\ i \notin told]
    <3> DEFINE told == {i \in Images : listening[i] /\ source[i] = k}
    <3>1. /\ shown' = [i \in Images |-> shown[i] \/ i \in told]
          /\ listening' = [i \in Images |-> listening[i] /\ i \notin told]
      BY <2>3
    <3>2. \A i \in told : source[i] = k
      OBVIOUS
    <3> HIDE DEF told
    <3>3. shown' \in [Images -> BOOLEAN] /\ listening' \in [Images -> BOOLEAN]
      BY <3>1, Zenon
    <3>4. \A i \in Images : /\ shown'[i] => shown[i] \/ source[i] = k
                            /\ listening'[i] => listening[i]
      BY <3>1, <3>2
    <3>5. newer' \subseteq Keys \X Keys
      BY <1>2, <2>3, TouchType
    <3> QED
      BY <1>2, <2>3, <3>3, <3>4, <3>5 DEF TypeOK
  <2> QED
    BY <1>3, <1>5, <2>1, <2>2, <2>3 DEF DispatchJob
<1>7. PICK s \in {"absent", "ready", "failed"} :
           /\ state' = [state EXCEPT ![k] = s]
           /\ live' = [live EXCEPT ![k] = IF s = "ready" THEN @ + 1 ELSE @]
  BY <1>6
<1>15. \A i \in Images : shown'[i] => shown[i] \/ (source[i] = k /\ state'[k] = "ready")
  BY <1>6
<1>16. \A i \in Images : listening'[i] => listening[i]
  BY <1>6
<1>8. TypeOK'
  BY SMTT(30), <1>2, <1>4, <1>6, <1>7 DEF TypeOK, Entry
<1>9. RefCountIsUsers' /\ ShownHasSource'
  <2>1. RefCountIsUsers'
    BY <1>1, <1>4 DEF IInv, RefCountIsUsers, Users
  <2>2. ShownHasSource'
    <3> SUFFICES ASSUME NEW i \in Images, shown'[i] \/ listening'[i] PROVE source[i] \in Keys
      BY <1>4 DEF ShownHasSource
    <3>1. shown[i] \/ listening[i] \/ source[i] = k
      BY <1>15, <1>16
    <3> QED
      BY <3>1 DEF IInv, ShownHasSource
  <2> QED
    BY <2>1, <2>2
<1>10. ShownIsResident' /\ OneTexturePerReadyEntry'
  <2>1. ASSUME NEW i \in Images, shown'[i] PROVE state'[source'[i]] = "ready"
    <3>1. CASE shown[i]
      <4>1. source[i] \in Keys /\ state[source[i]] = "ready"
        BY <1>1, <3>1 DEF IInv, ShownHasSource, ShownIsResident
      <4>2. source[i] # k
        BY <1>5, <4>1
      <4> QED
        BY <1>2, <1>4, <1>7, <4>1, <4>2 DEF TypeOK
    <3>2. CASE source[i] = k /\ state'[k] = "ready"
      BY <1>2, <1>4, <1>7, <3>2 DEF TypeOK
    <3> QED
      BY <1>15, <2>1, <3>1, <3>2
  <2>2. OneTexturePerReadyEntry'
    BY <1>2, <1>5, <1>7 DEF IInv, OneTexturePerReadyEntry, TypeOK
  <2> QED
    BY <2>1, <2>2 DEF ShownIsResident
<1>11. JobsUnique'
  <2>1. \A n \in 1..Len(batch') : n + 1 \in 1..Len(batch) /\ batch'[n] = batch[n + 1]
    BY <1>2, <1>4
  <2>2. \A m, n \in 1..Len(batch') : batch'[m].key = batch'[n].key => m = n
    BY <1>2, <1>4, <2>1 DEF IInv, JobsUnique
  <2> QED
    BY <1>4, <2>1, <2>2 DEF IInv, JobsUnique
<1>12. ControlInv'
  BY SMTT(30), <1>2, <1>4 DEF IInv, ControlInv
<1>13. InFlightIsTracked'
  <2> SUFFICES ASSUME NEW j \in Keys PROVE j \in inFlight' <=> HasJob(j)'
    BY DEF InFlightIsTracked
  <2>1. j \in inFlight <=> HasJob(j)
    BY DEF IInv, InFlightIsTracked
  <2>2. (Queued(j)' <=> Queued(j)) /\ (Decoding(j)' <=> Decoding(j))
    BY <1>4 DEF Queued, Decoding
  <2>3. Decoded(j) <=> Decoded(j)' \/ j = k
    <3>1. ASSUME NEW n \in 1..Len(batch), batch[n].key = j, j # k
          PROVE  n - 1 \in 1..Len(batch') /\ batch'[n - 1].key = j
      BY <1>2, <1>3, <1>4, <3>1
    <3>2. ASSUME NEW n \in 1..Len(batch'), batch'[n].key = j
          PROVE  n + 1 \in 1..Len(batch) /\ batch[n + 1].key = j
      BY <1>2, <1>4, <3>2
    <3> QED
      BY <1>2, <1>3, <1>4, <3>1, <3>2 DEF Decoded
  <2>4. ~Queued(k) /\ ~Decoding(k) /\ ~Decoded(k)'
    <3>1. ~Queued(k) /\ ~Decoding(k) /\ \A n \in 1..Len(results) : results[n].key # k
      BY <1>2, <1>3 DEF IInv, JobsUnique, Queued, Decoding
    <3>2. \A n \in 1..Len(batch') : batch'[n].key # k
      <4> SUFFICES ASSUME NEW n \in 1..Len(batch') PROVE batch[n + 1].key # k
        BY <1>2, <1>4
      <4>1. n + 1 \in 1..Len(batch) /\ n + 1 # 1
        BY <1>2, <1>4
      <4> QED
        BY <1>2, <1>3, <4>1 DEF IInv, JobsUnique
    <3> QED
      BY <1>4, <3>1, <3>2 DEF Decoded
  <2> QED
    BY <1>4, <2>1, <2>2, <2>3, <2>4 DEF HasJob
<1>14. FlightInv'
  BY <1>1, <1>2, <1>4, <1>5, <1>7 DEF IInv, FlightInv, TypeOK
<1> QED
  BY <1>8, <1>9, <1>10, <1>11, <1>12, <1>13, <1>14 DEF IInv

-----------------------------------------------------------------------------
(* The theorems.                                                            *)

LEMMA NextInv == IInv /\ [Next]_vars => IInv'
<1> SUFFICES ASSUME IInv, [Next]_vars PROVE IInv'
  OBVIOUS
<1>1. CASE \E i \in Images : ImageStep(i)
  BY <1>1, SetSourceStep, ClearSourceStep DEF ImageStep
<1>2. CASE TrimUnused
  BY <1>2, TrimUnusedStep
<1>3. CASE Dispatch
  BY <1>3, QuietStep, DispatchTakeStep, DispatchJobStep DEF Dispatch
<1>4. CASE \E w \in Workers : Worker(w)
  BY <1>4, QuietStep, WorkerTakeStep, WorkerPushStep DEF Worker
<1>5. CASE DestroyBegin \/ DestroyEnd
  BY <1>5, DestroyStep
<1>6. CASE UNCHANGED vars
  BY <1>6, QuietStep
<1> QED
  BY <1>1, <1>2, <1>3, <1>4, <1>5, <1>6 DEF Next

LEMMA Invariance == Spec => []IInv
  BY InitInv, NextInv, PTL DEF Spec

\* The variables keep their types in every behavior of the cache.
THEOREM TypeCorrect == Spec => []TypeOK
<1>1. IInv => TypeOK
  BY DEF IInv
<1> QED
  BY <1>1, Invariance, PTL

\* Whatever pruning, trimming, cancellation and late results do, an Image never
\* shows a texture that was unloaded: release keeps what is still referenced.
THEOREM ShownTexturesAreResident == Spec => []ShownIsResident
<1>1. IInv => ShownIsResident
  BY DEF IInv
<1> QED
  BY <1>1, Invariance, PTL

\* A key has one GPU texture while its entry is ready and none otherwise:
\* nothing leaks when jobs are canceled and revived.
THEOREM NoTextureLeaks == Spec => []OneTexturePerReadyEntry
<1>1. IInv => OneTexturePerReadyEntry
  BY DEF IInv
<1> QED
  BY <1>1, Invariance, PTL

\* m_inFlight is the set of keys that have a job in the queue, in a worker or
\* among the results, so acquire never queues a second job nor forgets one.
THEOREM InFlightIsExact == Spec => []InFlightIsTracked
<1>1. IInv => InFlightIsTracked
  BY DEF IInv
<1> QED
  BY <1>1, Invariance, PTL

\* The result an Image waits for is on its way and will not be dropped.
THEOREM PendingIsInFlight == Spec => []PendingHasJob
<1>1. IInv => PendingHasJob
  BY DEF IInv, FlightInv, PendingHasJob, Destroying
<1> QED
  BY <1>1, Invariance, PTL

\* Jobs and entries never lose track of one another.
THEOREM JobsStayTracked == Spec => []CacheInv
<1> QED
  BY TypeCorrect, InFlightIsExact, PendingIsInFlight, PTL DEF CacheInv
=============================================================================
