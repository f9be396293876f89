-------------------------- MODULE AsyncTextureCache --------------------------
(***************************************************************************)
(* The texture cache of render/core/async_texture_cache.cpp with the Image *)
(* controls (ui/controls/image.cpp) that are its only clients.             *)
(*                                                                         *)
(* The main thread owns the entries and the listeners; decode workers own  *)
(* nothing but the job they hold.  m_queueMutex guards queue, inFlight and *)
(* canceled, m_resultMutex guards results, and every step below is one     *)
(* critical section (with the thread-local code around it).  A condition   *)
(* variable whose predicate is tested under its mutex is the guard of the  *)
(* step that waits on it.  eventfd is the counter the workers write and    *)
(* the main loop polls.                                                    *)
(***************************************************************************)
EXTENDS Naturals, Sequences, FiniteSets

CONSTANTS
  Keys,       (* request keys: (path, size, mipmap) after makeKey          *)
  Images,     (* Image controls                                            *)
  Workers,    (* decode threads                                            *)
  MaxUnused,  (* kMaxUnusedResidentEntries                                 *)
  NoKey       (* "no key": an idle worker, an Image without a source       *)

ASSUME NoKeyAssumption == NoKey \notin Keys
ASSUME ImagesAssumption == IsFiniteSet(Images)
ASSUME MaxUnusedAssumption == MaxUnused \in Nat

VARIABLES
  state,     (* the entry of a key: absent, pending, ready or failed        *)
  refCount,  (* Entry::refCount, 0 when absent                              *)
  newer,     (* <<k, j>> \in newer: k's lastTouch is after j's              *)
  queue,     (* m_jobQueue                                                  *)
  inFlight,  (* m_inFlight                                                  *)
  canceled,  (* m_canceled                                                  *)
  workerPc,  (* wait, decode, signal or exited                              *)
  job,       (* the key a worker decodes                                    *)
  results,   (* m_results: decoded jobs not yet taken by dispatch           *)
  eventfd,   (* m_eventFd is readable                                       *)
  mainPc,    (* idle, take, dispatch, join or gone                          *)
  batch,     (* the jobs of the running dispatch                            *)
  live,      (* GPU textures loaded for a key and not unloaded              *)
  source,    (* Image::m_asyncSourcePath                                    *)
  shown,     (* Image::m_texture.id # 0                                     *)
  listening  (* the Image has a ReadyListener in m_readyListeners           *)

entryVars == <<state, refCount, newer, live>>
jobVars   == <<queue, inFlight, canceled>>
imageVars == <<source, shown, listening>>
vars == <<entryVars, jobVars, workerPc, job, results, eventfd, mainPc, batch,
          imageVars>>

Entry  == {"absent", "pending", "ready", "failed"}
Result == [key : Keys, failed : BOOLEAN]

Init ==
  /\ state = [k \in Keys |-> "absent"]
  /\ refCount = [k \in Keys |-> 0]
  /\ newer = {}
  /\ queue = <<>> /\ inFlight = {} /\ canceled = {}
  /\ workerPc = [w \in Workers |-> "wait"]
  /\ job = [w \in Workers |-> NoKey]
  /\ results = <<>> /\ batch = <<>> /\ eventfd = FALSE
  /\ mainPc = "idle"
  /\ live = [k \in Keys |-> 0]
  /\ source = [i \in Images |-> NoKey]
  /\ shown = [i \in Images |-> FALSE]
  /\ listening = [i \in Images |-> FALSE]

-----------------------------------------------------------------------------
(* Touches and pruning.                                                     *)

\* The order of lastTouch after the entry of k is touched, and without it.
Forget(k) == {p \in newer : p[1] # k /\ p[2] # k}
Touch(k)  == Forget(k) \cup {<<k, j>> : j \in {x \in Keys : state[x] # "absent" /\ x # k}}

\* pruneUnusedEntries, with the counts refs and the recency order given:
\* every unused resident entry but the max most recently touched ones.
\* (A definition named <name>_<fault> is a faulty variant of the definition
\* that follows it: the properties are shown to reject it.)
Unused_IgnoresRefs(refs) == {k \in Keys : state[k] \in {"ready", "failed"}}
Unused(refs) == {k \in Keys : refs[k] = 0 /\ state[k] \in {"ready", "failed"}}
Evicted(refs, order, max) ==
  {k \in Unused(refs) : Cardinality({j \in Unused(refs) : <<j, k>> \in order}) >= max}

\* Erases the evicted entries, unloading the textures of the ready ones.
Prune(refs, order, max) ==
  LET gone == Evicted(refs, order, max) IN
  /\ state' = [k \in Keys |-> IF k \in gone THEN "absent" ELSE state[k]]
  /\ live'  = [k \in Keys |-> IF k \in gone /\ state[k] = "ready"
                              THEN live[k] - 1 ELSE live[k]]
  /\ newer' = {p \in order : p[1] \notin gone /\ p[2] \notin gone}

-----------------------------------------------------------------------------
(* Main thread, between dispatches: the Image controls.                     *)

\* acquire, under m_queueMutex: a canceled key is revived, a key that is not in
\* flight is queued.
Enqueue_Twice(k) ==
  /\ canceled' = canceled \ {k}
  /\ inFlight' = inFlight \cup {k}
  /\ queue' = Append(queue, k)
Enqueue(k) ==
  /\ canceled' = canceled \ {k}
  /\ inFlight' = inFlight \cup {k}
  /\ queue' = IF k \in inFlight THEN queue ELSE Append(queue, k)

\* acquire: the entry is created or its count raised; a key whose texture is
\* not resident is requested.
Acquire(k) ==
  /\ refCount' = [refCount EXCEPT ![k] = @ + 1]
  /\ newer' = Touch(k)
  /\ IF state[k] \in {"ready", "failed"}
     THEN UNCHANGED <<state, queue, inFlight, canceled>>
     ELSE /\ state' = [state EXCEPT ![k] = "pending"]
          /\ Enqueue(k)

\* subscribeReady: a listener stays only for a texture that is not there yet.
Subscribed(k) == state[k] # "ready"

\* setSourceFileAsync with a new request: acquire, then show the texture or
\* subscribe to its readiness.  A request that replaces another one is
\* ClearSource followed by SetSource.
SetSource(i, k) ==
  /\ mainPc = "idle"
  /\ source[i] = NoKey
  /\ source' = [source EXCEPT ![i] = k]
  /\ Acquire(k)
  /\ shown' = [shown EXCEPT ![i] = state[k] = "ready"]
  /\ listening' = [listening EXCEPT ![i] = Subscribed(k)]
  /\ UNCHANGED <<live, workerPc, job, results, eventfd, mainPc, batch>>

\* release of a pending entry: a job that is in flight is marked canceled.
Cancel_Forgets(k) == /\ canceled' = canceled
                     /\ inFlight' = inFlight \ {k}
Cancel(k) == /\ canceled' = canceled \cup (inFlight \cap {k})
             /\ inFlight' = inFlight

\* release of the last reference to a resident entry keeps it and prunes;
\* to a pending one erases it and cancels its job.
Release(k) ==
  LET refs == [refCount EXCEPT ![k] = @ - 1] IN
  /\ refCount' = refs
  /\ CASE refs[k] > 0 -> UNCHANGED <<state, newer, live, inFlight, canceled>>
       [] refs[k] = 0 /\ state[k] \in {"ready", "failed"} ->
            /\ Prune(refs, Touch(k), MaxUnused)
            /\ UNCHANGED <<inFlight, canceled>>
       [] OTHER ->
            /\ state' = [state EXCEPT ![k] = "absent"]
            /\ newer' = Forget(k)
            /\ Cancel(k)
            /\ UNCHANGED live

\* Image::clear, ~Image: disconnect the subscription, release the key.
ClearSource(i) ==
  /\ mainPc = "idle"
  /\ source[i] # NoKey
  /\ Release(source[i])
  /\ source' = [source EXCEPT ![i] = NoKey]
  /\ shown' = [shown EXCEPT ![i] = FALSE]
  /\ listening' = [listening EXCEPT ![i] = FALSE]
  /\ UNCHANGED <<queue, workerPc, job, results, eventfd, mainPc, batch>>

\* trimUnused(0), deferred by the launcher when it closes.
TrimUnused ==
  /\ mainPc = "idle"
  /\ Prune(refCount, newer, 0)
  /\ UNCHANGED <<refCount, jobVars, workerPc, job, results, eventfd, mainPc,
                 batch, imageVars>>

-----------------------------------------------------------------------------
(* Main thread: dispatch.                                                   *)

\* The event loop saw the eventfd readable; dispatch drains it first ...
DispatchDrain ==
  /\ mainPc = "idle" /\ eventfd
  /\ eventfd' = FALSE
  /\ mainPc' = "take"
  /\ UNCHANGED <<entryVars, jobVars, workerPc, job, results, batch, imageVars>>

DispatchTake_OneJob ==
  /\ mainPc = "take"
  /\ batch' = SubSeq(results, 1, 1)
  /\ results' = IF results = <<>> THEN <<>> ELSE Tail(results)
  /\ mainPc' = IF results = <<>> THEN "idle" ELSE "dispatch"
  /\ UNCHANGED <<entryVars, jobVars, workerPc, job, eventfd, imageVars>>
\* ... then takes the results,
DispatchTake ==
  /\ mainPc = "take"
  /\ batch' = results
  /\ results' = <<>>
  /\ mainPc' = IF results = <<>> THEN "idle" ELSE "dispatch"
  /\ UNCHANGED <<entryVars, jobVars, workerPc, job, eventfd, imageVars>>

\* ... and handles them one by one.  A job that was canceled, or whose entry
\* is gone, is dropped; an upload may fail; a texture that is ready is handed
\* to the listeners of its key, which disconnect.
DispatchJob ==
  /\ mainPc = "dispatch"
  /\ batch' = Tail(batch)
  /\ mainPc' = IF Len(batch) = 1 THEN "idle" ELSE "dispatch"
  /\ LET k == Head(batch).key IN
     /\ inFlight' = inFlight \ {k}
     /\ canceled' = canceled \ {k}
     /\ IF k \in canceled \/ state[k] = "absent"
        THEN UNCHANGED <<state, newer, live, shown, listening>>
        ELSE \/ /\ state' = [state EXCEPT ![k] = "failed"]
                /\ UNCHANGED <<newer, live, shown, listening>>
             \/ /\ ~Head(batch).failed
                /\ state' = [state EXCEPT ![k] = "ready"]
                /\ live' = [live EXCEPT ![k] = @ + 1]
                /\ newer' = Touch(k)
                /\ LET told == {i \in Images : listening[i] /\ source[i] = k} IN
                   /\ shown' = [i \in Images |-> shown[i] \/ i \in told]
                   /\ listening' = [i \in Images |-> listening[i] /\ i \notin told]
  /\ UNCHANGED <<refCount, queue, workerPc, job, results, eventfd, source>>

-----------------------------------------------------------------------------
(* Decode workers.                                                          *)

WorkerTake(w) ==
  /\ workerPc[w] = "wait"
  /\ mainPc \notin {"join", "gone"}
  /\ queue # <<>>
  /\ job' = [job EXCEPT ![w] = Head(queue)]
  /\ queue' = Tail(queue)
  /\ workerPc' = [workerPc EXCEPT ![w] = "decode"]
  /\ UNCHANGED <<entryVars, inFlight, canceled, results, eventfd, mainPc, batch,
                 imageVars>>

\* The file is decoded, or cannot be; pushResult, first half.
WorkerPush(w) ==
  /\ workerPc[w] = "decode"
  /\ \E failed \in BOOLEAN :
       results' = Append(results, [key |-> job[w], failed |-> failed])
  /\ job' = [job EXCEPT ![w] = NoKey]
  /\ workerPc' = [workerPc EXCEPT ![w] = "signal"]
  /\ UNCHANGED <<entryVars, jobVars, eventfd, mainPc, batch, imageVars>>

\* signalMain, after m_resultMutex is released.
WorkerSignal(w) ==
  /\ workerPc[w] = "signal"
  /\ eventfd' = TRUE
  /\ workerPc' = [workerPc EXCEPT ![w] = "wait"]
  /\ UNCHANGED <<entryVars, jobVars, job, results, mainPc, batch, imageVars>>

WorkerExit_DrainsQueue(w) ==
  /\ workerPc[w] = "wait" /\ mainPc = "join" /\ queue = <<>>
  /\ workerPc' = [workerPc EXCEPT ![w] = "exited"]
  /\ UNCHANGED <<entryVars, jobVars, job, results, eventfd, mainPc, batch, imageVars>>

\* A waiting worker that sees m_shutdown returns, whatever is queued.
WorkerExit(w) ==
  /\ workerPc[w] = "wait" /\ mainPc = "join"
  /\ workerPc' = [workerPc EXCEPT ![w] = "exited"]
  /\ UNCHANGED <<entryVars, jobVars, job, results, eventfd, mainPc, batch, imageVars>>

-----------------------------------------------------------------------------
(* The destructor: stop the workers, join them, unload what is resident.    *)

DestroyBegin ==
  /\ mainPc = "idle"
  /\ listening' = [i \in Images |-> FALSE]
  /\ mainPc' = "join"
  /\ UNCHANGED <<entryVars, jobVars, workerPc, job, results, eventfd, batch,
                 source, shown>>

DestroyEnd ==
  /\ mainPc = "join"
  /\ \A w \in Workers : workerPc[w] = "exited"
  /\ live' = [k \in Keys |-> IF state[k] = "ready" THEN live[k] - 1 ELSE live[k]]
  /\ state' = [k \in Keys |-> "absent"]
  /\ refCount' = [k \in Keys |-> 0]
  /\ newer' = {}
  /\ mainPc' = "gone"
  /\ UNCHANGED <<jobVars, workerPc, job, results, eventfd, batch, imageVars>>

-----------------------------------------------------------------------------
Dispatch == DispatchDrain \/ DispatchTake \/ DispatchJob
Worker(w) == WorkerTake(w) \/ WorkerPush(w) \/ WorkerSignal(w) \/ WorkerExit(w)
ImageStep(i) == (\E k \in Keys : SetSource(i, k)) \/ ClearSource(i)

Next ==
  \/ \E i \in Images : ImageStep(i)
  \/ TrimUnused
  \/ Dispatch
  \/ \E w \in Workers : Worker(w)
  \/ DestroyBegin
  \/ DestroyEnd

\* Threads are scheduled and the main loop polls the eventfd on each of its
\* iterations; nothing makes an Image or the user act.
Fairness ==
  /\ WF_vars(Dispatch)
  /\ \A w \in Workers : WF_vars(Worker(w))
  /\ WF_vars(DestroyEnd)

Spec == Init /\ [][Next]_vars /\ Fairness

-----------------------------------------------------------------------------
(* Properties.                                                              *)

TypeOK ==
  /\ state \in [Keys -> Entry]
  /\ refCount \in [Keys -> Nat]
  /\ newer \subseteq Keys \X Keys
  /\ queue \in Seq(Keys)
  /\ inFlight \subseteq Keys
  /\ canceled \subseteq Keys
  /\ workerPc \in [Workers -> {"wait", "decode", "signal", "exited"}]
  /\ job \in [Workers -> Keys \cup {NoKey}]
  /\ results \in Seq(Result)
  /\ batch \in Seq(Result)
  /\ eventfd \in BOOLEAN
  /\ mainPc \in {"idle", "take", "dispatch", "join", "gone"}
  /\ live \in [Keys -> Nat]
  /\ source \in [Images -> Keys \cup {NoKey}]
  /\ shown \in [Images -> BOOLEAN]
  /\ listening \in [Images -> BOOLEAN]

Users(k) == {i \in Images : source[i] = k}
Destroying == mainPc \in {"join", "gone"}

\* An Image never draws with a texture the cache has unloaded: what pruning,
\* trimming and canceling evict, in any order with late results, is never the
\* texture of an Image that still has the key as its source.
ShownIsResident ==
  mainPc # "gone" => \A i \in Images : shown[i] => state[source[i]] = "ready"

\* No GPU texture is leaked or freed twice: a key has exactly one texture while
\* its entry is ready and none otherwise, so dispatch never overwrites the
\* handle of a resident entry with that of a second decode of the same file.
OneTexturePerReadyEntry ==
  \A k \in Keys : live[k] = IF state[k] = "ready" THEN 1 ELSE 0

\* The places where a job for key k can be.
Queued(k)   == \E n \in 1..Len(queue) : queue[n] = k
Decoding(k) == \E w \in Workers : job[w] = k
Decoded(k)  == \/ \E n \in 1..Len(results) : results[n].key = k
               \/ \E n \in 1..Len(batch) : batch[n].key = k
HasJob(k) == Queued(k) \/ Decoding(k) \/ Decoded(k)

\* m_inFlight is exactly the set of keys with a job somewhere: a key that is
\* in flight cannot be forgotten, and no key is decoded twice at once.
InFlightIsTracked == \A k \in Keys : k \in inFlight <=> HasJob(k)

\* A pending entry has a job whose result will be used; a job in flight whose
\* entry is gone is canceled, and so is no job whose entry came back.
PendingHasJob ==
  ~Destroying => \A k \in Keys :
    /\ state[k] = "pending" => k \in inFlight \ canceled
    /\ k \in inFlight => (k \in canceled <=> state[k] = "absent")

\* Jobs and entries never lose track of one another, whatever is canceled,
\* revived or pruned while a worker decodes.
CacheInv == TypeOK /\ InFlightIsTracked /\ PendingHasJob

\* An Image that keeps its source is shown its texture, or the key has failed.
SourceIsResolved ==
  \A i \in Images : \A k \in Keys :
    (source[i] = k) ~> (shown[i] \/ source[i] # k \/ state[k] = "failed" \/ Destroying)

\* The destructor ends: no worker keeps it waiting in join.
DestroyTerminates == (mainPc = "join") ~> (mainPc = "gone")
=============================================================================
