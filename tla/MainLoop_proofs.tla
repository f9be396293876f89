---------------------------- MODULE MainLoop_proofs ----------------------------
(***************************************************************************)
(* Proofs for TimerManager, SurfaceFrames and MainLoop, which extends      *)
(* both, for any timers, delays, surfaces and calls.  Timers are alarms;   *)
(* the queues and the flags of the surfaces agree and no frame is          *)
(* forgotten; the loop never sleeps too long, and the deferred calls run   *)
(* in their order.                                                         *)
(***************************************************************************)
EXTENDS MainLoop, SequenceTheorems, WellFoundedInduction, TLAPS

-----------------------------------------------------------------------------
(* Timers.  The invariant says that the marks are those of the tick, that an *)
(* entry that may still run is held by exactly one Timer, and that ids are   *)
(* used once: the id a start hands out is larger than every other, so a mark *)
(* or an entry that is left of an earlier setting is never taken for it.     *)

Fresh ==
  /\ \A t \in Timers : timers[t] < nextId
  /\ \A id \in Pending \cup Batch : id < nextId
  /\ running # 0 => running \in Batch

TimerIInv == TimerTypeOK /\ MarksAreOfTheTick /\ EntriesAreOwned /\ Fresh

-----------------------------------------------------------------------------
(* Entries and calls of cancel. *)

\* An entry is never the absence of one.
LEMMA EntryFields ==
  ASSUME NEW e \in Entry
  PROVE e # None /\ e.due \in Nat /\ e.interval \in Nat /\ e.repeating \in BOOLEAN
  BY NoneAssumption DEF Entry

\* A started timer has an entry.
LEMMA NewEntry ==
  ASSUME NEW due \in Nat, NEW delay \in Nat, NEW repeating \in BOOLEAN
  PROVE [due |-> due, interval |-> delay, repeating |-> repeating] \in Entry
  BY DEF Entry

\* What a cancelled id leaves behind may not run.
LEMMA CancelAlive ==
  ASSUME TimerIInv, NEW id \in 0 .. MaxStarts,
         entries' = Erased(id), canceled' = CanceledWith(id), dueEntries' = dueEntries
  PROVE /\ entries' \in [Ids -> Entry \cup {None}]
        /\ Pending' = Pending \ {id} /\ Batch' = Batch
        /\ Alive' = Alive \ {id}
        /\ canceled' \subseteq Batch
  <1>1. entries \in [Ids -> Entry \cup {None}]
    BY DEF TimerIInv, TimerTypeOK
  <1>2. entries' \in [Ids -> Entry \cup {None}] /\ Pending' = Pending \ {id} /\ Batch' = Batch
    BY <1>1 DEF Erased, Pending, Batch
  <1>3. canceled' \subseteq Batch
    BY DEF TimerIInv, MarksAreOfTheTick, CanceledWith
  <1>4. Batch \ canceled' = IF id \in Batch /\ id \notin Pending THEN (Batch \ canceled) \ {id}
                                                                 ELSE Batch \ canceled
    BY DEF TimerIInv, MarksAreOfTheTick, CanceledWith
  <1>5. Pending \cap Batch = {}
    BY DEF TimerIInv, EntriesAreOwned
  <1> QED
    BY <1>2, <1>3, <1>4, <1>5 DEF Alive

-----------------------------------------------------------------------------
(* The invariant. *)

LEMMA TimerInitInv == TimerInit => TimerIInv
  <1> SUFFICES ASSUME TimerInit PROVE TimerIInv
    OBVIOUS
  <1>1. 0 \in 0 .. MaxStarts /\ 1 \in 1 .. MaxStarts + 1
    BY TimerAssumption
  <1>2. Pending = {} /\ Batch = {}
    BY DEF TimerInit, Pending, Batch
  <1>3. TimerTypeOK
    BY <1>1 DEF TimerInit, TimerTypeOK
  <1> QED
    BY <1>2, <1>3 DEF TimerInit, TimerIInv, MarksAreOfTheTick, EntriesAreOwned, Fresh, Alive

LEMMA StartInv ==
  ASSUME TimerIInv, NEW t \in Timers, NEW delay \in Delays, NEW repeating \in BOOLEAN,
         Start(t, delay, repeating)
  PROVE TimerIInv'
  <1> DEFINE id == timers[t]
  <1> DEFINE e == [due |-> now + delay, interval |-> delay, repeating |-> repeating]
  <1>1. id \in 0 .. MaxStarts /\ nextId \in Ids /\ nextId \in Nat /\ now \in Nat /\ delay \in Nat
    BY TimerAssumption DEF TimerIInv, TimerTypeOK, Start, Ids
  <1>2. e \in Entry /\ e # None
    BY <1>1, NewEntry, EntryFields
  <1>3. nextId \notin Pending /\ nextId \notin Batch /\ id # nextId
    BY <1>1 DEF TimerIInv, Fresh
  <1>4. entries \in [Ids -> Entry \cup {None}]
    BY DEF TimerIInv, TimerTypeOK
  <1>5. entries' \in [Ids -> Entry \cup {None}]
    BY <1>1, <1>2, <1>4 DEF Start, Erased
  <1>6. Pending' = (Pending \ {id}) \cup {nextId} /\ Batch' = Batch
    BY <1>1, <1>2, <1>4 DEF Start, Erased, Pending, Batch, tickVars
  <1>7. canceled' \subseteq Batch
    BY DEF TimerIInv, MarksAreOfTheTick, CanceledWith, Start
  <1>8. Alive' = (Alive \ {id}) \cup {nextId}
    <2>1. canceled' = IF id \notin Pending /\ id \in Batch THEN canceled \cup {id} ELSE canceled
      BY DEF Start, CanceledWith, TimerIInv, MarksAreOfTheTick
    <2>2. Pending \cap Batch = {}
      BY DEF TimerIInv, EntriesAreOwned
    <2> QED
      BY <1>6, <2>1, <2>2 DEF Alive
  <1>9. TimerTypeOK'
    <2>1. timers' \in [Timers -> 0 .. MaxStarts]
      BY <1>1 DEF TimerIInv, TimerTypeOK, Start, Ids
    <2>2. nextId' \in 1 .. MaxStarts + 1
      BY <1>1, TimerAssumption DEF Start, Ids
    <2>3. canceled' \subseteq Ids
      BY <1>7 DEF Batch
    <2> QED
      BY <1>5, <2>1, <2>2, <2>3 DEF TimerIInv, TimerTypeOK, Start, tickVars
  <1>10. MarksAreOfTheTick'
    BY <1>6, <1>7 DEF TimerIInv, MarksAreOfTheTick, Start, tickVars
  <1>11. timers' = [timers EXCEPT ![t] = nextId] /\ timers \in [Timers -> 0 .. MaxStarts]
    BY DEF Start, TimerIInv, TimerTypeOK
  <1>12. EntriesAreOwned'
    <2>1. Pending' \cap Batch' = {}
      BY <1>3, <1>6 DEF TimerIInv, EntriesAreOwned
    <2>2. \A i \in Alive' : \E u \in Timers : timers'[u] = i
      BY <1>8, <1>11 DEF TimerIInv, EntriesAreOwned
    <2>3. \A u \in Timers : timers[u] # nextId
      BY <1>1, <1>11 DEF TimerIInv, Fresh
    <2>4. \A u, v \in Timers : timers'[u] = timers'[v] /\ timers'[u] # 0 => u = v
      BY <1>11, <2>3 DEF TimerIInv, EntriesAreOwned
    <2> QED
      BY <2>1, <2>2, <2>4 DEF EntriesAreOwned
  <1>13. Fresh'
    <2>1. nextId' = nextId + 1 /\ running' = running
      BY DEF Start, tickVars
    <2>2. \A u \in Timers : timers'[u] < nextId'
      BY <1>1, <1>11, <2>1 DEF TimerIInv, Fresh
    <2>3. \A i \in Pending' \cup Batch' : i < nextId'
      BY <1>1, <1>6, <2>1 DEF TimerIInv, Fresh, Pending, Batch, Ids
    <2> QED
      BY <1>6, <2>1, <2>2, <2>3 DEF TimerIInv, Fresh
  <1> QED
    BY <1>9, <1>10, <1>12, <1>13 DEF TimerIInv

LEMMA StopInv ==
  ASSUME TimerIInv, NEW t \in Timers, Stop(t)
  PROVE TimerIInv'
  <1>1. timers[t] \in 0 .. MaxStarts /\ timers[t] \in Nat /\ 0 \in 0 .. MaxStarts
    BY TimerAssumption DEF TimerIInv, TimerTypeOK
  <1>2. /\ entries' \in [Ids -> Entry \cup {None}]
        /\ Pending' = Pending \ {timers[t]} /\ Batch' = Batch
        /\ Alive' = Alive \ {timers[t]}
        /\ canceled' \subseteq Batch
    BY <1>1, CancelAlive DEF Stop, tickVars
  <1>3. timers' = [timers EXCEPT ![t] = 0] /\ timers \in [Timers -> 0 .. MaxStarts]
    BY DEF Stop, TimerIInv, TimerTypeOK
  <1>4. timers' \in [Timers -> 0 .. MaxStarts]
    BY <1>1, <1>3
  <1>5. TimerTypeOK'
    BY <1>2, <1>4 DEF TimerIInv, TimerTypeOK, Stop, tickVars, Batch
  <1>6. MarksAreOfTheTick'
    BY <1>2 DEF TimerIInv, MarksAreOfTheTick, Stop, tickVars
  <1>7. EntriesAreOwned'
    BY <1>2, <1>3 DEF TimerIInv, EntriesAreOwned
  <1>8. Fresh'
    <2>1. \A u \in Timers : timers'[u] < nextId
      BY <1>1, <1>3 DEF TimerIInv, Fresh, TimerTypeOK
    <2> QED
      BY <1>2, <2>1 DEF TimerIInv, Fresh, Stop, tickVars
  <1> QED
    BY <1>5, <1>6, <1>7, <1>8 DEF TimerIInv

LEMMA MoveInv ==
  ASSUME TimerIInv, NEW t \in Timers, NEW u \in Timers, Move(t, u)
  PROVE TimerIInv'
  <1>1. /\ timers[u] \in 0 .. MaxStarts /\ timers[t] \in 0 .. MaxStarts
        /\ 0 \in 0 .. MaxStarts /\ t # u
    BY TimerAssumption DEF TimerIInv, TimerTypeOK, Move
  <1>2. /\ entries' \in [Ids -> Entry \cup {None}]
        /\ Pending' = Pending \ {timers[u]} /\ Batch' = Batch
        /\ Alive' = Alive \ {timers[u]}
        /\ canceled' \subseteq Batch
    BY <1>1, CancelAlive DEF Move, tickVars
  <1>3. timers' = [timers EXCEPT ![u] = timers[t], ![t] = 0] /\ timers \in [Timers -> 0 .. MaxStarts]
    BY DEF Move, TimerIInv, TimerTypeOK
  <1>4. timers' \in [Timers -> 0 .. MaxStarts]
    BY <1>1, <1>3
  <1>5. TimerTypeOK'
    BY <1>2, <1>4 DEF TimerIInv, TimerTypeOK, Move, tickVars, Batch
  <1>6. MarksAreOfTheTick'
    BY <1>2 DEF TimerIInv, MarksAreOfTheTick, Move, tickVars
  <1>7. EntriesAreOwned'
    <2>1. \A v \in Timers : timers'[v] = IF v = t THEN 0 ELSE IF v = u THEN timers[t] ELSE timers[v]
      BY <1>1, <1>3
    <2>2. \A i \in Alive' : \E v \in Timers : timers'[v] = i
      <3> SUFFICES ASSUME NEW i \in Alive' PROVE \E v \in Timers : timers'[v] = i
        OBVIOUS
      <3>1. PICK w \in Timers : timers[w] = i
        BY <1>2 DEF TimerIInv, EntriesAreOwned
      <3>2. w # u
        BY <1>2, <3>1
      <3> QED
        BY <2>1, <3>1, <3>2, <1>1
    <2>3. \A v, w \in Timers : timers'[v] = timers'[w] /\ timers'[v] # 0 => v = w
      BY <1>1, <2>1 DEF TimerIInv, EntriesAreOwned
    <2> QED
      BY <1>2, <2>2, <2>3 DEF TimerIInv, EntriesAreOwned
  <1>8. Fresh'
    <2>1. \A v \in Timers : timers'[v] < nextId
      BY <1>1, <1>3 DEF TimerIInv, Fresh, TimerTypeOK
    <2> QED
      BY <1>2, <2>1 DEF TimerIInv, Fresh, Move, tickVars
  <1> QED
    BY <1>5, <1>6, <1>7, <1>8 DEF TimerIInv

\* Due entries leave the map for the dueEntries and stay alive.
LEMMA TickAlive ==
  ASSUME TimerIInv, Tick
  PROVE /\ Pending' = Pending \ Due /\ Batch' = Due /\ Due \subseteq Pending
        /\ canceled = {} /\ inFlight = {} /\ Alive' = Alive
        /\ running = 0
  <1>1. entries \in [Ids -> Entry \cup {None}] /\ Due \subseteq Pending /\ Pending \subseteq Ids
    BY DEF TimerIInv, TimerTypeOK, Due, Pending
  <1>2. Pending' = Pending \ Due /\ Batch' = Due
    BY <1>1 DEF Tick, Pending, Batch
  <1>3. canceled = {} /\ inFlight = {} /\ Batch = {} /\ running = 0 /\ canceled' = canceled
    BY DEF Tick, TimerIInv, MarksAreOfTheTick, Fresh
  <1> QED
    BY <1>1, <1>2, <1>3 DEF Alive

LEMMA TickInv == TimerIInv /\ Tick => TimerIInv'
  <1> SUFFICES ASSUME TimerIInv, Tick PROVE TimerIInv'
    OBVIOUS
  <1>1. /\ Pending' = Pending \ Due /\ Batch' = Due /\ Due \subseteq Pending
        /\ canceled = {} /\ inFlight = {} /\ Alive' = Alive
        /\ running = 0
    BY TickAlive
  <1>2. entries' \in [Ids -> Entry \cup {None}] /\ dueEntries' \in [Ids -> Entry \cup {None}]
    BY DEF TimerIInv, TimerTypeOK, Tick
  <1>3. TimerTypeOK'
    BY <1>1, <1>2 DEF TimerIInv, TimerTypeOK, Tick, Pending
  <1>4. MarksAreOfTheTick'
    BY <1>1 DEF MarksAreOfTheTick, Tick
  <1>5. EntriesAreOwned'
    BY <1>1 DEF TimerIInv, EntriesAreOwned, Tick
  <1>6. Fresh'
    BY <1>1 DEF TimerIInv, Fresh, Tick
  <1> QED
    BY <1>3, <1>4, <1>5, <1>6 DEF TimerIInv

LEMMA SkipInv ==
  ASSUME TimerIInv, NEW id \in Ids, Skip(id)
  PROVE TimerIInv' /\ Alive' = Alive
  <1>1. dueEntries \in [Ids -> Entry \cup {None}] /\ id \in Batch /\ id \in canceled
    BY DEF TimerIInv, TimerTypeOK, Skip
  <1>2. Pending' = Pending /\ Batch' = Batch \ {id}
    BY <1>1 DEF Skip, Done, Pending, Batch
  <1>3. Alive' = Alive
    BY <1>1, <1>2 DEF Skip, Done, Alive
  <1>4. TimerTypeOK'
    BY <1>1 DEF TimerIInv, TimerTypeOK, Skip, Done
  <1>5. MarksAreOfTheTick'
    BY <1>2 DEF TimerIInv, MarksAreOfTheTick, Skip, Done
  <1>6. EntriesAreOwned'
    BY <1>2, <1>3 DEF TimerIInv, EntriesAreOwned, Skip
  <1>7. Fresh'
    BY <1>2 DEF TimerIInv, Fresh, Skip
  <1> QED
    BY <1>3, <1>4, <1>5, <1>6, <1>7 DEF TimerIInv

LEMMA CallInv ==
  ASSUME TimerIInv, NEW id \in Ids, Call(id)
  PROVE TimerIInv' /\ Alive' = Alive
  <1>1. /\ Pending' = Pending /\ Batch' = Batch /\ Alive' = Alive
        /\ id \in Batch /\ running' = id
    BY DEF Call, Pending, Batch, Alive
  <1>2. id \in 0 .. MaxStarts
    BY TimerAssumption DEF Ids
  <1>3. TimerTypeOK'
    BY <1>1, <1>2 DEF TimerIInv, TimerTypeOK, Call
  <1>4. MarksAreOfTheTick' /\ EntriesAreOwned' /\ Fresh'
    BY <1>1 DEF TimerIInv, MarksAreOfTheTick, EntriesAreOwned, Fresh, Call
  <1> QED
    BY <1>1, <1>3, <1>4 DEF TimerIInv

\* What is left of an entry whose callback has returned.
LEMMA ReturnAlive ==
  ASSUME TimerIInv, Return
  PROVE /\ running \in Ids /\ running \in Batch /\ running \notin Pending
        /\ dueEntries[running] \in Entry
        /\ Batch' = Batch \ {running}
        /\ Pending' = IF dueEntries[running].repeating /\ running \notin canceled
                      THEN Pending \cup {running} ELSE Pending
        /\ Alive' \subseteq Alive
        /\ entries' \in [Ids -> Entry \cup {None}]
  <1>1. /\ dueEntries \in [Ids -> Entry \cup {None}] /\ entries \in [Ids -> Entry \cup {None}]
        /\ running \in Batch /\ running \in Ids /\ now \in Nat
    BY DEF TimerIInv, TimerTypeOK, Fresh, Return, Batch
  <1>2. running \notin Pending /\ dueEntries[running] \in Entry
    BY <1>1 DEF TimerIInv, EntriesAreOwned, Batch
  <1>3. Batch' = Batch \ {running}
    BY <1>1 DEF Return, Done, Batch
  <1> DEFINE e == [dueEntries[running] EXCEPT !.due = now + dueEntries[running].interval]
  <1>4. e \in Entry
    BY <1>1, <1>2 DEF Entry
  <1>5. e # None
    BY <1>4, EntryFields
  <1> HIDE DEF e
  <1>6. entries' = IF dueEntries[running].repeating /\ running \notin canceled
                   THEN [entries EXCEPT ![running] = e] ELSE entries
    BY DEF Return, e
  <1>7. entries' \in [Ids -> Entry \cup {None}]
    BY <1>1, <1>4, <1>6
  <1>8. Pending' = IF dueEntries[running].repeating /\ running \notin canceled
                   THEN Pending \cup {running} ELSE Pending
    BY <1>1, <1>5, <1>6 DEF Pending
  <1>9. Alive' \subseteq Alive
    BY <1>1, <1>3, <1>8 DEF Return, Done, Alive
  <1> QED
    BY <1>1, <1>2, <1>3, <1>7, <1>8, <1>9

LEMMA ReturnInv == TimerIInv /\ Return => TimerIInv'
  <1> SUFFICES ASSUME TimerIInv, Return PROVE TimerIInv'
    OBVIOUS
  <1>1. /\ running \in Ids /\ running \in Batch /\ running \notin Pending
        /\ dueEntries[running] \in Entry
        /\ Batch' = Batch \ {running}
        /\ Pending' = IF dueEntries[running].repeating /\ running \notin canceled
                      THEN Pending \cup {running} ELSE Pending
        /\ Alive' \subseteq Alive
        /\ entries' \in [Ids -> Entry \cup {None}]
    BY ReturnAlive
  <1>2. 0 \in 0 .. MaxStarts
    BY TimerAssumption
  <1>3. TimerTypeOK'
    BY <1>1, <1>2 DEF TimerIInv, TimerTypeOK, Return, Done
  <1>4. MarksAreOfTheTick'
    BY <1>1 DEF TimerIInv, MarksAreOfTheTick, Return, Done
  <1>5. EntriesAreOwned'
    BY <1>1 DEF TimerIInv, EntriesAreOwned, Return
  <1>6. Fresh'
    BY <1>1 DEF TimerIInv, Fresh, Return
  <1> QED
    BY <1>3, <1>4, <1>5, <1>6 DEF TimerIInv

LEMMA TimePassesInv == TimerIInv /\ ClockMoves => TimerIInv'
  <1> SUFFICES ASSUME TimerIInv, ClockMoves PROVE TimerIInv'
    OBVIOUS
  <1>1. Pending' = Pending /\ Batch' = Batch /\ Alive' = Alive
    BY DEF ClockMoves, tickVars, Pending, Batch, Alive
  <1>2. TimerTypeOK'
    BY DEF TimerIInv, TimerTypeOK, ClockMoves, tickVars
  <1> QED
    BY <1>1, <1>2 DEF TimerIInv, MarksAreOfTheTick, EntriesAreOwned, Fresh, ClockMoves, tickVars

LEMMA TimerStutter == TimerIInv /\ UNCHANGED timerVars => TimerIInv'
  <1> SUFFICES ASSUME TimerIInv, UNCHANGED timerVars PROVE TimerIInv'
    OBVIOUS
  <1>1. Pending' = Pending /\ Batch' = Batch /\ Alive' = Alive
    BY DEF timerVars, tickVars, Pending, Batch, Alive
  <1> QED
    BY <1>1 DEF TimerIInv, TimerTypeOK, MarksAreOfTheTick, EntriesAreOwned, Fresh, timerVars, tickVars

LEMMA TimerNextInv == TimerIInv /\ [TimerNext]_timerVars => TimerIInv'
  <1> SUFFICES ASSUME TimerIInv, [TimerNext]_timerVars PROVE TimerIInv'
    OBVIOUS
  <1>1. CASE Calls
    BY <1>1, StartInv, StopInv, MoveInv DEF Calls
  <1>2. CASE TickStep
    BY <1>2, TickInv, ReturnInv, SkipInv, CallInv DEF TickStep
  <1>3. CASE ClockMoves
    BY <1>3, TimePassesInv
  <1>4. CASE UNCHANGED timerVars
    BY <1>4, TimerStutter
  <1> QED
    BY <1>1, <1>2, <1>3, <1>4 DEF TimerNext

LEMMA TimerAlways == TimerSpec => []TimerIInv
  BY TimerInitInv, TimerNextInv, PTL DEF TimerSpec

\* The bookkeeping of a tick is exact between any two steps, for any timers: no
\* mark is left over when it ends, and whatever may still call back has one owner
\* that can stop it.
THEOREM TimersAreTracked == TimerSpec => []TimerInv
  <1>1. TimerIInv => TimerInv
    BY DEF TimerIInv, TimerInv
  <1> QED
    BY <1>1, TimerAlways, PTL

-----------------------------------------------------------------------------
(* Timers are alarms. *)

Settings == [id : Ids, due : Nat, interval : Nat, repeating : BOOLEAN]

\* The alarm of a timer is set exactly when the timer's entry may still run, and
\* its name is the timer's id.
LEMMA AlarmFields ==
  ASSUME TimerIInv, NEW t \in Timers
  PROVE /\ timers[t] \in Alive => /\ AlarmOf(t) \in Settings /\ AlarmOf(t) # None
                                  /\ AlarmOf(t).id = timers[t]
        /\ timers[t] \notin Alive => AlarmOf(t) = None
        /\ timers[t] \in Batch \ canceled => AlarmOf(t) = Name(timers[t], dueEntries[timers[t]])
        /\ timers[t] \in Pending => AlarmOf(t) = Name(timers[t], entries[timers[t]])
  <1>1. /\ entries \in [Ids -> Entry \cup {None}] /\ dueEntries \in [Ids -> Entry \cup {None}]
        /\ Pending \cap Batch = {} /\ Pending \subseteq Ids /\ Batch \subseteq Ids
    BY DEF TimerIInv, TimerTypeOK, EntriesAreOwned, Pending, Batch
  <1>2. \A id \in Ids, e \in Entry : /\ Name(id, e) \in Settings /\ Name(id, e).id = id
                                     /\ Name(id, e) # None
    <2> SUFFICES ASSUME NEW id \in Ids, NEW e \in Entry
                 PROVE Name(id, e) \in Settings /\ Name(id, e).id = id
      BY NoneAssumption DEF Settings
    <2> QED
      BY EntryFields DEF Name, Settings
  <1>3. CASE timers[t] \in Pending
    <2>1. entries[timers[t]] \in Entry /\ timers[t] \in Ids
      BY <1>1, <1>3 DEF Pending
    <2> QED
      BY <1>1, <1>2, <1>3, <2>1 DEF AlarmOf, Alive
  <1>4. CASE timers[t] \in Batch \ canceled
    <2>1. dueEntries[timers[t]] \in Entry /\ timers[t] \in Ids
      BY <1>1, <1>4 DEF Batch
    <2> QED
      BY <1>1, <1>2, <1>4, <2>1 DEF AlarmOf, Alive
  <1>5. CASE timers[t] \notin Alive
    BY <1>5 DEF AlarmOf, Alive
  <1> QED
    BY <1>3, <1>4, <1>5 DEF Alive

\* A timer whose id keeps its entry keeps its alarm.
LEMMA AlarmKept ==
  ASSUME TimerIInv, NEW t \in Timers, NEW u \in Timers, timers'[u] = timers[t],
         timers[t] \in Ids => /\ entries'[timers[t]] = entries[timers[t]]
                              /\ dueEntries'[timers[t]] = dueEntries[timers[t]]
                              /\ timers[t] \in canceled' <=> timers[t] \in canceled
  PROVE AlarmOf(u)' = AlarmOf(t)
  BY DEF AlarmOf, Pending, Batch

\* The empty id has no alarm.
LEMMA AlarmOfNone ==
  ASSUME NEW t \in Timers, timers[t] = 0
  PROVE AlarmOf(t) = None
  BY DEF AlarmOf, Pending, Batch, Ids

\* Canceling an id touches no other.
LEMMA CancelOthers ==
  ASSUME TimerIInv, NEW id, NEW other \in Ids, other # id
  PROVE /\ Erased(id)[other] = entries[other]
        /\ other \in CanceledWith(id) <=> other \in canceled
  BY DEF Erased, CanceledWith

LEMMA StartSets ==
  ASSUME TimerIInv, NEW t \in Timers, NEW delay \in Delays, NEW repeating \in BOOLEAN,
         Start(t, delay, repeating)
  PROVE A!Set(t, nextId, delay, repeating) /\ nextId \in Ids
  <1>1. /\ nextId \in Ids /\ nextId \in Nat /\ timers \in [Timers -> 0 .. MaxStarts]
        /\ delay \in Nat /\ now \in Nat /\ entries \in [Ids -> Entry \cup {None}]
    BY TimerAssumption DEF TimerIInv, TimerTypeOK, Start, Ids
  <1>2. /\ \A u \in Timers : timers[u] # nextId
        /\ running # nextId
    BY <1>1 DEF TimerIInv, Fresh, Ids
  <1> DEFINE e == [due |-> now + delay, interval |-> delay, repeating |-> repeating]
  <1>3. e # None
    BY <1>1, NewEntry, EntryFields
  <1>4. AlarmOf(t)' = Name(nextId, e)
    <2>1. timers'[t] = nextId /\ entries'[nextId] = e
      BY <1>1 DEF Start, Erased
    <2> QED
      BY <1>1, <1>3, <2>1 DEF AlarmOf, Pending
  <1>5. \A u \in Timers \ {t} : AlarmOf(u)' = AlarmOf(u)
    <2> SUFFICES ASSUME NEW u \in Timers, u # t PROVE AlarmOf(u)' = AlarmOf(u)
      OBVIOUS
    <2>1. timers'[u] = timers[u]
      BY <1>1 DEF Start
    <2>2. CASE timers[u] = 0
      BY <2>1, <2>2 DEF AlarmOf, Pending, Batch, Ids
    <2>3. CASE timers[u] # 0
      <3>1. timers[u] # timers[t] /\ timers[u] # nextId /\ timers[u] \in Ids
        BY <1>1, <1>2, <2>3 DEF TimerIInv, EntriesAreOwned, Ids
      <3>2. /\ Erased(timers[t])[timers[u]] = entries[timers[u]]
            /\ timers[u] \in CanceledWith(timers[t]) <=> timers[u] \in canceled
        BY <3>1, CancelOthers
      <3>3. /\ entries'[timers[u]] = entries[timers[u]]
            /\ timers[u] \in canceled' <=> timers[u] \in canceled
            /\ dueEntries' = dueEntries
        BY <3>1, <3>2 DEF Start, Erased, tickVars
      <3> QED
        BY <2>1, <3>3, AlarmKept
    <2> QED
      BY <2>2, <2>3
  <1>6. nextId \notin A!Used
    <2> SUFFICES ASSUME NEW u \in Timers, AlarmOf(u) # None PROVE AlarmOf(u).id # nextId
      BY <1>2 DEF A!Used
    <2> QED
      BY <1>2, AlarmFields
  <1>7. UNCHANGED <<now, running>>
    BY DEF Start, tickVars
  <1> QED
    BY <1>1, <1>4, <1>5, <1>6, <1>7 DEF A!Set, Name

LEMMA StopClears ==
  ASSUME TimerIInv, NEW t \in Timers, Stop(t)
  PROVE A!Clear(t)
  <1>1. timers \in [Timers -> 0 .. MaxStarts] /\ timers' = [timers EXCEPT ![t] = 0]
    BY DEF TimerIInv, TimerTypeOK, Stop
  <1>2. AlarmOf(t)' = None
    BY <1>1 DEF AlarmOf, Pending, Batch, Ids
  <1>3. \A u \in Timers \ {t} : AlarmOf(u)' = AlarmOf(u)
    <2> SUFFICES ASSUME NEW u \in Timers, u # t PROVE AlarmOf(u)' = AlarmOf(u)
      OBVIOUS
    <2>1. timers'[u] = timers[u]
      BY <1>1
    <2>2. timers[u] \in Ids => timers[u] # timers[t]
      BY DEF TimerIInv, EntriesAreOwned, Ids
    <2>3. timers[u] \in Ids => /\ entries'[timers[u]] = entries[timers[u]]
                               /\ dueEntries'[timers[u]] = dueEntries[timers[u]]
                               /\ timers[u] \in canceled' <=> timers[u] \in canceled
      BY <2>2, CancelOthers DEF Stop, tickVars
    <2> QED
      BY <2>1, <2>3, AlarmKept
  <1>4. UNCHANGED <<now, running>>
    BY DEF Stop, tickVars
  <1> QED
    BY <1>2, <1>3, <1>4 DEF A!Clear

LEMMA MoveHands ==
  ASSUME TimerIInv, NEW t \in Timers, NEW u \in Timers, Move(t, u)
  PROVE A!Hand(t, u)
  <1>1. /\ timers \in [Timers -> 0 .. MaxStarts] /\ t # u
        /\ \A v \in Timers : timers'[v] = IF v = t THEN 0 ELSE IF v = u THEN timers[t] ELSE timers[v]
    BY DEF TimerIInv, TimerTypeOK, Move
  <1>2. AlarmOf(t)' = None
    BY <1>1 DEF AlarmOf, Pending, Batch, Ids
  <1>3. ASSUME NEW v \in Timers, v # u
        PROVE timers[v] \in Ids => /\ entries'[timers[v]] = entries[timers[v]]
                                   /\ dueEntries'[timers[v]] = dueEntries[timers[v]]
                                   /\ timers[v] \in canceled' <=> timers[v] \in canceled
    <2>1. timers[v] \in Ids => timers[v] # timers[u]
      BY <1>3 DEF TimerIInv, EntriesAreOwned, Ids
    <2> QED
      BY <2>1, CancelOthers DEF Move, tickVars
  <1>4. AlarmOf(u)' = AlarmOf(t)
    BY <1>1, <1>3, AlarmKept
  <1>5. \A v \in Timers \ {t, u} : AlarmOf(v)' = AlarmOf(v)
    BY <1>1, <1>3, AlarmKept
  <1>6. UNCHANGED <<now, running>>
    BY DEF Move, tickVars
  <1> QED
    BY <1>1, <1>2, <1>4, <1>5, <1>6 DEF A!Hand

\* What a tick has taken out is due.
BatchIsDue == \A id \in Batch : dueEntries[id].due <= now

LEMMA DueInv == TimerIInv /\ BatchIsDue /\ [TimerNext]_timerVars => BatchIsDue'
  <1> SUFFICES ASSUME TimerIInv, BatchIsDue, [TimerNext]_timerVars PROVE BatchIsDue'
    OBVIOUS
  <1>1. dueEntries \in [Ids -> Entry \cup {None}]
    BY DEF TimerIInv, TimerTypeOK
  <1>2. ASSUME dueEntries' = dueEntries, now' = now PROVE BatchIsDue'
    BY <1>2 DEF BatchIsDue, Batch
  <1>3. ASSUME NEW id \in Ids, Done(id), now' = now PROVE BatchIsDue'
    BY <1>1, <1>3 DEF BatchIsDue, Batch, Done
  <1>4. CASE Calls
    BY <1>2, <1>4 DEF Calls, Start, Stop, Move, tickVars
  <1>5. CASE Tick
    <2>1. Batch' = Due /\ Due \subseteq Ids /\ now' = now
      BY <1>5, TickAlive DEF Tick, Pending
    <2>2. \A id \in Due : dueEntries'[id] = entries[id] /\ entries[id].due <= now
      BY <1>5, <2>1 DEF Tick, Due
    <2> QED
      BY <2>1, <2>2 DEF BatchIsDue
  <1>6. CASE Return
    <2>1. running \in Ids
      BY <1>6, ReturnAlive
    <2> QED
      BY <1>3, <1>6, <2>1 DEF Return
  <1>7. ASSUME NEW id \in Ids, Skip(id) PROVE BatchIsDue'
    BY <1>3, <1>7 DEF Skip
  <1>8. ASSUME NEW id \in Ids, Call(id) PROVE BatchIsDue'
    BY <1>2, <1>8 DEF Call
  <1>9. CASE ClockMoves
    <2>1. \A id \in Batch : dueEntries[id].due \in Nat
      BY <1>1, EntryFields DEF Batch
    <2>2. now \in Nat /\ now' = now + 1 /\ Batch' = Batch /\ dueEntries' = dueEntries
      BY <1>9 DEF TimerIInv, TimerTypeOK, ClockMoves, tickVars, Batch
    <2> QED
      BY <2>1, <2>2 DEF BatchIsDue
  <1>10. CASE UNCHANGED timerVars
    BY <1>2, <1>10 DEF timerVars, tickVars
  <1> QED
    BY <1>4, <1>5, <1>6, <1>7, <1>8, <1>9, <1>10 DEF TimerNext, TickStep

LEMMA TickIsSilent ==
  ASSUME TimerIInv, Tick
  PROVE UNCHANGED A!alarmVars
  <1>1. /\ Batch' = Due /\ Due \subseteq Pending /\ canceled = {} /\ Pending' = Pending \ Due
        /\ Batch = {}
    BY TickAlive DEF Tick
  <1>2. ASSUME NEW t \in Timers PROVE AlarmOf(t)' = AlarmOf(t)
    <2>1. timers' = timers /\ canceled' = canceled
      BY DEF Tick
    <2>2. CASE timers[t] \in Due
      <3>1. timers[t] \in Pending /\ timers[t] \notin Pending' /\ timers[t] \in Batch'
            /\ timers[t] \in Ids
        BY <1>1, <2>2 DEF Pending
      <3>2. dueEntries'[timers[t]] = entries[timers[t]]
        BY <2>2, <3>1 DEF Tick
      <3> QED
        BY <1>1, <2>1, <3>1, <3>2 DEF AlarmOf
    <2>3. CASE timers[t] \notin Due
      <3>1. /\ timers[t] \in Pending' <=> timers[t] \in Pending
            /\ timers[t] \notin Batch' /\ timers[t] \notin Batch
        BY <1>1, <2>3
      <3>2. timers[t] \in Pending => entries'[timers[t]] = entries[timers[t]]
        BY <2>3 DEF Tick, Pending
      <3> QED
        BY <2>1, <3>1, <3>2 DEF AlarmOf
    <2> QED
      BY <2>2, <2>3
  <1> QED
    BY <1>2 DEF A!alarmVars, Tick

LEMMA SkipIsSilent ==
  ASSUME TimerIInv, NEW id \in Ids, Skip(id)
  PROVE UNCHANGED A!alarmVars
  <1>1. dueEntries \in [Ids -> Entry \cup {None}] /\ id \in Batch /\ id \in canceled
    BY DEF TimerIInv, TimerTypeOK, Skip
  <1>2. Pending' = Pending /\ Batch' = Batch \ {id} /\ canceled' = canceled \ {id}
    BY <1>1 DEF Skip, Done, Pending, Batch
  <1>3. Batch' \ canceled' = Batch \ canceled
    BY <1>1, <1>2
  <1>4. ASSUME NEW t \in Timers PROVE AlarmOf(t)' = AlarmOf(t)
    <2>1. timers' = timers /\ entries' = entries
      BY DEF Skip
    <2>2. timers[t] \in Batch \ canceled => dueEntries'[timers[t]] = dueEntries[timers[t]]
      BY <1>1 DEF Skip, Done, Batch
    <2> QED
      BY <1>2, <1>3, <2>1, <2>2 DEF AlarmOf
  <1> QED
    BY <1>4 DEF A!alarmVars, Skip

LEMMA CallRings ==
  ASSUME TimerIInv, BatchIsDue, NEW id \in Ids, Call(id)
  PROVE \E t \in Timers : A!Ring(t)
  <1>1. id \in Batch \ canceled /\ id \in Alive
    BY DEF Call, Alive
  <1>2. PICK t \in Timers : timers[t] = id
    BY <1>1 DEF TimerIInv, EntriesAreOwned
  <1>3. AlarmOf(t) = Name(id, dueEntries[id]) /\ AlarmOf(t) # None /\ AlarmOf(t).id = id
    BY <1>1, <1>2, AlarmFields
  <1>4. AlarmOf(t).due <= now
    BY <1>1, <1>3 DEF BatchIsDue, Name
  <1>5. \A u \in Timers : AlarmOf(u)' = AlarmOf(u)
    BY DEF Call, AlarmOf, Pending, Batch
  <1>6. A!Ring(t)
    BY <1>3, <1>4, <1>5 DEF A!Ring, Call
  <1> QED
    BY <1>6

LEMMA ReturnRung ==
  ASSUME TimerIInv, Return
  PROVE A!Rung
  <1>1. /\ running \in Ids /\ running \in Batch /\ running \notin Pending
        /\ dueEntries[running] \in Entry
        /\ Batch' = Batch \ {running}
        /\ Pending' = IF dueEntries[running].repeating /\ running \notin canceled
                      THEN Pending \cup {running} ELSE Pending
    BY ReturnAlive
  <1>2. /\ dueEntries \in [Ids -> Entry \cup {None}] /\ entries \in [Ids -> Entry \cup {None}]
        /\ timers' = timers /\ now' = now /\ running # 0 /\ running' = 0
        /\ canceled' = canceled \ {running}
    BY DEF TimerIInv, TimerTypeOK, Return, Done
  <1> DEFINE e == [dueEntries[running] EXCEPT !.due = now + dueEntries[running].interval]
  <1>3. ASSUME NEW t \in Timers, timers[t] # running
        PROVE AlarmOf(t)' = AlarmOf(t)
    <2>1. timers[t] \in Ids => /\ entries'[timers[t]] = entries[timers[t]]
                               /\ dueEntries'[timers[t]] = dueEntries[timers[t]]
                               /\ timers[t] \in canceled' <=> timers[t] \in canceled
      BY <1>1, <1>2, <1>3 DEF Return, Done
    <2> QED
      BY <1>2, <2>1, AlarmKept
  <1>4. ASSUME NEW t \in Timers, timers[t] = running, running \in canceled
        PROVE AlarmOf(t)' = None /\ AlarmOf(t) = None
    BY <1>1, <1>2, <1>4 DEF AlarmOf
  <1>5. ASSUME NEW t \in Timers, timers[t] = running, running \notin canceled
        PROVE /\ AlarmOf(t) = Name(running, dueEntries[running]) /\ AlarmOf(t) # None
              /\ AlarmOf(t)' = IF dueEntries[running].repeating THEN Name(running, e) ELSE None
    <2>1. AlarmOf(t) = Name(running, dueEntries[running]) /\ AlarmOf(t) # None
      BY <1>1, <1>5, AlarmFields DEF Alive
    <2>2. dueEntries[running].repeating => entries'[running] = e
      BY <1>1, <1>2, <1>5 DEF Return
    <2>3. AlarmOf(t)' = IF dueEntries[running].repeating THEN Name(running, e) ELSE None
      BY <1>1, <1>2, <1>5, <2>2 DEF AlarmOf
    <2> QED
      BY <2>1, <2>3
  <1>6. Name(running, e) = [Name(running, dueEntries[running]) EXCEPT
                              !.due = now + Name(running, dueEntries[running]).interval]
    BY <1>1 DEF Name, Entry
  <1>7. ASSUME NEW t \in Timers
        PROVE AlarmOf(t)' = IF AlarmOf(t) = None \/ AlarmOf(t).id # running THEN AlarmOf(t)
                            ELSE IF AlarmOf(t).repeating
                                 THEN [AlarmOf(t) EXCEPT !.due = now + AlarmOf(t).interval]
                                 ELSE None
    <2>1. CASE timers[t] # running
      BY <1>3, <2>1, AlarmFields
    <2>2. CASE timers[t] = running /\ running \in canceled
      BY <1>4, <2>2
    <2>3. CASE timers[t] = running /\ running \notin canceled
      <3>1. /\ AlarmOf(t) = Name(running, dueEntries[running]) /\ AlarmOf(t) # None
            /\ AlarmOf(t)' = IF dueEntries[running].repeating THEN Name(running, e) ELSE None
        BY <1>5, <2>3
      <3>2. AlarmOf(t).id = running /\ AlarmOf(t).repeating = dueEntries[running].repeating
        BY <3>1 DEF Name
      <3> QED
        BY <1>6, <3>1, <3>2
    <2> QED
      BY <2>1, <2>2, <2>3
  <1> QED
    BY <1>2, <1>7 DEF A!Rung

\* The promise of timer_manager.h holds for any timers and delays: a callback
\* runs when it is due, never early, and never after its timer was stopped,
\* started anew, moved or destroyed, also by a callback of the same tick.
THEOREM TimersAreAlarms == TimerSpec => ImplementsAlarms
  <1>1. TimerInit => A!AlarmsInit
    BY AlarmOfNone DEF TimerInit, A!AlarmsInit
  <1>2. TimerIInv /\ BatchIsDue /\ [TimerNext]_timerVars => [A!AlarmsNext]_(A!alarmVars)
    <2> SUFFICES ASSUME TimerIInv, BatchIsDue, [TimerNext]_timerVars
                 PROVE [A!AlarmsNext]_(A!alarmVars)
      OBVIOUS
    <2>1. CASE Calls
      <3>1. ASSUME NEW t \in Timers, NEW delay \in Delays, NEW repeating \in BOOLEAN,
                   Start(t, delay, repeating)
            PROVE A!AlarmsNext
        BY <3>1, StartSets DEF A!AlarmsNext
      <3>2. ASSUME NEW t \in Timers, Stop(t) PROVE A!AlarmsNext
        BY <3>2, StopClears DEF A!AlarmsNext
      <3>3. ASSUME NEW t \in Timers, NEW u \in Timers, Move(t, u) PROVE A!AlarmsNext
        BY <3>3, MoveHands DEF A!AlarmsNext
      <3> QED
        BY <2>1, <3>1, <3>2, <3>3 DEF Calls
    <2>2. CASE Tick
      BY <2>2, TickIsSilent
    <2>3. CASE Return
      BY <2>3, ReturnRung DEF A!AlarmsNext
    <2>4. ASSUME NEW id \in Ids, Skip(id) PROVE UNCHANGED A!alarmVars
      BY <2>4, SkipIsSilent
    <2>5. ASSUME NEW id \in Ids, Call(id) PROVE A!AlarmsNext
      BY <2>5, CallRings DEF A!AlarmsNext
    <2>6. CASE ClockMoves
      <3>1. \A t \in Timers : AlarmOf(t)' = AlarmOf(t)
        BY <2>6 DEF ClockMoves, tickVars, AlarmOf, Pending, Batch
      <3>2. now' > now
        BY <2>6 DEF ClockMoves, TimerIInv, TimerTypeOK
      <3> QED
        BY <2>6, <3>1, <3>2 DEF ClockMoves, tickVars, A!TimePasses, A!AlarmsNext
    <2>7. CASE UNCHANGED timerVars
      <3>1. \A t \in Timers : AlarmOf(t)' = AlarmOf(t)
        BY <2>7 DEF timerVars, tickVars, AlarmOf, Pending, Batch
      <3> QED
        BY <2>7, <3>1 DEF timerVars, tickVars, A!alarmVars
    <2> QED
      BY <2>1, <2>2, <2>3, <2>4, <2>5, <2>6, <2>7 DEF TimerNext, TickStep
  <1>3. TimerInit => BatchIsDue
    BY DEF TimerInit, BatchIsDue, Batch
  <1>4. TimerSpec => []BatchIsDue
    BY <1>3, TimerAlways, DueInv, PTL DEF TimerSpec
  <1> QED
    BY <1>1, <1>2, <1>4, TimerAlways, PTL DEF TimerSpec, ImplementsAlarms, A!AlarmsSpec

-----------------------------------------------------------------------------
(* Queues without repetition, by what is in them. *)

LEMMA RangeFacts ==
  ASSUME NEW S, NEW q \in Seq(S)
  PROVE  /\ Range(q) \subseteq S /\ Len(q) \in Nat /\ DOMAIN q = 1 .. Len(q)
         /\ \A x : x \in Range(q) <=> \E i \in 1 .. Len(q) : q[i] = x
         /\ \A x : Contains(q, x) <=> x \in Range(q)
         /\ IsInjective(q) <=> \A i, j \in 1 .. Len(q) : q[i] = q[j] => i = j
BY DEF Range, Contains, IsInjective

LEMMA EmptyQueue == /\ \A S : <<>> \in Seq(S)
                    /\ Range(<<>>) = {} /\ IsInjective(<<>>)
BY DEF Range, IsInjective

LEMMA AppendRange ==
  ASSUME NEW S, NEW q \in Seq(S), IsInjective(q), NEW s \in S, s \notin Range(q)
  PROVE  /\ Append(q, s) \in Seq(S) /\ IsInjective(Append(q, s))
         /\ Range(Append(q, s)) = Range(q) \cup {s}
<1> DEFINE r == Append(q, s)
<1>1. /\ r \in Seq(S) /\ Len(r) = Len(q) + 1 /\ r[Len(q) + 1] = s
      /\ \A i \in 1 .. Len(q) : r[i] = q[i]
  BY AppendProperties
<1> HIDE DEF r
<1>2. Len(q) \in Nat /\ \A i \in 1 .. Len(r) : i \in 1 .. Len(q) \/ i = Len(q) + 1
  BY <1>1
<1>3. \A x : x \in Range(r) <=> \E i \in 1 .. Len(r) : r[i] = x  BY <1>1, RangeFacts
<1>4. \A x : x \in Range(q) <=> \E i \in 1 .. Len(q) : q[i] = x  BY RangeFacts
<1>5. \A i \in 1 .. Len(q) : i \in 1 .. Len(r)  BY <1>1, <1>2
<1>6. Len(q) + 1 \in 1 .. Len(r)  BY <1>1, <1>2
<1>7. Range(r) = Range(q) \cup {s}  BY <1>1, <1>2, <1>3, <1>4, <1>5, <1>6
<1>8. \A i, j \in 1 .. Len(q) : q[i] = q[j] => i = j  BY RangeFacts
<1>9. \A i \in 1 .. Len(q) : q[i] # s  BY <1>4
<1>10. \A i, j \in 1 .. Len(r) : r[i] = r[j] => i = j  BY <1>1, <1>2, <1>8, <1>9
<1>11. IsInjective(r)  BY <1>1, <1>10, RangeFacts
<1> QED  BY <1>1, <1>7, <1>11 DEF r

LEMMA TailRange ==
  ASSUME NEW S, NEW q \in Seq(S), IsInjective(q), q # <<>>
  PROVE  /\ Tail(q) \in Seq(S) /\ IsInjective(Tail(q)) /\ Head(q) \in Range(q)
         /\ Range(Tail(q)) = Range(q) \ {Head(q)}
<1> DEFINE r == Tail(q)
<1>1. /\ r \in Seq(S) /\ Len(r) = Len(q) - 1 /\ Len(q) \in Nat /\ Len(q) >= 1
      /\ \A i \in 1 .. Len(r) : r[i] = q[i + 1]
  BY HeadTailProperties
<1> HIDE DEF r
<1>2. Head(q) = q[1]  OBVIOUS
<1>3. \A x : x \in Range(r) <=> \E i \in 1 .. Len(r) : r[i] = x  BY <1>1, RangeFacts
<1>4. \A x : x \in Range(q) <=> \E i \in 1 .. Len(q) : q[i] = x  BY RangeFacts
<1>5. \A i, j \in 1 .. Len(q) : q[i] = q[j] => i = j  BY RangeFacts
<1>6. /\ 1 \in 1 .. Len(q) /\ \A i \in 1 .. Len(r) : i + 1 \in 1 .. Len(q) /\ i + 1 # 1
      /\ \A i \in 1 .. Len(q) : i # 1 => i - 1 \in 1 .. Len(r) /\ r[i - 1] = q[i]
  BY <1>1
<1>7. Range(r) = Range(q) \ {q[1]}  BY SMTT(30), <1>1, <1>3, <1>4, <1>5, <1>6
<1>8. \A i, j \in 1 .. Len(r) : r[i] = r[j] => i = j  BY <1>1, <1>5, <1>6
<1>9. IsInjective(r)  BY <1>1, <1>8, RangeFacts
<1>10. q[1] \in Range(q)  BY <1>4, <1>6
<1> QED  BY <1>1, <1>2, <1>7, <1>9, <1>10 DEF r

LEMMA WithoutRange ==
  ASSUME NEW S, NEW q \in Seq(S), IsInjective(q), NEW s
  PROVE  /\ Without(q, s) \in Seq(S) /\ IsInjective(Without(q, s))
         /\ Range(Without(q, s)) = Range(q) \ {s}
<1>1. CASE ~Contains(q, s)  BY <1>1, RangeFacts DEF Without
<1>2. CASE Contains(q, s)
  <2> DEFINE n == CHOOSE i \in DOMAIN q : q[i] = s
             m == Len(q)
             u == SubSeq(q, 1, n - 1)
             v == SubSeq(q, n + 1, m)
             r == u \o v
  <2>0. m \in Nat /\ DOMAIN q = 1 .. m  BY RangeFacts
  <2>1. n \in 1 .. m /\ q[n] = s
    <3>1. \E i \in DOMAIN q : q[i] = s  BY <1>2, RangeFacts
    <3> QED  BY <2>0, <3>1
  <2>2. Without(q, s) = r  BY <1>2 DEF Without, RemoveAt
  <2> HIDE DEF n, m
  <2>3. /\ u \in Seq(S) /\ Len(u) = n - 1 /\ \A i \in 1 .. n - 1 : u[i] = q[i]
    <3>1. \A i \in 1 .. n - 1 : q[i] \in S  BY <2>0, <2>1
    <3>2. /\ SubSeq(q, 1, n - 1) \in Seq(S)
          /\ Len(SubSeq(q, 1, n - 1)) = IF 1 <= n - 1 THEN n - 1 - 1 + 1 ELSE 0
          /\ \A i \in 1 .. n - 1 - 1 + 1 : SubSeq(q, 1, n - 1)[i] = q[1 + i - 1]
      BY <2>0, <2>1, <3>1, SubSeqProperties
    <3>3. (IF 1 <= n - 1 THEN n - 1 - 1 + 1 ELSE 0) = n - 1  BY <2>0, <2>1
    <3>4. \A i \in 1 .. n - 1 : i \in 1 .. n - 1 - 1 + 1 /\ 1 + i - 1 = i  BY <2>0, <2>1
    <3> QED  BY <3>2, <3>3, <3>4
  <2>4. /\ v \in Seq(S) /\ Len(v) = m - n /\ \A i \in 1 .. m - n : v[i] = q[n + i]
    <3>1. \A i \in n + 1 .. m : q[i] \in S  BY <2>0, <2>1
    <3>2. /\ SubSeq(q, n + 1, m) \in Seq(S)
          /\ Len(SubSeq(q, n + 1, m)) = IF n + 1 <= m THEN m - (n + 1) + 1 ELSE 0
          /\ \A i \in 1 .. m - (n + 1) + 1 : SubSeq(q, n + 1, m)[i] = q[(n + 1) + i - 1]
      BY <2>0, <2>1, <3>1, SubSeqProperties
    <3>3. (IF n + 1 <= m THEN m - (n + 1) + 1 ELSE 0) = m - n  BY <2>0, <2>1
    <3>4. \A i \in 1 .. m - n : i \in 1 .. m - (n + 1) + 1 /\ (n + 1) + i - 1 = n + i
      BY <2>0, <2>1
    <3> QED  BY <3>2, <3>3, <3>4
  <2> HIDE DEF u, v
  <2>5. /\ r \in Seq(S) /\ Len(r) = m - 1
        /\ \A i \in 1 .. m - 1 : r[i] = IF i < n THEN q[i] ELSE q[i + 1]
    <3>1. /\ r \in Seq(S) /\ Len(r) = Len(u) + Len(v)
          /\ \A i \in 1 .. Len(u) + Len(v) : r[i] = IF i <= Len(u) THEN u[i] ELSE v[i - Len(u)]
      BY <2>3, <2>4, ConcatProperties
    <3> HIDE DEF r
    <3>2. Len(u) + Len(v) = m - 1  BY <2>0, <2>1, <2>3, <2>4
    <3>3. \A i \in 1 .. m - 1 : r[i] = IF i < n THEN q[i] ELSE q[i + 1]
      <4> TAKE i \in 1 .. m - 1
      <4>1. CASE i < n  BY SMTT(30), <4>1, <2>0, <2>1, <2>3, <3>1, <3>2
      <4>2. CASE ~(i < n)
        <5>1. i - (n - 1) \in 1 .. m - n /\ ~(i <= Len(u)) /\ n + (i - (n - 1)) = i + 1
          BY <4>2, <2>0, <2>1, <2>3
        <5>2. r[i] = v[i - (n - 1)]  BY <5>1, <2>3, <3>1, <3>2
        <5> QED  BY <4>2, <5>1, <5>2, <2>4
      <4> QED  BY <4>1, <4>2
    <3> QED  BY <3>1, <3>2, <3>3
  <2> HIDE DEF r
  <2>6. \A i, j \in 1 .. m : q[i] = q[j] => i = j  BY <2>0, RangeFacts DEF m
  <2>7. \A x : x \in Range(q) <=> \E i \in 1 .. m : q[i] = x  BY RangeFacts DEF m
  <2>8. \A x : x \in Range(r) <=> \E i \in 1 .. m - 1 : r[i] = x  BY <2>5, RangeFacts
  <2>9. \A i \in 1 .. m - 1 : i + 1 \in 1 .. m /\ i \in 1 .. m /\ (i < n \/ n < i + 1)
    BY <2>0, <2>1
  <2>10. \A x \in Range(r) : x \in Range(q) /\ x # s
    <3> TAKE x \in Range(r)
    <3>1. PICK i \in 1 .. m - 1 : r[i] = x  BY <2>8
    <3>2. CASE i < n
      <4>1. x = q[i] /\ i \in 1 .. m /\ i # n  BY <2>1, <2>5, <2>9, <3>1, <3>2
      <4> QED  BY <4>1, <2>1, <2>6, <2>7
    <3>3. CASE ~(i < n)
      <4>1. x = q[i + 1] /\ i + 1 \in 1 .. m /\ i + 1 # n  BY <2>1, <2>5, <2>9, <3>1, <3>3
      <4> QED  BY <4>1, <2>1, <2>6, <2>7
    <3> QED  BY <3>2, <3>3
  <2>11. \A x \in Range(q) : x # s => x \in Range(r)
    <3> TAKE x \in Range(q)
    <3> HAVE x # s
    <3>1. PICK i \in 1 .. m : q[i] = x  BY <2>7
    <3>2. i # n  BY <2>1, <3>1
    <3>3. CASE i < n
      <4>1. i \in 1 .. m - 1 /\ r[i] = x  BY <2>0, <2>1, <2>5, <3>1, <3>3
      <4> QED  BY <4>1, <2>8
    <3>4. CASE n < i
      <4>1. i - 1 \in 1 .. m - 1 /\ ~(i - 1 < n) /\ (i - 1) + 1 = i  BY <2>0, <2>1, <3>4
      <4>2. r[i - 1] = x  BY <2>5, <3>1, <4>1
      <4> QED  BY <4>1, <4>2, <2>8
    <3> QED  BY <2>0, <2>1, <3>2, <3>3, <3>4
  <2>12. \A i, j \in 1 .. m - 1 : r[i] = r[j] => i = j
    <3> SUFFICES ASSUME NEW i \in 1 .. m - 1, NEW j \in 1 .. m - 1, r[i] = r[j] PROVE i = j
      OBVIOUS
    <3> DEFINE k == IF i < n THEN i ELSE i + 1
               l == IF j < n THEN j ELSE j + 1
    <3>1. k \in 1 .. m /\ l \in 1 .. m /\ q[k] = q[l]  BY <2>5, <2>9
    <3>2. k = l  BY <3>1, <2>6
    <3> QED  BY <3>2, <2>0, <2>1
  <2>13. IsInjective(r)  BY <2>5, <2>12, RangeFacts
  <2> QED  BY <2>2, <2>5, <2>10, <2>11, <2>13
<1> QED  BY <1>1, <1>2

-----------------------------------------------------------------------------
(* The frames of surfaces. *)

SurfaceState ==
  [state : {"gone", "running", "configured"}, prepare : BOOLEAN, redraw : BOOLEAN, dirty : BOOLEAN,
   animating : BOOLEAN, frame : BOOLEAN, work : BOOLEAN, tick : BOOLEAN, render : BOOLEAN]

QueueTypes ==
  /\ workQueue \in Seq(Surfaces) /\ renderQueue \in Seq(Surfaces) /\ batch \in Seq(Surfaces)
  /\ IsInjective(workQueue) /\ IsInjective(renderQueue) /\ IsInjective(batch)
  /\ surfaces \in [Surfaces -> SurfaceState]

\* A surface is queued exactly if its flag is set, and once.
Queued ==
  /\ drain \in {"none", "work", "render"} /\ (drain = "none" => batch = <<>>)
  /\ \A s \in Surfaces :
       /\ surfaces[s].work <=> s \in Range(workQueue) \/ (drain = "work" /\ s \in Range(batch))
       /\ ~(drain = "work" /\ s \in Range(workQueue) /\ s \in Range(batch))
       /\ surfaces[s].render <=> s \in Range(renderQueue) \/ (drain = "render" /\ s \in Range(batch))
       /\ ~(drain = "render" /\ s \in Range(renderQueue) /\ s \in Range(batch))

\* Where a drain is, between and in callbacks.
Position ==
  /\ current \in Surfaces \cup {NoSurface} /\ at \in {"", "tick", "prepare"}
  /\ at = "" <=> current = NoSurface
  /\ drain = "none" => at = ""
  /\ current # NoSurface => surfaces[current].state = "configured"

\* What the flags of a surface say of each other.
Sound(r) ==
  /\ r.tick => r.work
  /\ r.work \/ r.render \/ r.frame => r.state = "configured"
  /\ r.state = "gone" => r = Gone

\* What was asked of a configured surface has it queued or a frame under way.
Served(r) ==
  r.state = "configured" /\ (r.prepare \/ Wants(r)) => r.frame \/ r.work \/ r.render

\* All of it holds in the middle of a drain too, except that the surface in a
\* callback is taken care of when the callback returns.
States ==
  /\ \A s \in Surfaces : Sound(surfaces[s]) /\ (s # current => Served(surfaces[s]))
  /\ at = "prepare" => (surfaces[current].prepare => surfaces[current].dirty)

FrameIInv == QueueTypes /\ Queued /\ Position /\ States

LEMMA FrameInitInv == FrameInit => FrameIInv
<1> SUFFICES ASSUME FrameInit PROVE FrameIInv
  OBVIOUS
<1>1. /\ surfaces = [s \in Surfaces |-> Gone] /\ workQueue = <<>> /\ renderQueue = <<>>
      /\ drain = "none" /\ batch = <<>> /\ current = NoSurface /\ at = ""
  BY DEF FrameInit
<1>2. Gone \in SurfaceState  BY DEF Gone, SurfaceState
<1>3. QueueTypes  BY <1>1, <1>2, EmptyQueue DEF QueueTypes
<1>4. Queued  BY <1>1, EmptyQueue DEF Queued, Gone
<1>5. Position  BY <1>1 DEF Position
<1>6. States  BY <1>1 DEF States, Sound, Served, Gone
<1> QED  BY <1>3, <1>4, <1>5, <1>6 DEF FrameIInv

LEMMA BecomesFacts ==
  ASSUME QueueTypes, Queued, NEW s \in Surfaces, NEW r \in SurfaceState, Becomes(s, r)
  PROVE  /\ surfaces' \in [Surfaces -> SurfaceState] /\ surfaces'[s] = r
         /\ \A t \in Surfaces : t # s => surfaces'[t] = surfaces[t]
         /\ workQueue' \in Seq(Surfaces) /\ IsInjective(workQueue')
         /\ renderQueue' \in Seq(Surfaces) /\ IsInjective(renderQueue')
         /\ \A t : t \in Range(workQueue') <=>
                     t \in Range(workQueue) \/ (t = s /\ r.work /\ ~surfaces[s].work)
         /\ \A t : t \in Range(renderQueue') <=>
                     t \in Range(renderQueue) \/ (t = s /\ r.render /\ ~surfaces[s].render)
<1>1. /\ surfaces' = [surfaces EXCEPT ![s] = r]
      /\ workQueue' = IF r.work /\ ~surfaces[s].work THEN Append(workQueue, s) ELSE workQueue
      /\ renderQueue' = IF r.render /\ ~surfaces[s].render THEN Append(renderQueue, s) ELSE renderQueue
  BY DEF Becomes
<1>2. /\ workQueue \in Seq(Surfaces) /\ renderQueue \in Seq(Surfaces)
      /\ IsInjective(workQueue) /\ IsInjective(renderQueue)
      /\ surfaces \in [Surfaces -> SurfaceState]
  BY DEF QueueTypes
<1>3. /\ ~surfaces[s].work => s \notin Range(workQueue)
      /\ ~surfaces[s].render => s \notin Range(renderQueue)
  BY DEF Queued
<1>4. /\ workQueue' \in Seq(Surfaces) /\ IsInjective(workQueue')
      /\ \A t : t \in Range(workQueue') <=>
                  t \in Range(workQueue) \/ (t = s /\ r.work /\ ~surfaces[s].work)
  <2>1. CASE r.work /\ ~surfaces[s].work
    <3>1. s \notin Range(workQueue) /\ workQueue' = Append(workQueue, s)  BY <2>1, <1>1, <1>3
    <3>2. /\ workQueue' \in Seq(Surfaces) /\ IsInjective(workQueue')
          /\ Range(workQueue') = Range(workQueue) \cup {s}
      BY <3>1, <1>2, AppendRange
    <3> QED  BY <2>1, <3>2
  <2>2. CASE ~(r.work /\ ~surfaces[s].work)
    <3>1. workQueue' = workQueue  BY <2>2, <1>1
    <3> QED  BY <2>2, <3>1, <1>2
  <2> QED  BY <2>1, <2>2
<1>5. /\ renderQueue' \in Seq(Surfaces) /\ IsInjective(renderQueue')
      /\ \A t : t \in Range(renderQueue') <=>
                  t \in Range(renderQueue) \/ (t = s /\ r.render /\ ~surfaces[s].render)
  <2>1. CASE r.render /\ ~surfaces[s].render
    <3>1. s \notin Range(renderQueue) /\ renderQueue' = Append(renderQueue, s)  BY <2>1, <1>1, <1>3
    <3>2. /\ renderQueue' \in Seq(Surfaces) /\ IsInjective(renderQueue')
          /\ Range(renderQueue') = Range(renderQueue) \cup {s}
      BY <3>1, <1>2, AppendRange
    <3> QED  BY <2>1, <3>2
  <2>2. CASE ~(r.render /\ ~surfaces[s].render)
    <3>1. renderQueue' = renderQueue  BY <2>2, <1>1
    <3> QED  BY <2>2, <3>1, <1>2
  <2> QED  BY <2>1, <2>2
<1>6. /\ surfaces' \in [Surfaces -> SurfaceState] /\ surfaces'[s] = r
      /\ \A t \in Surfaces : t # s => surfaces'[t] = surfaces[t]
  BY <1>1, <1>2
<1> QED  BY <1>4, <1>5, <1>6

\* A surface changes and loses no place in a queue.
LEMMA QueuesKept ==
  ASSUME QueueTypes, Queued, NEW s \in Surfaces, NEW r \in SurfaceState, Becomes(s, r),
         drain' = drain, batch' = batch,
         surfaces[s].work => r.work, surfaces[s].render => r.render
  PROVE  QueueTypes' /\ Queued'
<1>1. /\ surfaces' \in [Surfaces -> SurfaceState] /\ surfaces'[s] = r
      /\ \A t \in Surfaces : t # s => surfaces'[t] = surfaces[t]
      /\ workQueue' \in Seq(Surfaces) /\ IsInjective(workQueue')
      /\ renderQueue' \in Seq(Surfaces) /\ IsInjective(renderQueue')
      /\ \A t : t \in Range(workQueue') <=>
                  t \in Range(workQueue) \/ (t = s /\ r.work /\ ~surfaces[s].work)
      /\ \A t : t \in Range(renderQueue') <=>
                  t \in Range(renderQueue) \/ (t = s /\ r.render /\ ~surfaces[s].render)
  BY BecomesFacts
<1>2. QueueTypes'  BY <1>1 DEF QueueTypes
<1>3. Queued'
  <2>1. ASSUME NEW t \in Surfaces
        PROVE  /\ surfaces'[t].work <=> t \in Range(workQueue') \/ (drain = "work" /\ t \in Range(batch))
               /\ ~(drain = "work" /\ t \in Range(workQueue') /\ t \in Range(batch))
    BY <1>1 DEF Queued
  <2>2. ASSUME NEW t \in Surfaces
        PROVE  /\ surfaces'[t].render <=> t \in Range(renderQueue') \/ (drain = "render" /\ t \in Range(batch))
               /\ ~(drain = "render" /\ t \in Range(renderQueue') /\ t \in Range(batch))
    BY <1>1 DEF Queued
  <2> QED  BY <2>1, <2>2 DEF Queued
<1> QED  BY <1>2, <1>3

\* The drain takes the next surface of its batch, whose flag it clears.
LEMMA QueuesTaken ==
  ASSUME QueueTypes, Queued, batch # <<>>, NEW s, s = Head(batch), NEW r \in SurfaceState, Becomes(s, r),
         drain' = drain, batch' = Tail(batch),
         drain = "work" => ~r.work /\ (surfaces[s].render => r.render),
         drain = "render" => ~r.render /\ (surfaces[s].work => r.work) /\ (r.work => surfaces[s].work)
  PROVE  QueueTypes' /\ Queued'
<1>0. batch \in Seq(Surfaces) /\ IsInjective(batch)  BY DEF QueueTypes
<1>1. /\ batch' \in Seq(Surfaces) /\ IsInjective(batch') /\ s \in Range(batch)
      /\ Range(batch') = Range(batch) \ {s}
  BY <1>0, TailRange
<1>2. s \in Surfaces  BY <1>0, <1>1, RangeFacts
<1>3. /\ surfaces' \in [Surfaces -> SurfaceState] /\ surfaces'[s] = r
      /\ \A t \in Surfaces : t # s => surfaces'[t] = surfaces[t]
      /\ workQueue' \in Seq(Surfaces) /\ IsInjective(workQueue')
      /\ renderQueue' \in Seq(Surfaces) /\ IsInjective(renderQueue')
      /\ \A t : t \in Range(workQueue') <=>
                  t \in Range(workQueue) \/ (t = s /\ r.work /\ ~surfaces[s].work)
      /\ \A t : t \in Range(renderQueue') <=>
                  t \in Range(renderQueue) \/ (t = s /\ r.render /\ ~surfaces[s].render)
  BY <1>2, BecomesFacts
<1>4. QueueTypes'  BY <1>1, <1>3 DEF QueueTypes
<1>5. drain \in {"work", "render"}  BY DEF Queued
<1>6. Queued'
  <2>1. ASSUME NEW t \in Surfaces
        PROVE  /\ surfaces'[t].work <=> t \in Range(workQueue') \/ (drain = "work" /\ t \in Range(batch'))
               /\ ~(drain = "work" /\ t \in Range(workQueue') /\ t \in Range(batch'))
    BY <1>1, <1>3, <1>5 DEF Queued
  <2>2. ASSUME NEW t \in Surfaces
        PROVE  /\ surfaces'[t].render <=> t \in Range(renderQueue') \/ (drain = "render" /\ t \in Range(batch'))
               /\ ~(drain = "render" /\ t \in Range(renderQueue') /\ t \in Range(batch'))
    BY <1>1, <1>3, <1>5 DEF Queued
  <2> QED  BY <1>5, <2>1, <2>2 DEF Queued
<1> QED  BY <1>4, <1>6

\* What a new state of one surface, and a move from one callback to the next,
\* have to keep to.
LEMMA RestKept ==
  ASSUME Position, States, surfaces \in [Surfaces -> SurfaceState],
         NEW s \in Surfaces, NEW r \in SurfaceState, surfaces' = [surfaces EXCEPT ![s] = r],
         Sound(r),
         \/ current' = current /\ at' = at
         \/ current \in {s, NoSurface} /\ current' = NoSurface /\ at' = ""
         \/ current \in {s, NoSurface} /\ current' = s /\ at' \in {"tick", "prepare"},
         drain' = "none" => at' = "",
         s = current' => r.state = "configured",
         s # current' => Served(r),
         s = current' /\ at' = "prepare" => (r.prepare => r.dirty)
  PROVE  Position' /\ States'
<1>1. surfaces'[s] = r /\ \A t \in Surfaces : t # s => surfaces'[t] = surfaces[t]
  OBVIOUS
<1>2. \A t \in Surfaces : t # NoSurface  BY SurfaceAssumption
<1>3. Position'  BY <1>1, <1>2 DEF Position
<1>4. ASSUME NEW t \in Surfaces
      PROVE  Sound(surfaces'[t]) /\ (t # current' => Served(surfaces'[t]))
  <2>1. CASE t = s  BY <1>1, <2>1
  <2>2. CASE t # s
    <3>1. surfaces'[t] = surfaces[t]  BY <1>1, <2>2
    <3>2. Sound(surfaces[t]) /\ (t # current => Served(surfaces[t]))  BY DEF States
    <3>3. t # current' => t # current  BY <1>2, <2>2
    <3> QED  BY <3>1, <3>2, <3>3
  <2> QED  BY <2>1, <2>2
<1>5. at' = "prepare" => (surfaces'[current'].prepare => surfaces'[current'].dirty)
  BY <1>1, <1>2 DEF States, Position
<1>6. States'
  <2>1. \A t \in Surfaces : Sound(surfaces[t])' /\ (t # current' => Served(surfaces[t])')
    BY <1>4 DEF Sound, Served, Wants
  <2> QED  BY <1>5, <2>1 DEF States
<1> QED  BY <1>3, <1>6

\* An event handler or a callback gives a surface a new state.
LEMMA CodeKept ==
  ASSUME FrameIInv, NEW s \in Surfaces, NEW r \in SurfaceState, Becomes(s, r), UNCHANGED drainVars,
         surfaces[s].work => r.work, surfaces[s].render => r.render, Sound(r),
         s = current => r.state = "configured",
         s # current => Served(r),
         s = current /\ at = "prepare" => (r.prepare => r.dirty)
  PROVE  FrameIInv'
<1>1. QueueTypes /\ Queued /\ Position /\ States  BY DEF FrameIInv
<1>2. drain' = drain /\ batch' = batch /\ current' = current /\ at' = at  BY DEF drainVars
<1>3. QueueTypes' /\ Queued'  BY <1>1, <1>2, QueuesKept
<1>4. drain' = "none" => at' = ""  BY <1>1, <1>2 DEF Position
<1>5. surfaces' = [surfaces EXCEPT ![s] = r]  BY DEF Becomes
<1>6. surfaces \in [Surfaces -> SurfaceState]  BY <1>1 DEF QueueTypes
<1>7. Position' /\ States'  BY <1>1, <1>2, <1>4, <1>5, <1>6, RestKept
<1> QED  BY <1>3, <1>7 DEF FrameIInv

LEMMA KickedFacts ==
  ASSUME NEW s, NEW r \in SurfaceState, Sound(r)
  PROVE  /\ Kicked(s, r) \in SurfaceState
         /\ Kicked(s, r).state = r.state /\ Kicked(s, r).prepare = r.prepare
         /\ Kicked(s, r).dirty = r.dirty
         /\ r.work => Kicked(s, r).work
         /\ r.render => Kicked(s, r).render
         /\ Sound(Kicked(s, r))
         /\ s # current => Served(Kicked(s, r))
<1> DEFINE k == Kicked(s, r)
<1>1. CASE r.state # "configured" \/ r.frame \/ InCallback(s) \/ r.work
  <2>1. k = r  BY <1>1 DEF Kicked
  <2>2. s # current => Served(r)  BY <1>1 DEF Served, InCallback
  <2> QED  BY <2>1, <2>2
<1>2. CASE ~(r.state # "configured" \/ r.frame \/ InCallback(s) \/ r.work) /\ r.prepare
  <2>1. k = [r EXCEPT !.work = TRUE]  BY <1>2 DEF Kicked
  <2>2. k \in SurfaceState  BY <2>1 DEF SurfaceState
  <2>3. Sound(k)  BY <2>1, <1>2 DEF Sound, SurfaceState
  <2>4. Served(k)  BY <2>1 DEF Served, SurfaceState
  <2> QED  BY <2>1, <2>2, <2>3, <2>4 DEF SurfaceState
<1>3. CASE ~(r.state # "configured" \/ r.frame \/ InCallback(s) \/ r.work) /\ ~r.prepare /\ Wants(r)
  <2>1. k = [r EXCEPT !.render = TRUE]  BY <1>3 DEF Kicked
  <2>2. k \in SurfaceState  BY <2>1 DEF SurfaceState
  <2>3. Sound(k)  BY <2>1, <1>3 DEF Sound, SurfaceState
  <2>4. Served(k)  BY <2>1 DEF Served, SurfaceState
  <2> QED  BY <2>1, <2>2, <2>3, <2>4 DEF SurfaceState
<1>4. CASE ~(r.state # "configured" \/ r.frame \/ InCallback(s) \/ r.work) /\ ~r.prepare /\ ~Wants(r)
  <2>1. k = r  BY <1>4 DEF Kicked
  <2>2. Served(r)  BY <1>4 DEF Served
  <2> QED  BY <2>1, <2>2
<1> QED  BY <1>1, <1>2, <1>3, <1>4

\* A surface is asked for something and its frame loop kicked.
LEMMA KickKept ==
  ASSUME FrameIInv, NEW s \in Surfaces, NEW r \in SurfaceState, Becomes(s, Kicked(s, r)),
         UNCHANGED drainVars, Lives(s), r.state = surfaces[s].state, r.frame = surfaces[s].frame,
         r.work = surfaces[s].work, r.render = surfaces[s].render, r.tick = surfaces[s].tick,
         s = current /\ at = "prepare" => (r.prepare => r.dirty)
  PROVE  FrameIInv'
<1>1. Sound(surfaces[s])  BY DEF FrameIInv, States
<1>2. Sound(r)  BY <1>1 DEF Sound, Lives
<1>3. s = current => r.state = "configured"
  BY SurfaceAssumption DEF FrameIInv, Position
<1> DEFINE k == Kicked(s, r)
<1>4. /\ k \in SurfaceState /\ k.state = r.state /\ k.prepare = r.prepare /\ k.dirty = r.dirty
      /\ (r.work => k.work) /\ (r.render => k.render) /\ Sound(k) /\ (s # current => Served(k))
  BY <1>2, KickedFacts
<1> HIDE DEF k
<1>5. Becomes(s, k)  BY DEF k
<1> QED  BY <1>3, <1>4, <1>5, CodeKept

LEMMA RequestsKept ==
  ASSUME FrameIInv, NEW s \in Surfaces,
         RequestPrepare(s) \/ RequestRedraw(s) \/ Change(s) \/ Animate(s)
  PROVE  FrameIInv'
<1>1. surfaces[s] \in SurfaceState  BY DEF FrameIInv, QueueTypes
<1>2. s = current /\ at = "prepare" => (surfaces[s].prepare => surfaces[s].dirty)
  BY DEF FrameIInv, States
<1>3. Lives(s) /\ UNCHANGED drainVars
  BY DEF RequestPrepare, RequestRedraw, Change, Animate
<1>4. CASE RequestPrepare(s)
  <2> DEFINE r == [surfaces[s] EXCEPT !.prepare = TRUE]
  <2>1. /\ r \in SurfaceState /\ r.state = surfaces[s].state /\ r.frame = surfaces[s].frame
        /\ r.work = surfaces[s].work /\ r.render = surfaces[s].render /\ r.tick = surfaces[s].tick
        /\ r.dirty = surfaces[s].dirty
    BY <1>1 DEF SurfaceState
  <2>2. Becomes(s, Kicked(s, r)) /\ ~(at = "prepare" /\ current = s /\ ~surfaces[s].dirty)
    BY <1>4 DEF RequestPrepare
  <2> HIDE DEF r
  <2> QED  BY <1>3, <2>1, <2>2, KickKept
<1>5. CASE RequestRedraw(s)
  <2> DEFINE r == [surfaces[s] EXCEPT !.redraw = TRUE]
  <2>1. /\ r \in SurfaceState /\ r.state = surfaces[s].state /\ r.frame = surfaces[s].frame
        /\ r.work = surfaces[s].work /\ r.render = surfaces[s].render /\ r.tick = surfaces[s].tick
        /\ r.dirty = surfaces[s].dirty /\ r.prepare = surfaces[s].prepare
    BY <1>1 DEF SurfaceState
  <2>2. Becomes(s, Kicked(s, r))  BY <1>5 DEF RequestRedraw
  <2> HIDE DEF r
  <2> QED  BY <1>2, <1>3, <2>1, <2>2, KickKept
<1>6. CASE Animate(s)
  <2> DEFINE r == [surfaces[s] EXCEPT !.animating = TRUE, !.redraw = TRUE]
  <2>1. /\ r \in SurfaceState /\ r.state = surfaces[s].state /\ r.frame = surfaces[s].frame
        /\ r.work = surfaces[s].work /\ r.render = surfaces[s].render /\ r.tick = surfaces[s].tick
        /\ r.dirty = surfaces[s].dirty /\ r.prepare = surfaces[s].prepare
    BY <1>1 DEF SurfaceState
  <2>2. Becomes(s, Kicked(s, r))  BY <1>6 DEF Animate
  <2> HIDE DEF r
  <2> QED  BY <1>2, <1>3, <2>1, <2>2, KickKept
<1>7. CASE Change(s)
  <2>1. CASE at = "prepare" /\ Becomes(s, [surfaces[s] EXCEPT !.dirty = TRUE])
    <3> DEFINE r == [surfaces[s] EXCEPT !.dirty = TRUE]
    <3>1. /\ r \in SurfaceState /\ r.state = surfaces[s].state /\ r.frame = surfaces[s].frame
          /\ r.work = surfaces[s].work /\ r.render = surfaces[s].render /\ r.tick = surfaces[s].tick
          /\ r.dirty
      BY <1>1 DEF SurfaceState
    <3>2. Becomes(s, r)  BY <2>1
    <3> HIDE DEF r
    <3>3. current = s  BY <1>7, <2>1 DEF Change
    <3>4. surfaces[s].state = "configured"
      BY <3>3, SurfaceAssumption DEF FrameIInv, Position
    <3>5. Sound(r)  BY <3>1, <3>4 DEF FrameIInv, States, Sound
    <3> QED  BY <1>3, <3>1, <3>2, <3>3, <3>4, <3>5, CodeKept
  <2>2. CASE at # "prepare" /\ Becomes(s, Kicked(s, [surfaces[s] EXCEPT !.dirty = TRUE, !.prepare = TRUE]))
    <3> DEFINE r == [surfaces[s] EXCEPT !.dirty = TRUE, !.prepare = TRUE]
    <3>1. /\ r \in SurfaceState /\ r.state = surfaces[s].state /\ r.frame = surfaces[s].frame
          /\ r.work = surfaces[s].work /\ r.render = surfaces[s].render /\ r.tick = surfaces[s].tick
          /\ r.dirty
      BY <1>1 DEF SurfaceState
    <3>2. Becomes(s, Kicked(s, r))  BY <2>2
    <3> HIDE DEF r
    <3> QED  BY <1>3, <3>1, <3>2, KickKept
  <2>3. CASE at # "prepare" /\ Becomes(s, Kicked(s, [surfaces[s] EXCEPT !.dirty = TRUE, !.redraw = TRUE]))
    <3> DEFINE r == [surfaces[s] EXCEPT !.dirty = TRUE, !.redraw = TRUE]
    <3>1. /\ r \in SurfaceState /\ r.state = surfaces[s].state /\ r.frame = surfaces[s].frame
          /\ r.work = surfaces[s].work /\ r.render = surfaces[s].render /\ r.tick = surfaces[s].tick
          /\ r.dirty
      BY <1>1 DEF SurfaceState
    <3>2. Becomes(s, Kicked(s, r))  BY <2>3
    <3> HIDE DEF r
    <3> QED  BY <1>3, <3>1, <3>2, KickKept
  <2> QED  BY <1>7, <2>1, <2>2, <2>3 DEF Change
<1> QED  BY <1>4, <1>5, <1>6, <1>7

\* The display and the owner of a surface act on it.
LEMMA OthersKept ==
  ASSUME FrameIInv, NEW s \in Surfaces,
         RequestFrameTick(s) \/ Create(s) \/ Configure(s) \/ FrameDone(s)
  PROVE  FrameIInv'
<1>1. surfaces[s] \in SurfaceState /\ Sound(surfaces[s])
  BY DEF FrameIInv, QueueTypes, States
<1>2. UNCHANGED drainVars
  BY DEF RequestFrameTick, Create, Configure, FrameDone
<1>3. drain = "none" => s # current
  BY SurfaceAssumption DEF FrameIInv, Position
<1>4. CASE RequestFrameTick(s)
  <2> DEFINE r == [surfaces[s] EXCEPT !.work = TRUE, !.tick = TRUE]
  <2>1. /\ r \in SurfaceState /\ r.state = surfaces[s].state /\ r.render = surfaces[s].render /\ r.work
    BY <1>1 DEF SurfaceState
  <2>2. Becomes(s, r) /\ surfaces[s].state = "configured" /\ s # current
    BY <1>4 DEF RequestFrameTick, InCallback
  <2> HIDE DEF r
  <2>3. Sound(r) /\ Served(r)  BY <2>1, <2>2 DEF Sound, Served
  <2> QED  BY <1>2, <2>1, <2>2, <2>3, CodeKept
<1>5. CASE Create(s)
  <2> DEFINE r == [Gone EXCEPT !.state = "running"]
  <2>1. r \in SurfaceState  BY DEF SurfaceState, Gone
  <2>2. Becomes(s, r) /\ drain = "none" /\ surfaces[s] = Gone
    BY <1>1, <1>5 DEF Create, Lives, Sound
  <2>3. Sound(r) /\ Served(r) /\ ~Gone.work /\ ~Gone.render  BY DEF Sound, Served, Gone
  <2> HIDE DEF r
  <2> QED  BY <1>2, <1>3, <2>1, <2>2, <2>3, CodeKept
<1>6. CASE Configure(s)
  <2>1. PICK prepare \in {surfaces[s].prepare, TRUE} :
          Becomes(s, [surfaces[s] EXCEPT !.state = "configured", !.prepare = prepare,
                                         !.redraw = TRUE, !.work = TRUE])
    BY <1>6 DEF Configure
  <2> DEFINE r == [surfaces[s] EXCEPT !.state = "configured", !.prepare = prepare,
                                      !.redraw = TRUE, !.work = TRUE]
  <2>2. /\ r \in SurfaceState /\ r.state = "configured" /\ r.render = surfaces[s].render /\ r.work
    BY <1>1 DEF SurfaceState
  <2>3. Becomes(s, r) /\ drain = "none"  BY <1>6, <2>1 DEF Configure
  <2> HIDE DEF r
  <2>4. Sound(r) /\ Served(r)  BY <2>2 DEF Sound, Served
  <2> QED  BY <1>2, <1>3, <2>2, <2>3, <2>4, CodeKept
<1>7. CASE FrameDone(s)
  <2> DEFINE r == [surfaces[s] EXCEPT !.frame = FALSE, !.work = TRUE, !.tick = TRUE]
  <2>1. /\ r \in SurfaceState /\ r.state = surfaces[s].state /\ r.render = surfaces[s].render /\ r.work
    BY <1>1 DEF SurfaceState
  <2>2. Becomes(s, r) /\ surfaces[s].frame /\ drain = "none"  BY <1>7 DEF FrameDone
  <2>3. surfaces[s].state = "configured"  BY <1>1, <2>2 DEF Sound
  <2> HIDE DEF r
  <2>4. Sound(r) /\ Served(r)  BY <2>1, <2>3 DEF Sound, Served
  <2> QED  BY <1>2, <1>3, <2>1, <2>2, <2>4, CodeKept
<1> QED  BY <1>4, <1>5, <1>6, <1>7

LEMMA DestroyKept ==
  ASSUME FrameIInv, NEW s \in Surfaces, Destroy(s)
  PROVE  FrameIInv'
<1>1. QueueTypes /\ Queued /\ Position /\ States  BY DEF FrameIInv
<1>2. /\ drain = "none" /\ surfaces' = [surfaces EXCEPT ![s] = Gone]
      /\ workQueue' = Without(workQueue, s) /\ renderQueue' = Without(renderQueue, s)
      /\ drain' = drain /\ batch' = batch /\ current' = current /\ at' = at
  BY DEF Destroy, drainVars
<1>3. /\ workQueue' \in Seq(Surfaces) /\ IsInjective(workQueue')
      /\ Range(workQueue') = Range(workQueue) \ {s}
  BY <1>1, <1>2, WithoutRange DEF QueueTypes
<1>4. /\ renderQueue' \in Seq(Surfaces) /\ IsInjective(renderQueue')
      /\ Range(renderQueue') = Range(renderQueue) \ {s}
  BY <1>1, <1>2, WithoutRange DEF QueueTypes
<1>5. Gone \in SurfaceState /\ Sound(Gone) /\ Served(Gone) /\ ~Gone.work /\ ~Gone.render
  BY DEF Gone, SurfaceState, Sound, Served
<1>6. surfaces \in [Surfaces -> SurfaceState]  BY <1>1 DEF QueueTypes
<1>7. QueueTypes'  BY <1>1, <1>2, <1>3, <1>4, <1>5, <1>6 DEF QueueTypes
<1>8. Queued'
  <2>1. surfaces'[s] = Gone /\ \A t \in Surfaces : t # s => surfaces'[t] = surfaces[t]
    BY <1>2, <1>6
  <2> QED  BY <1>1, <1>2, <1>3, <1>4, <1>5, <2>1 DEF Queued
<1>9. at' = "" /\ current' = NoSurface  BY <1>1, <1>2 DEF Position
<1>10. Position' /\ States'
  BY <1>1, <1>2, <1>5, <1>6, <1>9, SurfaceAssumption, RestKept
<1> QED  BY <1>7, <1>8, <1>10 DEF FrameIInv

LEMMA BeginsKept ==
  ASSUME FrameIInv, Begin \/ BeginRenders \/ End
  PROVE  FrameIInv'
<1>1. QueueTypes /\ Queued /\ Position /\ States  BY DEF FrameIInv
<1>2. surfaces' = surfaces /\ current' = current /\ at' = at
  BY DEF Begin, BeginRenders, End
<1>3. States'  BY <1>1, <1>2 DEF States, Sound, Served, Wants
<1>4. CASE Begin
  <2>1. /\ drain = "none" /\ drain' = "work" /\ batch' = workQueue /\ workQueue' = <<>>
        /\ renderQueue' = renderQueue /\ batch = <<>>
    BY <1>1, <1>4 DEF Begin, Queued
  <2>2. QueueTypes'  BY <1>1, <1>2, <2>1, EmptyQueue DEF QueueTypes
  <2>3. Queued'  BY <1>1, <1>2, <2>1, EmptyQueue DEF Queued
  <2>4. Position'  BY <1>1, <1>2, <2>1 DEF Position
  <2> QED  BY <1>3, <2>2, <2>3, <2>4 DEF FrameIInv
<1>5. CASE BeginRenders
  <2>1. /\ drain = "work" /\ drain' = "render" /\ batch' = renderQueue /\ renderQueue' = <<>>
        /\ workQueue' = workQueue /\ batch = <<>>
    BY <1>5 DEF BeginRenders
  <2>2. QueueTypes'  BY <1>1, <1>2, <2>1, EmptyQueue DEF QueueTypes
  <2>3. Queued'  BY <1>1, <1>2, <2>1, EmptyQueue DEF Queued
  <2>4. Position'  BY <1>1, <1>2, <2>1 DEF Position
  <2> QED  BY <1>3, <2>2, <2>3, <2>4 DEF FrameIInv
<1>6. CASE End
  <2>1. /\ drain = "render" /\ drain' = "none" /\ batch' = batch /\ renderQueue' = renderQueue
        /\ workQueue' = workQueue /\ batch = <<>> /\ current = NoSurface
    BY <1>6 DEF End, queueVars
  <2>2. QueueTypes'  BY <1>1, <1>2, <2>1 DEF QueueTypes
  <2>3. Queued'  BY <1>1, <1>2, <2>1, EmptyQueue DEF Queued
  <2>4. Position'  BY <1>1, <1>2, <2>1 DEF Position
  <2> QED  BY <1>3, <2>2, <2>3, <2>4 DEF FrameIInv
<1> QED  BY <1>4, <1>5, <1>6

\* The drain is done with a surface that has nothing left to prepare.
LEMMA FinishStep ==
  ASSUME Position, States, surfaces \in [Surfaces -> SurfaceState], NEW s \in Surfaces,
         NEW r \in SurfaceState, Sound(r), r.state = "configured", r.prepare => Wants(r),
         drain \in {"work", "render"}, current \in {s, NoSurface}, drain' = drain, Finish(s, r)
  PROVE  \E q \in SurfaceState :
           /\ Becomes(s, q) /\ q.work = r.work /\ (r.render => q.render)
           /\ drain = "render" => q.render = r.render
           /\ Position' /\ States'
<1> DEFINE q == Finished(s, r)
<1>1. /\ q \in SurfaceState /\ q.work = r.work /\ (r.render => q.render)
      /\ drain = "render" => q.render = r.render
      /\ q.state = r.state /\ q.tick = r.tick
      /\ Served(q)
  <2>1. CASE ~Wants(r)
    <3>1. q = r  BY <2>1 DEF Finished
    <3> QED  BY <2>1, <3>1 DEF Served
  <2>2. CASE Wants(r) /\ drain = "work"
    <3>1. q = [r EXCEPT !.render = TRUE]  BY <2>2 DEF Finished
    <3>2. q \in SurfaceState  BY <3>1 DEF SurfaceState
    <3> QED  BY <2>2, <3>1, <3>2 DEF Served, SurfaceState
  <2>3. CASE Wants(r) /\ drain = "render"
    <3>1. q = [r EXCEPT !.frame = TRUE, !.redraw = FALSE, !.dirty = FALSE]
      BY <2>3 DEF Finished
    <3>2. q \in SurfaceState  BY <3>1 DEF SurfaceState
    <3> QED  BY <2>3, <3>1, <3>2 DEF Served, SurfaceState
  <2> QED  BY <2>1, <2>2, <2>3
<1>2. Becomes(s, q) /\ current' = NoSurface /\ at' = ""  BY DEF Finish
<1> HIDE DEF q
<1>3. surfaces' = [surfaces EXCEPT ![s] = q]  BY <1>2 DEF Becomes
<1>4. Sound(q)  BY <1>1 DEF Sound
<1>5. s # NoSurface  BY SurfaceAssumption
<1>6. Position' /\ States'  BY <1>1, <1>2, <1>3, <1>4, <1>5, RestKept
<1> QED  BY <1>1, <1>2, <1>6

LEMMA PrepareStep ==
  ASSUME Position, States, surfaces \in [Surfaces -> SurfaceState], NEW s \in Surfaces,
         NEW r \in SurfaceState, Sound(r), r.state = "configured",
         drain \in {"work", "render"}, current \in {s, NoSurface}, drain' = drain, Prepare(s, r)
  PROVE  \E q \in SurfaceState :
           /\ Becomes(s, q) /\ q.work = r.work /\ (r.render => q.render)
           /\ drain = "render" => q.render = r.render
           /\ Position' /\ States'
<1>1. CASE ~r.prepare /\ Finish(s, r)  BY <1>1, FinishStep
<1>2. CASE /\ r.prepare /\ Becomes(s, [r EXCEPT !.prepare = FALSE])
           /\ current' = s /\ at' = "prepare"
  <2> DEFINE q == [r EXCEPT !.prepare = FALSE]
  <2>1. /\ q \in SurfaceState /\ q.work = r.work /\ q.render = r.render /\ q.state = r.state
        /\ q.tick = r.tick /\ q.frame = r.frame /\ ~q.prepare
    BY DEF SurfaceState
  <2>2. Becomes(s, q)  BY <1>2
  <2> HIDE DEF q
  <2>3. surfaces' = [surfaces EXCEPT ![s] = q]  BY <2>2 DEF Becomes
  <2>4. Sound(q)  BY <2>1 DEF Sound
  <2>5. Position' /\ States'  BY <1>2, <2>1, <2>3, <2>4, RestKept
  <2> QED  BY <2>1, <2>2, <2>5
<1> QED  BY <1>1, <1>2 DEF Prepare

LEMMA WorkKept ==
  ASSUME FrameIInv, Work
  PROVE  FrameIInv'
<1> DEFINE s == Head(batch)
           r == surfaces[s]
<1>1. QueueTypes /\ Queued /\ Position /\ States  BY DEF FrameIInv
<1>2. /\ drain = "work" /\ drain' = drain /\ current = NoSurface /\ batch # <<>> /\ batch' = Tail(batch)
  BY DEF Work
<1>3. s \in Range(batch)  BY <1>1, <1>2, TailRange DEF QueueTypes
<1>4. s \in Surfaces  BY <1>1, <1>3, RangeFacts DEF QueueTypes
<1>5. r \in SurfaceState /\ r.work /\ Sound(r)  BY <1>1, <1>2, <1>3, <1>4 DEF QueueTypes, Queued, States
<1>6. surfaces \in [Surfaces -> SurfaceState]  BY <1>1 DEF QueueTypes
<1>7. at' = "" \/ drain' # "none"  BY <1>2
<1>8. CASE /\ r.state = "configured" /\ r.tick
           /\ Becomes(s, [r EXCEPT !.work = FALSE, !.tick = FALSE])
           /\ current' = s /\ at' = "tick"
  <2> DEFINE q == [r EXCEPT !.work = FALSE, !.tick = FALSE]
  <2>1. /\ q \in SurfaceState /\ q.state = "configured" /\ ~q.work /\ ~q.tick /\ q.render = r.render
    BY <1>5, <1>8 DEF SurfaceState
  <2>2. Becomes(s, q)  BY <1>8
  <2> HIDE DEF q
  <2>3. surfaces' = [surfaces EXCEPT ![s] = q]  BY <2>2 DEF Becomes
  <2>4. Sound(q)  BY <2>1 DEF Sound
  <2>5. QueueTypes' /\ Queued'  BY <1>1, <1>2, <2>1, <2>2, QueuesTaken
  <2>6. Position' /\ States'
    BY <1>1, <1>2, <1>4, <1>6, <1>8, <2>1, <2>3, <2>4, RestKept
  <2> QED  BY <2>5, <2>6 DEF FrameIInv
<1>9. CASE r.state = "configured" /\ ~r.tick /\ Prepare(s, [r EXCEPT !.work = FALSE])
  <2> DEFINE p == [r EXCEPT !.work = FALSE]
  <2>1. /\ p \in SurfaceState /\ p.state = "configured" /\ ~p.work /\ ~p.tick /\ p.render = r.render
    BY <1>5, <1>9 DEF SurfaceState
  <2>2. Prepare(s, p)  BY <1>9
  <2> HIDE DEF p
  <2>3. Sound(p)  BY <2>1 DEF Sound
  <2>4. PICK q \in SurfaceState :
          /\ Becomes(s, q) /\ q.work = p.work /\ (p.render => q.render)
          /\ Position' /\ States'
    BY <1>1, <1>2, <1>4, <1>6, <2>1, <2>2, <2>3, PrepareStep
  <2>5. QueueTypes' /\ Queued'  BY <1>1, <1>2, <2>1, <2>4, QueuesTaken
  <2> QED  BY <2>4, <2>5 DEF FrameIInv
<1> QED  BY <1>5, <1>8, <1>9 DEF Work

LEMMA RenderKept ==
  ASSUME FrameIInv, Render
  PROVE  FrameIInv'
<1> DEFINE s == Head(batch)
           r == surfaces[s]
           p == [r EXCEPT !.render = FALSE]
<1>1. QueueTypes /\ Queued /\ Position /\ States  BY DEF FrameIInv
<1>2. /\ drain = "render" /\ drain' = drain /\ current = NoSurface /\ batch # <<>> /\ batch' = Tail(batch)
  BY DEF Render
<1>3. s \in Range(batch)  BY <1>1, <1>2, TailRange DEF QueueTypes
<1>4. s \in Surfaces  BY <1>1, <1>3, RangeFacts DEF QueueTypes
<1>5. r \in SurfaceState /\ r.render /\ Sound(r)  BY <1>1, <1>2, <1>3, <1>4 DEF QueueTypes, Queued, States
<1>6. surfaces \in [Surfaces -> SurfaceState]  BY <1>1 DEF QueueTypes
<1>7. /\ p \in SurfaceState /\ p.state = r.state /\ p.work = r.work /\ p.tick = r.tick /\ ~p.render
      /\ p.frame = r.frame
  BY <1>5 DEF SurfaceState
<1>8. Prepare(s, p)  BY <1>5 DEF Render
<1> HIDE DEF p
<1>9. p.state = "configured" /\ Sound(p)  BY <1>5, <1>7 DEF Sound
<1>10. PICK q \in SurfaceState :
         /\ Becomes(s, q) /\ q.work = p.work /\ q.render = p.render
         /\ Position' /\ States'
  BY <1>1, <1>2, <1>4, <1>6, <1>7, <1>8, <1>9, PrepareStep
<1>11. QueueTypes' /\ Queued'  BY <1>1, <1>2, <1>7, <1>10, QueuesTaken
<1> QED  BY <1>10, <1>11 DEF FrameIInv

LEMMA CallbackKept ==
  ASSUME FrameIInv, Ticked \/ Prepared
  PROVE  FrameIInv'
<1> DEFINE s == current
           r == surfaces[s]
<1>1. QueueTypes /\ Queued /\ Position /\ States  BY DEF FrameIInv
<1>2. drain' = drain /\ batch' = batch /\ at # ""  BY DEF Ticked, Prepared
<1>3. s \in Surfaces /\ r.state = "configured" /\ drain \in {"work", "render"}
  BY <1>1, <1>2 DEF Position, Queued
<1>4. r \in SurfaceState /\ Sound(r) /\ surfaces \in [Surfaces -> SurfaceState]
  BY <1>1, <1>3 DEF QueueTypes, States
<1>5. \E q \in SurfaceState :
        /\ Becomes(s, q) /\ q.work = r.work /\ (r.render => q.render)
        /\ Position' /\ States'
  <2>1. CASE Prepared
    <3>1. Finish(s, r) /\ at = "prepare"  BY <2>1 DEF Prepared
    <3>2. r.prepare => Wants(r)  BY <1>1, <3>1 DEF States, Wants
    <3> QED  BY <1>1, <1>2, <1>3, <1>4, <3>1, <3>2, FinishStep
  <2>2. CASE Ticked
    <3>1. PICK animating \in {r.animating, FALSE} :
            Prepare(s, [r EXCEPT !.animating = animating, !.dirty = r.dirty \/ r.animating])
      BY <2>2 DEF Ticked
    <3> DEFINE p == [r EXCEPT !.animating = animating, !.dirty = r.dirty \/ r.animating]
    <3>2. /\ p \in SurfaceState /\ p.state = r.state /\ p.work = r.work /\ p.tick = r.tick
          /\ p.render = r.render /\ p.frame = r.frame
      BY <1>4 DEF SurfaceState
    <3>3. Prepare(s, p)  BY <3>1
    <3> HIDE DEF p
    <3>4. Sound(p) /\ p.state = "configured"  BY <1>3, <1>4, <3>2 DEF Sound
    <3>5. PICK q \in SurfaceState :
            /\ Becomes(s, q) /\ q.work = p.work /\ (p.render => q.render)
            /\ Position' /\ States'
      BY <1>1, <1>2, <1>3, <1>4, <3>2, <3>3, <3>4, PrepareStep
    <3> QED  BY <3>2, <3>5
  <2> QED  BY <2>1, <2>2
<1>6. PICK q \in SurfaceState :
        /\ Becomes(s, q) /\ q.work = r.work /\ (r.render => q.render)
        /\ Position' /\ States'
  BY <1>5
<1>7. QueueTypes' /\ Queued'  BY <1>1, <1>2, <1>3, <1>6, QueuesKept
<1> QED  BY <1>6, <1>7 DEF FrameIInv

LEMMA FrameNextInv == FrameIInv /\ [FrameNext]_frameVars => FrameIInv'
<1> SUFFICES ASSUME FrameIInv, [FrameNext]_frameVars PROVE FrameIInv'
  OBVIOUS
<1>1. CASE DrainStep
  BY <1>1, BeginsKept, WorkKept, RenderKept, CallbackKept DEF DrainStep
<1>2. ASSUME NEW s \in Surfaces, SurfaceCode(s) PROVE FrameIInv'
  BY <1>2, RequestsKept, OthersKept, DestroyKept DEF SurfaceCode
<1>3. CASE UNCHANGED frameVars
  BY <1>3 DEF frameVars, queueVars, drainVars, FrameIInv, QueueTypes, Queued, Position, States,
              Sound, Served, Wants
<1> QED  BY <1>1, <1>2, <1>3 DEF FrameNext

LEMMA FrameInvImplies == FrameIInv => FrameInv /\ NothingIsForgotten
<1> SUFFICES ASSUME FrameIInv PROVE FrameInv /\ NothingIsForgotten
  OBVIOUS
<1>1. QueueTypes /\ Queued /\ Position /\ States  BY DEF FrameIInv
<1>2. \A s \in Surfaces : surfaces[s] \in SurfaceState /\ Sound(surfaces[s])
  BY <1>1 DEF QueueTypes, States
<1>3. /\ \A x : Contains(workQueue, x) <=> x \in Range(workQueue)
      /\ \A x : Contains(renderQueue, x) <=> x \in Range(renderQueue)
      /\ \A x : Contains(batch, x) <=> x \in Range(batch)
      /\ Range(workQueue) \cup Range(renderQueue) \cup Range(batch) \subseteq Surfaces
  BY <1>1, RangeFacts DEF QueueTypes
<1>4. FrameTypeOK
  <2>1. \A s \in Surfaces :
          /\ surfaces[s].state \in {"gone", "running", "configured"}
          /\ Lives(s) \/ surfaces[s] = Gone
    BY <1>2 DEF SurfaceState, Sound, Lives
  <2>2. IsInjective(workQueue) /\ IsInjective(renderQueue) /\ IsInjective(batch)
    BY <1>1 DEF QueueTypes
  <2>3. (at = "") = (current = NoSurface) /\ (drain = "none" => batch = <<>> /\ at = "")
    BY <1>1 DEF Position, Queued
  <2> QED  BY <2>1, <2>2, <2>3 DEF FrameTypeOK
<1>5. QueuesMatchFlags  BY <1>1, <1>2, <1>3 DEF QueuesMatchFlags, Queued, Sound
<1>6. QueuedAreAlive
  <2>1. ASSUME NEW s \in Range(workQueue) \cup Range(renderQueue) \cup Range(batch)
        PROVE  s \in Surfaces /\ (surfaces[s].work \/ surfaces[s].render)
    BY <1>1, <1>3, EmptyQueue DEF Queued
  <2> QED  BY <1>2, <2>1 DEF QueuedAreAlive, Sound, Lives
<1>7. NothingIsForgotten
  <2> SUFFICES ASSUME drain = "none", NEW s \in Surfaces PROVE Served(surfaces[s])
    BY DEF NothingIsForgotten, Served
  <2>1. s # current  BY <1>1, SurfaceAssumption DEF Position
  <2> QED  BY <1>1, <2>1 DEF States
<1> QED  BY <1>4, <1>5, <1>6, <1>7 DEF FrameInv

\* Surface: the flags of a surface and the queues of pointers agree at every
\* moment of every drain, no queue keeps a pointer to a surface that is gone,
\* for any number of surfaces and whatever handlers and callbacks do.
THEOREM QueuesAreSound == FrameSpec => []FrameInv
<1>1. FrameIInv /\ [FrameNext]_frameVars => FrameIInv'  BY FrameNextInv
<1>2. FrameIInv => FrameInv  BY FrameInvImplies
<1> QED  BY <1>1, <1>2, FrameInitInv, PTL DEF FrameSpec

\* Surface: outside a drain, a configured surface that was asked to prepare, to
\* redraw or to animate is queued or waits for a frame callback.
THEOREM NothingForgotten == FrameSpec => []NothingIsForgotten
<1>1. FrameIInv /\ [FrameNext]_frameVars => FrameIInv'  BY FrameNextInv
<1>2. FrameIInv => NothingIsForgotten  BY FrameInvImplies
<1> QED  BY <1>1, <1>2, FrameInitInv, PTL DEF FrameSpec

-----------------------------------------------------------------------------
(* The loop. *)

\* Where the loop can be while what is under way is under way.
Places ==
  /\ phase \in Phases
  /\ phase = "optional" => optional
  /\ call # 0 \/ calls # <<>> => phase = "calls"
  /\ Batch # {} => phase = "timers"
  /\ drain # "none" => phase = "draining"

\* The calls asked for are numbered: those made, those moved away, those queued.
Numbers ==
  /\ calls \in Seq(Nat) /\ queue \in Seq(Nat) /\ lastCall \in Nat /\ call \in {0, lastCall}
  /\ \A i \in 1 .. Len(calls) : calls[i] = lastCall + i
  /\ \A i \in 1 .. Len(queue) : queue[i] = lastCall + Len(calls) + i
  /\ made = lastCall + Len(calls) + Len(queue) /\ made <= MaxCalls
  /\ recent \subseteq 1 .. made /\ \A n \in recent : n > lastCall + Len(calls)

Sleeps == wake \in Nat /\ SleepIsShort

LoopIInv == TimerIInv /\ FrameIInv /\ Places /\ Numbers /\ Sleeps

LEMMA LoopInitInv == Init => LoopIInv
<1> SUFFICES ASSUME Init PROVE LoopIInv
  OBVIOUS
<1>1. /\ phase = "calls" /\ queue = <<>> /\ calls = <<>> /\ call = 0 /\ lastCall = 0 /\ made = 0
      /\ recent = {} /\ wake = 0 /\ TimerInit /\ FrameInit
  BY DEF Init
<1>2. TimerIInv /\ FrameIInv  BY <1>1, TimerInitInv, FrameInitInv
<1>3. Batch = {}  BY <1>1 DEF TimerInit, Batch
<1>4. Places  BY <1>1, <1>3 DEF Places, Phases, FrameInit
<1>5. MaxCalls \in Nat  BY LoopAssumption
<1>6. Numbers
  <2>1. <<>> \in Seq(Nat) /\ Len(<<>>) = 0  OBVIOUS
  <2> QED  BY <1>1, <1>5, <2>1 DEF Numbers
<1>7. Sleeps  BY <1>1 DEF Sleeps, SleepIsShort
<1> QED  BY <1>2, <1>4, <1>6, <1>7 DEF LoopIInv

LEMMA TimersKept ==
  ASSUME LoopIInv, [Next]_vars
  PROVE  TimerIInv'
<1> SUFFICES ASSUME ~(UNCHANGED timerVars) PROVE TimerNext
  BY TimerNextInv DEF LoopIInv
<1>1. CASE Code
  <2>1. UseTimer
    BY <1>1 DEF Code, CallLater, UseSurface, ToggleOptional
  <2> QED  BY <2>1 DEF UseTimer, TimerNext, Calls
<1>2. CASE LoopStep
  <2>1. DisplayDone \/ TimersTick
    BY <1>2 DEF LoopStep, TakeCalls, NextCall, CallsDone, EnterPoll, PollTimesOut, LeavePoll, TimersDone,
                OptionalDone, DrainBegins, Drains
  <2>2. CASE DisplayDone  BY <2>2 DEF DisplayDone, TimerNext, TickStep
  <2>3. CASE TimersTick  BY <2>3 DEF TimersTick, TimerNext, TickStep
  <2> QED  BY <2>1, <2>2, <2>3
<1>3. CASE PollReturns \/ PollInterrupted
  BY <1>3 DEF PollReturns, PollInterrupted, LeavePoll
<1>4. CASE TimePasses  BY <1>4 DEF TimePasses, TimerNext
<1>5. CASE UNCHANGED vars  BY <1>5 DEF vars
<1> QED  BY <1>1, <1>2, <1>3, <1>4, <1>5 DEF Next

LEMMA FramesKept ==
  ASSUME LoopIInv, [Next]_vars
  PROVE  FrameIInv'
<1> SUFFICES ASSUME ~(UNCHANGED frameVars) PROVE FrameNext
  BY FrameNextInv DEF LoopIInv
<1>1. CASE Code
  <2>1. UseSurface
    BY <1>1 DEF Code, CallLater, UseTimer, ToggleOptional
  <2> QED  BY <2>1 DEF UseSurface, FrameNext, SurfaceCode
<1>2. CASE LoopStep
  <2>1. DrainBegins \/ Drains
    BY <1>2 DEF LoopStep, TakeCalls, NextCall, CallsDone, EnterPoll, PollTimesOut, LeavePoll, TimersDone,
                OptionalDone, DisplayDone, TimersTick
  <2> QED  BY <2>1 DEF DrainBegins, Drains, FrameNext, DrainStep
<1>3. CASE PollReturns \/ PollInterrupted
  BY <1>3 DEF PollReturns, PollInterrupted, LeavePoll
<1>4. CASE TimePasses  BY <1>4 DEF TimePasses
<1>5. CASE UNCHANGED vars  BY <1>5 DEF vars
<1> QED  BY <1>1, <1>2, <1>3, <1>4, <1>5 DEF Next

LEMMA PlacesKept ==
  ASSUME LoopIInv, [Next]_vars
  PROVE  Places'
<1>1. Places  BY DEF LoopIInv
<1>2. dueEntries' = dueEntries => Batch' = Batch  BY DEF Batch
<1>3. CASE Code
  <2>1. /\ InCode /\ phase' = phase /\ call' = call /\ calls' = calls
        /\ phase = "optional" => optional' = optional
    BY <1>3 DEF Code, CallLater, UseTimer, UseSurface, ToggleOptional, callVars
  <2>2. dueEntries' = dueEntries
    BY <1>3 DEF Code, CallLater, UseTimer, UseSurface, ToggleOptional, timerVars, Start, Stop, tickVars
  <2>3. drain' = drain
    BY <1>3 DEF Code, CallLater, UseTimer, UseSurface, ToggleOptional, frameVars, drainVars, RequestPrepare,
                RequestRedraw, Change, Create, Configure, FrameDone, Destroy
  <2> QED  BY <1>1, <1>2, <2>1, <2>2, <2>3 DEF Places
<1>4. CASE TakeCalls \/ NextCall \/ CallsDone
  BY <1>1, <1>2, <1>4 DEF Places, Phases, TakeCalls, NextCall, CallsDone, timerVars, tickVars, frameVars, drainVars
<1>5. CASE EnterPoll \/ PollTimesOut \/ PollReturns \/ PollInterrupted \/ TimersDone \/ OptionalDone
  BY <1>1, <1>2, <1>5 DEF Places, Phases, EnterPoll, PollTimesOut, PollReturns, PollInterrupted, LeavePoll,
     TimersDone, OptionalDone, callVars, pollVars, timerVars, tickVars, frameVars, drainVars
<1>6. CASE DisplayDone \/ TimersTick
  BY <1>1, <1>6 DEF Places, Phases, DisplayDone, TimersTick, callVars, frameVars, drainVars
<1>7. CASE DrainBegins
  BY <1>1, <1>2, <1>7 DEF Places, Phases, DrainBegins, Begin, callVars, timerVars, tickVars, frameVars, drainVars
<1>8. CASE Drains
  <2>1. /\ phase = "draining" /\ calls' = calls /\ call' = call /\ dueEntries' = dueEntries
        /\ phase' = "draining" \/ (phase' = "calls" /\ drain' = "none")
    <3>1. phase = "draining" /\ UNCHANGED callVars /\ UNCHANGED timerVars
      BY <1>8 DEF Drains
    <3>2. (phase' = "calls" /\ End) \/ phase' = phase  BY <1>8 DEF Drains
    <3>3. End => drain' = "none"  BY DEF End
    <3> QED  BY <3>1, <3>2, <3>3 DEF callVars, timerVars, tickVars
  <2> QED  BY <1>1, <1>2, <2>1 DEF Places, Phases
<1>9. CASE TimePasses
  BY <1>1, <1>2, <1>9 DEF Places, TimePasses, ClockMoves, tickVars, callVars, frameVars, drainVars
<1>10. CASE UNCHANGED vars
  BY <1>1, <1>2, <1>10 DEF Places, vars, callVars, timerVars, tickVars, frameVars, drainVars
<1> QED  BY <1>3, <1>4, <1>5, <1>6, <1>7, <1>8, <1>9, <1>10 DEF Next, LoopStep

\* The calls and their numbers change with three steps.
LEMMA NumbersKept ==
  ASSUME LoopIInv, [Next]_vars
  PROVE  /\ Numbers'
         /\ lastCall' # lastCall => lastCall' = lastCall + 1 /\ phase = "calls" /\ lastCall' \notin recent'
<1>1. Numbers /\ MaxCalls \in Nat  BY LoopAssumption DEF LoopIInv
<1>2. CASE UNCHANGED callVars
  <2>1. /\ queue' = queue /\ calls' = calls /\ call' = call /\ lastCall' = lastCall /\ made' = made
        /\ recent' = recent
    BY <1>2 DEF callVars
  <2> QED  BY <1>1, <2>1 DEF Numbers
<1>3. CASE CallLater
  <2>1. /\ made < MaxCalls /\ made' = made + 1 /\ queue' = Append(queue, made')
        /\ recent' = recent \cup {made'} /\ calls' = calls /\ call' = call /\ lastCall' = lastCall
    BY <1>3 DEF CallLater
  <2>2. made \in Nat /\ queue \in Seq(Nat) /\ calls \in Seq(Nat) /\ Len(queue) \in Nat /\ Len(calls) \in Nat
        /\ lastCall \in Nat
    BY <1>1, LenProperties DEF Numbers
  <2>3. /\ queue' \in Seq(Nat) /\ Len(queue') = Len(queue) + 1 /\ queue'[Len(queue) + 1] = made'
        /\ \A i \in 1 .. Len(queue) : queue'[i] = queue[i]
    BY <2>1, <2>2, AppendProperties
  <2>4. /\ made = lastCall + Len(calls) + Len(queue)
        /\ \A i \in 1 .. Len(queue) : queue[i] = lastCall + Len(calls) + i
        /\ recent \subseteq 1 .. made /\ \A n \in recent : n > lastCall + Len(calls)
    BY <1>1 DEF Numbers
  <2>5. \A i \in 1 .. Len(queue') : queue'[i] = lastCall + Len(calls) + i
    <3> TAKE i \in 1 .. Len(queue')
    <3>1. CASE i = Len(queue) + 1  BY <3>1, <2>1, <2>2, <2>3, <2>4
    <3>2. CASE i # Len(queue) + 1
      <4>1. i \in 1 .. Len(queue)  BY <3>2, <2>2, <2>3
      <4> QED  BY <4>1, <2>3, <2>4
    <3> QED  BY <3>1, <3>2
  <2>6. recent' \subseteq 1 .. made' /\ \A n \in recent' : n > lastCall + Len(calls)
    <3>1. \A n \in 1 .. made : n \in 1 .. made'  BY <2>1, <2>2
    <3>2. made' \in 1 .. made' /\ made' > lastCall + Len(calls)  BY <2>1, <2>2, <2>4
    <3> QED  BY <2>1, <2>4, <3>1, <3>2
  <2>7. made' = lastCall + Len(calls) + Len(queue') /\ made' <= MaxCalls
    BY <1>1, <2>1, <2>2, <2>3, <2>4
  <2> QED  BY <1>1, <2>1, <2>3, <2>5, <2>6, <2>7 DEF Numbers
<1>4. CASE TakeCalls \/ NextCall
  <2>1. PICK q \in {queue, calls} :
          /\ q \in Seq(Nat) /\ q # <<>> /\ calls' = Tail(q) /\ call' = Head(q) /\ lastCall' = Head(q)
          /\ made' = made /\ phase = "calls"
          /\ \A i \in 1 .. Len(q) : q[i] = lastCall + i
          /\ \/ calls = <<>> /\ q = queue /\ queue' = <<>> /\ recent' = {}
             \/ q = calls /\ queue' = queue /\ recent' = recent
    <3>1. CASE TakeCalls
      <4>1. /\ queue # <<>> /\ calls' = Tail(queue) /\ call' = Head(queue) /\ lastCall' = Head(queue)
            /\ made' = made /\ phase = "calls" /\ calls = <<>> /\ queue' = <<>> /\ recent' = {}
        BY <3>1 DEF TakeCalls
      <4>2. Len(<<>>) = 0  OBVIOUS
      <4>3. queue \in Seq(Nat) /\ \A i \in 1 .. Len(queue) : queue[i] = lastCall + i
        BY <1>1, <4>1, <4>2 DEF Numbers
      <4> QED  BY <4>1, <4>3
    <3>2. CASE NextCall
      <4>1. /\ calls # <<>> /\ calls' = Tail(calls) /\ call' = Head(calls) /\ lastCall' = Head(calls)
            /\ made' = made /\ phase = "calls" /\ queue' = queue /\ recent' = recent
        BY <3>2 DEF NextCall
      <4>2. calls \in Seq(Nat) /\ \A i \in 1 .. Len(calls) : calls[i] = lastCall + i
        BY <1>1 DEF Numbers
      <4> QED  BY <4>1, <4>2
    <3> QED  BY <1>4, <3>1, <3>2
  <2>2. Len(q) \in Nat /\ Len(q) >= 1 /\ lastCall \in Nat  BY <1>1, <2>1, LenProperties DEF Numbers
  <2>3. /\ calls' \in Seq(Nat) /\ Len(calls') = Len(q) - 1
        /\ \A i \in 1 .. Len(calls') : calls'[i] = q[i + 1]
    BY <2>1, HeadTailProperties
  <2>4. Head(q) = q[1]  BY <2>1
  <2>5. lastCall' = lastCall + 1 /\ call' = lastCall'  BY <2>1, <2>2, <2>4
  <2>6. \A i \in 1 .. Len(calls') : calls'[i] = lastCall' + i  BY <2>1, <2>2, <2>3, <2>5
  <2>7. CASE calls = <<>> /\ q = queue /\ queue' = <<>> /\ recent' = {}
    <3>1. Len(calls) = 0 /\ Len(queue') = 0 /\ queue' \in Seq(Nat)  BY <2>7
    <3>2. made = lastCall + Len(queue) /\ made <= MaxCalls  BY <1>1, <2>2, <2>7, <3>1 DEF Numbers
    <3>3. made' = lastCall' + Len(calls') + Len(queue')  BY <2>1, <2>2, <2>3, <2>5, <2>7, <3>1, <3>2
    <3> QED  BY <2>1, <2>2, <2>3, <2>5, <2>6, <2>7, <3>1, <3>2, <3>3 DEF Numbers
  <2>8. CASE q = calls /\ queue' = queue /\ recent' = recent
    <3>1. /\ made = lastCall + Len(calls) + Len(queue) /\ made <= MaxCalls
          /\ queue \in Seq(Nat) /\ \A i \in 1 .. Len(queue) : queue[i] = lastCall + Len(calls) + i
          /\ recent \subseteq 1 .. made /\ \A n \in recent : n > lastCall + Len(calls)
      BY <1>1 DEF Numbers
    <3>2. lastCall' + Len(calls') = lastCall + Len(calls)  BY <2>2, <2>3, <2>5, <2>8
    <3>3. lastCall' <= lastCall + Len(calls)  BY <2>2, <2>5, <2>8
    <3>4. lastCall' \notin recent'  BY <2>2, <2>5, <2>8, <3>1, <3>3
    <3>5. \A i \in 1 .. Len(queue') : queue'[i] = lastCall' + Len(calls') + i  BY <2>8, <3>1, <3>2
    <3>6. made' = lastCall' + Len(calls') + Len(queue')  BY <2>1, <2>8, <3>1, <3>2
    <3> QED  BY <2>1, <2>2, <2>3, <2>5, <2>6, <2>8, <3>1, <3>2, <3>4, <3>5, <3>6 DEF Numbers
  <2> QED  BY <2>1, <2>7, <2>8
<1>5. CASE CallsDone
  <2>1. /\ call' = 0 /\ queue' = queue /\ calls' = calls /\ lastCall' = lastCall /\ made' = made
        /\ recent' = recent
    BY <1>5 DEF CallsDone
  <2> QED  BY <1>1, <2>1 DEF Numbers
<1>6. Next => CallLater \/ TakeCalls \/ NextCall \/ CallsDone \/ UNCHANGED callVars
  BY DEF Next, LoopStep, Code, UseTimer, UseSurface, ToggleOptional, EnterPoll, PollTimesOut, PollReturns,
         PollInterrupted, LeavePoll, DisplayDone, TimersTick, TimersDone, OptionalDone, DrainBegins, Drains,
         TimePasses
<1>7. UNCHANGED vars => UNCHANGED callVars  BY DEF vars
<1> QED  BY <1>2, <1>3, <1>4, <1>5, <1>6, <1>7

-----------------------------------------------------------------------------
(* How long poll may sleep.                                                   *)

LEMMA LeastMember ==
  ASSUME NEW S \in SUBSET Nat, S # {}
  PROVE  Min(S) \in S /\ \A k \in S : Min(S) <= k
<1> DEFINE R == {r \in Nat \X Nat : r[1] < r[2]}
<1>1. IsWellFoundedOn(R, Nat)  BY NatLessThanWellFounded DEF OpToRel
<1>2. \A x, y \in Nat : y < x => <<y, x>> \in R
  <2> SUFFICES ASSUME NEW x \in Nat, NEW y \in Nat, y < x PROVE <<y, x>> \in R
    OBVIOUS
  <2>1. <<y, x>> \in Nat \X Nat  OBVIOUS
  <2> QED  BY <2>1
<1> HIDE DEF R
<1>3. PICK m \in S : \A k \in S : <<k, m>> \notin R  BY <1>1, WFMin, Zenon
<1>4. \A k \in S : ~(k < m)  BY <1>2, <1>3
<1>5. \A k \in S : m <= k  BY <1>4
<1> QED  BY <1>3, <1>5 DEF Min

LEMMA MaxOfTwo ==
  ASSUME NEW a \in Nat, NEW b \in Nat
  PROVE  Max({a, b}) = IF a <= b THEN b ELSE a
<1> DEFINE m == IF a <= b THEN b ELSE a
<1>1. m \in {a, b} /\ \A y \in {a, b} : m >= y  OBVIOUS
<1>2. \A x \in {a, b} : (\A y \in {a, b} : x >= y) => x = m  OBVIOUS
<1> HIDE DEF m
<1>3. Max({a, b}) = m  BY <1>1, <1>2 DEF Max
<1> QED  BY <1>3 DEF m

LEMMA TimeoutIsShort ==
  ASSUME TimerTypeOK, NEW isBlocked \in BOOLEAN
  PROVE  /\ Timeout(isBlocked) \in Nat
         /\ \A id \in Pending :
              Timeout(isBlocked) <= Max({entries[id].due, now}) + (IF isBlocked THEN Floor ELSE 0)
         /\ FramesPending => Timeout(isBlocked) <= now + (IF isBlocked THEN Floor ELSE 0)
<1> DEFINE V == {now + Second} \cup TimerVotes \cup (IF FramesPending THEN {now} ELSE {})
           v == Min(V)
<1>1. now \in Nat /\ Second \in Nat /\ Floor \in Nat  BY LoopAssumption DEF TimerTypeOK
<1>2. \A id \in Pending : entries[id].due \in Nat
  BY DEF TimerTypeOK, Pending, Entry
<1>3. \A id \in Pending : /\ Max({entries[id].due, now}) \in Nat
                            /\ Max({entries[id].due, now}) >= now
  BY <1>1, <1>2, MaxOfTwo
<1>4. V \in SUBSET Nat /\ V # {}
  <2>1. TimerVotes \subseteq Nat  BY <1>3 DEF TimerVotes
  <2>2. now + Second \in Nat  BY <1>1
  <2> QED  BY <1>1, <2>1, <2>2
<1>5. v \in V /\ \A k \in V : v <= k
  <2> HIDE DEF V
  <2> QED  BY <1>4, LeastMember
<1>6. v \in Nat  BY <1>4, <1>5
<1>7. \A id \in Pending : v <= Max({entries[id].due, now})  BY <1>5 DEF TimerVotes
<1>8. FramesPending => v <= now  BY <1>5
<1>9. Timeout(isBlocked) = IF isBlocked THEN Max({v, now + Floor}) ELSE v
  BY DEF Timeout
<1> HIDE DEF v, V
<1>10. Max({v, now + Floor}) = IF v <= now + Floor THEN now + Floor ELSE v
  BY <1>1, <1>6, MaxOfTwo
<1>11. \A x \in Nat : v <= x /\ now <= x => Timeout(isBlocked) <= x + (IF isBlocked THEN Floor ELSE 0)
  BY <1>1, <1>6, <1>9, <1>10
<1>12. Timeout(isBlocked) \in Nat  BY <1>1, <1>6, <1>9, <1>10
<1> QED  BY <1>1, <1>3, <1>7, <1>8, <1>11, <1>12

LEMMA SleepsKept ==
  ASSUME LoopIInv, [Next]_vars
  PROVE  Sleeps'
<1>1. TimerTypeOK /\ Sleeps /\ Floor \in Nat
  BY LoopAssumption DEF LoopIInv, TimerIInv
<1>2. CASE EnterPoll
  <2>1. PICK isBlocked \in BOOLEAN : blocked' = isBlocked /\ wake' = Timeout(isBlocked)
    BY <1>2 DEF EnterPoll
  <2>2. /\ FramesPending' = FramesPending /\ entries' = entries /\ now' = now
    BY <1>2 DEF EnterPoll, timerVars, tickVars, frameVars, queueVars, FramesPending
  <2>3. Pending' = Pending  BY <2>2 DEF Pending
  <2>4. /\ wake' \in Nat
        /\ \A id \in Pending :
             wake' <= Max({entries[id].due, now}) + (IF blocked' THEN Floor ELSE 0)
        /\ FramesPending => wake' <= now + (IF blocked' THEN Floor ELSE 0)
    BY <1>1, <2>1, TimeoutIsShort
  <2> QED  BY <2>2, <2>3, <2>4 DEF Sleeps, SleepIsShort
<1>3. CASE TimePasses
  <2>1. /\ now' = now + 1 /\ now \in Nat /\ entries' = entries /\ wake' = wake /\ blocked' = blocked
        /\ phase' = phase /\ FramesPending' = FramesPending
    BY <1>1, <1>3 DEF TimePasses, ClockMoves, TimerTypeOK, pollVars, frameVars, queueVars, FramesPending
  <2>2. Pending' = Pending  BY <2>1 DEF Pending
  <2>3. \A id \in Pending : entries[id].due \in Nat
    BY <1>1 DEF TimerTypeOK, Pending, Entry
  <2>4. \A id \in Pending : Max({entries[id].due, now}) <= Max({entries[id].due, now + 1})
    <3> TAKE id \in Pending
    <3>1. /\ Max({entries[id].due, now}) = (IF entries[id].due <= now THEN now ELSE entries[id].due)
          /\ Max({entries[id].due, now + 1}) = (IF entries[id].due <= now + 1 THEN now + 1 ELSE entries[id].due)
      BY <2>1, <2>3, MaxOfTwo
    <3> QED  BY <2>1, <2>3, <3>1
  <2>5. \A id \in Pending : /\ Max({entries[id].due, now}) \in Nat
                              /\ Max({entries[id].due, now + 1}) \in Nat
    BY <2>1, <2>3, MaxOfTwo
  <2>6. wake \in Nat /\ SleepIsShort  BY <1>1 DEF Sleeps
  <2>7. ASSUME phase = "poll", NEW id \in Pending
        PROVE  wake <= Max({entries[id].due, now + 1}) + (IF blocked THEN Floor ELSE 0)
    <3> DEFINE x == Max({entries[id].due, now})
               y == Max({entries[id].due, now + 1})
               b == IF blocked THEN Floor ELSE 0
    <3>1. wake <= x + b  BY <2>6, <2>7 DEF SleepIsShort
    <3>2. x \in Nat /\ y \in Nat /\ x <= y  BY <2>4, <2>5
    <3>3. b \in Nat  BY <1>1
    <3> HIDE DEF x, y, b
    <3>4. wake <= y + b  BY <2>6, <3>1, <3>2, <3>3
    <3> QED  BY <3>4 DEF y, b
  <2>8. phase = "poll" /\ FramesPending => wake <= now + 1 + (IF blocked THEN Floor ELSE 0)
    BY <1>1, <2>1, <2>6 DEF SleepIsShort
  <2> QED  BY <2>1, <2>2, <2>6, <2>7, <2>8 DEF Sleeps, SleepIsShort
<1>4. CASE UNCHANGED vars
  <2>1. /\ entries' = entries /\ now' = now /\ wake' = wake /\ blocked' = blocked /\ phase' = phase
        /\ FramesPending' = FramesPending
    BY <1>4 DEF vars, timerVars, tickVars, pollVars, frameVars, queueVars, FramesPending
  <2>2. Pending' = Pending  BY <2>1 DEF Pending
  <2> QED  BY <1>1, <2>1, <2>2 DEF Sleeps, SleepIsShort
<1>5. CASE Next /\ ~EnterPoll /\ ~TimePasses
  <2>1. UNCHANGED pollVars
    BY <1>5 DEF Next, LoopStep, Code, CallLater, UseTimer, UseSurface, ToggleOptional, TakeCalls, NextCall,
       CallsDone, PollTimesOut, PollReturns, PollInterrupted, LeavePoll, DisplayDone, TimersTick, TimersDone,
       OptionalDone, DrainBegins, Drains
  <2>2. phase' # "poll"
    <3>1. Code => InCode /\ phase' = phase
      BY DEF Code, CallLater, UseTimer, UseSurface, ToggleOptional
    <3>2. InCode => phase # "poll"  BY DEF InCode
    <3>3. LoopStep /\ ~EnterPoll => phase' # "poll"
      BY DEF LoopStep, TakeCalls, NextCall, CallsDone, PollTimesOut, LeavePoll, DisplayDone, TimersTick,
             TimersDone, OptionalDone, DrainBegins, Drains
    <3>4. PollReturns \/ PollInterrupted => phase' # "poll"
      BY DEF PollReturns, PollInterrupted, LeavePoll
    <3> QED  BY <1>5, <3>1, <3>2, <3>3, <3>4 DEF Next
  <2> QED  BY <1>1, <2>1, <2>2 DEF Sleeps, SleepIsShort, pollVars
<1> QED  BY <1>2, <1>3, <1>4, <1>5

-----------------------------------------------------------------------------
LEMMA LoopNextInv == LoopIInv /\ [Next]_vars => LoopIInv'
BY TimersKept, FramesKept, PlacesKept, NumbersKept, SleepsKept DEF LoopIInv

LEMMA LoopAlways == Spec => []LoopIInv
BY LoopInitInv, LoopNextInv, PTL DEF Spec

\* MainLoop::run: timers, surfaces and calls are sound whatever code of the shell
\* does at each point of an iteration, and no source is dispatched that an
\* earlier one has removed.
THEOREM LoopIsSound == Spec => []LoopInv
<1>1. LoopIInv => LoopInv
  <2> SUFFICES ASSUME LoopIInv PROVE LoopInv
    OBVIOUS
  <2>1. TimerTypeOK /\ FrameInv  BY FrameInvImplies DEF LoopIInv, TimerIInv
  <2>2. {call, lastCall, made} \subseteq 0 .. MaxCalls /\ recent \subseteq 1 .. made
    <3>1. Numbers /\ MaxCalls \in Nat  BY LoopAssumption DEF LoopIInv
    <3>2. Len(calls) \in Nat /\ Len(queue) \in Nat  BY <3>1, LenProperties DEF Numbers
    <3> QED  BY <3>1, <3>2 DEF Numbers
  <2> QED  BY <2>1, <2>2 DEF LoopIInv, Places, LoopInv
<1> QED  BY <1>1, LoopAlways, PTL

\* MainLoop::run: poll never sleeps past a deadline nor on queued frames, for any
\* number of timers and surfaces, but for the floor of a blocked flush.
THEOREM SleepsAreShort == Spec => []SleepIsShort
<1>1. LoopIInv => SleepIsShort  BY DEF LoopIInv, Sleeps
<1> QED  BY <1>1, LoopAlways, PTL

\* deferred_call.h: calls run in the order they were asked for, once each, at the
\* top of an iteration, and never in the batch they were asked for from.
THEOREM CallsRunInOrder == Spec => CallsInOrder
<1>1. LoopIInv /\ [Next]_vars =>
        [lastCall' # lastCall => lastCall' = lastCall + 1 /\ phase = "calls" /\ lastCall' \notin recent']_vars
  BY NumbersKept
<1> QED  BY <1>1, LoopAlways, PTL DEF CallsInOrder, Spec
=============================================================================
