----------------------------- MODULE TimerManager -----------------------------
(***************************************************************************)
(* core/timer_manager.cpp: the timers of the main thread.  A tick takes    *)
(* the entries that are due out of the map and runs their callbacks one    *)
(* after the other; a callback may start, stop and move any timer, those   *)
(* that are due in the same tick and its own included, so what was taken   *)
(* out can only be canceled by a mark.  The map is unordered: the entries  *)
(* of a tick run in any order.                                             *)
(*                                                                         *)
(* A definition D_Fault just before D is D with a fault put in; it is used *)
(* to show that a property can fail.                                       *)
(***************************************************************************)
EXTENDS Integers

CONSTANTS
  Timers,     (* the Timer objects                                          *)
  Delays,     (* the delays and intervals they are started with             *)
  None,       (* no entry                                                   *)
  MaxStarts,  (* bound on the calls of start                                *)
  MaxTime     (* bound on the clock                                         *)

ASSUME TimerAssumption ==
  /\ Delays \subseteq Nat
  /\ MaxStarts \in Nat /\ MaxTime \in Nat

Ids == 1 .. MaxStarts
Entry == [due : Nat, interval : Nat, repeating : BOOLEAN]

ASSUME NoneAssumption ==
  None \notin Entry \cup [id : Ids, due : Nat, interval : Nat, repeating : BOOLEAN]

VARIABLES
  now,       (* steady_clock::now()                                         *)
  timers,    (* m_id of every Timer, 0 for none                             *)
  nextId,    (* nextTimerId()                                               *)
  entries,   (* timerEntries(): the entry of every id                       *)
  dueEntries, (* those of the tick, without the ones that are done          *)
  running,   (* the due entry whose callback runs, 0 for none               *)
  inFlight,  (* inFlightTimerIds()                                          *)
  canceled   (* canceledTimerIds()                                          *)

tickVars == <<dueEntries, running, inFlight>>
timerVars == <<now, timers, nextId, entries, canceled, tickVars>>

Pending == {id \in Ids : entries[id] # None}
Batch == {id \in Ids : dueEntries[id] # None}

TimerInit ==
  /\ now = 0
  /\ timers = [t \in Timers |-> 0] /\ nextId = 1
  /\ entries = [id \in Ids |-> None] /\ dueEntries = [id \in Ids |-> None]
  /\ running = 0 /\ inFlight = {} /\ canceled = {}

-----------------------------------------------------------------------------
(* Calls, from a callback or from any other code of the main thread. *)

CanCall == running # 0 \/ Batch = {}

\* cancel(id), by what it leaves behind.
Erased(id) == [i \in Ids |-> IF i = id THEN None ELSE entries[i]]
CanceledWith(id) ==
  IF id \notin Pending /\ id \in inFlight THEN canceled \cup {id} ELSE canceled

\* Timer::start and startRepeating.
Start(t, delay, repeating) ==
  /\ CanCall /\ nextId \in Ids
  /\ canceled' = CanceledWith(timers[t])
  /\ entries' = [Erased(timers[t]) EXCEPT ![nextId] =
                   [due |-> now + delay, interval |-> delay, repeating |-> repeating]]
  /\ timers' = [timers EXCEPT ![t] = nextId] /\ nextId' = nextId + 1
  /\ UNCHANGED <<now, tickVars>>

\* Timer::stop, which the destructor calls too.
Stop(t) ==
  /\ CanCall /\ timers[t] # 0
  /\ canceled' = CanceledWith(timers[t]) /\ entries' = Erased(timers[t])
  /\ timers' = [timers EXCEPT ![t] = 0]
  /\ UNCHANGED <<now, nextId, tickVars>>

\* u = std::move(t)
Move_WithoutStop(t, u) ==
  /\ CanCall /\ t # u
  /\ timers' = [timers EXCEPT ![u] = timers[t], ![t] = 0]
  /\ UNCHANGED <<now, nextId, canceled, entries, tickVars>>
Move(t, u) ==
  /\ CanCall /\ t # u
  /\ canceled' = CanceledWith(timers[u]) /\ entries' = Erased(timers[u])
  /\ timers' = [timers EXCEPT ![u] = timers[t], ![t] = 0]
  /\ UNCHANGED <<now, nextId, tickVars>>

-----------------------------------------------------------------------------
(* tick() *)

Due == {id \in Pending : entries[id].due <= now}

Tick ==
  /\ Batch = {} /\ Due # {}
  /\ dueEntries' = [id \in Ids |-> IF id \in Due THEN entries[id] ELSE None]
  /\ entries' = [id \in Ids |-> IF id \in Due THEN None ELSE entries[id]]
  /\ inFlight' = inFlight \cup Due
  /\ UNCHANGED <<now, timers, nextId, running, canceled>>

\* The entry of id is done: its marks go.
Done_EndsTick(id) ==
  /\ dueEntries' = [i \in Ids |-> None]
  /\ inFlight' = inFlight \ {id} /\ canceled' = canceled \ {id}
Done(id) ==
  /\ dueEntries' = [dueEntries EXCEPT ![id] = None]
  /\ inFlight' = inFlight \ {id} /\ canceled' = canceled \ {id}

\* An entry of the tick that an earlier callback has canceled.
Skip(id) ==
  /\ running = 0 /\ id \in Batch \cap canceled
  /\ Done(id)
  /\ UNCHANGED <<now, timers, nextId, entries, running>>

Call_IgnoresCancel(id) ==
  /\ running = 0 /\ id \in Batch
  /\ running' = id
  /\ UNCHANGED <<now, timers, nextId, entries, dueEntries, inFlight, canceled>>
Call(id) ==
  /\ running = 0 /\ id \in Batch \ canceled
  /\ running' = id
  /\ UNCHANGED <<now, timers, nextId, entries, dueEntries, inFlight, canceled>>

\* The callback returns; a repeating entry goes back unless it was canceled.
Return ==
  /\ running # 0
  /\ entries' = IF dueEntries[running].repeating /\ running \notin canceled
                THEN [entries EXCEPT ![running] =
                        [dueEntries[running] EXCEPT !.due = now + dueEntries[running].interval]]
                ELSE entries
  /\ Done(running) /\ running' = 0
  /\ UNCHANGED <<now, timers, nextId>>

TickStep == Tick \/ Return \/ \E id \in Ids : Skip(id) \/ Call(id)

ClockMoves ==
  /\ now < MaxTime /\ now' = now + 1
  /\ UNCHANGED <<timers, nextId, entries, canceled, tickVars>>

-----------------------------------------------------------------------------
Calls ==
  \E t \in Timers :
    \/ \E delay \in Delays, repeating \in BOOLEAN : Start(t, delay, repeating)
    \/ Stop(t)
    \/ \E u \in Timers : Move(t, u)

TimerNext == Calls \/ TickStep \/ ClockMoves

\* The main loop ticks whenever a timer is due, and callbacks return.
TimerSpec == TimerInit /\ [][TimerNext]_timerVars /\ WF_timerVars(TickStep)

-----------------------------------------------------------------------------
(* Properties. *)

TimerTypeOK ==
  /\ now \in Nat /\ nextId \in 1 .. MaxStarts + 1
  /\ timers \in [Timers -> 0 .. MaxStarts]
  /\ entries \in [Ids -> Entry \cup {None}] /\ dueEntries \in [Ids -> Entry \cup {None}]
  /\ running \in 0 .. MaxStarts
  /\ inFlight \subseteq Ids /\ canceled \subseteq Ids

\* The marks of a tick are gone when it ends: inFlight names exactly the entries
\* the tick still has to finish, and only those can be marked as canceled, so
\* that no mark is left to silence or to keep alive a timer of later.
MarksAreOfTheTick == inFlight = Batch /\ canceled \subseteq Batch

\* An entry that may still run belongs to one Timer, which can stop it, and is
\* either in the map or in the tick: no callback outlives its owner.
Alive == Pending \cup (Batch \ canceled)
EntriesAreOwned ==
  /\ Pending \cap Batch = {}
  /\ \A id \in Alive : \E t \in Timers : timers[t] = id
  /\ \A t, u \in Timers : timers[t] = timers[u] /\ timers[t] # 0 => t = u

\* The three, for callbacks that stop, restart and move timers during a tick.
TimerInv == TimerTypeOK /\ MarksAreOfTheTick /\ EntriesAreOwned

\* timer_manager.h: timers are alarms, where the callback of a timer is the ring
\* of an alarm: never early, never after a stop, a restart or a move, also when
\* the stop comes from another callback of the same tick.
Name(id, entry) ==
  [id |-> id, due |-> entry.due, interval |-> entry.interval, repeating |-> entry.repeating]
AlarmOf(t) ==
  LET id == timers[t] IN
  IF id \in Pending THEN Name(id, entries[id])
  ELSE IF id \in Batch \ canceled THEN Name(id, dueEntries[id])
  ELSE None
A == INSTANCE Alarms WITH Off <- None, alarms <- [t \in Timers |-> AlarmOf(t)], ringing <- running
ImplementsAlarms == A!AlarmsSpec

\* A timer that is due has its callback run, unless it is stopped or started
\* anew, however often other timers repeat.
DueTimersRun ==
  \A id \in Ids : id \in Due ~> running = id \/ \A t \in Timers : timers[t] # id

=============================================================================
