------------------------------- MODULE MainLoop -------------------------------
(***************************************************************************)
(* app/main_loop.cpp with the three things it has to drive: deferred calls *)
(* (core/deferred_call.h), timers (TimerManager) and the frames of         *)
(* surfaces (SurfaceFrames).  An iteration runs the calls of the previous  *)
(* one, dispatches what the display has buffered, computes how long poll   *)
(* may sleep, sleeps, dispatches the display and then the poll sources,    *)
(* and drains the queues of the surfaces.                                  *)
(*                                                                         *)
(* Of the poll sources the model has the timers, the clock, which has poll *)
(* return at every second, and one that comes and goes with the            *)
(* configuration.  Everything else that wakes the loop is an event that    *)
(* may or may not happen while it sleeps.                                  *)
(*                                                                         *)
(* A definition D_Fault just before D is D with a fault put in; it is used *)
(* to show that a property can fail.                                       *)
(***************************************************************************)
EXTENDS Integers, FiniteSetsExt, TimerManager, SurfaceFrames

CONSTANTS
  Second,    (* what the clock source lets poll sleep at most               *)
  Floor,     (* what a blocked flush makes it sleep at least                *)
  MaxCalls   (* bound on the deferred calls                                 *)

ASSUME LoopAssumption == {Second, Floor, MaxCalls} \subseteq Nat /\ Second > 0

VARIABLES
  phase,     (* where the loop is                                           *)
  queue,     (* DeferredCall::queue(), by the numbers of the calls          *)
  calls,     (* the calls the loop has moved away and not yet made          *)
  call,      (* the call that runs, 0 for none                              *)
  lastCall,  (* history: the call made last                                 *)
  made,      (* history: the calls asked for so far                         *)
  recent,    (* history: those of them since the loop moved the queue away  *)
  wake,      (* when poll times out                                         *)
  blocked,   (* the flush before poll was blocked                           *)
  optional,  (* the optional source exists                                  *)
  polled     (* it was among the sources this iteration polls               *)

callVars == <<queue, calls, call, lastCall, made, recent>>
pollVars == <<wake, blocked, polled>>
vars == <<phase, callVars, pollVars, optional, timerVars, frameVars>>

Phases == {"calls", "buffered", "poll", "display", "timers", "optional", "drain", "draining"}

Init ==
  /\ phase = "calls"
  /\ queue = <<>> /\ calls = <<>> /\ call = 0 /\ lastCall = 0 /\ made = 0 /\ recent = {}
  /\ wake = 0 /\ blocked = FALSE /\ optional \in BOOLEAN /\ polled = FALSE
  /\ TimerInit /\ FrameInit

-----------------------------------------------------------------------------
(* Code of the shell: deferred calls, handlers of the display, callbacks of   *)
(* timers and of the optional source, callbacks of a drain.                   *)

InCode ==
  \/ phase = "calls" /\ call # 0
  \/ phase \in {"buffered", "display", "optional"}
  \/ phase = "timers" /\ running # 0
  \/ phase = "draining" /\ current # NoSurface

CallLater ==
  /\ InCode /\ made < MaxCalls
  /\ made' = made + 1 /\ queue' = Append(queue, made')
  /\ recent' = recent \cup {made'}
  /\ UNCHANGED <<phase, calls, call, lastCall, pollVars, optional, timerVars, frameVars>>

UseTimer ==
  /\ InCode
  /\ \E t \in Timers :
       \/ \E delay \in Delays, repeating \in BOOLEAN : Start(t, delay, repeating)
       \/ Stop(t)
  /\ UNCHANGED <<phase, callVars, pollVars, optional, frameVars>>

\* Surfaces are configured, and their frames answered, by the display.
UseSurface ==
  /\ InCode
  /\ \E s \in Surfaces :
       \/ RequestPrepare(s) \/ RequestRedraw(s) \/ Change(s)
       \/ Create(s) \/ Destroy(s)
       \/ phase \in {"buffered", "display"} /\ (Configure(s) \/ FrameDone(s))
  /\ UNCHANGED <<phase, callVars, pollVars, optional, timerVars>>

\* syncPolkitAgent, from a reload or from another source, and not from a
\* dispatch of the source itself.
ToggleOptional ==
  /\ InCode /\ phase # "optional"
  /\ optional' = ~optional
  /\ UNCHANGED <<phase, callVars, pollVars, timerVars, frameVars>>

Code == CallLater \/ UseTimer \/ UseSurface \/ ToggleOptional

-----------------------------------------------------------------------------
(* One iteration. *)

\* The queue is moved away, and the calls of the moment are made one by one.
TakeCalls ==
  /\ phase = "calls" /\ call = 0 /\ calls = <<>> /\ queue # <<>>
  /\ calls' = Tail(queue) /\ call' = Head(queue) /\ lastCall' = Head(queue)
  /\ queue' = <<>> /\ recent' = {}
  /\ UNCHANGED <<phase, made, pollVars, optional, timerVars, frameVars>>

NextCall ==
  /\ phase = "calls" /\ call # 0 /\ calls # <<>>
  /\ calls' = Tail(calls) /\ call' = Head(calls) /\ lastCall' = Head(calls)
  /\ UNCHANGED <<phase, queue, made, recent, pollVars, optional, timerVars, frameVars>>

\* Calls queued by the calls wait for the next iteration.
CallsDone_ClearsQueue ==
  /\ phase = "calls" /\ calls = <<>> /\ (call # 0 \/ queue = <<>>)
  /\ phase' = "buffered" /\ call' = 0 /\ queue' = <<>>
  /\ UNCHANGED <<calls, lastCall, made, recent, pollVars, optional, timerVars, frameVars>>
CallsDone_UntilEmpty ==
  /\ phase = "calls" /\ calls = <<>> /\ (call # 0 \/ queue = <<>>)
  /\ IF queue = <<>>
     THEN phase' = "buffered" /\ call' = 0 /\ UNCHANGED <<queue, calls, lastCall>>
     ELSE /\ calls' = Tail(queue) /\ call' = Head(queue) /\ lastCall' = Head(queue)
          /\ queue' = <<>> /\ UNCHANGED phase
  /\ UNCHANGED <<made, recent, pollVars, optional, timerVars, frameVars>>
CallsDone ==
  /\ phase = "calls" /\ calls = <<>> /\ (call # 0 \/ queue = <<>>)
  /\ phase' = "buffered" /\ call' = 0
  /\ UNCHANGED <<queue, calls, lastCall, made, recent, pollVars, optional, timerVars, frameVars>>

FramesPending == workQueue # <<>> \/ renderQueue # <<>>

\* The timeout of poll: that of every source, nothing with frames to drain, and
\* no less than Floor when the flush was blocked.
TimerVotes == {Max({entries[id].due, now}) : id \in Pending}
Timeout_IgnoresFrames(isBlocked) ==
  LET vote == Min({now + Second} \cup TimerVotes) IN
  IF isBlocked THEN Max({vote, now + Floor}) ELSE vote
Timeout(isBlocked) ==
  LET vote == Min({now + Second} \cup TimerVotes \cup (IF FramesPending THEN {now} ELSE {})) IN
  IF isBlocked THEN Max({vote, now + Floor}) ELSE vote

EnterPoll ==
  /\ phase = "buffered"
  /\ phase' = "poll" /\ polled' = optional
  /\ \E isBlocked \in BOOLEAN : blocked' = isBlocked /\ wake' = Timeout(isBlocked)
  /\ UNCHANGED <<callVars, optional, timerVars, frameVars>>

\* poll returns: timed out, with an event, or interrupted by a signal.  At the
\* bound of the clock it times out at once.
TimedOut == now >= wake \/ now = MaxTime

LeavePoll(next) ==
  /\ phase = "poll" /\ phase' = next
  /\ UNCHANGED <<callVars, pollVars, optional, timerVars, frameVars>>

PollTimesOut == TimedOut /\ LeavePoll("display")
PollReturns == LeavePoll("display")
PollInterrupted == LeavePoll("calls")

DisplayDone_OnlyReady ==
  /\ phase = "display" /\ phase' = "timers"
  /\ UNCHANGED <<callVars, pollVars, optional, timerVars, frameVars>>
DisplayDone ==
  /\ phase = "display" /\ phase' = "timers"
  /\ \/ Tick /\ UNCHANGED <<callVars, pollVars, optional, frameVars>>
     \/ Due = {} /\ UNCHANGED <<callVars, pollVars, optional, timerVars, frameVars>>

TimersTick ==
  /\ phase = "timers"
  /\ Return \/ \E id \in Ids : Skip(id) \/ Call(id)
  /\ UNCHANGED <<phase, callVars, pollVars, optional, frameVars>>

\* The optional source is dispatched if it was polled and is still there.
TimersDone_Unchecked ==
  /\ phase = "timers" /\ Batch = {}
  /\ phase' = IF polled THEN "optional" ELSE "drain"
  /\ UNCHANGED <<callVars, pollVars, optional, timerVars, frameVars>>
TimersDone ==
  /\ phase = "timers" /\ Batch = {}
  /\ phase' = IF polled /\ optional THEN "optional" ELSE "drain"
  /\ UNCHANGED <<callVars, pollVars, optional, timerVars, frameVars>>

OptionalDone ==
  /\ phase = "optional" /\ phase' = "drain"
  /\ UNCHANGED <<callVars, pollVars, optional, timerVars, frameVars>>

DrainBegins ==
  /\ phase = "drain"
  /\ \/ FramesPending /\ Begin /\ phase' = "draining"
     \/ ~FramesPending /\ phase' = "calls" /\ UNCHANGED frameVars
  /\ UNCHANGED <<callVars, pollVars, optional, timerVars>>

Drains ==
  /\ phase = "draining"
  /\ \/ End /\ phase' = "calls"
     \/ (BeginRenders \/ Work \/ Ticked \/ Prepared \/ Render) /\ UNCHANGED phase
  /\ UNCHANGED <<callVars, pollVars, optional, timerVars>>

TimePasses ==
  /\ ClockMoves
  /\ UNCHANGED <<phase, callVars, pollVars, optional, frameVars>>

LoopStep ==
  \/ TakeCalls \/ NextCall \/ CallsDone \/ EnterPoll \/ PollTimesOut \/ DisplayDone
  \/ TimersTick \/ TimersDone \/ OptionalDone \/ DrainBegins \/ Drains

Next == LoopStep \/ PollReturns \/ PollInterrupted \/ Code \/ TimePasses

\* The loop goes on, and so does the time; a poll that times out again and again
\* is not interrupted by a signal every time.  No event need ever happen.
Spec ==
  /\ Init /\ [][Next]_vars
  /\ WF_vars(LoopStep) /\ SF_vars(PollTimesOut) /\ WF_vars(TimePasses)

-----------------------------------------------------------------------------
(* Properties. *)

\* What the loop is made of; a source is dispatched only while it exists, also
\* when an earlier source of the same iteration has removed it.
LoopInv ==
  /\ phase \in Phases
  /\ TimerTypeOK /\ FrameInv
  /\ {call, lastCall, made} \subseteq 0 .. MaxCalls /\ recent \subseteq 1 .. made
  /\ phase = "optional" => optional
  /\ call # 0 => phase = "calls"
  /\ Batch # {} => phase = "timers"
  /\ drain # "none" => phase = "draining"

\* The loop never sleeps past the deadline of a timer, nor on queued frames,
\* except that a blocked flush holds it back for up to Floor.
SleepIsShort ==
  phase = "poll" =>
    /\ \A id \in Pending :
         wake <= Max({entries[id].due, now}) + (IF blocked THEN Floor ELSE 0)
    /\ FramesPending => wake <= now + (IF blocked THEN Floor ELSE 0)

\* deferred_call.h: calls run at the top of an iteration, in the order they were
\* asked for and once each, and none in the batch of calls it was asked for from.
CallsInOrder ==
  [][lastCall' # lastCall => lastCall' = lastCall + 1 /\ phase = "calls" /\ lastCall' \notin recent']_vars

\* A call is made in the end, although neither timers nor events need come:
\* the clock has poll return.
CallsAreMade == \A n \in 1 .. MaxCalls : made >= n ~> lastCall >= n

\* A timer that is due is run, whatever the loop is kept busy with.
TimersRun == DueTimersRun

=============================================================================
