---------------------------- MODULE SurfaceFrames ----------------------------
(***************************************************************************)
(* The frame scheduling of wayland/surface.cpp: what a surface has been    *)
(* asked to show, the two queues of surfaces with frame work and with a    *)
(* render to do, the drains of the main loop that empty them, and the      *)
(* frame callbacks of the compositor in between.  A drain moves a queue    *)
(* away and goes through it; the callbacks of a surface, which it runs on  *)
(* the way, may ask anything of any surface.                               *)
(*                                                                         *)
(* A surface's m_updateRequested and m_layoutRequested are set and cleared *)
(* alike and are one field here, as are the two kinds of dirt of a scene.  *)
(* Surfaces have a size and a render context.  They are destroyed by event *)
(* handlers and deferred calls and not from a callback of a drain, which   *)
(* is what core/deferred_call.h is for.                                    *)
(*                                                                         *)
(* A definition D_Fault just before D is D with a fault put in; it is used *)
(* to show that a property can fail.                                       *)
(***************************************************************************)
EXTENDS Sequences, SequencesExt

CONSTANTS
  Surfaces,  (* the Surface objects                                         *)
  NoSurface  (* no surface                                                  *)

ASSUME SurfaceAssumption == NoSurface \notin Surfaces

VARIABLES
  surfaces,     (* the state of every surface                               *)
  workQueue,    (* pendingFrameWorkQueue()                                  *)
  renderQueue,  (* pendingRenderQueue()                                     *)
  drain,        (* "none", or the drain that runs: "work" or "render"       *)
  batch,        (* the surfaces it has moved away and not yet reached       *)
  current,      (* the surface it is at, in one of its callbacks            *)
  at            (* which callback: "tick" or "prepare"                      *)

queueVars == <<workQueue, renderQueue>>
drainVars == <<drain, batch, current, at>>
frameVars == <<surfaces, queueVars, drainVars>>

\* A surface: whether it exists and is configured, what it has been asked for
\* (prepare, redraw), what its scene says (dirty, animating), whether a frame
\* callback is out, and whether it is in a queue (and with a tick).
Gone ==
  [state |-> "gone", prepare |-> FALSE, redraw |-> FALSE, dirty |-> FALSE, animating |-> FALSE,
   frame |-> FALSE, work |-> FALSE, tick |-> FALSE, render |-> FALSE]

FrameInit ==
  /\ surfaces = [s \in Surfaces |-> Gone]
  /\ workQueue = <<>> /\ renderQueue = <<>>
  /\ drain = "none" /\ batch = <<>> /\ current = NoSurface /\ at = ""

-----------------------------------------------------------------------------
(* What code does to a surface, in event handlers and in callbacks. *)

CanUse == drain = "none" \/ current # NoSurface
Lives(s) == surfaces[s].state # "gone"
InCallback(s) == current = s

\* Surface s gets the state r; if that queues it, it is appended to the queue.
Becomes(s, r) ==
  /\ surfaces' = [surfaces EXCEPT ![s] = r]
  /\ workQueue' = IF r.work /\ ~surfaces[s].work THEN Append(workQueue, s) ELSE workQueue
  /\ renderQueue' = IF r.render /\ ~surfaces[s].render THEN Append(renderQueue, s) ELSE renderQueue

\* queueRenderIfNeeded
Wants(r) == r.redraw \/ r.dirty \/ r.animating

\* kickFrameLoop
Kicked_IgnoresRequest(s, r) ==
  IF r.state # "configured" \/ r.frame \/ InCallback(s) \/ r.work THEN r
  ELSE IF Wants(r) THEN [r EXCEPT !.render = TRUE]
  ELSE r
Kicked(s, r) ==
  IF r.state # "configured" \/ r.frame \/ InCallback(s) \/ r.work THEN r
  ELSE IF r.prepare THEN [r EXCEPT !.work = TRUE]
  ELSE IF Wants(r) THEN [r EXCEPT !.render = TRUE]
  ELSE r

\* requestUpdate, requestUpdateOnly, requestLayout.  A prepare callback asks for
\* its own surface only when it has left the scene dirty.
RequestPrepare(s) ==
  /\ CanUse /\ Lives(s)
  /\ ~(at = "prepare" /\ current = s /\ ~surfaces[s].dirty)
  /\ Becomes(s, Kicked(s, [surfaces[s] EXCEPT !.prepare = TRUE]))
  /\ UNCHANGED drainVars

RequestRedraw(s) ==
  /\ CanUse /\ Lives(s)
  /\ Becomes(s, Kicked(s, [surfaces[s] EXCEPT !.redraw = TRUE]))
  /\ UNCHANGED drainVars

\* A node of the scene changes: the surface is asked to lay out or to redraw,
\* but not during a prepare callback, which changes the scene it prepares.
Change(s) ==
  /\ CanUse /\ Lives(s) /\ (at = "prepare" => current = s)
  /\ \/ /\ at = "prepare"
        /\ Becomes(s, [surfaces[s] EXCEPT !.dirty = TRUE])
     \/ /\ at # "prepare"
        /\ \/ Becomes(s, Kicked(s, [surfaces[s] EXCEPT !.dirty = TRUE, !.prepare = TRUE]))
           \/ Becomes(s, Kicked(s, [surfaces[s] EXCEPT !.dirty = TRUE, !.redraw = TRUE]))
  /\ UNCHANGED drainVars

\* An animation starts, and its owner asks for a redraw.
Animate(s) ==
  /\ CanUse /\ Lives(s)
  /\ Becomes(s, Kicked(s, [surfaces[s] EXCEPT !.animating = TRUE, !.redraw = TRUE]))
  /\ UNCHANGED drainVars

RequestFrameTick(s) ==
  /\ CanUse /\ surfaces[s].state = "configured" /\ ~surfaces[s].frame /\ ~InCallback(s)
  /\ Becomes(s, [surfaces[s] EXCEPT !.work = TRUE, !.tick = TRUE])
  /\ UNCHANGED drainVars

\* A new surface, which is running and waits to be configured.
Create(s) ==
  /\ drain = "none" /\ ~Lives(s)
  /\ Becomes(s, [Gone EXCEPT !.state = "running"])
  /\ UNCHANGED drainVars

\* onConfigure, whose callback asks for a layout or not.
Configure(s) ==
  /\ drain = "none" /\ Lives(s)
  /\ \E prepare \in {surfaces[s].prepare, TRUE} :
       Becomes(s, [surfaces[s] EXCEPT !.state = "configured", !.prepare = prepare,
                                      !.redraw = TRUE, !.work = TRUE])
  /\ UNCHANGED drainVars

\* handleFrameDone
FrameDone(s) ==
  /\ drain = "none" /\ surfaces[s].frame
  /\ Becomes(s, [surfaces[s] EXCEPT !.frame = FALSE, !.work = TRUE, !.tick = TRUE])
  /\ UNCHANGED drainVars

\* cancelQueuedFrameWork, cancelQueuedRender
Without(queue, s) ==
  IF Contains(queue, s) THEN RemoveAt(queue, CHOOSE i \in DOMAIN queue : queue[i] = s) ELSE queue

\* ~Surface: the surface leaves the queues.
Destroy_StaysQueued(s) ==
  /\ drain = "none" /\ Lives(s)
  /\ surfaces' = [surfaces EXCEPT ![s] = Gone]
  /\ renderQueue' = Without(renderQueue, s)
  /\ UNCHANGED <<workQueue, drainVars>>
Destroy(s) ==
  /\ drain = "none" /\ Lives(s)
  /\ surfaces' = [surfaces EXCEPT ![s] = Gone]
  /\ workQueue' = Without(workQueue, s)
  /\ renderQueue' = Without(renderQueue, s)
  /\ UNCHANGED drainVars

-----------------------------------------------------------------------------
(* The drains. *)

\* The end of processQueuedFrameWork, and of renderQueuedFrame with render().
Finished_KeepsRedraw(s, r) ==
  IF ~Wants(r) THEN r
  ELSE IF drain = "work" THEN [r EXCEPT !.render = TRUE]
  ELSE [r EXCEPT !.frame = TRUE, !.dirty = FALSE]
Finished(s, r) ==
  IF ~Wants(r) THEN r
  ELSE IF drain = "work" THEN [r EXCEPT !.render = TRUE]
  ELSE [r EXCEPT !.frame = TRUE, !.redraw = FALSE, !.dirty = FALSE]

Finish(s, r) ==
  /\ Becomes(s, Finished(s, r))
  /\ current' = NoSurface /\ at' = ""

\* preparePendingFrame, and the rest when there is nothing to prepare.
Prepare(s, r) ==
  \/ /\ r.prepare
     /\ Becomes(s, [r EXCEPT !.prepare = FALSE])
     /\ current' = s /\ at' = "prepare"
  \/ /\ ~r.prepare
     /\ Finish(s, r)

\* drainPendingFrameWork and drainPendingRenders move their queue away; the
\* second follows the first.
Begin ==
  /\ drain = "none" /\ workQueue \o renderQueue # <<>>
  /\ drain' = "work" /\ batch' = workQueue /\ workQueue' = <<>>
  /\ UNCHANGED <<surfaces, renderQueue, current, at>>

BeginRenders ==
  /\ drain = "work" /\ batch = <<>> /\ current = NoSurface
  /\ drain' = "render" /\ batch' = renderQueue /\ renderQueue' = <<>>
  /\ UNCHANGED <<surfaces, workQueue, current, at>>

End ==
  /\ drain = "render" /\ batch = <<>> /\ current = NoSurface
  /\ drain' = "none"
  /\ UNCHANGED <<surfaces, queueVars, batch, current, at>>

\* processQueuedFrameWork for the next surface whose flag is still set.
Work ==
  LET s == Head(batch)
      r == surfaces[s] IN
  /\ drain = "work" /\ current = NoSurface /\ batch # <<>>
  /\ batch' = Tail(batch)
  /\ \/ /\ ~r.work
        /\ UNCHANGED <<surfaces, queueVars, current, at>>
     \/ /\ r.work /\ r.state = "configured" /\ r.tick
        /\ Becomes(s, [r EXCEPT !.work = FALSE, !.tick = FALSE])
        /\ current' = s /\ at' = "tick"
     \/ /\ r.work /\ r.state = "configured" /\ ~r.tick
        /\ Prepare(s, [r EXCEPT !.work = FALSE])
  /\ UNCHANGED drain

\* The tick of a surface is over; it has moved the scene's animations on, some
\* of which may have ended.
Ticked ==
  LET r == surfaces[current] IN
  /\ at = "tick"
  /\ \E animating \in {r.animating, FALSE} :
       Prepare(current, [r EXCEPT !.animating = animating, !.dirty = r.dirty \/ r.animating])
  /\ UNCHANGED <<drain, batch>>

Prepared ==
  /\ at = "prepare"
  /\ Finish(current, surfaces[current])
  /\ UNCHANGED <<drain, batch>>

\* renderQueuedFrame for the next surface whose flag is still set.
Render ==
  LET s == Head(batch)
      r == surfaces[s] IN
  /\ drain = "render" /\ current = NoSurface /\ batch # <<>>
  /\ batch' = Tail(batch)
  /\ \/ /\ ~r.render
        /\ UNCHANGED <<surfaces, queueVars, current, at>>
     \/ /\ r.render
        /\ Prepare(s, [r EXCEPT !.render = FALSE])
  /\ UNCHANGED drain

DrainStep == Begin \/ BeginRenders \/ End \/ Work \/ Ticked \/ Prepared \/ Render

-----------------------------------------------------------------------------
SurfaceCode(s) ==
  \/ RequestPrepare(s) \/ RequestRedraw(s) \/ Change(s) \/ Animate(s) \/ RequestFrameTick(s)
  \/ Create(s) \/ Configure(s) \/ FrameDone(s) \/ Destroy(s)

FrameNext == DrainStep \/ \E s \in Surfaces : SurfaceCode(s)

\* The loop drains what is queued; the compositor answers frame callbacks, and
\* the loop dispatches its answers between two drains, which come again and again.
FrameSpec ==
  /\ FrameInit /\ [][FrameNext]_frameVars
  /\ WF_frameVars(DrainStep)
  /\ \A s \in Surfaces : SF_frameVars(FrameDone(s))

-----------------------------------------------------------------------------
(* Properties. *)

FrameTypeOK ==
  /\ \A s \in Surfaces :
       /\ surfaces[s].state \in {"gone", "running", "configured"}
       /\ Lives(s) \/ surfaces[s] = Gone
  /\ IsInjective(workQueue) /\ IsInjective(renderQueue) /\ IsInjective(batch)
  /\ (at = "") = (current = NoSurface) /\ (drain = "none" => batch = <<>> /\ at = "")

\* The flags of a surface say where it is queued.
QueuesMatchFlags ==
  \A s \in Surfaces :
    /\ surfaces[s].work => Contains(workQueue, s) \/ (drain = "work" /\ Contains(batch, s))
    /\ surfaces[s].render => Contains(renderQueue, s) \/ (drain = "render" /\ Contains(batch, s))
    /\ surfaces[s].tick => surfaces[s].work

\* No queue and no drain reaches a surface that has been destroyed.
QueuedAreAlive ==
  \A s \in Range(workQueue) \cup Range(renderQueue) \cup Range(batch) : Lives(s)

\* The queues of pointers and the flags that guard them agree at every moment of
\* every drain, whatever handlers and callbacks ask for, create and destroy.
FrameInv == FrameTypeOK /\ QueuesMatchFlags /\ QueuedAreAlive

\* Nothing that was asked for is forgotten: the loop sleeps on a surface that
\* has something to prepare, to draw or to animate only while the compositor
\* owes it a frame.
NothingIsForgotten ==
  drain = "none" =>
    \A s \in Surfaces :
      LET r == surfaces[s] IN
      r.state = "configured" /\ (r.prepare \/ Wants(r)) => r.frame \/ r.work \/ r.render

\* What a surface was asked to prepare or to draw is prepared and drawn.
RequestsAreMet ==
  \A s \in Surfaces :
    /\ surfaces[s].state = "configured" /\ surfaces[s].prepare
         ~> ~surfaces[s].prepare \/ ~Lives(s)
    /\ surfaces[s].state = "configured" /\ surfaces[s].redraw
         ~> ~surfaces[s].redraw \/ ~Lives(s)

=============================================================================
