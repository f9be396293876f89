----------------------------- MODULE ThemeService -----------------------------
(***************************************************************************)
(* theme/theme_service.cpp: the theme the configuration asks for is        *)
(* resolved to a palette, the shell fades to it, and the resolved theme is *)
(* passed on to the templates and hooks once the fade has begun.  With it  *)
(* come the one animation of its render/animation/animation_manager.cpp,   *)
(* the motion switch that drops animations (motion_service.cpp), the timer *)
(* that ticks the fade, the deferred calls, and the downloads of community *)
(* palettes (net/http_client.cpp: one transfer per destination, whose      *)
(* callbacks run one after the other).                                     *)
(*                                                                         *)
(* A theme is what resolves to one palette: the built-in palette or the    *)
(* wallpaper together with the mode.  Everything here runs on the main     *)
(* thread, one handler at a time.                                          *)
(*                                                                         *)
(* A definition D_Fault just before D is D with a fault put in; it is used *)
(* to show that a property can fail.                                       *)
(***************************************************************************)
EXTENDS Naturals, FiniteSets

CONSTANTS
  Themes,       (* the themes a configuration may ask for                   *)
  Community,    (* those that need a downloaded palette                     *)
  Fallback,     (* the built-in theme used until there is one               *)
  PaletteOf,    (* the palette of each theme                                *)
  Mixed,        (* a palette between two others                             *)
  None,         (* no theme                                                 *)
  Motions,      (* the values of shell.animation.enabled                    *)
  MaxEvents     (* bound on the changes of the configuration                *)

ASSUME ThemesAssumption ==
  /\ Community \subseteq Themes /\ Fallback \in Themes \ Community
  /\ DOMAIN PaletteOf = Themes
  /\ \A t \in Themes : PaletteOf[t] # Mixed
  /\ None \notin Themes
  /\ Motions \subseteq BOOLEAN
  /\ MaxEvents \in Nat

VARIABLES
  configured,  (* the theme of the configuration                            *)
  motion,      (* MotionService::m_enabled                                  *)
  svc,         (* the theme service                                         *)
  inflight,    (* m_inflightCommunityName                                   *)
  cached,      (* the community palettes in the cache directory             *)
  waiting,     (* callbacks that wait for the transfer of each palette      *)
  calling,     (* a transfer has ended and its callbacks are being called   *)
  latest,      (* history: the theme resolved last                          *)
  events       (* history: changes of the configuration so far              *)

vars == <<configured, motion, svc, inflight, cached, waiting, calling, latest, events>>

\* shown: the palette on screen; from, target: the ends of the fade; fading:
\* m_transitionAnimId is not 0; animated: the animation manager has an entry
\* with that id; ticking: m_transitionTimer; flushed:
\* m_transitionResolvedCallbackFlushed; pending: m_pendingResolvedPalette; gen:
\* m_resolvedCallbackGeneration; deferred: the deferred calls with their
\* generations; sent, sends: the last theme passed to the resolved callback,
\* and how many there were; dropped: history, whether the last fade that was
\* started is one that turning motion off has dropped.
Service ==
  [shown : {PaletteOf[t] : t \in Themes} \cup {Mixed},
   from : {PaletteOf[t] : t \in Themes} \cup {Mixed},
   target : {PaletteOf[t] : t \in Themes},
   fading : BOOLEAN, animated : BOOLEAN, ticking : BOOLEAN, flushed : BOOLEAN,
   pending : Themes \cup {None}, gen : Nat,
   deferred : SUBSET [gen : Nat, theme : Themes],
   sent : Themes, sends : Nat, dropped : BOOLEAN]

Idle == [name |-> None, success |-> FALSE, left |-> 0]

-----------------------------------------------------------------------------
(* The steps of the service, as functions of its state s. *)

\* m_resolvedCallback
Send(s, theme) == [s EXCEPT !.sent = theme, !.sends = @ + 1]

\* queueResolvedCallback
Queue(s, theme) == [s EXCEPT !.pending = theme, !.gen = @ + 1]

\* flushResolvedCallback
Flush(s, defer) ==
  IF s.pending = None THEN s
  ELSE IF defer
  THEN [s EXCEPT !.pending = None,
                 !.deferred = @ \cup {[gen |-> s.gen, theme |-> s.pending]}]
  ELSE Send([s EXCEPT !.pending = None], s.pending)

\* The setter of the fade: shows a palette and, the first time, lets the
\* templates and hooks know.
Shown(s, palette) ==
  LET next == [s EXCEPT !.shown = palette, !.flushed = TRUE] IN
  IF s.flushed THEN next ELSE Flush(next, TRUE)

\* finishTransition(false), the end of the animation.
Finish(s) ==
  Flush([s EXCEPT !.fading = FALSE, !.ticking = FALSE, !.shown = s.target], FALSE)

\* What lies between the ends of a fade.
Between(s) == IF s.from = s.target THEN s.target ELSE Mixed

\* m_animations.animate: without motion the setter and the end run at once.
Animate(s, moving) ==
  IF moving
  THEN [s EXCEPT !.fading = TRUE, !.animated = TRUE, !.ticking = TRUE]
  ELSE Finish(Shown(s, s.target))

\* startTransition
StartTransition_CancelsFirst(s, palette, moving) ==
  IF ~s.fading /\ s.shown = palette THEN Flush(s, FALSE)
  ELSE IF s.fading /\ s.target = palette THEN Flush([s EXCEPT !.animated = FALSE], TRUE)
  ELSE Animate([s EXCEPT !.from = s.shown, !.target = palette, !.flushed = FALSE,
                         !.animated = FALSE, !.fading = FALSE, !.dropped = FALSE], moving)
StartTransition(s, palette, moving) ==
  IF ~s.fading /\ s.shown = palette THEN Flush(s, FALSE)
  ELSE IF s.fading /\ s.target = palette THEN Flush(s, TRUE)
  ELSE Animate([s EXCEPT !.from = s.shown, !.target = palette, !.flushed = FALSE,
                         !.animated = FALSE, !.fading = FALSE, !.dropped = FALSE], moving)

\* The palette a theme resolves to: a community palette that is not in the
\* cache gives way to the built-in one.
Resolved(theme, cache) == IF theme \in Community \ cache THEN Fallback ELSE theme

\* startCommunityDownload, unless that palette is being fetched.
Download(theme, cache, name) ==
  IF theme \in Community \ cache /\ name # theme
  THEN inflight' = theme /\ waiting' = [waiting EXCEPT ![theme] = @ + 1]
  ELSE inflight' = name /\ UNCHANGED waiting

\* resolveAndSet(true) of the theme, with the cache and the name of the
\* download in progress as they are when it is called.
ResolveAndSet(s, theme, cache, name, moving) ==
  LET resolved == Resolved(theme, cache) IN
  /\ latest' = resolved
  /\ svc' = StartTransition(Queue(s, resolved), PaletteOf[resolved], moving)
  /\ Download(theme, cache, name)

-----------------------------------------------------------------------------
(* The program. *)

\* apply() at startup: the palette and the templates are set at once.
Init ==
  /\ configured \in Themes /\ motion \in Motions
  /\ cached = {} /\ calling = Idle /\ events = 0
  /\ inflight = (IF configured \in Community THEN configured ELSE None)
  /\ waiting = [t \in Community |-> IF t = configured THEN 1 ELSE 0]
  /\ latest = Resolved(configured, cached)
  /\ svc = [shown |-> PaletteOf[latest], from |-> PaletteOf[latest],
            target |-> PaletteOf[latest], fading |-> FALSE, animated |-> FALSE,
            ticking |-> FALSE, flushed |-> FALSE, pending |-> None, gen |-> 1,
            deferred |-> {}, sent |-> latest, sends |-> 1,
            dropped |-> FALSE]

\* MotionService::setEnabled drops every animation when motion is turned off.
AfterMotion(moving) ==
  IF motion /\ ~moving /\ svc.animated
  THEN [svc EXCEPT !.animated = FALSE, !.dropped = TRUE] ELSE svc

\* A reload of the configuration: its motion callback comes first, then the
\* theme is resolved again.
\* With motion as it is this is also a change of the wallpaper, of the system
\* color scheme or of the community templates.
ConfigReload(theme, moving) ==
  /\ calling = Idle /\ events < MaxEvents
  /\ events' = events + 1
  /\ configured' = theme /\ motion' = moving
  /\ ResolveAndSet(AfterMotion(moving), theme, cached, inflight, moving)
  /\ UNCHANGED <<cached, calling>>

\* tickTransition finds no animation and stops its timer.
TickIdle ==
  /\ calling = Idle /\ svc.ticking /\ ~svc.animated
  /\ svc' = [svc EXCEPT !.ticking = FALSE]
  /\ UNCHANGED <<configured, motion, inflight, cached, waiting, calling, latest, events>>

\* A tick in the course of the fade.
TickFade ==
  /\ calling = Idle /\ svc.ticking /\ svc.animated
  /\ svc' = Shown(svc, Between(svc))
  /\ UNCHANGED <<configured, motion, inflight, cached, waiting, calling, latest, events>>

\* The tick after the fade's time is over.
TickLast ==
  /\ calling = Idle /\ svc.ticking /\ svc.animated
  /\ svc' = Finish([Shown(svc, svc.target) EXCEPT !.animated = FALSE])
  /\ UNCHANGED <<configured, motion, inflight, cached, waiting, calling, latest, events>>

\* The deferred calls of one iteration: those of an older resolve do nothing.
RunDeferred_SendsAny ==
  /\ calling = Idle /\ svc.deferred # {}
  /\ \E d \in svc.deferred : svc' = Send([svc EXCEPT !.deferred = {}], d.theme)
  /\ UNCHANGED <<configured, motion, inflight, cached, waiting, calling, latest, events>>
RunDeferred ==
  /\ calling = Idle /\ svc.deferred # {}
  /\ LET rest == [svc EXCEPT !.deferred = {}] IN
     \/ \E d \in svc.deferred : d.gen = svc.gen /\ svc' = Send(rest, d.theme)
     \/ (\A d \in svc.deferred : d.gen # svc.gen) /\ svc' = rest
  /\ UNCHANGED <<configured, motion, inflight, cached, waiting, calling, latest, events>>

\* A transfer ends; a file that was fetched is in the cache, and does not have
\* to be a palette.
DownloadEnds(name, success) ==
  /\ calling = Idle /\ waiting[name] > 0
  /\ calling' = [name |-> name, success |-> success, left |-> waiting[name]]
  /\ waiting' = [waiting EXCEPT ![name] = 0]
  /\ UNCHANGED <<configured, motion, svc, inflight, cached, latest, events>>

\* The callbacks of the transfer that are left after this one.
Called == IF calling.left = 1 THEN Idle ELSE [calling EXCEPT !.left = @ - 1]

\* The name of the download in progress once the callback of one has run.
Cleared == IF inflight = calling.name THEN None ELSE inflight

\* The callback when the transfer failed or its file does not parse and is removed.
CallbackFails ==
  /\ calling # Idle /\ ~calling.success
  /\ calling' = Called
  /\ inflight' = Cleared
  /\ cached' = cached \ {calling.name}
  /\ UNCHANGED <<configured, motion, svc, waiting, latest, events>>

\* The callback when the palette has arrived: the theme, which may be another
\* one by now, is resolved again.
CallbackResolves_Never ==
  /\ calling # Idle /\ calling.success
  /\ calling' = Called
  /\ cached' = cached \cup {calling.name}
  /\ inflight' = Cleared
  /\ UNCHANGED <<configured, motion, svc, waiting, latest, events>>
CallbackResolves ==
  /\ calling # Idle /\ calling.success
  /\ calling' = Called
  /\ cached' = cached \cup {calling.name}
  /\ ResolveAndSet(svc, configured, cached', Cleared, motion)
  /\ UNCHANGED <<configured, motion, events>>

Callback == CallbackFails \/ CallbackResolves

Next ==
  \/ \E theme \in Themes, moving \in Motions : ConfigReload(theme, moving)
  \/ TickIdle \/ TickFade \/ TickLast
  \/ RunDeferred
  \/ \E name \in Community, success \in BOOLEAN : DownloadEnds(name, success)
  \/ Callback

\* The main loop keeps dispatching timers, deferred calls and transfers, the
\* transfers time out, and a fade takes 400 ms.
Fairness ==
  /\ WF_vars(TickIdle) /\ WF_vars(TickLast) /\ WF_vars(RunDeferred)
  /\ WF_vars(\E name \in Community, success \in BOOLEAN : DownloadEnds(name, success))
  /\ WF_vars(Callback)

Spec == Init /\ [][Next]_vars /\ Fairness

-----------------------------------------------------------------------------
(* Properties. *)

TypeOK ==
  /\ configured \in Themes /\ motion \in Motions
  /\ svc \in Service
  /\ inflight \in Community \cup {None}
  /\ cached \in SUBSET Community
  /\ waiting \in [Community -> Nat]
  /\ calling \in [name : Community \cup {None}, success : BOOLEAN, left : Nat]
  /\ latest \in Themes

\* Templates and hooks are never given a theme that another resolve has
\* replaced, although the call that gives it to them may be deferred.
OnlyLatestIsSent == [][svc'.sends # svc.sends => svc'.sent = latest']_vars

\* A palette being fetched has a callback that will say how it ended.
InflightHasCallback ==
  inflight # None => waiting[inflight] > 0 \/ calling.name = inflight

\* A fade that is not over is being ticked, unless motion was turned off in its
\* course: nothing else leaves the screen between two palettes.
FadeIsTicked == svc.shown = Mixed => svc.dropped \/ (svc.animated /\ svc.ticking)

\* Both, and the types: no download and no fade is left without what ends it.
ThemeInv == TypeOK /\ InflightHasCallback /\ FadeIsTicked

\* onConfigReload "resolves the target theme and cross-fades to it": when the
\* configuration stays, the screen ends up with the palette of its theme, or the
\* fallback while its download has not succeeded, unless the last fade is one
\* that turning motion off has dropped: that one leaves the screen as it is.
ThemeIsShownOrDropped ==
  <>[](svc.dropped \/ svc.shown = PaletteOf[Resolved(configured, cached)])

=============================================================================
