---------------------------- MODULE PanelManager ----------------------------
(***************************************************************************)
(* shell/panel/panel_manager.cpp: the one panel that may be open, with its *)
(* close animation and the deferred calls that finish it, what catches     *)
(* clicks outside it, and the gap it has the bar leave in its shadow.  With *)
(* it the one panel that is not only a view: the polkit prompt, which      *)
(* cancels the request of dbus/polkit/polkit_agent.cpp when it is closed   *)
(* and is opened and closed by the agent's state (app/application.cpp).    *)
(* The callbacks nest: closing a prompt may call closePanel again.         *)
(*                                                                         *)
(* Surfaces do not dispatch while they are initialized, so m_inTransition  *)
(* is never seen set.  Geometry, popups of a panel and its contents are    *)
(* left out.  libpolkit-agent is the environment: it starts, asks, and     *)
(* completes sessions as it likes.                                         *)
(*                                                                         *)
(* A definition D_Fault just before D is D with a fault put in; it is used *)
(* to show that a property can fail.                                       *)
(***************************************************************************)
EXTENDS Naturals, Sequences, SequencesExt

CONSTANTS
  Panels,       (* the ids of the panels but the prompt's                    *)
  Prompt,       (* "polkit", the id of the prompt's                          *)
  None,         (* no panel                                                 *)
  MaxRequests,  (* bound on the requests for authentication                 *)
  MaxEvents     (* bound on what the user, the settings and the outputs do  *)

ASSUME PanelAssumption ==
  /\ Prompt \notin Panels /\ None \notin Panels \cup {Prompt}
  /\ MaxRequests \in Nat /\ MaxEvents \in Nat

VARIABLES
  shell,   (* the PanelManager, the agent and the deferred calls            *)
  motion,  (* MotionService's m_enabled                                     *)
  grabs,   (* the compositor has focus grabs, as Hyprland                   *)
  asked,   (* the requests so far, by number                                *)
  events,  (* how many of the MaxEvents events there were                   *)
  seen,    (* history: the requests whose prompt was open                   *)
  unseen,  (* history: the requests that found a prompt that was leaving    *)
  dropped  (* history: the requests that closing the prompt has cancelled   *)

vars == <<shell, motion, grabs, asked, events, seen, unseen, dropped>>

Requests == 1 .. MaxRequests

\* panel: m_activePanel; surface: m_surface, "dead" when the compositor has
\* closed it; scene: m_sceneRoot is built; input: the dispatcher has it; closing,
\* gen: m_closing and m_destroyGeneration; anim: the reveal animation, and due
\* the generation its end was given; attached: m_attachedToBar; gap: the bar has
\* been given a geometry; shield, grab: the click shields and the focus grab.
\* request: the agent's pending one, 0 for none; session: it has a session;
\* asks: isResponseRequired.  calls: the deferred calls.
\* History: opened, the panels opened so far; astray, why m_closing is set
\* although nothing will end it.
Shell ==
  [panel : Panels \cup {Prompt, None}, surface : {"none", "mapped", "dead"},
   scene : BOOLEAN, input : BOOLEAN, closing : BOOLEAN, gen : Nat,
   anim : {"none", "open", "close"}, due : Nat, attached : BOOLEAN, gap : BOOLEAN,
   shield : BOOLEAN, grab : BOOLEAN,
   request : Requests \cup {0}, session : BOOLEAN, asks : BOOLEAN,
   calls : Seq([kind : {"grab", "destroy"}, gen : Nat, panel : Nat]),
   opened : Nat, astray : {"no", "over", "still"}]

-----------------------------------------------------------------------------
(* The handlers, as functions of a state s of the shell.                    *)

IsOpen(s) == s.surface # "none"
IsOpenPanel(s, id) == IsOpen(s) /\ s.panel = id

CallLater(s, kind) ==
  [s EXCEPT !.calls = Append(@, [kind |-> kind, gen |-> s.gen, panel |-> s.opened])]

\* deactivateOutsideClickHandlers
Deactivate(s) == [s EXCEPT !.shield = FALSE, !.grab = FALSE]

\* closePanel: handlers and input are off, and a scene is animated away; gone is
\* what destroyPanel makes of a panel without one.  Without motion the animation
\* is over at once.
Leave(s) == [Deactivate(s) EXCEPT !.input = FALSE, !.closing = TRUE]
FadeOut(s) ==
  LET next == [s EXCEPT !.gen = @ + 1]
  IN IF motion THEN [next EXCEPT !.anim = "close", !.due = next.gen]
     ELSE CallLater([next EXCEPT !.anim = "none", !.gap = FALSE], "destroy")
Close(s, gone) ==
  IF ~IsOpen(s) \/ s.closing THEN s ELSE IF s.scene THEN FadeOut(Leave(s)) ELSE gone

\* destroyPanel up to onClose, and after it.  The scene takes its animations
\* along; m_closing stays as onClose leaves it.
Dismantle(s) ==
  [Deactivate(s) EXCEPT !.gap = FALSE, !.anim = "none", !.closing = FALSE, !.input = FALSE]
Reset(s) ==
  [s EXCEPT !.panel = None, !.surface = "none", !.scene = FALSE, !.anim = "none",
            !.attached = FALSE, !.astray = "no"]

\* clearPending
ClearPending(s) == [s EXCEPT !.request = 0, !.session = FALSE, !.asks = FALSE]

\* cancelRequest, called while the prompt is being destroyed: the state callback is
\* told that nothing is pending, and closes the prompt.  A destroyPanel in it has
\* nothing left to cancel.
CancelRequest(s) ==
  LET cleared == ClearPending(s) IN Close(cleared, Reset(Dismantle(Leave(cleared))))

\* PolkitPanel::onClose
OnClose_KeepsRequest(s) == s
OnClose(s) == IF s.panel = Prompt /\ s.request # 0 THEN CancelRequest(s) ELSE s

DestroyPanel(s) == Reset(OnClose(Dismantle(s)))
ClosePanel(s) == Close(s, DestroyPanel(Leave(s)))

\* What openPanel does first when a panel is open or closing.
Preempt_KeepsGeneration(s) ==
  IF IsOpen(s) \/ s.closing THEN DestroyPanel([s EXCEPT !.closing = FALSE]) ELSE s
Preempt(s) ==
  IF IsOpen(s) \/ s.closing
  THEN DestroyPanel([s EXCEPT !.gen = @ + 1, !.closing = FALSE]) ELSE s

\* openPanel, attached to the bar or not; the surface may fail to initialize.
OpenPanel_LeavesShield(s, id, attach, ok) ==
  LET clear == Preempt(s)
      made == [clear EXCEPT !.panel = id, !.surface = "mapped", !.attached = attach,
                            !.shield = ~grabs, !.opened = @ + 1,
                            !.astray = IF clear.closing THEN "over" ELSE "no"]
  IN IF ok THEN CallLater(made, "grab") ELSE [clear EXCEPT !.shield = ~grabs]
OpenPanel(s, id, attach, ok) ==
  LET clear == Preempt(s)
      made == [clear EXCEPT !.panel = id, !.surface = "mapped", !.attached = attach,
                            !.shield = ~grabs, !.opened = @ + 1,
                            !.astray = IF clear.closing THEN "over" ELSE "no"]
  IN IF ok THEN CallLater(made, "grab") ELSE clear

\* togglePanel; a panel that is closing counts as closed.
TogglePanel(s, id, attach, ok) ==
  IF IsOpenPanel(s, id) /\ ~s.closing THEN ClosePanel(s) ELSE OpenPanel(s, id, attach, ok)

\* The right button on the bar; a panel that is closing counts as open.
BarButton(s, id, attach, ok) ==
  IF IsOpenPanel(s, id) THEN ClosePanel(s) ELSE OpenPanel(s, id, attach, ok)

\* The state callback of the agent; refreshing the prompt changes nothing here.
StateChanged(s, ok) ==
  IF s.request = 0 THEN IF IsOpenPanel(s, Prompt) THEN ClosePanel(s) ELSE s
  ELSE IF s.asks /\ ~IsOpenPanel(s, Prompt) THEN OpenPanel(s, Prompt, FALSE, ok) ELSE s

-----------------------------------------------------------------------------
Happens == events < MaxEvents /\ events' = events + 1

\* The outcome of a handler; what has been cancelled by onClose is the request
\* that is gone although nobody took it from the agent.
Becomes(s, taken) ==
  /\ shell' = s
  /\ dropped' = dropped \cup ({shell.request} \ ({0, s.request} \cup taken))
  /\ seen' = IF IsOpenPanel(s, Prompt) /\ s.surface = "mapped" /\ ~s.closing
             THEN seen \cup ({s.request} \ {0}) ELSE seen

Init ==
  /\ shell = [panel |-> None, surface |-> "none", scene |-> FALSE, input |-> FALSE,
              closing |-> FALSE, gen |-> 0, anim |-> "none", due |-> 0,
              attached |-> FALSE, gap |-> FALSE, shield |-> FALSE, grab |-> FALSE,
              request |-> 0, session |-> FALSE, asks |-> FALSE, calls |-> <<>>,
              opened |-> 0, astray |-> "no"]
  /\ motion \in BOOLEAN /\ grabs \in BOOLEAN /\ asked = 0 /\ events = 0
  /\ seen = {} /\ unseen = {} /\ dropped = {}

rest == <<motion, grabs, asked, unseen>>

\* A widget of the bar, a shortcut or the command panel-toggle.  The prompt is
\* never attached to the bar.
Toggle(id, attach, ok) ==
  /\ Happens
  /\ id = Prompt => ~attach
  /\ \/ Becomes(TogglePanel(shell, id, attach, ok), {})
     \/ id # Prompt /\ Becomes(BarButton(shell, id, attach, ok), {})
  /\ UNCHANGED rest

\* Escape, a close button, a click outside, or the end of the focus grab.
UserCloses ==
  /\ Happens
  /\ IsOpen(shell)
  /\ Becomes(ClosePanel(shell), {})
  /\ UNCHANGED rest

\* buildScene in the first frame: onOpen, and the reveal animation.
BuildScene ==
  /\ shell.surface = "mapped" /\ ~shell.scene
  /\ Becomes([shell EXCEPT !.scene = TRUE, !.input = TRUE,
                           !.anim = IF motion THEN "open" ELSE "none",
                           !.gap = ~motion /\ shell.attached], {})
  /\ UNCHANGED <<rest, events>>

\* A frame of the reveal animation of an attached panel moves the bar's gap.
Reveal ==
  /\ shell.surface = "mapped" /\ shell.anim = "open" /\ shell.attached /\ ~shell.gap
  /\ Becomes([shell EXCEPT !.gap = TRUE], {})
  /\ UNCHANGED <<rest, events>>

OpenEnds ==
  /\ shell.surface = "mapped" /\ shell.anim = "open"
  /\ Becomes([shell EXCEPT !.anim = "none", !.gap = shell.attached], {})
  /\ UNCHANGED <<rest, events>>

\* The close animation is over, and destroyPanel is put off.
CloseEnds_Stale ==
  /\ shell.surface = "mapped" /\ shell.anim = "close"
  /\ Becomes([shell EXCEPT !.anim = "none", !.gap = FALSE,
                           !.calls = Append(@, [kind |-> "destroy", gen |-> shell.due - 1,
                                                panel |-> shell.opened])], {})
  /\ UNCHANGED <<rest, events>>
CloseEnds ==
  /\ shell.surface = "mapped" /\ shell.anim = "close"
  /\ Becomes([shell EXCEPT !.anim = "none", !.gap = FALSE,
                           !.calls = Append(@, [kind |-> "destroy", gen |-> shell.due,
                                                panel |-> shell.opened])], {})
  /\ UNCHANGED <<rest, events>>

\* The next deferred call, which does nothing when its generation is over.
RunCall ==
  LET call == Head(shell.calls)
      s == [shell EXCEPT !.calls = Tail(@)] IN
  /\ shell.calls # <<>>
  /\ Becomes(CASE call.gen # s.gen -> s
               [] call.gen = s.gen /\ call.kind = "destroy" -> DestroyPanel(s)
               [] call.gen = s.gen /\ call.kind = "grab" ->
                    IF IsOpen(s) /\ grabs THEN [s EXCEPT !.grab = TRUE] ELSE s, {})
  /\ UNCHANGED <<rest, events>>

\* MotionService::setEnabled; turning it off drops the animations.
SwitchMotion ==
  /\ Happens
  /\ motion' = ~motion
  /\ Becomes(IF ~motion THEN shell
             ELSE [shell EXCEPT !.anim = "none",
                                !.astray = IF shell.anim = "close" THEN "still" ELSE @], {})
  /\ UNCHANGED <<grabs, asked, unseen>>

\* The output goes: its bar is gone, the surface gets no more frames, and the
\* panel manager is not told.
OutputGoes ==
  /\ Happens
  /\ shell.surface = "mapped"
  /\ Becomes([shell EXCEPT !.surface = "dead", !.gap = FALSE], {})
  /\ UNCHANGED rest

\* beginAuthentication: an older request is given up without a word.  The session
\* starts or not; a request without identities is refused.
Initiate(outcome) ==
  LET id == asked + 1
      begun == [shell EXCEPT !.request = id, !.asks = FALSE, !.session = outcome = "starts"]
      leaving == IsOpenPanel(shell, Prompt) /\ (shell.closing \/ shell.surface = "dead") IN
  /\ asked < MaxRequests /\ asked' = id
  /\ unseen' = IF leaving /\ outcome = "starts" THEN unseen \cup {id} ELSE unseen
  /\ Becomes(CASE outcome = "starts" -> StateChanged(begun, TRUE)
               [] outcome = "fails" -> StateChanged(ClearPending(begun), TRUE)
               [] outcome = "refused" -> ClearPending(shell),
             {shell.request})
  /\ UNCHANGED <<motion, grabs, events>>

\* The session asks for the password, or has something to tell.
SessionSpeaks(asks, ok) ==
  /\ shell.session
  /\ Becomes(StateChanged([shell EXCEPT !.asks = @ \/ asks], ok), {})
  /\ UNCHANGED <<rest, events>>

\* PolkitPanel::submit
Submit ==
  /\ IsOpenPanel(shell, Prompt) /\ shell.surface = "mapped" /\ shell.input
  /\ shell.asks /\ shell.session
  /\ Becomes(StateChanged([shell EXCEPT !.asks = FALSE], TRUE), {})
  /\ UNCHANGED <<rest, events>>

\* handleCompleted; after a failure the session is started again, or not.
Completes(gained, again) ==
  LET failed == [shell EXCEPT !.asks = FALSE] IN
  /\ Happens
  /\ shell.session
  /\ IF gained \/ ~again
     THEN Becomes(StateChanged(ClearPending(shell), TRUE), {shell.request})
     ELSE Becomes(StateChanged(failed, TRUE), {})
  /\ UNCHANGED rest

\* cancelFromAuthority
AuthorityCancels ==
  /\ Happens
  /\ shell.request # 0
  /\ Becomes(StateChanged(ClearPending(shell), TRUE), {shell.request})
  /\ UNCHANGED rest

\* syncPolkitAgent, off and on again: what is pending goes without a word.
AgentRestarts ==
  /\ Happens
  /\ shell.request # 0
  /\ Becomes(ClearPending(shell), {shell.request})
  /\ UNCHANGED rest

Frames == BuildScene \/ Reveal \/ OpenEnds \/ CloseEnds

Next ==
  \/ \E id \in Panels \cup {Prompt}, attach, ok \in BOOLEAN : Toggle(id, attach, ok)
  \/ UserCloses
  \/ BuildScene \/ Reveal \/ OpenEnds \/ CloseEnds
  \/ RunCall
  \/ SwitchMotion
  \/ OutputGoes
  \/ \E outcome \in {"starts", "fails", "refused"} : Initiate(outcome)
  \/ \E asks, ok \in BOOLEAN : SessionSpeaks(asks, ok)
  \/ Submit
  \/ \E gained, again \in BOOLEAN : Completes(gained, again)
  \/ AuthorityCancels
  \/ AgentRestarts

\* A surface that is mapped gets its frames, and deferred calls are made.
Spec == Init /\ [][Next]_vars /\ WF_vars(Frames) /\ WF_vars(RunCall)

-----------------------------------------------------------------------------
\* The types, and what goes together: a surface and its panel, the scene and its
\* animation, the bar's gap and a panel attached to it; whatever is open can be
\* dismissed by a click outside, now or once the deferred grab is made.
Mapped == shell.surface = "mapped"
Queued(kind) ==
  \E i \in 1 .. Len(shell.calls) :
    shell.calls[i].kind = kind /\ shell.calls[i].gen = shell.gen
TypeOK ==
  /\ shell \in Shell
  /\ {motion, grabs} \subseteq BOOLEAN
  /\ asked \in 0 .. MaxRequests /\ events \in 0 .. MaxEvents
  /\ seen \cup unseen \cup dropped \subseteq Requests
PanelInv ==
  /\ TypeOK
  /\ IsOpen(shell) <=> shell.panel # None
  /\ shell.input \/ shell.anim # "none" => shell.scene
  /\ shell.scene => IsOpen(shell)
  /\ shell.gap => shell.attached /\ Mapped
  /\ shell.shield \/ shell.grab => IsOpen(shell)
  /\ Mapped /\ ~shell.closing => shell.shield \/ shell.grab \/ Queued("grab")

\* A deferred destroyPanel that is not out of date was put off for the panel that
\* is open now: a panel opened while another one closes is not taken down with
\* it.  (panel_manager.h: m_destroyGeneration "invalidates stale deferred
\* destroyPanel calls".)  Not so over a prompt that has cancelled its request
\* while it was preempted.
NoStaleDestroy ==
  \A i \in 1 .. Len(shell.calls) :
    /\ shell.calls[i].kind = "destroy" /\ shell.calls[i].gen = shell.gen
    /\ IsOpen(shell) /\ shell.astray # "over"
    => shell.calls[i].panel = shell.opened

\* A request whose prompt was open does not wait for a password without one, and
\* closing a prompt cancels no request but one that it has shown or one that it
\* got while it was leaving.
PromptInv ==
  /\ shell.asks /\ shell.request \in seen => IsOpenPanel(shell, Prompt)
  /\ dropped \subseteq seen \cup unseen

\* A panel that is closing on a live surface is gone in the end, unless nothing
\* was left to end it: motion switched off meanwhile, or the panel opened over a
\* prompt that was cancelling.
Closing == Mapped /\ shell.closing /\ shell.astray = "no"
ClosingEnds == Closing ~> ~Closing

\* polkit_agent.cpp: what cancelRequest cancels is "cancelled by user", so its
\* prompt was shown to the user.
CancelledByUser == dropped \subseteq seen
=============================================================================
