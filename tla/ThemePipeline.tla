----------------------------- MODULE ThemePipeline -----------------------------
(***************************************************************************)
(* From a change of the configuration to the files of other applications:  *)
(* app/application.cpp makes the theme service's resolved callback hand the *)
(* theme to the template apply service, whose worker renders it into the   *)
(* output files while the main thread goes on.  The call is synchronous: a *)
(* step of the theme service that sends a theme is also the Apply of the   *)
(* template apply service.  Shutdown is left to TemplateApplyService.      *)
(*                                                                         *)
(* A definition D_Fault just before D is D with a fault put in; it is used *)
(* to show that a property can fail.                                       *)
(***************************************************************************)
EXTENDS ThemeService

CONSTANTS Outputs, MaxRequests

ASSUME PipelineAssumption == Outputs \subseteq Nat /\ MaxRequests \in Nat \ {0}

VARIABLES nextGeneration, pending, shutdown, at, request, todo, current, wrote,
          disk, applied, failed, unhooked, late

T == INSTANCE TemplateApplyService WITH Contents <- Themes, Nothing <- None, Flaky <- {}

templateVars == <<nextGeneration, pending, shutdown, at, request, todo, current, wrote,
                  disk, applied, failed, unhooked, late>>

pipelineVars == <<vars, templateVars>>

\* The first request is made at startup, with whatever the files hold.
PipelineInit ==
  /\ Init
  /\ nextGeneration = 1 /\ pending = T!Request(1, latest, Outputs) /\ shutdown = FALSE
  /\ at = "wait" /\ request = T!NoRequest /\ todo = {} /\ current = 0 /\ wrote = FALSE
  /\ disk \in [Outputs -> {Fallback, None}]
  /\ applied = [o \in Outputs |-> 0] /\ failed = {} /\ late = 0
  /\ unhooked = [o \in Outputs |-> 0]

\* The resolved callback of a step that sends a theme passes it on.
PassOn_OnlyInFades ==
  IF svc'.sends # svc.sends /\ svc'.fading THEN T!Apply(svc'.sent, Outputs) ELSE UNCHANGED templateVars
PassOn ==
  IF svc'.sends # svc.sends THEN T!Apply(svc'.sent, Outputs) ELSE UNCHANGED templateVars

WorkerStep == T!Work /\ UNCHANGED vars

PipelineNext ==
  \/ \E theme \in Themes, moving \in Motions : ConfigReload(theme, moving) /\ PassOn
  \/ TickIdle /\ PassOn
  \/ TickFade /\ PassOn
  \/ TickLast /\ PassOn
  \/ RunDeferred /\ PassOn
  \/ \E name \in Community, success \in BOOLEAN : DownloadEnds(name, success) /\ PassOn
  \/ CallbackFails /\ PassOn
  \/ CallbackResolves /\ PassOn
  \/ WorkerStep

\* The fairness of ThemeService and a worker that is scheduled.
PipelineSpec ==
  /\ PipelineInit /\ [][PipelineNext]_pipelineVars
  /\ WF_pipelineVars(TickIdle /\ PassOn) /\ WF_pipelineVars(TickLast /\ PassOn)
  /\ WF_pipelineVars(RunDeferred /\ PassOn)
  /\ WF_pipelineVars(\E name \in Community, success \in BOOLEAN :
                       DownloadEnds(name, success) /\ PassOn)
  /\ WF_pipelineVars(Callback /\ PassOn)
  /\ WF_pipelineVars(WorkerStep)

-----------------------------------------------------------------------------
(* Properties. *)

\* The theme service has nothing left to send and no fade to finish.
ThemeIdle == svc.pending = None /\ svc.deferred = {} /\ ~svc.fading

\* When both services are idle the screen and every output file agree, however
\* resolves, deferred calls and renders have crossed.
IdleAgrees ==
  ThemeIdle /\ T!Quiescent =>
    /\ svc.shown = PaletteOf[latest]
    /\ \A o \in Outputs : disk[o] = latest

\* Nothing is left without what ends it, and what has ended agrees.
PipelineInv == ThemeInv /\ IdleAgrees

\* The files end up with the theme of the configuration.
FilesFollowTheme == <>[](\A o \in Outputs : disk[o] = Resolved(configured, cached))

=============================================================================
