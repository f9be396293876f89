------------------------ MODULE TemplateApplyService ------------------------
(***************************************************************************)
(* theme/template_apply_service.cpp with the part of                       *)
(* theme/template_engine.cpp it drives: the main thread hands each resolved *)
(* theme to one worker thread through a slot that holds a single request.  *)
(* The worker renders the outputs of the request's templates one by one and *)
(* asks, between two of them, whether a newer request has been made.  The  *)
(* mutex is held only where a step reads or writes the slot and the        *)
(* generation, so the main thread may act between any two steps here.      *)
(*                                                                         *)
(* An output stands for a template entry with one output path and a post   *)
(* hook; its number is its place in the built-in, community and user       *)
(* configurations that exist and parse, which are processed in that order. *)
(* content is what a request renders to.                                   *)
(*                                                                         *)
(* A definition D_Fault just before D is D with a fault put in; it is used *)
(* to show that a property can fail.                                       *)
(***************************************************************************)
EXTENDS Naturals, FiniteSets

CONSTANTS
  Outputs,      (* the numbers of the template outputs                      *)
  Flaky,        (* the outputs whose template or file may be unusable       *)
  Contents,     (* what a request may render to                             *)
  Nothing,      (* no content                                               *)
  MaxRequests   (* bound on the requests of a behavior                      *)

ASSUME OutputsAssumption ==
  /\ Outputs \subseteq Nat
  /\ Flaky \subseteq Outputs
  /\ Nothing \notin Contents
  /\ MaxRequests \in Nat

VARIABLES
  nextGeneration,  (* m_nextGeneration                                      *)
  pending,         (* m_pendingRequest                                      *)
  shutdown,        (* m_shutdown                                            *)
  at,              (* where the worker is                                   *)
  request,         (* the request the worker has, or the last one it had    *)
  todo,            (* the outputs it still has to render                    *)
  current,         (* the output it works on                                *)
  wrote,           (* wroteAny: it changed the file of that output          *)
  disk,            (* the content of the output files                       *)
  applied,         (* history: the request each file was last rendered for  *)
  failed,          (* history: outputs the request could not render         *)
  unhooked,        (* history: the request whose change no hook has seen    *)
  late             (* history: renders by the request since it was replaced *)

mainVars == <<nextGeneration, pending, shutdown>>
workVars == <<at, request, todo, current, wrote>>
fileVars == <<disk, applied, failed, unhooked, late>>
vars == <<mainVars, workVars, fileVars>>

Request(gen, content, outputs) == [gen |-> gen, content |-> content, outputs |-> outputs]

NoRequest == Request(0, Nothing, {})

Requests == [gen : 1 .. MaxRequests, content : Contents, outputs : SUBSET Outputs]

Init ==
  /\ nextGeneration = 0 /\ pending = NoRequest /\ shutdown = FALSE
  /\ at = "wait" /\ request = NoRequest /\ todo = {} /\ current = 0 /\ wrote = FALSE
  /\ disk \in [Outputs -> Contents \cup {Nothing}]
  /\ applied = [o \in Outputs |-> 0] /\ failed = {} /\ late = 0
  /\ unhooked = [o \in Outputs |-> 0]

-----------------------------------------------------------------------------
(* The main thread. *)

\* apply: the request gets the next number and replaces one that still waits.
Apply_KeepsWaiting(content, outputs) ==
  /\ ~shutdown /\ nextGeneration < MaxRequests
  /\ nextGeneration' = nextGeneration + 1
  /\ pending' = IF pending = NoRequest THEN Request(nextGeneration + 1, content, outputs) ELSE pending
  /\ UNCHANGED <<shutdown, workVars, fileVars>>
Apply(content, outputs) ==
  /\ ~shutdown /\ nextGeneration < MaxRequests
  /\ nextGeneration' = nextGeneration + 1
  /\ pending' = Request(nextGeneration + 1, content, outputs)
  /\ UNCHANGED <<shutdown, workVars, fileVars>>

\* The destructor up to the join of the worker.
Shutdown_Resets ==
  /\ ~shutdown
  /\ shutdown' = TRUE
  /\ pending' = NoRequest
  /\ nextGeneration' = 0
  /\ UNCHANGED <<workVars, fileVars>>
Shutdown ==
  /\ ~shutdown
  /\ shutdown' = TRUE
  /\ pending' = NoRequest
  /\ UNCHANGED <<nextGeneration, workVars, fileVars>>

-----------------------------------------------------------------------------
(* The worker thread. *)

\* workerLoop returns when the shutdown flag wakes it.
Exit ==
  /\ at = "wait" /\ shutdown
  /\ at' = "exited"
  /\ UNCHANGED <<mainVars, request, todo, current, wrote, fileVars>>

\* workerLoop takes the request that waits.
Take ==
  /\ at = "wait" /\ ~shutdown /\ pending # NoRequest
  /\ at' = "check"
  /\ request' = pending
  /\ pending' = NoRequest
  /\ todo' = pending.outputs
  /\ failed' = {} /\ late' = 0
  /\ UNCHANGED <<nextGeneration, shutdown, current, wrote, disk, applied, unhooked>>

\* requestSuperseded
Superseded == shutdown \/ request.gen # nextGeneration

\* The checks before a configuration, a template and an output: a replaced
\* request is abandoned, a finished one leaves the worker waiting again.
Check_PutsBack ==
  /\ at = "check"
  /\ IF Superseded /\ ~shutdown
     THEN at' = "wait" /\ pending' = request
     ELSE at' = (IF shutdown \/ todo = {} THEN "wait" ELSE "render") /\ UNCHANGED pending
  /\ UNCHANGED <<nextGeneration, shutdown, request, todo, current, wrote, fileVars>>
Check ==
  /\ at = "check"
  /\ at' = IF Superseded \/ todo = {} THEN "wait" ELSE "render"
  /\ UNCHANGED <<mainVars, request, todo, current, wrote, fileVars>>

\* An output is next when no other of the request precedes it.
IsNext(o) == o \in todo /\ \A p \in todo : o <= p

\* renderFile leaves a file alone that already has the rendered text.
RenderFile(o) ==
  /\ disk' = [disk EXCEPT ![o] = request.content]
  /\ wrote' = (disk[o] # request.content)
  /\ unhooked' = [unhooked EXCEPT ![o] = IF disk[o] # request.content THEN request.gen ELSE @]
  /\ applied' = [applied EXCEPT ![o] = request.gen]
  /\ UNCHANGED failed

\* A template that cannot be read or rendered, or a file that cannot be opened.
RenderFails(o) ==
  /\ o \in Flaky
  /\ failed' = failed \cup {o}
  /\ wrote' = FALSE
  /\ UNCHANGED <<disk, applied, unhooked>>

\* History: whether the render under way is one the newest request did not ask for.
Replaced == shutdown \/ request.gen # nextGeneration

Render(o) ==
  /\ at = "render" /\ IsNext(o)
  /\ RenderFile(o) \/ RenderFails(o)
  /\ at' = "rendered"
  /\ current' = o
  /\ todo' = todo \ {o}
  /\ late' = IF Replaced THEN late + 1 ELSE late
  /\ UNCHANGED <<mainVars, request>>

\* After the outputs of a template: the post hook runs only when one changed.
Rendered_SkipsHook ==
  /\ at = "rendered"
  /\ at' = IF Superseded THEN "wait" ELSE "check"
  /\ UNCHANGED <<mainVars, request, todo, current, wrote, fileVars>>
Rendered ==
  /\ at = "rendered"
  /\ at' = IF Superseded THEN "wait" ELSE IF wrote THEN "hook" ELSE "check"
  /\ UNCHANGED <<mainVars, request, todo, current, wrote, fileVars>>

\* The post hook is an external program; the worker waits for it to end.
HookEnds ==
  /\ at = "hook"
  /\ at' = "check"
  /\ unhooked' = [unhooked EXCEPT ![current] = 0]
  /\ UNCHANGED <<mainVars, request, todo, current, wrote, disk, applied, failed, late>>

Work == Exit \/ Take \/ Check \/ Rendered \/ HookEnds \/ \E o \in Outputs : Render(o)

Next ==
  \/ Shutdown
  \/ \E content \in Contents, outputs \in SUBSET Outputs : Apply(content, outputs)
  \/ Work

\* The worker is a thread of its own, and post hooks end.
Fairness == WF_vars(Work)

Spec == Init /\ [][Next]_vars /\ Fairness

-----------------------------------------------------------------------------
(* Properties. *)

TypeOK ==
  /\ nextGeneration \in 0 .. MaxRequests
  /\ pending \in Requests \cup {NoRequest}
  /\ shutdown \in BOOLEAN
  /\ at \in {"wait", "check", "render", "rendered", "hook", "exited"}
  /\ request \in Requests \cup {NoRequest}
  /\ todo \in SUBSET request.outputs
  /\ at \in {"rendered", "hook"} => current \in request.outputs
  /\ wrote \in BOOLEAN
  /\ disk \in [Outputs -> Contents \cup {Nothing}]
  /\ applied \in [Outputs -> 0 .. MaxRequests]
  /\ failed \in SUBSET Outputs
  /\ unhooked \in [Outputs -> 0 .. MaxRequests]
  /\ late \in Nat

\* The worker has nothing to do and nothing will wake it.
Quiescent == at = "wait" /\ pending = NoRequest /\ ~shutdown /\ nextGeneration > 0

\* However requests and renders interleave, when the worker falls idle every
\* output of the last request, and not of one it replaced, holds what that
\* request renders to, unless rendering it failed.
QuiescentIsCurrent ==
  Quiescent =>
    /\ request.gen = nextGeneration
    /\ \A o \in request.outputs \ failed :
         disk[o] = request.content /\ applied[o] = nextGeneration

\* A request that has been replaced renders at most the one output it had
\* decided on: the generation is read again before every output.
ReplacedRequestStops == late <= 1

\* No file changed by the last request is left without its post hook.
LastChangeIsHooked ==
  Quiescent => \A o \in Outputs : unhooked[o] # nextGeneration

\* Requests, files and hooks keep to the newest request, whenever one replaces
\* another.
ServiceInv == TypeOK /\ ReplacedRequestStops /\ LastChangeIsHooked

\* Outputs move through the requests in order (LatestWins).
Latest == INSTANCE LatestWins WITH wanted <- nextGeneration
LatestSpec == Latest!Spec

\* The last request is rendered, whatever it interrupted.
LastIsRendered == (pending # NoRequest) ~> (Quiescent \/ shutdown)

=============================================================================
