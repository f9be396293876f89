--------------------- MODULE TemplateApplyService_proofs ---------------------
(***************************************************************************)
(* The template apply service is correct for every set of outputs and      *)
(* contents.  Every theorem follows from one invariant, Inv: the request   *)
(* that waits is the newest, the worker's request is the newest when none  *)
(* waits, each output of the worker's request is still to be rendered, has *)
(* failed or is up to date, a request that has been replaced gets no       *)
(* further than the end of one render, and what the newest request changed *)
(* last is on its way to its post hook.                                    *)
(***************************************************************************)
EXTENDS TemplateApplyService, TLAPS

Typed ==
  /\ nextGeneration \in 0 .. MaxRequests
  /\ pending \in Requests \cup {NoRequest}
  /\ shutdown \in BOOLEAN
  /\ at \in {"wait", "check", "render", "rendered", "hook", "exited"}
  /\ request \in Requests \cup {NoRequest}
  /\ todo \in SUBSET request.outputs
  /\ at \in {"rendered", "hook"} => current \in request.outputs
  /\ wrote \in BOOLEAN
  /\ disk \in [Outputs -> Contents \cup {Nothing}]
  /\ applied \in [Outputs -> 0 .. MaxRequests]
  /\ failed \in SUBSET Outputs
  /\ unhooked \in [Outputs -> 0 .. MaxRequests]
  /\ late \in Nat

\* The slot and the worker hold requests in the order they were made.
Ordered ==
  /\ request.gen <= nextGeneration
  /\ pending # NoRequest => pending.gen = nextGeneration /\ request.gen < nextGeneration
  /\ pending = NoRequest /\ ~shutdown => request.gen = nextGeneration

\* Outputs are ahead of what the worker has still to render.
Behind ==
  /\ \A o \in Outputs : applied[o] <= request.gen
  /\ at \in {"check", "render", "rendered", "hook"} =>
       \A o \in todo : applied[o] < request.gen

\* Every output of the worker's request is accounted for.
Covered ==
  /\ \A o \in request.outputs :
       o \in todo \/ o \in failed \/ (applied[o] = request.gen /\ disk[o] = request.content)
  /\ at \in {"wait", "exited"} => todo = {} \/ Superseded

\* A request that has been replaced is abandoned after the render under way.
Stops ==
  /\ late <= 1
  /\ late > 0 => Superseded /\ at \in {"rendered", "wait", "exited"}

\* Of the files the newest request has changed only the last one can be without
\* its post hook, and the worker is about to run that.
Hooked ==
  /\ \A o \in Outputs : unhooked[o] <= request.gen
  /\ ~Superseded /\ request.gen > 0 =>
       \A o \in Outputs : unhooked[o] = request.gen =>
         o = current /\ (at = "hook" \/ (at = "rendered" /\ wrote))

Inv == Typed /\ Ordered /\ Behind /\ Covered /\ Stops /\ Hooked

-----------------------------------------------------------------------------
(* Requests. *)

\* What a value of the slot looks like.
LEMMA RequestFields ==
  ASSUME NEW r \in Requests \cup {NoRequest}
  PROVE /\ r.gen \in 0 .. MaxRequests
        /\ r.content \in Contents \cup {Nothing}
        /\ r.outputs \in SUBSET Outputs
        /\ r # NoRequest => r \in Requests /\ r.gen \in 1 .. MaxRequests /\ r.content \in Contents
        /\ r = NoRequest => r.gen = 0 /\ r.outputs = {}
  BY OutputsAssumption DEF Requests, NoRequest, Request

\* A request that is made is one the slot can hold, and not the empty one.
LEMMA MadeRequest ==
  ASSUME NEW gen \in 1 .. MaxRequests, NEW content \in Contents, NEW outputs \in SUBSET Outputs
  PROVE /\ Request(gen, content, outputs) \in Requests
        /\ Request(gen, content, outputs) # NoRequest
        /\ Request(gen, content, outputs).gen = gen
  BY OutputsAssumption DEF Requests, NoRequest, Request

-----------------------------------------------------------------------------
(* The invariant. *)

LEMMA InitInv == Init => Inv
  <1> SUFFICES ASSUME Init PROVE Inv
    OBVIOUS
  <1>1. NoRequest.gen = 0 /\ NoRequest.outputs = {}
    BY DEF NoRequest, Request
  <1>2. Typed
    <2>1. 0 \in 0 .. MaxRequests
      BY OutputsAssumption
    <2>2. /\ applied \in [Outputs -> 0 .. MaxRequests]
          /\ unhooked \in [Outputs -> 0 .. MaxRequests]
      BY <2>1 DEF Init
    <2>3. todo \in SUBSET request.outputs
      BY <1>1 DEF Init
    <2> QED
      BY <2>1, <2>2, <2>3 DEF Init, Typed
  <1>3. Ordered /\ Behind /\ Covered /\ Stops /\ Hooked
    BY <1>1, OutputsAssumption DEF Init, Ordered, Behind, Covered, Stops, Hooked
  <1> QED
    BY <1>2, <1>3 DEF Inv

LEMMA ApplyInv ==
  ASSUME Inv, NEW content \in Contents, NEW outputs \in SUBSET Outputs, Apply(content, outputs)
  PROVE Inv'
  <1>1. /\ nextGeneration' \in 1 .. MaxRequests /\ nextGeneration < nextGeneration'
        /\ nextGeneration \in Nat
    BY OutputsAssumption DEF Inv, Typed, Apply
  <1>2. /\ pending' \in Requests /\ pending' # NoRequest
        /\ pending'.gen = nextGeneration'
    BY <1>1, MadeRequest DEF Apply
  <1>3. request.gen \in Nat
    BY RequestFields, OutputsAssumption DEF Inv, Typed
  <1>4. Typed'
    BY <1>1, <1>2 DEF Inv, Typed, Apply, workVars, fileVars
  <1>5. Ordered'
    BY <1>1, <1>2, <1>3 DEF Inv, Ordered, Apply, workVars
  <1>6. Superseded'
    BY <1>1, <1>3 DEF Inv, Ordered, Superseded, Apply, workVars
  <1>7. Behind' /\ Covered' /\ Stops' /\ Hooked'
    BY <1>6 DEF Inv, Behind, Covered, Stops, Hooked, Apply, workVars, fileVars
  <1> QED
    BY <1>4, <1>5, <1>7 DEF Inv

LEMMA ShutdownInv ==
  ASSUME Inv, Shutdown
  PROVE Inv'
  <1>1. Typed'
    BY DEF Inv, Typed, Shutdown, workVars, fileVars
  <1>2. Superseded'
    BY DEF Superseded, Shutdown
  <1>3. Ordered' /\ Behind' /\ Covered' /\ Stops' /\ Hooked'
    BY <1>2 DEF Inv, Ordered, Behind, Covered, Stops, Hooked, Shutdown, workVars, fileVars
  <1> QED
    BY <1>1, <1>3 DEF Inv

LEMMA TakeInv ==
  ASSUME Inv, Take
  PROVE Inv'
  <1>1. /\ pending \in Requests /\ pending.gen \in 1 .. MaxRequests
        /\ pending.outputs \in SUBSET Outputs /\ pending.gen = nextGeneration
        /\ request.gen < nextGeneration /\ request.gen \in Nat
    BY RequestFields, OutputsAssumption DEF Inv, Typed, Ordered, Take
  <1>2. Typed'
    BY <1>1 DEF Inv, Typed, Take
  <1>3. NoRequest.gen = 0
    BY DEF NoRequest, Request
  <1>4. Ordered'
    BY <1>1, <1>3 DEF Inv, Ordered, Take
  <1>5. \A o \in Outputs : applied[o] < pending.gen
    BY <1>1, OutputsAssumption DEF Inv, Typed, Behind
  <1>6. Behind'
    <2>1. request' = pending /\ todo' = pending.outputs /\ applied' = applied
      BY DEF Take
    <2>2. \A o \in Outputs : applied[o] \in Nat
      BY OutputsAssumption DEF Inv, Typed
    <2>3. \A o \in Outputs : applied[o] <= pending.gen
      BY <1>1, <1>5, <2>2
    <2> QED
      BY <1>1, <1>5, <2>1, <2>3 DEF Behind
  <1>7. Covered' /\ Stops'
    BY DEF Covered, Stops, Take
  <1>8. Hooked'
    <2>1. \A o \in Outputs : unhooked[o] \in Nat
      BY OutputsAssumption DEF Inv, Typed
    <2>2. \A o \in Outputs : unhooked[o] < pending.gen
      BY <1>1, <2>1 DEF Inv, Hooked
    <2>3. request' = pending /\ unhooked' = unhooked
      BY DEF Take
    <2> QED
      BY <1>1, <2>1, <2>2, <2>3 DEF Hooked
  <1> QED
    BY <1>2, <1>4, <1>6, <1>7, <1>8 DEF Inv

LEMMA RenderInv ==
  ASSUME Inv, NEW o \in Outputs, Render(o)
  PROVE Inv'
  <1>1. /\ o \in todo /\ o \in request.outputs /\ request # NoRequest
        /\ request.gen \in 1 .. MaxRequests /\ request.content \in Contents
        /\ request.outputs \in SUBSET Outputs
    BY RequestFields DEF Inv, Typed, Render, IsNext
  <1>2. late = 0 /\ late' \in {0, 1} /\ (late' > 0 => Superseded)
    BY DEF Inv, Typed, Stops, Render, Replaced, Superseded
  <1>3. Superseded' <=> Superseded
    BY DEF Superseded, Render, mainVars
  <1>4. at' = "rendered" /\ current' = o /\ todo' = todo \ {o}
    BY DEF Render
  <1>5. Stops'
    BY <1>2, <1>3, <1>4 DEF Stops
  <1>6. Ordered'
    BY DEF Inv, Ordered, Render, mainVars
  <1>7. CASE RenderFile(o)
    <2>1. Typed'
      BY <1>1, <1>2, <1>4, <1>7 DEF Inv, Typed, Render, RenderFile, mainVars
    <2>2. applied'[o] = request.gen /\ disk'[o] = request.content
      BY <1>7 DEF Inv, Typed, RenderFile
    <2>3. \A p \in Outputs \ {o} : applied'[p] = applied[p] /\ disk'[p] = disk[p]
      BY <1>7 DEF Inv, Typed, RenderFile
    <2>4. Behind'
      BY <1>1, <1>4, <2>2, <2>3 DEF Inv, Behind, Render, Typed
    <2>5. Covered'
      BY <1>1, <1>4, <1>7, <2>2, <2>3 DEF Inv, Covered, Render, RenderFile
    <2>6. Hooked'
      <3>1. ~Superseded => \A p \in Outputs : unhooked[p] # request.gen
        BY <1>1 DEF Inv, Hooked, Render
      <3>2. \A p \in Outputs \ {o} : unhooked'[p] = unhooked[p]
        BY <1>7 DEF Inv, Typed, RenderFile
      <3>3. unhooked'[o] = IF wrote' THEN request.gen ELSE unhooked[o]
        BY <1>7 DEF Inv, Typed, RenderFile
      <3>4. request' = request /\ request.gen \in Nat
        BY <1>1, OutputsAssumption DEF Render
      <3> QED
        BY <1>3, <1>4, <3>1, <3>2, <3>3, <3>4 DEF Inv, Hooked
    <2> QED
      BY <1>5, <1>6, <2>1, <2>4, <2>5, <2>6 DEF Inv
  <1>8. CASE RenderFails(o)
    <2>1. failed' \in SUBSET Outputs /\ wrote' \in BOOLEAN
      BY <1>8 DEF Inv, Typed, RenderFails
    <2>2. UNCHANGED <<nextGeneration, pending, shutdown, request, disk, applied, unhooked>>
      BY <1>8 DEF Render, RenderFails, mainVars
    <2>3. Typed'
      BY <1>1, <1>2, <1>4, <2>1, <2>2 DEF Inv, Typed
    <2>4. Behind' /\ Covered'
      BY <1>1, <1>4, <1>8 DEF Inv, Typed, Behind, Covered, Render, RenderFails
    <2>5. Hooked'
      BY <1>1, <1>3, <2>2 DEF Inv, Hooked, Render
    <2> QED
      BY <1>5, <1>6, <2>3, <2>4, <2>5 DEF Inv
  <1> QED
    BY <1>7, <1>8 DEF Render

LEMMA OtherWorkInv ==
  ASSUME Inv, Exit \/ Check \/ Rendered \/ HookEnds
  PROVE Inv'
  <1>1. CASE Exit
    <2>1. Typed'
      BY <1>1 DEF Inv, Typed, Exit, mainVars, fileVars
    <2>2. Superseded'
      BY <1>1 DEF Superseded, Exit, mainVars
    <2> QED
      BY <1>1, <2>1, <2>2
      DEF Inv, Ordered, Behind, Covered, Stops, Hooked, Superseded, Exit, mainVars, fileVars
  <1>2. CASE Check
    <2>1. Typed'
      BY <1>2 DEF Inv, Typed, Check, mainVars, fileVars
    <2> QED
      BY <1>2, <2>1
      DEF Inv, Ordered, Behind, Covered, Stops, Hooked, Superseded, Check, mainVars, fileVars
  <1>3. CASE Rendered
    <2>1. Typed'
      BY <1>3 DEF Inv, Typed, Rendered, mainVars, fileVars
    <2> QED
      BY <1>3, <2>1
      DEF Inv, Ordered, Behind, Covered, Stops, Hooked, Superseded, Rendered, mainVars, fileVars
  <1>4. CASE HookEnds
    <2>1. unhooked' \in [Outputs -> 0 .. MaxRequests]
      <3>1. 0 \in 0 .. MaxRequests
        BY OutputsAssumption
      <3> QED
        BY <1>4, <3>1 DEF Inv, Typed, HookEnds
    <2>2. Typed'
      BY <1>4, <2>1 DEF Inv, Typed, HookEnds, mainVars
    <2>3. Hooked'
      <3>0. current \in Outputs
        BY <1>4, RequestFields DEF Inv, Typed, HookEnds
      <3>1. unhooked'[current] = 0
        BY <1>4, <3>0 DEF Inv, Typed, HookEnds
      <3>2. \A p \in Outputs \ {current} : unhooked'[p] = unhooked[p]
        BY <1>4 DEF Inv, Typed, HookEnds
      <3>3. request.gen \in Nat /\ request' = request /\ (Superseded' <=> Superseded)
        BY <1>4, RequestFields, OutputsAssumption DEF Inv, Typed, HookEnds, Superseded, mainVars
      <3> QED
        BY <1>4, <3>1, <3>2, <3>3 DEF Inv, Hooked, HookEnds
    <2> QED
      BY <1>4, <2>2, <2>3
      DEF Inv, Ordered, Behind, Covered, Stops, Superseded, HookEnds, mainVars
  <1> QED
    BY <1>1, <1>2, <1>3, <1>4

LEMMA StepInv == Inv /\ [Next]_vars => Inv'
  <1> SUFFICES ASSUME Inv, [Next]_vars PROVE Inv'
    OBVIOUS
  <1>1. CASE UNCHANGED vars
    BY <1>1 DEF Inv, Typed, Ordered, Behind, Covered, Stops, Hooked, Superseded,
                vars, mainVars, workVars, fileVars
  <1>2. CASE Next
    BY <1>2, ApplyInv, ShutdownInv, TakeInv, RenderInv, OtherWorkInv DEF Next, Work
  <1> QED
    BY <1>1, <1>2

THEOREM Invariance == Spec => []Inv
  BY InitInv, StepInv, PTL DEF Spec

-----------------------------------------------------------------------------
(* The theorems. *)

\* An idle worker leaves every output of the last request up to date.
THEOREM IdleWorkerIsCurrent == Spec => []QuiescentIsCurrent
  <1>1. Inv => QuiescentIsCurrent
    <2> SUFFICES ASSUME Inv, Quiescent
                 PROVE /\ request.gen = nextGeneration
                       /\ \A o \in request.outputs \ failed :
                            disk[o] = request.content /\ applied[o] = nextGeneration
      BY DEF QuiescentIsCurrent
    <2>1. request.gen = nextGeneration /\ todo = {}
      BY DEF Inv, Ordered, Covered, Superseded, Quiescent
    <2> QED
      BY <2>1 DEF Inv, Covered
  <1> QED
    BY <1>1, Invariance, PTL

\* A request that was replaced renders at most one more output, and no file the
\* last request changed misses its post hook.
THEOREM ServiceInvariant == Spec => []ServiceInv
  <1>1. Inv => TypeOK /\ ReplacedRequestStops
    BY DEF Inv, Typed, TypeOK, Stops, ReplacedRequestStops
  <1>2. Inv => LastChangeIsHooked
    BY DEF Inv, Ordered, Hooked, Superseded, Quiescent, LastChangeIsHooked
  <1> QED
    BY <1>1, <1>2, Invariance, PTL DEF ServiceInv

\* Every behavior of the service is one in which outputs only move forward
\* through the requests, and never past the last one (LatestWins).
THEOREM ImplementsLatestWins == Spec => LatestSpec
  <1>1. Init => Latest!Init
    BY DEF Init, Latest!Init
  <1>2. Inv /\ Inv' /\ [Next]_vars => [Latest!Next]_(Latest!vars)
    <2> SUFFICES ASSUME Inv, [Next]_vars, ~ UNCHANGED <<nextGeneration, applied>>
                 PROVE Latest!Next
      BY DEF Latest!vars
    <2>1. CASE \E content \in Contents, outputs \in SUBSET Outputs : Apply(content, outputs)
      BY <2>1 DEF Apply, fileVars, Latest!Next, Latest!Request
    <2>2. CASE \E o \in Outputs : Render(o)
      <3>1. PICK o \in Outputs : Render(o)
        BY <2>2
      <3>2. RenderFile(o)
        BY <3>1 DEF Render, RenderFails, mainVars
      <3>3. /\ o \in todo /\ request.gen \in Nat /\ request.gen <= nextGeneration
            /\ applied[o] < request.gen /\ applied[o] \in Nat
        BY <3>1, RequestFields, OutputsAssumption
        DEF Inv, Typed, Ordered, Behind, Render, IsNext
      <3>4. request.gen \in applied[o] + 1 .. nextGeneration
        BY <3>3 DEF Inv, Typed
      <3>5. Latest!Advance(o)
        BY <3>1, <3>2, <3>4 DEF Latest!Advance, Render, RenderFile, mainVars
      <3> QED
        BY <3>5 DEF Latest!Next
    <2> QED
      BY <2>1, <2>2 DEF Next, Work, Shutdown, Exit, Take, Check, Rendered, HookEnds,
                        vars, mainVars, workVars, fileVars
  <1> QED
    BY <1>1, <1>2, Invariance, PTL DEF Spec, LatestSpec, Latest!Spec

=============================================================================
