------------------------- MODULE ThemePipeline_proofs -------------------------
(***************************************************************************)
(* Proofs for ThemeService and for the pipeline it starts: for any themes, *)
(* palettes, outputs and numbers of changes and requests, templates are    *)
(* only given the theme resolved last, no fade and no download is left     *)
(* without what ends it, and when both services are idle the screen and    *)
(* every output file show the theme resolved last.                         *)
(*                                                                         *)
(* The steps of the service are functions of its state, which call each    *)
(* other; a lemma about each says what a step keeps, and the actions follow *)
(* from them.  The pipeline adds what a step still owes the templates and  *)
(* the screen; of the worker it uses the invariant of                      *)
(* TemplateApplyService_proofs.                                            *)
(***************************************************************************)
EXTENDS ThemePipeline, TLAPS

\* What waits to be sent is the theme resolved last: the one pending, and any
\* deferred call that is not out of date.
Waits(s, last) ==
  /\ s.pending \in {None, last}
  /\ \A d \in s.deferred : d.gen <= s.gen /\ (d.gen = s.gen => d.theme = last)

\* A palette between two others is on screen only while a fade is ticked, or
\* after motion dropped it.
Ticked(s) == s.shown = Mixed => s.dropped \/ (s.animated /\ s.ticking)

Good(s, last) == s \in Service /\ Waits(s, last) /\ Ticked(s)

\* A step from s to t passes on nothing but the theme resolved last.
SendsLast(s, t, last) ==
  \/ t.sends > s.sends /\ t.sent = last
  \/ t.sends = s.sends /\ t.sent = s.sent

-----------------------------------------------------------------------------
(* The steps of the service. *)

\* No palette of a theme is a mixed one.
LEMMA PaletteIsPlain ==
  \A p \in {PaletteOf[t] : t \in Themes} : p # Mixed
BY ThemesAssumption

\* The types of the fields that the steps compute with.
LEMMA FieldTypes ==
  ASSUME NEW s \in Service
  PROVE  /\ s.gen \in Nat /\ s.sends \in Nat
         /\ s.pending \in Themes \cup {None}
         /\ s.deferred \subseteq [gen : Nat, theme : Themes]
         /\ s.shown \in {PaletteOf[t] : t \in Themes} \cup {Mixed}
         /\ s.target \in {PaletteOf[t] : t \in Themes}
         /\ {s.fading, s.animated, s.ticking, s.flushed, s.dropped} \subseteq BOOLEAN
BY Zenon DEF Service

\* One step after another.
LEMMA SendsTwice ==
  ASSUME NEW last, NEW s \in Service, NEW t \in Service, NEW u \in Service,
         SendsLast(s, t, last), SendsLast(t, u, last)
  PROVE  SendsLast(s, u, last)
<1>1. s.sends \in Nat /\ t.sends \in Nat /\ u.sends \in Nat  BY FieldTypes
<1> QED  BY <1>1, SMT DEF SendsLast

\* What Good says depends on these fields only.
LEMMA GoodByFields ==
  ASSUME NEW last, NEW s, NEW t, t \in Service,
         Waits(s, last), t.pending \in {s.pending, None},
         t.gen = s.gen, t.deferred = s.deferred,
         Ticked(t)
  PROVE  Good(t, last)
BY Zenon DEF Good, Waits

\* flushResolvedCallback sends or defers what is pending.
LEMMA FlushKeeps ==
  ASSUME NEW last \in Themes, NEW s, Good(s, last), NEW defer \in BOOLEAN
  PROVE  /\ Good(Flush(s, defer), last)
         /\ SendsLast(s, Flush(s, defer), last)
<1>1. s \in Service /\ Waits(s, last) /\ Ticked(s)  BY DEF Good
<1>2. /\ s.gen \in Nat /\ s.sends \in Nat /\ s.pending \in Themes \cup {None}
      /\ s.deferred \subseteq [gen : Nat, theme : Themes]
  BY <1>1, FieldTypes
<1>3. None \notin Themes  BY ThemesAssumption
<1>4. CASE s.pending = None
  BY <1>4, Zenon DEF Flush, SendsLast
<1>5. CASE s.pending # None /\ defer
  <2> DEFINE call == [gen |-> s.gen, theme |-> s.pending]
             more == s.deferred \cup {call}
             next == [s EXCEPT !.pending = None, !.deferred = more]
  <2>1. call \in [gen : Nat, theme : Themes]  BY <1>2, <1>5
  <2>2. more \in SUBSET [gen : Nat, theme : Themes]  BY <1>2, <2>1
  <2>3. call.gen = s.gen /\ call.theme = last  BY <1>1, <1>5 DEF Waits
  <2> HIDE DEF call
  <2>4. \A d \in more : d.gen <= s.gen /\ (d.gen = s.gen => d.theme = last)
    BY <1>1, <1>2, <2>3, SMT DEF Waits
  <2> HIDE DEF more
  <2>5. next \in Service  BY <1>1, <2>2, Zenon DEF Service
  <2>6. /\ next.pending = None /\ next.deferred = more /\ next.gen = s.gen
        /\ next.sends = s.sends /\ next.sent = s.sent
        /\ next.shown = s.shown /\ next.dropped = s.dropped
        /\ next.animated = s.animated /\ next.ticking = s.ticking
    BY <1>1, Zenon DEF Service
  <2>7. Flush(s, defer) = next  BY <1>5, Zenon DEF Flush, more, call
  <2> HIDE DEF next
  <2>8. Good(next, last)  BY <1>1, <2>4, <2>5, <2>6, Zenon DEF Good, Waits, Ticked
  <2> QED  BY <2>6, <2>7, <2>8 DEF SendsLast
<1>6. CASE s.pending # None /\ ~defer
  <2> DEFINE next == [s EXCEPT !.pending = None]
             sent == [next EXCEPT !.sent = s.pending, !.sends = @ + 1]
  <2>1. s.pending = last /\ s.pending \in Themes /\ s.sends + 1 \in Nat
    BY <1>1, <1>2, <1>6 DEF Waits
  <2>2. next \in Service /\ next.sends = s.sends  BY <1>1, Zenon DEF Service
  <2>3. sent \in Service  BY <2>1, <2>2, Zenon DEF Service
  <2>4. /\ sent.pending = None /\ sent.deferred = s.deferred /\ sent.gen = s.gen
        /\ sent.sent = s.pending /\ sent.shown = s.shown /\ sent.dropped = s.dropped
        /\ sent.animated = s.animated /\ sent.ticking = s.ticking
        /\ sent.sends = s.sends + 1
    BY <1>1, <2>2, Zenon DEF Service
  <2>5. Flush(s, defer) = sent  BY <1>6, Zenon DEF Flush, Send
  <2> HIDE DEF sent
  <2>6. Good(sent, last)  BY <1>1, <2>3, <2>4, GoodByFields DEF Ticked
  <2>7. sent.sends > s.sends  BY <1>2, <2>4
  <2> QED  BY <2>1, <2>4, <2>5, <2>6, <2>7 DEF SendsLast
<1> QED  BY <1>4, <1>5, <1>6

\* A flush leaves the fade alone.
LEMMA FlushFade ==
  ASSUME NEW s \in Service, NEW defer \in BOOLEAN
  PROVE  /\ Flush(s, defer).target = s.target
         /\ Flush(s, defer).ticking = s.ticking
<1>1. CASE s.pending = None  BY <1>1 DEF Flush
<1>2. CASE s.pending # None /\ defer  BY <1>2, Zenon DEF Flush, Service
<1>3. CASE s.pending # None /\ ~defer  BY <1>3, Zenon DEF Flush, Send, Service
<1> QED  BY <1>1, <1>2, <1>3

\* The setter of the fade, for a plain palette or while the fade is ticked.
LEMMA ShownKeeps ==
  ASSUME NEW last \in Themes, NEW s \in Service, Waits(s, last),
         NEW p \in {PaletteOf[t] : t \in Themes} \cup {Mixed},
         p = Mixed => s.animated /\ s.ticking
  PROVE  /\ Good(Shown(s, p), last)
         /\ SendsLast(s, Shown(s, p), last)
         /\ Shown(s, p).target = s.target
<1> DEFINE next == [s EXCEPT !.shown = p, !.flushed = TRUE]
<1>1. next \in Service  BY Zenon DEF Service
<1>2. /\ next.pending = s.pending /\ next.deferred = s.deferred /\ next.gen = s.gen
      /\ next.sends = s.sends /\ next.sent = s.sent /\ next.target = s.target
      /\ next.shown = p /\ next.animated = s.animated /\ next.ticking = s.ticking
  BY Zenon DEF Service
<1>3. Shown(s, p) = IF s.flushed THEN next ELSE Flush(next, TRUE)  BY Zenon DEF Shown
<1> HIDE DEF next
<1>4. Good(next, last)  BY <1>1, <1>2, GoodByFields DEF Ticked
<1>5. Good(Flush(next, TRUE), last) /\ SendsLast(next, Flush(next, TRUE), last)
  BY <1>4, FlushKeeps
<1>6. Flush(next, TRUE).target = next.target  BY <1>1, FlushFade
<1> QED  BY <1>2, <1>3, <1>4, <1>5, <1>6, Zenon DEF SendsLast

\* finishTransition shows the target, which is not a mixed palette.
LEMMA FinishKeeps ==
  ASSUME NEW last \in Themes, NEW s \in Service, Waits(s, last)
  PROVE  /\ Good(Finish(s), last)
         /\ SendsLast(s, Finish(s), last)
<1> DEFINE next == [s EXCEPT !.fading = FALSE, !.ticking = FALSE, !.shown = s.target]
<1>1. s.target \in {PaletteOf[t] : t \in Themes} /\ s.target # Mixed
  BY PaletteIsPlain, FieldTypes
<1>2. next \in Service  BY <1>1, Zenon DEF Service
<1>3. /\ next.pending = s.pending /\ next.deferred = s.deferred /\ next.gen = s.gen
      /\ next.sends = s.sends /\ next.sent = s.sent /\ next.shown = s.target
  BY Zenon DEF Service
<1>4. Finish(s) = Flush(next, FALSE)  BY Zenon DEF Finish
<1> HIDE DEF next
<1>5. Good(next, last)  BY <1>1, <1>2, <1>3, GoodByFields DEF Ticked
<1>6. Good(Flush(next, FALSE), last) /\ SendsLast(next, Flush(next, FALSE), last)
  BY <1>5, FlushKeeps
<1> QED  BY <1>3, <1>4, <1>6 DEF SendsLast

\* startTransition, with what is queued being the theme resolved last.
LEMMA StartTransitionKeeps ==
  ASSUME NEW last \in Themes, NEW s, Good(s, last),
         NEW p \in {PaletteOf[t] : t \in Themes}, NEW moving \in BOOLEAN
  PROVE  /\ Good(StartTransition(s, p, moving), last)
         /\ SendsLast(s, StartTransition(s, p, moving), last)
<1> DEFINE next == [s EXCEPT !.from = s.shown, !.target = p, !.flushed = FALSE,
                             !.animated = FALSE, !.fading = FALSE, !.dropped = FALSE]
<1>1. s \in Service /\ Waits(s, last)  BY DEF Good
<1>2. s.shown \in {PaletteOf[t] : t \in Themes} \cup {Mixed} /\ s.fading \in BOOLEAN
  BY <1>1, FieldTypes
<1>3. next \in Service  BY <1>1, <1>2, Zenon DEF Service
<1>4. /\ next.pending = s.pending /\ next.deferred = s.deferred /\ next.gen = s.gen
      /\ next.sends = s.sends /\ next.sent = s.sent /\ next.target = p
  BY <1>1, Zenon DEF Service
<1>5. Waits(next, last)  BY <1>1, <1>4 DEF Waits
<1>6. CASE ~s.fading /\ s.shown = p
  <2>1. StartTransition(s, p, moving) = Flush(s, FALSE)  BY <1>6 DEF StartTransition
  <2> QED  BY <2>1, FlushKeeps
<1>7. CASE ~(~s.fading /\ s.shown = p) /\ s.fading /\ s.target = p
  <2>1. StartTransition(s, p, moving) = Flush(s, TRUE)  BY <1>7 DEF StartTransition
  <2> QED  BY <2>1, FlushKeeps
<1>8. CASE ~(~s.fading /\ s.shown = p) /\ ~(s.fading /\ s.target = p)
  <2>1. StartTransition(s, p, moving) = Animate(next, moving)
    BY <1>8, Zenon DEF StartTransition
  <2> HIDE DEF next
  <2>2. CASE moving
    <3> DEFINE runs == [next EXCEPT !.fading = TRUE, !.animated = TRUE, !.ticking = TRUE]
    <3>1. runs \in Service  BY <1>3, Zenon DEF Service
    <3>2. /\ runs.pending = next.pending /\ runs.deferred = next.deferred
          /\ runs.gen = next.gen /\ runs.sends = next.sends /\ runs.sent = next.sent
          /\ runs.animated = TRUE /\ runs.ticking = TRUE
      BY <1>3, Zenon DEF Service
    <3>3. Animate(next, moving) = runs  BY <2>2, Zenon DEF Animate
    <3> HIDE DEF runs
    <3>4. Good(runs, last)  BY <1>5, <3>1, <3>2, GoodByFields DEF Ticked
    <3> QED  BY <1>4, <2>1, <3>2, <3>3, <3>4 DEF SendsLast
  <2>3. CASE ~moving
    <3> DEFINE first == Shown(next, next.target)
    <3>1. next.target \in {PaletteOf[t] : t \in Themes} /\ next.target # Mixed
      BY <1>4, PaletteIsPlain
    <3>2. Good(first, last) /\ SendsLast(next, first, last)
      BY <1>3, <1>5, <3>1, ShownKeeps
    <3>3. Animate(next, moving) = Finish(first)  BY <2>3, Zenon DEF Animate
    <3> HIDE DEF first
    <3>4. Good(Finish(first), last) /\ SendsLast(first, Finish(first), last)
      BY <3>2, FinishKeeps DEF Good
    <3>5. SendsLast(next, Finish(first), last)
      BY <1>3, <3>2, <3>4, SendsTwice DEF Good
    <3> QED  BY <1>4, <2>1, <3>3, <3>4, <3>5, Zenon DEF SendsLast
  <2> QED  BY <2>2, <2>3
<1> QED  BY <1>6, <1>7, <1>8

\* queueResolvedCallback puts every deferred call out of date.
LEMMA QueueKeeps ==
  ASSUME NEW last \in Themes, NEW old, NEW s, Good(s, old)
  PROVE  /\ Good(Queue(s, last), last)
         /\ Queue(s, last).sends = s.sends /\ Queue(s, last).sent = s.sent
<1> DEFINE next == [s EXCEPT !.pending = last, !.gen = s.gen + 1]
<1>1. s \in Service /\ Waits(s, old) /\ Ticked(s)  BY DEF Good
<1>2. s.gen \in Nat /\ s.deferred \subseteq [gen : Nat, theme : Themes]  BY <1>1, FieldTypes
<1>3. s.gen + 1 \in Nat  BY <1>2
<1>4. next \in Service  BY <1>1, <1>3, Zenon DEF Service
<1>5. /\ next.pending = last /\ next.deferred = s.deferred /\ next.gen = s.gen + 1
      /\ next.sends = s.sends /\ next.sent = s.sent
      /\ next.shown = s.shown /\ next.dropped = s.dropped
      /\ next.animated = s.animated /\ next.ticking = s.ticking
  BY <1>1, Zenon DEF Service
<1>6. Queue(s, last) = next  BY Zenon DEF Queue
<1> HIDE DEF next
<1>7. Waits(next, last)
  <2>1. ASSUME NEW d \in s.deferred
        PROVE  d.gen <= s.gen + 1 /\ d.gen # s.gen + 1
    <3>1. d.gen \in Nat /\ d.gen <= s.gen  BY <1>1, <1>2 DEF Waits
    <3> QED  BY <1>2, <3>1
  <2> QED  BY <1>5, <2>1, Zenon DEF Waits
<1>8. Ticked(next)  BY <1>1, <1>5 DEF Ticked
<1> QED  BY <1>4, <1>5, <1>6, <1>7, <1>8 DEF Good

-----------------------------------------------------------------------------
(* The actions. *)

ServiceGood == Good(svc, latest)

\* A palette being fetched has a callback; the transfer that has ended is one of
\* a community palette.
Tracked ==
  /\ inflight \in Community \cup {None}
  /\ waiting \in [Community -> Nat]
  /\ calling \in [name : Community \cup {None}, success : BOOLEAN, left : Nat]
  /\ calling # Idle => calling.name \in Community /\ calling.left > 0
  /\ InflightHasCallback

TypedRest ==
  /\ configured \in Themes /\ motion \in Motions
  /\ cached \in SUBSET Community
  /\ latest \in Themes

IInv == ServiceGood /\ Tracked /\ TypedRest

LEMMA InitGood ==
  ASSUME Init
  PROVE  IInv
<1>1. latest \in Themes /\ configured \in Themes /\ Fallback \in Themes /\ None \notin Themes
  BY ThemesAssumption DEF Init, Resolved
<1>2. PaletteOf[latest] \in {PaletteOf[t] : t \in Themes} /\ PaletteOf[latest] # Mixed
  BY <1>1, PaletteIsPlain
<1>3. svc \in Service  BY <1>1, <1>2, SMT DEF Init, Service
<1>4. ServiceGood
  BY <1>1, <1>2, <1>3, SMT DEF Init, ServiceGood, Good, Waits, Ticked
<1>5. Tracked
  <2>1. inflight \in Community \cup {None} /\ waiting \in [Community -> Nat]
    BY DEF Init
  <2>2. calling = Idle /\ calling \in [name : Community \cup {None}, success : BOOLEAN, left : Nat]
    BY SMT DEF Init, Idle
  <2>3. InflightHasCallback
    BY SMT DEF Init, InflightHasCallback
  <2> QED  BY <2>1, <2>2, <2>3 DEF Tracked
<1>6. TypedRest  BY <1>1 DEF Init, TypedRest
<1> QED  BY <1>4, <1>5, <1>6 DEF IInv

\* resolveAndSet, wherever it is called from: s is the service before it, which
\* has not sent anything new.
LEMMA ResolveKeeps ==
  ASSUME NEW s, NEW old, Good(s, old), NEW theme \in Themes, NEW cache \in SUBSET Community,
         NEW name \in Community \cup {None}, NEW moving \in BOOLEAN,
         ResolveAndSet(s, theme, cache, name, moving)
  PROVE  /\ latest' \in Themes
         /\ ServiceGood'
         /\ SendsLast(s, svc', latest')
<1> DEFINE last == Resolved(theme, cache)
           queued == Queue(s, last)
<1>1. last \in Themes  BY ThemesAssumption DEF Resolved
<1>2. latest' = last /\ svc' = StartTransition(queued, PaletteOf[last], moving)
  BY DEF ResolveAndSet
<1>3. PaletteOf[last] \in {PaletteOf[t] : t \in Themes}  BY <1>1
<1> HIDE DEF last
<1>4. Good(queued, last) /\ queued.sends = s.sends /\ queued.sent = s.sent
  BY <1>1, QueueKeeps
<1> HIDE DEF queued
<1>5. /\ Good(StartTransition(queued, PaletteOf[last], moving), last)
      /\ SendsLast(queued, StartTransition(queued, PaletteOf[last], moving), last)
  BY <1>1, <1>3, <1>4, StartTransitionKeeps
<1> QED  BY <1>1, <1>2, <1>4, <1>5 DEF ServiceGood, SendsLast

\* startCommunityDownload leaves a callback for what is in flight afterwards; free
\* is the name in flight before it, and has one.
LEMMA DownloadTracked ==
  ASSUME Tracked, NEW theme \in Themes, NEW cache, NEW free \in Community \cup {None},
         free # None => waiting[free] > 0 \/ calling'.name = free,
         Download(theme, cache, free)
  PROVE  /\ inflight' \in Community \cup {None}
         /\ waiting' \in [Community -> Nat]
         /\ InflightHasCallback'
<1>1. waiting \in [Community -> Nat]  BY DEF Tracked
<1>2. CASE theme \in Community \ cache /\ free # theme
  <2>1. inflight' = theme /\ waiting' = [waiting EXCEPT ![theme] = @ + 1]
    BY <1>2 DEF Download
  <2>2. theme \in Community /\ waiting[theme] \in Nat  BY <1>1, <1>2
  <2>3. waiting' \in [Community -> Nat] /\ waiting'[theme] > 0  BY <1>1, <2>1, <2>2, SMT
  <2> QED  BY <2>1, <2>2, <2>3 DEF InflightHasCallback
<1>3. CASE ~(theme \in Community \ cache /\ free # theme)
  <2>1. inflight' = free /\ waiting' = waiting  BY <1>3 DEF Download
  <2> QED  BY <1>1, <2>1 DEF InflightHasCallback
<1> QED  BY <1>2, <1>3

\* Every step keeps the invariant and passes on the theme resolved last.
LEMMA NextGood ==
  ASSUME IInv, [Next]_vars
  PROVE  IInv' /\ SendsLast(svc, svc', latest')
<1> USE DEF IInv
<1>1. /\ Good(svc, latest) /\ Waits(svc, latest) /\ Ticked(svc) /\ svc \in Service
      /\ latest \in Themes /\ configured \in Themes /\ motion \in BOOLEAN
      /\ None \notin Themes /\ Community \subseteq Themes
  BY ThemesAssumption DEF ServiceGood, TypedRest, Good
<1>2. ASSUME NEW theme \in Themes, NEW moving \in Motions, ConfigReload(theme, moving)
      PROVE  IInv' /\ SendsLast(svc, svc', latest')
  <2> DEFINE after == AfterMotion(moving)
  <2>1. moving \in BOOLEAN  BY ThemesAssumption
  <2>2. Good(after, latest) /\ after.sends = svc.sends /\ after.sent = svc.sent
    <3> DEFINE next == [svc EXCEPT !.animated = FALSE, !.dropped = TRUE]
    <3>1. next \in Service  BY <1>1, Zenon DEF Service
    <3>2. /\ next.pending = svc.pending /\ next.deferred = svc.deferred
          /\ next.gen = svc.gen /\ next.dropped = TRUE
          /\ next.sends = svc.sends /\ next.sent = svc.sent
      BY <1>1, Zenon DEF Service
    <3>3. after = next \/ after = svc  BY DEF AfterMotion
    <3> HIDE DEF next
    <3>4. Good(next, latest)  BY <1>1, <3>1, <3>2, GoodByFields DEF Ticked
    <3> QED  BY <1>1, <3>2, <3>3, <3>4
  <2> HIDE DEF after
  <2>3. /\ ResolveAndSet(after, theme, cached, inflight, moving)
        /\ configured' = theme /\ motion' = moving /\ cached' = cached /\ calling' = calling
    BY <1>2 DEF ConfigReload, after
  <2>4. inflight \in Community \cup {None} /\ cached \in SUBSET Community
    BY DEF Tracked, TypedRest
  <2>5. latest' \in Themes /\ ServiceGood' /\ SendsLast(after, svc', latest')
    BY <2>1, <2>2, <2>3, <2>4, ResolveKeeps
  <2>6. inflight' \in Community \cup {None} /\ waiting' \in [Community -> Nat]
        /\ InflightHasCallback'
    BY <2>3, <2>4, DownloadTracked DEF ResolveAndSet, Tracked, InflightHasCallback
  <2>7. Tracked'  BY <2>3, <2>6 DEF Tracked
  <2>8. TypedRest'  BY <2>3, <2>4, <2>5 DEF TypedRest
  <2> QED  BY <2>2, <2>5, <2>7, <2>8 DEF SendsLast
<1>3. ASSUME svc' \in Service, Good(svc', latest), SendsLast(svc, svc', latest),
             UNCHANGED <<configured, motion, inflight, cached, waiting, calling, latest, events>>
      PROVE  IInv' /\ SendsLast(svc, svc', latest')
  BY <1>3 DEF ServiceGood, Tracked, TypedRest, InflightHasCallback
<1>4. CASE TickIdle
  <2> DEFINE next == [svc EXCEPT !.ticking = FALSE]
  <2>1. next \in Service  BY <1>1, Zenon DEF Service
  <2>2. /\ next.pending = svc.pending /\ next.deferred = svc.deferred /\ next.gen = svc.gen
        /\ next.sends = svc.sends /\ next.sent = svc.sent /\ next.shown = svc.shown
        /\ next.dropped = svc.dropped
    BY <1>1, Zenon DEF Service
  <2>3. svc' = next /\ ~svc.animated  BY <1>4 DEF TickIdle
  <2> HIDE DEF next
  <2>4. Ticked(next)  BY <1>1, <2>2, <2>3 DEF Ticked
  <2>5. Good(next, latest)  BY <1>1, <2>1, <2>2, <2>4, GoodByFields
  <2> QED  BY <1>3, <1>4, <2>1, <2>2, <2>3, <2>5 DEF TickIdle, SendsLast
<1>5. CASE TickFade
  <2>1. Between(svc) \in {PaletteOf[t] : t \in Themes} \cup {Mixed}
    BY <1>1, FieldTypes DEF Between
  <2>2. svc' = Shown(svc, Between(svc)) /\ svc.ticking /\ svc.animated
    BY <1>5 DEF TickFade
  <2>3. Good(svc', latest) /\ SendsLast(svc, svc', latest)
    BY <1>1, <2>1, <2>2, ShownKeeps
  <2> QED  BY <1>3, <1>5, <2>3 DEF TickFade, Good
<1>6. CASE TickLast
  <2> DEFINE first == Shown(svc, svc.target)
             next == [first EXCEPT !.animated = FALSE]
  <2>1. svc.target \in {PaletteOf[t] : t \in Themes} /\ svc.target # Mixed
    BY <1>1, FieldTypes, PaletteIsPlain
  <2>2. Good(first, latest) /\ SendsLast(svc, first, latest)
    BY <1>1, <2>1, ShownKeeps
  <2>3. svc' = Finish(next)  BY <1>6 DEF TickLast
  <2> HIDE DEF first
  <2>4. next \in Service  BY <2>2, Zenon DEF Service, Good
  <2>5. /\ next.pending = first.pending /\ next.deferred = first.deferred
        /\ next.gen = first.gen /\ next.sends = first.sends /\ next.sent = first.sent
    BY <2>2, Zenon DEF Service, Good
  <2> HIDE DEF next
  <2>6. Waits(next, latest)  BY <2>2, <2>5 DEF Good, Waits
  <2>7. Good(Finish(next), latest) /\ SendsLast(next, Finish(next), latest)
    BY <1>1, <2>4, <2>6, FinishKeeps
  <2>8. Good(svc', latest) /\ SendsLast(svc, svc', latest)
    <3>1. SendsLast(first, svc', latest)  BY <2>3, <2>5, <2>7 DEF SendsLast
    <3>2. Good(svc', latest)  BY <2>3, <2>7
    <3> QED  BY <1>1, <2>2, <3>1, <3>2, SendsTwice DEF Good
  <2> QED  BY <1>3, <1>6, <2>8 DEF TickLast, Good
<1>7. CASE RunDeferred
  <2> DEFINE idle == [svc EXCEPT !.deferred = {}]
  <2>1. idle \in Service  BY <1>1, Zenon DEF Service
  <2>2. /\ idle.pending = svc.pending /\ idle.deferred = {} /\ idle.gen = svc.gen
        /\ idle.sends = svc.sends /\ idle.sent = svc.sent /\ idle.shown = svc.shown
        /\ idle.dropped = svc.dropped /\ idle.animated = svc.animated
        /\ idle.ticking = svc.ticking
    BY <1>1, Zenon DEF Service
  <2>3. \/ svc' = idle
        \/ \E d \in svc.deferred : d.gen = svc.gen /\ svc' = Send(idle, d.theme)
    BY <1>7, Zenon DEF RunDeferred
  <2> HIDE DEF idle
  <2>4. Good(idle, latest)
    BY <1>1, <2>1, <2>2, Zenon DEF Good, Waits, Ticked
  <2>5. CASE svc' = idle
    <3>1. SendsLast(svc, svc', latest)  BY <2>2, <2>5 DEF SendsLast
    <3> QED  BY <1>3, <1>7, <2>1, <2>4, <2>5, <3>1 DEF RunDeferred
  <2>6. ASSUME NEW d \in svc.deferred, d.gen = svc.gen, svc' = Send(idle, d.theme)
        PROVE  IInv' /\ SendsLast(svc, svc', latest')
    <3> DEFINE next == [idle EXCEPT !.sent = d.theme, !.sends = @ + 1]
    <3>1. d.theme = latest  BY <1>1, <2>6 DEF Waits
    <3>2. idle.sends + 1 \in Nat  BY <2>1, FieldTypes
    <3>3. next \in Service  BY <1>1, <2>1, <3>1, <3>2, Zenon DEF Service
    <3>4. /\ next.pending = idle.pending /\ next.deferred = idle.deferred
          /\ next.gen = idle.gen /\ next.sent = d.theme /\ next.shown = idle.shown
          /\ next.dropped = idle.dropped /\ next.animated = idle.animated
          /\ next.ticking = idle.ticking /\ next.sends = idle.sends + 1
      BY <2>1, Zenon DEF Service
    <3>5. svc' = next  BY <2>6 DEF Send
    <3> HIDE DEF next
    <3>6. Good(next, latest)  BY <2>4, <3>3, <3>4, GoodByFields DEF Good, Ticked
    <3>7. SendsLast(svc, svc', latest)
      <4>1. svc.sends \in Nat /\ idle.sends = svc.sends  BY <1>1, <2>2, FieldTypes
      <4>2. next.sends > svc.sends  BY <3>4, <4>1
      <4> QED  BY <3>1, <3>4, <3>5, <4>2 DEF SendsLast
    <3> QED  BY <1>3, <1>7, <3>3, <3>5, <3>6, <3>7 DEF RunDeferred
  <2> QED  BY <2>3, <2>5, <2>6
<1>8. ASSUME NEW name \in Community, NEW success \in BOOLEAN, DownloadEnds(name, success)
      PROVE  IInv' /\ SendsLast(svc, svc', latest')
  <2>1. /\ calling = Idle /\ waiting[name] > 0
        /\ calling' = [name |-> name, success |-> success, left |-> waiting[name]]
        /\ waiting' = [waiting EXCEPT ![name] = 0]
        /\ UNCHANGED <<configured, motion, svc, inflight, cached, latest, events>>
    BY <1>8 DEF DownloadEnds
  <2>2. waiting[name] \in Nat /\ name # None  BY <1>1 DEF Tracked
  <2>3. waiting' \in [Community -> Nat]  BY <2>1 DEF Tracked
  <2>4. calling' \in [name : Community \cup {None}, success : BOOLEAN, left : Nat]
        /\ calling'.name = name /\ calling'.left > 0
    BY <2>1, <2>2, SMT
  <2>5. InflightHasCallback'
    BY <1>1, <2>1, <2>4, SMT DEF Tracked, InflightHasCallback, Idle
  <2>6. Tracked'  BY <2>1, <2>3, <2>4, <2>5 DEF Tracked
  <2>7. ServiceGood' /\ TypedRest'  BY <2>1 DEF ServiceGood, TypedRest
  <2> QED  BY <2>1, <2>6, <2>7 DEF SendsLast
<1>9. ASSUME calling # Idle, calling' = Called
      PROVE  /\ calling' \in [name : Community \cup {None}, success : BOOLEAN, left : Nat]
             /\ calling' # Idle => calling'.name \in Community /\ calling'.left > 0
             /\ Cleared \in Community \cup {None}
             /\ Cleared # None => waiting[Cleared] > 0 \/ calling'.name = Cleared
  <2>1. /\ calling \in [name : Community \cup {None}, success : BOOLEAN, left : Nat]
        /\ calling.name \in Community /\ calling.left > 0
        /\ inflight \in Community \cup {None} /\ InflightHasCallback
    BY <1>9 DEF Tracked
  <2>2. CASE calling.left = 1
    <3>1. calling' = Idle  BY <1>9, <2>2 DEF Called
    <3> QED  BY <2>1, <3>1, SMT DEF Idle, Cleared, InflightHasCallback
  <2>3. CASE calling.left # 1
    <3>1. calling' = [calling EXCEPT !.left = @ - 1]  BY <1>9, <2>3 DEF Called
    <3>2. /\ calling'.name = calling.name /\ calling'.left = calling.left - 1
          /\ calling'.success = calling.success
          /\ calling' = [name |-> calling.name, success |-> calling.success,
                         left |-> calling.left - 1]
      BY <2>1, <3>1, SMT
    <3>3. calling.left - 1 \in Nat /\ calling.left - 1 > 0  BY <2>1, <2>3, SMT
    <3>4. calling' \in [name : Community \cup {None}, success : BOOLEAN, left : Nat]
      BY <2>1, <3>2, <3>3, SMT
    <3> QED  BY <2>1, <3>2, <3>3, <3>4, Zenon DEF Cleared, InflightHasCallback
  <2> QED  BY <2>2, <2>3
<1>10. CASE CallbackFails
  <2>1. /\ calling # Idle /\ calling' = Called /\ inflight' = Cleared
        /\ cached' = cached \ {calling.name}
        /\ UNCHANGED <<configured, motion, svc, waiting, latest, events>>
    BY <1>10 DEF CallbackFails
  <2>2. Tracked'  BY <1>9, <2>1 DEF Tracked, InflightHasCallback
  <2>3. ServiceGood' /\ TypedRest'  BY <2>1 DEF ServiceGood, TypedRest
  <2> QED  BY <2>1, <2>2, <2>3 DEF SendsLast
<1>11. CASE CallbackResolves
  <2>1. /\ calling # Idle /\ calling' = Called
        /\ cached' = cached \cup {calling.name}
        /\ ResolveAndSet(svc, configured, cached', Cleared, motion)
        /\ UNCHANGED <<configured, motion, events>>
    BY <1>11 DEF CallbackResolves
  <2>2. cached' \in SUBSET Community  BY <2>1 DEF Tracked, TypedRest
  <2>3. latest' \in Themes /\ ServiceGood' /\ SendsLast(svc, svc', latest')
    BY <1>1, <1>9, <2>1, <2>2, ResolveKeeps
  <2>4. inflight' \in Community \cup {None} /\ waiting' \in [Community -> Nat]
        /\ InflightHasCallback'
    BY <1>1, <1>9, <2>1, DownloadTracked DEF ResolveAndSet
  <2>5. Tracked'  BY <1>9, <2>1, <2>4 DEF Tracked
  <2>6. TypedRest'  BY <2>1, <2>2, <2>3 DEF TypedRest
  <2> QED  BY <2>3, <2>5, <2>6
<1>12. CASE UNCHANGED vars
  BY <1>12 DEF vars, ServiceGood, Tracked, TypedRest, InflightHasCallback, SendsLast
<1> QED
  BY <1>2, <1>4, <1>5, <1>6, <1>7, <1>8, <1>10, <1>11, <1>12 DEF Next, Callback

-----------------------------------------------------------------------------
(* The theorems. *)

LEMMA SpecGood == Spec => []IInv
<1>1. Init => IInv  BY InitGood
<1>2. IInv /\ [Next]_vars => IInv'  BY NextGood
<1> QED  BY <1>1, <1>2, PTL DEF Spec

\* Types; no palette is fetched without a callback that will say how it ended;
\* the screen stays between two palettes only where motion dropped the fade.
THEOREM NothingIsLeftBehind == Spec => []ThemeInv
<1>1. IInv => ThemeInv
  BY DEF IInv, ServiceGood, Good, Tracked, TypedRest, Ticked, ThemeInv, TypeOK, FadeIsTicked
<1> QED  BY <1>1, SpecGood, PTL

\* Templates and hooks are only ever given the theme resolved last, whatever
\* resolves, fades, deferred calls and downloads cross.
THEOREM TemplatesGetTheLatest == Spec => OnlyLatestIsSent
<1>1. IInv /\ [Next]_vars => [svc'.sends # svc.sends => svc'.sent = latest']_vars
  BY NextGood DEF SendsLast
<1> QED  BY <1>1, SpecGood, PTL DEF Spec, OnlyLatestIsSent

-----------------------------------------------------------------------------
(* The pipeline: what a step of the service still owes. *)

\* The theme resolved last has been passed on, or waits to be.
Owed(s, last) ==
  \/ s.sent = last
  \/ s.pending = last
  \/ \E d \in s.deferred : d.gen = s.gen /\ d.theme = last

\* Without a fade the screen shows its target, and only a fade is ticked.
Faded(s) == (s.ticking => s.fading) /\ (~s.fading => s.shown = s.target)

Aims(s, last) == Owed(s, last) /\ Faded(s) /\ s.target = PaletteOf[last]

\* flushResolvedCallback moves what is owed on, and leaves the screen alone.
LEMMA FlushOwes ==
  ASSUME NEW last \in Themes, NEW s, Good(s, last), Owed(s, last), NEW defer \in BOOLEAN
  PROVE  /\ Owed(Flush(s, defer), last)
         /\ Flush(s, defer).shown = s.shown /\ Flush(s, defer).fading = s.fading
         /\ Flush(s, defer).target = s.target /\ Flush(s, defer).ticking = s.ticking
<1>1. s \in Service /\ Waits(s, last) /\ None \notin Themes  BY ThemesAssumption DEF Good
<1>2. Flush(s, defer).target = s.target /\ Flush(s, defer).ticking = s.ticking
  BY <1>1, FlushFade
<1>3. CASE s.pending = None
  <2>1. Flush(s, defer) = s  BY <1>3 DEF Flush
  <2> QED  BY <1>2, <2>1
<1>4. CASE s.pending # None /\ defer
  <2> DEFINE call == [gen |-> s.gen, theme |-> s.pending]
             more == s.deferred \cup {call}
             next == [s EXCEPT !.pending = None, !.deferred = more]
  <2>1. call \in more /\ call.gen = s.gen /\ call.theme = last
    BY <1>1, <1>4 DEF Waits
  <2> HIDE DEF call, more
  <2>2. /\ next.deferred = more /\ next.gen = s.gen
        /\ next.shown = s.shown /\ next.fading = s.fading
    BY <1>1, Zenon DEF Service
  <2>3. Flush(s, defer) = next  BY <1>4, Zenon DEF Flush, more, call
  <2> HIDE DEF next
  <2>4. Owed(next, last)  BY <2>1, <2>2, Zenon DEF Owed
  <2> QED  BY <1>2, <2>2, <2>3, <2>4
<1>5. CASE s.pending # None /\ ~defer
  <2> DEFINE next == [s EXCEPT !.pending = None]
             sent == [next EXCEPT !.sent = s.pending, !.sends = @ + 1]
  <2>1. s.pending = last  BY <1>1, <1>5 DEF Waits
  <2>2. next \in Service  BY <1>1, Zenon DEF Service
  <2>3. sent.sent = s.pending /\ sent.shown = s.shown /\ sent.fading = s.fading
    BY <1>1, Zenon DEF Service
  <2>4. Flush(s, defer) = sent  BY <1>5, Zenon DEF Flush, Send
  <2> HIDE DEF sent
  <2> QED  BY <1>2, <2>1, <2>3, <2>4 DEF Owed
<1> QED  BY <1>3, <1>4, <1>5

\* The setter of the fade.
LEMMA ShownOwes ==
  ASSUME NEW last \in Themes, NEW s \in Service, Waits(s, last), Owed(s, last),
         NEW p \in {PaletteOf[t] : t \in Themes} \cup {Mixed},
         p = Mixed => s.animated /\ s.ticking
  PROVE  /\ Owed(Shown(s, p), last)
         /\ Shown(s, p).shown = p /\ Shown(s, p).fading = s.fading
         /\ Shown(s, p).target = s.target /\ Shown(s, p).ticking = s.ticking
<1> DEFINE next == [s EXCEPT !.shown = p, !.flushed = TRUE]
<1>1. next \in Service  BY Zenon DEF Service
<1>2. /\ next.pending = s.pending /\ next.deferred = s.deferred /\ next.gen = s.gen
      /\ next.sent = s.sent /\ next.target = s.target /\ next.fading = s.fading
      /\ next.shown = p /\ next.animated = s.animated /\ next.ticking = s.ticking
  BY Zenon DEF Service
<1>3. Shown(s, p) = IF s.flushed THEN next ELSE Flush(next, TRUE)  BY Zenon DEF Shown
<1> HIDE DEF next
<1>4. Good(next, last)  BY <1>1, <1>2, GoodByFields DEF Ticked
<1>5. Owed(next, last)  BY <1>2, Zenon DEF Owed
<1>6. TRUE \in BOOLEAN  OBVIOUS
<1>7. /\ Owed(Flush(next, TRUE), last)
      /\ Flush(next, TRUE).shown = next.shown /\ Flush(next, TRUE).fading = next.fading
      /\ Flush(next, TRUE).target = next.target /\ Flush(next, TRUE).ticking = next.ticking
  BY <1>4, <1>5, <1>6, FlushOwes
<1>8. CASE s.flushed  BY <1>2, <1>3, <1>5, <1>8
<1>9. CASE ~s.flushed  BY <1>2, <1>3, <1>7, <1>9
<1> QED  BY <1>8, <1>9

\* finishTransition ends the fade on its target.
LEMMA FinishAims ==
  ASSUME NEW last \in Themes, NEW s \in Service, Waits(s, last), Owed(s, last),
         s.target = PaletteOf[last]
  PROVE  Aims(Finish(s), last)
<1> DEFINE next == [s EXCEPT !.fading = FALSE, !.ticking = FALSE, !.shown = s.target]
<1>1. s.target \in {PaletteOf[t] : t \in Themes} /\ s.target # Mixed
  BY PaletteIsPlain, FieldTypes
<1>2. next \in Service  BY <1>1, Zenon DEF Service
<1>3. /\ next.pending = s.pending /\ next.deferred = s.deferred /\ next.gen = s.gen
      /\ next.sent = s.sent /\ next.shown = s.target /\ next.target = s.target
      /\ next.fading = FALSE /\ next.ticking = FALSE
  BY Zenon DEF Service
<1>4. Finish(s) = Flush(next, FALSE)  BY Zenon DEF Finish
<1> HIDE DEF next
<1>5. Good(next, last)  BY <1>1, <1>2, <1>3, GoodByFields DEF Ticked
<1>6. Owed(next, last)  BY <1>3, Zenon DEF Owed
<1>7. FALSE \in BOOLEAN  OBVIOUS
<1>8. /\ Owed(Flush(next, FALSE), last)
      /\ Flush(next, FALSE).shown = next.shown /\ Flush(next, FALSE).fading = next.fading
      /\ Flush(next, FALSE).target = next.target /\ Flush(next, FALSE).ticking = next.ticking
  BY <1>5, <1>6, <1>7, FlushOwes
<1> QED  BY <1>3, <1>4, <1>8 DEF Aims, Faded

\* startTransition ends up on the palette of the theme that is queued, or on its
\* way there.
LEMMA StartTransitionAims ==
  ASSUME NEW last \in Themes, NEW s, Good(s, last), Owed(s, last), Faded(s),
         NEW moving \in BOOLEAN
  PROVE  Aims(StartTransition(s, PaletteOf[last], moving), last)
<1> DEFINE p == PaletteOf[last]
           next == [s EXCEPT !.from = s.shown, !.target = p, !.flushed = FALSE,
                             !.animated = FALSE, !.fading = FALSE, !.dropped = FALSE]
<1>1. s \in Service /\ Waits(s, last)  BY DEF Good
<1>2. /\ s.shown \in {PaletteOf[t] : t \in Themes} \cup {Mixed} /\ s.fading \in BOOLEAN
      /\ p \in {PaletteOf[t] : t \in Themes} /\ TRUE \in BOOLEAN /\ FALSE \in BOOLEAN
  BY <1>1, FieldTypes
<1> HIDE DEF p
<1>3. next \in Service  BY <1>1, <1>2, Zenon DEF Service
<1>4. /\ next.pending = s.pending /\ next.deferred = s.deferred /\ next.gen = s.gen
      /\ next.sent = s.sent /\ next.target = p
  BY <1>1, Zenon DEF Service
<1>5. Waits(next, last) /\ Owed(next, last)  BY <1>1, <1>4 DEF Waits, Owed
<1>6. ASSUME NEW defer \in BOOLEAN, s.target = p
      PROVE  Aims(Flush(s, defer), last)
  <2>1. /\ Owed(Flush(s, defer), last)
        /\ Flush(s, defer).shown = s.shown /\ Flush(s, defer).fading = s.fading
        /\ Flush(s, defer).target = s.target /\ Flush(s, defer).ticking = s.ticking
    BY FlushOwes
  <2> QED  BY <1>6, <2>1 DEF Aims, Faded, p
<1>7. CASE ~s.fading /\ s.shown = p
  <2>1. StartTransition(s, p, moving) = Flush(s, FALSE)  BY <1>7 DEF StartTransition
  <2>2. s.target = p  BY <1>7 DEF Faded
  <2>3. Aims(Flush(s, FALSE), last)  BY <1>2, <1>6, <2>2
  <2> QED  BY <2>1, <2>3 DEF p
<1>8. CASE ~(~s.fading /\ s.shown = p) /\ s.fading /\ s.target = p
  <2>1. StartTransition(s, p, moving) = Flush(s, TRUE)  BY <1>8 DEF StartTransition
  <2>2. Aims(Flush(s, TRUE), last)  BY <1>2, <1>6, <1>8
  <2> QED  BY <2>1, <2>2 DEF p
<1>9. CASE ~(~s.fading /\ s.shown = p) /\ ~(s.fading /\ s.target = p)
  <2>1. StartTransition(s, p, moving) = Animate(next, moving)
    BY <1>9, Zenon DEF StartTransition
  <2> HIDE DEF next
  <2>2. CASE moving
    <3> DEFINE runs == [next EXCEPT !.fading = TRUE, !.animated = TRUE, !.ticking = TRUE]
    <3>1. /\ runs.pending = next.pending /\ runs.deferred = next.deferred
          /\ runs.gen = next.gen /\ runs.sent = next.sent
          /\ runs.target = next.target /\ runs.fading = TRUE
      BY <1>3, Zenon DEF Service
    <3>2. Animate(next, moving) = runs  BY <2>2, Zenon DEF Animate
    <3> HIDE DEF runs
    <3>3. Owed(runs, last)  BY <1>5, <3>1, Zenon DEF Owed
    <3> QED  BY <1>4, <2>1, <3>1, <3>2, <3>3 DEF Aims, Faded, p
  <2>3. CASE ~moving
    <3> DEFINE first == Shown(next, next.target)
    <3>1. next.target \in {PaletteOf[t] : t \in Themes} /\ next.target # Mixed
      BY <1>2, <1>4, PaletteIsPlain
    <3>2. Good(first, last) /\ Owed(first, last) /\ first.target = next.target
      BY <1>3, <1>5, <3>1, ShownKeeps, ShownOwes
    <3>3. Animate(next, moving) = Finish(first)  BY <2>3, Zenon DEF Animate
    <3> HIDE DEF first
    <3>4. first \in Service /\ Waits(first, last) /\ first.target = PaletteOf[last]
      BY <1>4, <3>2 DEF Good, p
    <3>5. Aims(Finish(first), last)  BY <3>2, <3>4, FinishAims
    <3> QED  BY <2>1, <3>3, <3>5 DEF p
  <2> QED  BY <2>2, <2>3
<1> QED  BY <1>7, <1>8, <1>9

\* resolveAndSet leaves the service on its way to the theme it has resolved.
LEMMA ResolveAims ==
  ASSUME NEW s, NEW old, Good(s, old), Faded(s), NEW theme \in Themes,
         NEW cache \in SUBSET Community, NEW name, NEW moving \in BOOLEAN,
         ResolveAndSet(s, theme, cache, name, moving)
  PROVE  Aims(svc', latest')
<1> DEFINE last == Resolved(theme, cache)
           queued == Queue(s, last)
           next == [s EXCEPT !.pending = last, !.gen = @ + 1]
<1>1. last \in Themes /\ s \in Service  BY ThemesAssumption DEF Resolved, Good
<1>2. latest' = last /\ svc' = StartTransition(queued, PaletteOf[last], moving)
  BY DEF ResolveAndSet
<1> HIDE DEF last
<1>3. Good(queued, last)  BY <1>1, QueueKeeps
<1>4. /\ next.pending = last /\ next.ticking = s.ticking /\ next.fading = s.fading
      /\ next.shown = s.shown /\ next.target = s.target
  BY <1>1, Zenon DEF Service
<1>5. queued = next  BY Zenon DEF Queue
<1> HIDE DEF next, queued
<1>6. Owed(queued, last) /\ Faded(queued)  BY <1>4, <1>5 DEF Owed, Faded
<1>7. Aims(StartTransition(queued, PaletteOf[last], moving), last)
  BY <1>1, <1>3, <1>6, StartTransitionAims
<1> QED  BY <1>2, <1>7

\* Every step of the theme service keeps its aim.
LEMMA NextAims ==
  ASSUME IInv, Aims(svc, latest), [Next]_vars
  PROVE  Aims(svc', latest')
<1> USE DEF IInv
<1>1. /\ Good(svc, latest) /\ Waits(svc, latest) /\ Ticked(svc) /\ svc \in Service
      /\ Owed(svc, latest) /\ Faded(svc) /\ svc.target = PaletteOf[latest]
      /\ latest \in Themes /\ configured \in Themes /\ motion \in BOOLEAN
      /\ cached \in SUBSET Community
  BY ThemesAssumption DEF ServiceGood, TypedRest, Good, Aims
<1>2. ASSUME NEW theme \in Themes, NEW moving \in Motions, ConfigReload(theme, moving)
      PROVE  Aims(svc', latest')
  <2> DEFINE after == AfterMotion(moving)
             next == [svc EXCEPT !.animated = FALSE, !.dropped = TRUE]
  <2>1. moving \in BOOLEAN  BY ThemesAssumption
  <2>2. next \in Service  BY <1>1, Zenon DEF Service
  <2>3. /\ next.pending = svc.pending /\ next.deferred = svc.deferred
        /\ next.gen = svc.gen /\ next.dropped = TRUE /\ next.ticking = svc.ticking
        /\ next.fading = svc.fading /\ next.shown = svc.shown /\ next.target = svc.target
    BY <1>1, Zenon DEF Service
  <2>4. after = next \/ after = svc  BY DEF AfterMotion
  <2> HIDE DEF next
  <2>5. Good(next, latest)  BY <1>1, <2>2, <2>3, GoodByFields DEF Ticked
  <2>6. Faded(next)  BY <1>1, <2>3 DEF Faded
  <2>7. Good(after, latest) /\ Faded(after)  BY <1>1, <2>4, <2>5, <2>6
  <2>8. ResolveAndSet(after, theme, cached, inflight, moving)
    BY <1>2 DEF ConfigReload, after
  <2> HIDE DEF after
  <2> QED  BY <1>1, <2>1, <2>7, <2>8, ResolveAims
<1>3. CASE TickIdle
  <2> DEFINE next == [svc EXCEPT !.ticking = FALSE]
  <2>1. /\ next.pending = svc.pending /\ next.deferred = svc.deferred /\ next.gen = svc.gen
        /\ next.sent = svc.sent /\ next.shown = svc.shown /\ next.target = svc.target
        /\ next.fading = svc.fading /\ next.ticking = FALSE
    BY <1>1, Zenon DEF Service
  <2>2. svc' = next /\ latest' = latest  BY <1>3 DEF TickIdle
  <2> HIDE DEF next
  <2>3. Owed(next, latest) /\ Faded(next)  BY <1>1, <2>1, Zenon DEF Owed, Faded
  <2> QED  BY <1>1, <2>1, <2>2, <2>3 DEF Aims
<1>4. CASE TickFade
  <2>1. Between(svc) \in {PaletteOf[t] : t \in Themes} \cup {Mixed}
    BY <1>1, FieldTypes DEF Between
  <2>2. svc' = Shown(svc, Between(svc)) /\ svc.ticking /\ svc.animated /\ latest' = latest
    BY <1>4 DEF TickFade
  <2>3. /\ Owed(svc', latest) /\ svc'.fading = svc.fading /\ svc'.target = svc.target
        /\ svc'.ticking = svc.ticking
    BY <1>1, <2>1, <2>2, ShownOwes
  <2>4. svc.fading  BY <1>1, <2>2 DEF Faded
  <2> QED  BY <1>1, <2>2, <2>3, <2>4 DEF Aims, Faded
<1>5. CASE TickLast
  <2> DEFINE first == Shown(svc, svc.target)
             next == [first EXCEPT !.animated = FALSE]
  <2>1. svc.target \in {PaletteOf[t] : t \in Themes} /\ svc.target # Mixed
    BY <1>1, FieldTypes, PaletteIsPlain
  <2>2. Good(first, latest) /\ Owed(first, latest) /\ first.target = svc.target
    BY <1>1, <2>1, ShownKeeps, ShownOwes
  <2>3. svc' = Finish(next) /\ latest' = latest  BY <1>5 DEF TickLast
  <2> HIDE DEF first
  <2>4. next \in Service  BY <2>2, Zenon DEF Service, Good
  <2>5. /\ next.pending = first.pending /\ next.deferred = first.deferred
        /\ next.gen = first.gen /\ next.sent = first.sent /\ next.target = first.target
    BY <2>2, Zenon DEF Service, Good
  <2> HIDE DEF next
  <2>6. Waits(next, latest) /\ Owed(next, latest)  BY <2>2, <2>5 DEF Good, Waits, Owed
  <2>7. next.target = PaletteOf[latest]  BY <1>1, <2>2, <2>5
  <2>8. Aims(Finish(next), latest)  BY <1>1, <2>4, <2>6, <2>7, FinishAims
  <2> QED  BY <2>3, <2>8
<1>6. CASE RunDeferred
  <2> DEFINE idle == [svc EXCEPT !.deferred = {}]
  <2>1. /\ idle.pending = svc.pending /\ idle.sent = svc.sent /\ idle.shown = svc.shown
        /\ idle.target = svc.target /\ idle.fading = svc.fading /\ idle.ticking = svc.ticking
    BY <1>1, Zenon DEF Service
  <2>2. idle \in Service  BY <1>1, Zenon DEF Service
  <2>3. /\ latest' = latest
        /\ \/ svc' = idle /\ \A d \in svc.deferred : d.gen # svc.gen
           \/ \E d \in svc.deferred : d.gen = svc.gen /\ svc' = Send(idle, d.theme)
    BY <1>6, Zenon DEF RunDeferred
  <2> HIDE DEF idle
  <2>4. Faded(idle) /\ idle.target = PaletteOf[latest]  BY <1>1, <2>1 DEF Faded
  <2>5. CASE svc' = idle /\ \A d \in svc.deferred : d.gen # svc.gen
    <3>1. Owed(idle, latest)  BY <1>1, <2>1, <2>5, Zenon DEF Owed
    <3> QED  BY <2>3, <2>4, <2>5, <3>1 DEF Aims
  <2>6. ASSUME NEW d \in svc.deferred, d.gen = svc.gen, svc' = Send(idle, d.theme)
        PROVE  Aims(svc', latest')
    <3> DEFINE next == [idle EXCEPT !.sent = d.theme, !.sends = @ + 1]
    <3>1. d.theme = latest  BY <1>1, <2>6 DEF Waits
    <3>2. /\ next.sent = d.theme /\ next.shown = idle.shown /\ next.target = idle.target
          /\ next.fading = idle.fading /\ next.ticking = idle.ticking
      BY <2>2, Zenon DEF Service
    <3>3. svc' = next  BY <2>6 DEF Send
    <3> HIDE DEF next
    <3>4. Owed(next, latest) /\ Faded(next)  BY <2>4, <3>1, <3>2 DEF Owed, Faded
    <3> QED  BY <2>3, <2>4, <3>2, <3>3, <3>4 DEF Aims
  <2> QED  BY <2>3, <2>5, <2>6
<1>7. CASE UNCHANGED <<svc, latest>>
  <2>1. svc' = svc /\ latest' = latest  BY <1>7
  <2> QED  BY <2>1
<1>8. ASSUME NEW name \in Community, NEW success \in BOOLEAN, DownloadEnds(name, success)
      PROVE  Aims(svc', latest')
  BY <1>7, <1>8 DEF DownloadEnds
<1>9. CASE CallbackFails
  BY <1>7, <1>9 DEF CallbackFails
<1>10. CASE CallbackResolves
  <2>1. /\ calling # Idle /\ cached' = cached \cup {calling.name}
        /\ ResolveAndSet(svc, configured, cached', Cleared, motion)
    BY <1>10 DEF CallbackResolves
  <2>2. cached' \in SUBSET Community  BY <1>1, <2>1 DEF Tracked
  <2> QED  BY <1>1, <2>1, <2>2, ResolveAims
<1>11. CASE UNCHANGED vars
  BY <1>7, <1>11 DEF vars
<1> QED
  BY <1>2, <1>3, <1>4, <1>5, <1>6, <1>8, <1>9, <1>10, <1>11 DEF Next, Callback

-----------------------------------------------------------------------------
(* The pipeline: the service and the worker together. *)

TP == INSTANCE TemplateApplyService_proofs
        WITH Contents <- Themes, Nothing <- None, Flaky <- {}

\* The newest request, be it in the slot or with the worker, renders what was
\* passed on last, to all the files; nothing shuts the worker down, and no render
\* fails.
Newest(r) == r.content = svc.sent /\ r.outputs = Outputs
Linked ==
  /\ ~shutdown /\ failed = {}
  /\ IF pending = TP!NoRequest THEN Newest(request) ELSE Newest(pending)

PipelineIInv == IInv /\ Aims(svc, latest) /\ TP!Inv /\ Linked

LEMMA WorkerConstants ==
  /\ Outputs \subseteq Nat /\ {} \subseteq Outputs /\ None \notin Themes /\ MaxRequests \in Nat
BY ThemesAssumption, PipelineAssumption

\* The request made at startup.
LEMMA WorkerInit ==
  ASSUME PipelineInit
  PROVE  TP!Inv /\ Linked
<1> DEFINE first == TP!Request(1, latest, Outputs)
<1>1. /\ latest \in Themes /\ Fallback \in Themes /\ None \notin Themes
      /\ Outputs \subseteq Nat /\ MaxRequests \in Nat /\ 1 \in 1 .. MaxRequests
      /\ 1 \in 0 .. MaxRequests /\ 0 \in 0 .. MaxRequests
  BY InitGood, ThemesAssumption, PipelineAssumption DEF PipelineInit, IInv, TypedRest
<1>2. first = T!Request(1, latest, Outputs) /\ TP!NoRequest = T!NoRequest
  BY DEF TP!Request, T!Request, TP!NoRequest, T!NoRequest
<1>3. first \in TP!Requests /\ first # TP!NoRequest /\ first.gen = 1
      /\ first.content = latest /\ first.outputs = Outputs
  BY <1>1 DEF TP!Requests, TP!Request, TP!NoRequest
<1>4. TP!NoRequest.gen = 0 /\ TP!NoRequest.outputs = {} /\ 0 <= 1 /\ 0 < 1
  BY DEF TP!NoRequest, TP!Request
<1>5. /\ pending = first /\ request = TP!NoRequest /\ nextGeneration = 1 /\ shutdown = FALSE
      /\ at = "wait" /\ todo = {} /\ current = 0 /\ wrote = FALSE
      /\ disk \in [Outputs -> {Fallback, None}] /\ failed = {} /\ late = 0
      /\ applied = [o \in Outputs |-> 0] /\ unhooked = [o \in Outputs |-> 0]
      /\ svc.sent = latest
  BY <1>2 DEF PipelineInit, Init
<1> HIDE DEF first
<1>6. /\ applied \in [Outputs -> 0 .. MaxRequests] /\ unhooked \in [Outputs -> 0 .. MaxRequests]
      /\ \A o \in Outputs : applied[o] = 0 /\ unhooked[o] = 0
  BY <1>1, <1>5
<1>7. disk \in [Outputs -> Themes \cup {None}]
  BY <1>1, <1>5
<1>8. TP!Typed
  <2>1. pending \in TP!Requests \cup {TP!NoRequest} /\ request \in TP!Requests \cup {TP!NoRequest}
    BY <1>3, <1>5
  <2>2. /\ nextGeneration \in 0 .. MaxRequests /\ shutdown \in BOOLEAN /\ late \in Nat
        /\ todo \in SUBSET request.outputs /\ wrote \in BOOLEAN /\ failed \in SUBSET Outputs
        /\ at = "wait"
    BY <1>1, <1>4, <1>5
  <2> QED  BY <1>6, <1>7, <2>1, <2>2 DEF TP!Typed
<1>9. /\ TP!Ordered /\ TP!Behind /\ TP!Covered /\ TP!Stops /\ TP!Hooked
  BY <1>3, <1>4, <1>5, <1>6
     DEF TP!Ordered, TP!Behind, TP!Covered, TP!Stops, TP!Hooked, TP!Superseded
<1>10. Linked  BY <1>3, <1>5 DEF Linked, Newest
<1> QED  BY <1>8, <1>9, <1>10 DEF TP!Inv

LEMMA WorkerNext == TP!Inv /\ [TP!Next]_templateVars => TP!Inv'
<1>1. TP!Inv /\ [TP!Next]_TP!vars => TP!Inv'
  BY TP!StepInv, WorkerConstants
<1>2. UNCHANGED templateVars => UNCHANGED TP!vars
  BY DEF templateVars, TP!vars, TP!mainVars, TP!workVars, TP!fileVars
<1> QED  BY <1>1, <1>2

\* What the service passes on becomes the newest request.
LEMMA PassOnLinks ==
  ASSUME PipelineIInv, PassOn, svc' \in Service, SendsLast(svc, svc', latest')
  PROVE  TP!Inv' /\ Linked'
<1>1. TP!Inv /\ Linked /\ svc'.sent \in Themes
  BY Zenon DEF PipelineIInv, Service
<1>2. CASE svc'.sends # svc.sends
  <2>1. T!Apply(svc'.sent, Outputs)  BY <1>2 DEF PassOn
  <2>2. TP!Apply(svc'.sent, Outputs)
    BY <2>1 DEF T!Apply, TP!Apply, T!Request, TP!Request, T!workVars, TP!workVars, T!fileVars,
                TP!fileVars
  <2>3. TP!Next  BY <1>1, <2>2 DEF TP!Next
  <2>4. TP!Inv'  BY <1>1, <2>3, WorkerNext
  <2>5. /\ pending' = TP!Request(nextGeneration + 1, svc'.sent, Outputs)
        /\ shutdown' = shutdown /\ failed' = failed
    BY <2>2 DEF TP!Apply, TP!fileVars
  <2>6. pending'.content = svc'.sent /\ pending'.outputs = Outputs
    BY <2>5 DEF TP!Request
  <2>7. pending' # TP!NoRequest
    BY <1>1, <2>6, ThemesAssumption DEF TP!NoRequest, TP!Request
  <2> QED  BY <1>1, <2>4, <2>5, <2>6, <2>7 DEF Linked, Newest
<1>3. CASE svc'.sends = svc.sends
  <2>1. UNCHANGED templateVars  BY <1>3 DEF PassOn
  <2>2. TP!Inv'  BY <1>1, <2>1, WorkerNext
  <2>3. svc'.sent = svc.sent
    <3>1. svc.sends \in Nat  BY FieldTypes DEF PipelineIInv, IInv, ServiceGood, Good
    <3> QED  BY <1>3, <3>1 DEF SendsLast
  <2>4. shutdown' = shutdown /\ failed' = failed /\ pending' = pending /\ request' = request
    BY <2>1 DEF templateVars
  <2>5. Linked'  BY <1>1, <2>3, <2>4 DEF Linked, Newest
  <2> QED  BY <2>2, <2>5
<1> QED  BY <1>2, <1>3

\* The worker takes what is newest, and renders it without a failure.
LEMMA WorkLinks ==
  ASSUME PipelineIInv, WorkerStep
  PROVE  TP!Inv' /\ Linked'
<1>1. TP!Inv /\ Linked /\ T!Work /\ svc' = svc  BY DEF PipelineIInv, WorkerStep, vars
<1>2. /\ T!Exit \/ T!Take \/ T!Check \/ T!Rendered \/ T!HookEnds
         => TP!Exit \/ TP!Take \/ TP!Check \/ TP!Rendered \/ TP!HookEnds
      /\ \A o \in Outputs : T!Render(o) => TP!Render(o)
  BY DEF T!Exit, TP!Exit, T!Take, TP!Take, T!Check, TP!Check, T!Rendered, TP!Rendered,
         T!HookEnds, TP!HookEnds, T!Render, TP!Render, T!RenderFile, TP!RenderFile,
         T!RenderFails, TP!RenderFails, T!IsNext, TP!IsNext, T!Replaced, TP!Replaced,
         T!Superseded, TP!Superseded, T!NoRequest, TP!NoRequest, T!Request, TP!Request,
         T!mainVars, TP!mainVars, T!workVars, TP!workVars, T!fileVars, TP!fileVars
<1>3. TP!Work  BY <1>1, <1>2 DEF T!Work, TP!Work
<1>4. TP!Inv'  BY <1>1, <1>3, WorkerNext DEF TP!Next
<1>5. CASE TP!Take
  BY <1>1, <1>4, <1>5 DEF TP!Take, Linked, Newest
<1>6. CASE TP!Exit \/ TP!Check \/ TP!Rendered \/ TP!HookEnds
  <2>1. shutdown' = shutdown /\ pending' = pending /\ request' = request /\ failed' = failed
    BY <1>6 DEF TP!Exit, TP!Check, TP!Rendered, TP!HookEnds, TP!mainVars, TP!fileVars
  <2> QED  BY <1>1, <1>4, <2>1 DEF Linked, Newest
<1>7. ASSUME NEW o \in Outputs, TP!Render(o) PROVE Linked'
  <2>1. shutdown' = shutdown /\ pending' = pending /\ request' = request /\ failed' = failed
    BY <1>7 DEF TP!Render, TP!RenderFile, TP!RenderFails, TP!mainVars
  <2> QED  BY <1>1, <2>1 DEF Linked, Newest
<1> QED  BY <1>3, <1>4, <1>5, <1>6, <1>7 DEF TP!Work

LEMMA PipelineInitInv == PipelineInit => PipelineIInv
<1> SUFFICES ASSUME PipelineInit PROVE PipelineIInv
  OBVIOUS
<1>1. IInv  BY InitGood DEF PipelineInit
<1>2. /\ svc.sent = latest /\ svc.target = PaletteOf[latest] /\ svc.shown = PaletteOf[latest]
      /\ svc.ticking = FALSE
  BY DEF PipelineInit, Init
<1>3. Aims(svc, latest)  BY <1>2 DEF Aims, Owed, Faded
<1> QED  BY <1>1, <1>3, WorkerInit DEF PipelineIInv

LEMMA PipelineNextInv == PipelineIInv /\ [PipelineNext]_pipelineVars => PipelineIInv'
<1> SUFFICES ASSUME PipelineIInv, [PipelineNext]_pipelineVars PROVE PipelineIInv'
  OBVIOUS
<1>1. CASE Next /\ PassOn
  <2>1. IInv' /\ SendsLast(svc, svc', latest')  BY <1>1, NextGood DEF PipelineIInv
  <2>2. Aims(svc', latest')  BY <1>1, NextAims DEF PipelineIInv
  <2>3. svc' \in Service  BY <2>1 DEF IInv, ServiceGood, Good
  <2>4. TP!Inv' /\ Linked'  BY <1>1, <2>1, <2>3, PassOnLinks
  <2> QED  BY <2>1, <2>2, <2>4 DEF PipelineIInv
<1>2. CASE UNCHANGED vars /\ TP!Inv' /\ Linked'
  <2>1. IInv'  BY <1>2, NextGood DEF PipelineIInv
  <2>2. Aims(svc', latest')  BY <1>2, NextAims DEF PipelineIInv
  <2> QED  BY <1>2, <2>1, <2>2 DEF PipelineIInv
<1>3. CASE WorkerStep
  <2>1. TP!Inv' /\ Linked'  BY <1>3, WorkLinks
  <2> QED  BY <1>2, <1>3, <2>1 DEF WorkerStep
<1>4. CASE UNCHANGED pipelineVars
  <2>1. UNCHANGED vars /\ UNCHANGED templateVars /\ svc' = svc
    BY <1>4 DEF pipelineVars, vars
  <2>2. TP!Inv'  BY <2>1, WorkerNext DEF PipelineIInv
  <2>3. Linked'  BY <2>1 DEF PipelineIInv, Linked, Newest, templateVars
  <2> QED  BY <1>2, <2>1, <2>2, <2>3
<1>5. PipelineNext => (Next /\ PassOn) \/ WorkerStep
  BY DEF PipelineNext, Next, Callback
<1> QED  BY <1>1, <1>3, <1>4, <1>5

\* The worker, the screen and the files agree when nothing is left to do.
LEMMA AgreesWhenIdle == PipelineIInv => IdleAgrees
<1> SUFFICES ASSUME PipelineIInv, ThemeIdle, T!Quiescent
             PROVE  /\ svc.shown = PaletteOf[latest]
                    /\ \A o \in Outputs : disk[o] = latest
  BY DEF IdleAgrees
<1>1. latest \in Themes /\ None \notin Themes
  BY ThemesAssumption DEF PipelineIInv, IInv, TypedRest
<1>2. svc.pending = None /\ svc.deferred = {} /\ ~svc.fading  BY DEF ThemeIdle
<1>3. svc.sent = latest  BY <1>1, <1>2 DEF PipelineIInv, Aims, Owed
<1>4. svc.shown = PaletteOf[latest]  BY <1>2 DEF PipelineIInv, Aims, Faded
<1>5. at = "wait" /\ pending = TP!NoRequest /\ ~shutdown
  BY DEF T!Quiescent, T!NoRequest, TP!NoRequest, T!Request, TP!Request
<1>6. request.gen = nextGeneration /\ todo = {}
  BY <1>5 DEF PipelineIInv, TP!Inv, TP!Ordered, TP!Covered, TP!Superseded
<1>7. request.outputs = Outputs /\ request.content = latest /\ failed = {}
  BY <1>3, <1>5 DEF PipelineIInv, Linked, Newest
<1>8. ASSUME NEW o \in Outputs PROVE disk[o] = latest
  BY <1>6, <1>7 DEF PipelineIInv, TP!Inv, TP!Covered
<1> QED  BY <1>4, <1>8

\* Whenever theme service and worker are both idle, however resolves, fades,
\* deferred calls, downloads and renders have crossed, the screen shows the
\* palette of the theme resolved last and every output file holds that theme; and
\* in every state no fade and no download is left without what ends it.
THEOREM PipelineAgrees == PipelineSpec => []PipelineInv
<1>1. IInv => ThemeInv
  BY DEF IInv, ServiceGood, Good, Tracked, TypedRest, Ticked, ThemeInv, TypeOK, FadeIsTicked
<1>2. PipelineIInv => PipelineInv
  BY <1>1, AgreesWhenIdle DEF PipelineIInv, PipelineInv
<1> QED  BY <1>2, PipelineInitInv, PipelineNextInv, PTL DEF PipelineSpec
=============================================================================
