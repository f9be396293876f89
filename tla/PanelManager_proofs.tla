------------------------- MODULE PanelManager_proofs -------------------------
(***************************************************************************)
(* Proofs for PanelManager: for any panels and any number of requests and  *)
(* events, what is open can be dismissed, no deferred destroyPanel takes   *)
(* down a panel it was not put off for, and closing the prompt cancels no  *)
(* request that the user has not been shown, unless it came while the      *)
(* prompt was leaving.                                                     *)
(*                                                                         *)
(* The handlers are functions of the shell's state which call each other.  *)
(* The lemmas about Dismantle, FadeOut and Reset say which fields they     *)
(* change; those about DestroyPanel, Close and OpenPanel, what the nested  *)
(* callbacks leave behind; the actions follow from them.                   *)
(***************************************************************************)
EXTENDS PanelManager, SequenceTheorems, TLAPS

\* A deferred destroyPanel that its generation still allows.
Doom(s, i) ==
  i \in 1 .. Len(s.calls) /\ s.calls[i].kind = "destroy" /\ s.calls[i].gen = s.gen
NoDoom(s) == \A i \in 1 .. Len(s.calls) : ~Doom(s, i)

\* No deferred call is of a generation to come.
Timely(s) == \A i \in 1 .. Len(s.calls) : s.calls[i].gen <= s.gen

\* What goes together in a state of the shell.
Fits(s) ==
  /\ IsOpen(s) <=> s.panel # None
  /\ s.input \/ s.anim # "none" => s.scene
  /\ s.scene => IsOpen(s)
  /\ s.gap => s.attached /\ s.surface = "mapped"
  /\ s.shield \/ s.grab => IsOpen(s)

\* At most one destroyPanel is put off that still counts, none while the close
\* animation has yet to end, and only while the panel manager is closing; it is for
\* the panel that is open, unless that was opened over a cancelling prompt.
Ends(s) ==
  /\ s.anim = "close" => s.closing /\ s.due = s.gen /\ NoDoom(s)
  /\ \A i \in 1 .. Len(s.calls) : Doom(s, i) =>
       /\ s.closing
       /\ IsOpen(s) /\ s.astray # "over" => s.calls[i].panel = s.opened
  /\ \A i, j \in 1 .. Len(s.calls) : Doom(s, i) /\ Doom(s, j) => i = j

\* What is open and not on its way out catches the clicks outside, or will.
Grabs(s) ==
  \E i \in 1 .. Len(s.calls) : s.calls[i].kind = "grab" /\ s.calls[i].gen = s.gen
Caught(s) ==
  s.surface = "mapped" /\ ~s.closing =>
    IF grabs THEN s.grab \/ Grabs(s) ELSE s.shield

Sane(s) == s \in Shell /\ Timely(s) /\ Fits(s) /\ Ends(s) /\ Caught(s)

\* The requests: one that was shown has the prompt, and the prompt shows the
\* pending one or got it while it was leaving.
Shows ==
  /\ asked \in 0 .. MaxRequests
  /\ seen \cup unseen \subseteq 1 .. asked
  /\ shell.request \in 0 .. asked
  /\ shell.request \in seen => IsOpenPanel(shell, Prompt)
  /\ IsOpenPanel(shell, Prompt) => shell.request \in seen \cup unseen \cup {0}
  /\ dropped \subseteq seen \cup unseen

Rest == motion \in BOOLEAN /\ grabs \in BOOLEAN /\ events \in 0 .. MaxEvents

PanelIInv == Sane(shell) /\ Shows /\ Rest

-----------------------------------------------------------------------------
(* Sequences of deferred calls. *)

Call == [kind : {"grab", "destroy"}, gen : Nat, panel : Nat]

LEMMA ShellFields ==
  ASSUME NEW s \in Shell
  PROVE  /\ s.panel \in Panels \cup {Prompt, None} /\ s.surface \in {"none", "mapped", "dead"}
         /\ s.scene \in BOOLEAN /\ s.input \in BOOLEAN /\ s.closing \in BOOLEAN
         /\ s.gen \in Nat /\ s.anim \in {"none", "open", "close"} /\ s.due \in Nat
         /\ s.attached \in BOOLEAN /\ s.gap \in BOOLEAN /\ s.shield \in BOOLEAN
         /\ s.grab \in BOOLEAN /\ s.request \in Requests \cup {0} /\ s.session \in BOOLEAN
         /\ s.asks \in BOOLEAN /\ s.calls \in Seq(Call) /\ s.opened \in Nat
         /\ s.astray \in {"no", "over", "still"}
BY Zenon DEF Shell, Call

LEMMA CallAt ==
  ASSUME NEW s \in Shell, NEW i \in 1 .. Len(s.calls)
  PROVE  /\ s.calls[i] \in Call
         /\ s.calls[i].kind \in {"grab", "destroy"}
         /\ s.calls[i].gen \in Nat /\ s.calls[i].panel \in Nat
<1>1. s.calls \in Seq(Call)  BY ShellFields
<1>2. s.calls[i] \in Call  BY <1>1, ElementOfSeq
<1> QED  BY <1>2, Zenon DEF Call

\* One more call.
LEMMA OneMore ==
  ASSUME NEW calls \in Seq(Call), NEW c \in Call
  PROVE  /\ Append(calls, c) \in Seq(Call)
         /\ Len(calls) \in Nat /\ Len(Append(calls, c)) = Len(calls) + 1
         /\ \A i \in 1 .. Len(calls) : Append(calls, c)[i] = calls[i]
         /\ Append(calls, c)[Len(calls) + 1] = c
<1>1. Len(calls) \in Nat  BY LenProperties
<1> QED  BY <1>1, AppendProperties

\* One call less.
LEMMA OneLess ==
  ASSUME NEW calls \in Seq(Call), calls # <<>>
  PROVE  /\ Tail(calls) \in Seq(Call) /\ Head(calls) = calls[1]
         /\ Len(calls) \in Nat /\ Len(calls) > 0 /\ Len(Tail(calls)) = Len(calls) - 1
         /\ \A i \in 1 .. Len(Tail(calls)) : Tail(calls)[i] = calls[i + 1]
<1>1. Len(calls) \in Nat /\ Len(calls) # 0  BY LenProperties, EmptySeq
<1>2. /\ Tail(calls) \in Seq(Call) /\ Len(Tail(calls)) = Len(calls) - 1
      /\ \A i \in 1 .. Len(Tail(calls)) : Tail(calls)[i] = calls[i + 1]
      /\ Head(calls) = calls[1]
  BY HeadTailProperties, SMT
<1> QED  BY <1>1, <1>2

-----------------------------------------------------------------------------
(* The parts of the handlers, by the fields they change. *)

\* closePanel up to the animation.
LEMMA LeaveFields ==
  ASSUME NEW s \in Shell
  PROVE  /\ Leave(s) \in Shell
         /\ Leave(s).closing = TRUE /\ Leave(s).input = FALSE
         /\ Leave(s).shield = FALSE /\ Leave(s).grab = FALSE
         /\ Leave(s).panel = s.panel /\ Leave(s).surface = s.surface
         /\ Leave(s).scene = s.scene /\ Leave(s).gen = s.gen /\ Leave(s).anim = s.anim
         /\ Leave(s).due = s.due /\ Leave(s).attached = s.attached /\ Leave(s).gap = s.gap
         /\ Leave(s).request = s.request /\ Leave(s).session = s.session
         /\ Leave(s).asks = s.asks /\ Leave(s).calls = s.calls
         /\ Leave(s).opened = s.opened /\ Leave(s).astray = s.astray
<1>1. Deactivate(s) \in Shell  BY Zenon DEF Deactivate, Shell
<1> QED  BY <1>1, Zenon DEF Leave, Deactivate, Shell

\* The close animation, or its end without one.
LEMMA FadeOutFields ==
  ASSUME NEW s \in Shell
  PROVE  /\ FadeOut(s) \in Shell
         /\ FadeOut(s).gen = s.gen + 1
         /\ \/ /\ FadeOut(s).anim = "close" /\ FadeOut(s).due = s.gen + 1
               /\ FadeOut(s).gap = s.gap /\ FadeOut(s).calls = s.calls
            \/ /\ FadeOut(s).anim = "none" /\ FadeOut(s).gap = FALSE
               /\ FadeOut(s).calls =
                    Append(s.calls, [kind |-> "destroy", gen |-> s.gen + 1, panel |-> s.opened])
         /\ FadeOut(s).panel = s.panel /\ FadeOut(s).surface = s.surface
         /\ FadeOut(s).scene = s.scene /\ FadeOut(s).input = s.input
         /\ FadeOut(s).closing = s.closing /\ FadeOut(s).attached = s.attached
         /\ FadeOut(s).shield = s.shield /\ FadeOut(s).grab = s.grab
         /\ FadeOut(s).request = s.request /\ FadeOut(s).session = s.session
         /\ FadeOut(s).asks = s.asks
         /\ FadeOut(s).opened = s.opened /\ FadeOut(s).astray = s.astray
<1> DEFINE g == s.gen + 1
           next == [s EXCEPT !.gen = g]
<1>1. g \in Nat /\ s.calls \in Seq(Call) /\ s.opened \in Nat  BY ShellFields
<1>2. g = s.gen + 1  OBVIOUS
<1> HIDE DEF g
<1>3. next \in Shell /\ next.gen = g /\ next.calls = s.calls /\ next.opened = s.opened
  BY <1>1, Zenon DEF Shell
<1>4. next = [s EXCEPT !.gen = @ + 1]  BY <1>2
<1>5. CASE motion
  <2> DEFINE fade == [s EXCEPT !.gen = g, !.anim = "close", !.due = g]
  <2>1. FadeOut(s) = [next EXCEPT !.anim = "close", !.due = next.gen]
    BY <1>4, <1>5, Zenon DEF FadeOut
  <2>2. FadeOut(s) = fade  BY <1>3, <2>1, Zenon
  <2>3. fade \in Shell  BY <1>1, Zenon DEF Shell
  <2>4. /\ fade.gen = g /\ fade.anim = "close" /\ fade.due = g
        /\ fade.gap = s.gap /\ fade.calls = s.calls
        /\ fade.panel = s.panel /\ fade.surface = s.surface
        /\ fade.scene = s.scene /\ fade.input = s.input
        /\ fade.closing = s.closing /\ fade.attached = s.attached
        /\ fade.shield = s.shield /\ fade.grab = s.grab
        /\ fade.request = s.request /\ fade.session = s.session /\ fade.asks = s.asks
        /\ fade.opened = s.opened /\ fade.astray = s.astray
    BY Zenon DEF Shell
  <2> HIDE DEF fade
  <2> QED  BY <1>2, <2>2, <2>3, <2>4
<1>6. CASE ~motion
  <2> DEFINE call == [kind |-> "destroy", gen |-> g, panel |-> s.opened]
             more == Append(s.calls, call)
             over == [s EXCEPT !.gen = g, !.anim = "none", !.gap = FALSE]
             fade == [s EXCEPT !.gen = g, !.anim = "none", !.gap = FALSE, !.calls = more]
  <2>1. call \in Call  BY <1>1 DEF Call
  <2>2. more \in Seq(Call)  BY <1>1, <2>1, OneMore
  <2>3. FadeOut(s) = CallLater([next EXCEPT !.anim = "none", !.gap = FALSE], "destroy")
    BY <1>4, <1>6, Zenon DEF FadeOut
  <2>4. [next EXCEPT !.anim = "none", !.gap = FALSE] = over  BY <1>3, Zenon
  <2>5. over \in Shell /\ over.gen = g /\ over.calls = s.calls /\ over.opened = s.opened
    BY <1>1, Zenon DEF Shell
  <2>6. FadeOut(s) = [over EXCEPT !.calls = more]
    BY <2>3, <2>4, <2>5, Zenon DEF CallLater, more, call
  <2> HIDE DEF call
  <2>7. FadeOut(s) = fade  BY <2>6, Zenon
  <2> HIDE DEF more
  <2>8. fade \in Shell  BY <1>1, <2>2, ZenonT(60) DEF Shell, Call
  <2>9. /\ fade.gen = g /\ fade.anim = "none" /\ fade.gap = FALSE /\ fade.calls = more
        /\ fade.panel = s.panel /\ fade.surface = s.surface
        /\ fade.scene = s.scene /\ fade.input = s.input
        /\ fade.closing = s.closing /\ fade.attached = s.attached
        /\ fade.shield = s.shield /\ fade.grab = s.grab
        /\ fade.request = s.request /\ fade.session = s.session /\ fade.asks = s.asks
        /\ fade.opened = s.opened /\ fade.astray = s.astray
    BY Zenon DEF Shell
  <2> HIDE DEF fade
  <2> QED  BY <1>2, <2>7, <2>8, <2>9 DEF more, call
<1> QED  BY <1>5, <1>6

\* destroyPanel up to onClose.
LEMMA DismantleFields ==
  ASSUME NEW s \in Shell
  PROVE  /\ Dismantle(s) \in Shell
         /\ Dismantle(s).shield = FALSE /\ Dismantle(s).grab = FALSE
         /\ Dismantle(s).gap = FALSE /\ Dismantle(s).anim = "none"
         /\ Dismantle(s).closing = FALSE /\ Dismantle(s).input = FALSE
         /\ Dismantle(s).panel = s.panel /\ Dismantle(s).surface = s.surface
         /\ Dismantle(s).scene = s.scene /\ Dismantle(s).gen = s.gen
         /\ Dismantle(s).due = s.due /\ Dismantle(s).attached = s.attached
         /\ Dismantle(s).request = s.request /\ Dismantle(s).session = s.session
         /\ Dismantle(s).asks = s.asks /\ Dismantle(s).calls = s.calls
         /\ Dismantle(s).opened = s.opened /\ Dismantle(s).astray = s.astray
<1>1. Deactivate(s) \in Shell  BY Zenon DEF Deactivate, Shell
<1> QED  BY ZenonT(60), <1>1 DEF Dismantle, Deactivate, Shell

\* destroyPanel after onClose.
LEMMA ResetFields ==
  ASSUME NEW s \in Shell
  PROVE  /\ Reset(s) \in Shell
         /\ Reset(s).panel = None /\ Reset(s).surface = "none" /\ Reset(s).scene = FALSE
         /\ Reset(s).anim = "none" /\ Reset(s).attached = FALSE /\ Reset(s).astray = "no"
         /\ Reset(s).input = s.input /\ Reset(s).closing = s.closing
         /\ Reset(s).gen = s.gen /\ Reset(s).due = s.due /\ Reset(s).gap = s.gap
         /\ Reset(s).shield = s.shield /\ Reset(s).grab = s.grab
         /\ Reset(s).request = s.request /\ Reset(s).session = s.session
         /\ Reset(s).asks = s.asks /\ Reset(s).calls = s.calls
         /\ Reset(s).opened = s.opened
BY Zenon DEF Reset, Shell

\* clearPending leaves the panel alone.
LEMMA ClearFields ==
  ASSUME NEW s \in Shell
  PROVE  /\ ClearPending(s) \in Shell
         /\ ClearPending(s).request = 0 /\ ClearPending(s).session = FALSE
         /\ ClearPending(s).asks = FALSE
         /\ ClearPending(s).panel = s.panel /\ ClearPending(s).surface = s.surface
         /\ ClearPending(s).scene = s.scene /\ ClearPending(s).input = s.input
         /\ ClearPending(s).closing = s.closing /\ ClearPending(s).gen = s.gen
         /\ ClearPending(s).anim = s.anim /\ ClearPending(s).due = s.due
         /\ ClearPending(s).attached = s.attached /\ ClearPending(s).gap = s.gap
         /\ ClearPending(s).shield = s.shield /\ ClearPending(s).grab = s.grab
         /\ ClearPending(s).calls = s.calls
         /\ ClearPending(s).opened = s.opened /\ ClearPending(s).astray = s.astray
BY Zenon DEF ClearPending, Shell

-----------------------------------------------------------------------------
(* The panel is destroyed. *)

\* Nothing of the panel is left.
Bare(t) ==
  /\ t.panel = None /\ t.surface = "none" /\ t.astray = "no" /\ t.anim = "none"
  /\ ~t.scene /\ ~t.input /\ ~t.attached /\ ~t.gap /\ ~t.shield /\ ~t.grab

\* The deferred calls are the same, or one destroyPanel of a new generation
\* follows them.
CallsKept(s, t) == t.gen = s.gen /\ t.calls = s.calls
CallsMore(s, t) ==
  /\ t.gen = s.gen + 1
  /\ \/ t.calls = s.calls
     \/ t.calls = Append(s.calls, [kind |-> "destroy", gen |-> s.gen + 1, panel |-> s.opened])

\* destroyPanel leaves nothing of the panel.  A prompt takes its request along, and
\* the state callback of that may set m_closing again and put off another
\* destroyPanel, of a new generation.
LEMMA DestroyFields ==
  ASSUME NEW s \in Shell
  PROVE  /\ DestroyPanel(s) \in Shell
         /\ Bare(DestroyPanel(s)) /\ DestroyPanel(s).opened = s.opened
         /\ s.panel # Prompt \/ s.request = 0 =>
              /\ CallsKept(s, DestroyPanel(s)) /\ DestroyPanel(s).closing = FALSE
              /\ DestroyPanel(s).request = s.request
         /\ s.panel = Prompt => DestroyPanel(s).request = 0
         /\ \/ CallsKept(s, DestroyPanel(s)) /\ DestroyPanel(s).closing = FALSE
            \/ CallsMore(s, DestroyPanel(s)) /\ DestroyPanel(s).closing = TRUE
               /\ DestroyPanel(s).request = 0
<1> DEFINE d == Dismantle(s)
           o == OnClose(d)
           r == Reset(o)
<1>1. /\ d \in Shell /\ d.shield = FALSE /\ d.grab = FALSE /\ d.gap = FALSE
      /\ d.closing = FALSE /\ d.input = FALSE
      /\ d.panel = s.panel /\ d.surface = s.surface /\ d.scene = s.scene
      /\ d.gen = s.gen /\ d.calls = s.calls /\ d.opened = s.opened /\ d.request = s.request
  BY DismantleFields
<1>2. DestroyPanel(s) = r  BY DEF DestroyPanel
<1> HIDE DEF d
<1>3. ASSUME o \in Shell,
             o.shield = FALSE, o.grab = FALSE, o.gap = FALSE, o.input = FALSE, o.opened = s.opened
      PROVE  /\ r \in Shell /\ Bare(r) /\ r.opened = s.opened /\ r.gen = o.gen
             /\ r.calls = o.calls /\ r.closing = o.closing /\ r.request = o.request
  BY <1>3, ResetFields DEF Bare
<1> HIDE DEF r
<1>4. CASE s.panel # Prompt \/ s.request = 0
  <2>1. o = d  BY <1>1, <1>4 DEF OnClose
  <2>2. /\ r \in Shell /\ Bare(r) /\ r.opened = s.opened /\ r.gen = o.gen
        /\ r.calls = o.calls /\ r.closing = o.closing /\ r.request = o.request
    BY <1>1, <1>3, <2>1
  <2> QED  BY <1>1, <1>2, <1>4, <2>1, <2>2 DEF CallsKept
<1>5. CASE s.panel = Prompt /\ s.request # 0
  <2> DEFINE c == ClearPending(d)
             l == Leave(c)
             g == Reset(Dismantle(l))
  <2>1. o = Close(c, g)  BY <1>1, <1>5 DEF OnClose, CancelRequest
  <2>2. /\ c \in Shell /\ c.request = 0 /\ c.shield = FALSE /\ c.grab = FALSE /\ c.gap = FALSE
        /\ c.closing = FALSE /\ c.input = FALSE
        /\ c.panel = s.panel /\ c.surface = s.surface /\ c.scene = s.scene
        /\ c.gen = s.gen /\ c.calls = s.calls /\ c.opened = s.opened
    BY <1>1, ClearFields
  <2> HIDE DEF c
  <2>3. /\ l \in Shell /\ l.request = 0 /\ l.shield = FALSE /\ l.grab = FALSE /\ l.gap = FALSE
        /\ l.closing = TRUE /\ l.input = FALSE
        /\ l.gen = s.gen /\ l.calls = s.calls /\ l.opened = s.opened
    BY <2>2, LeaveFields
  <2> HIDE DEF l
  <2>4. CASE ~IsOpen(c)
    <3>1. o = c  BY <2>1, <2>4 DEF Close
    <3>2. /\ r \in Shell /\ Bare(r) /\ r.opened = s.opened /\ r.gen = o.gen
          /\ r.calls = o.calls /\ r.closing = o.closing /\ r.request = o.request
      BY <2>2, <1>3, <3>1
    <3> QED  BY <1>2, <1>5, <2>2, <3>1, <3>2 DEF CallsKept
  <2>5. CASE IsOpen(c) /\ ~c.scene
    <3>1. o = g  BY <2>1, <2>2, <2>5 DEF Close
    <3>2. /\ Dismantle(l) \in Shell /\ Dismantle(l).shield = FALSE /\ Dismantle(l).grab = FALSE
          /\ Dismantle(l).gap = FALSE /\ Dismantle(l).input = FALSE
          /\ Dismantle(l).closing = FALSE /\ Dismantle(l).request = 0
          /\ Dismantle(l).gen = s.gen /\ Dismantle(l).calls = s.calls
          /\ Dismantle(l).opened = s.opened
      BY <2>3, DismantleFields
    <3>3. /\ g \in Shell /\ g.shield = FALSE /\ g.grab = FALSE /\ g.gap = FALSE
          /\ g.input = FALSE /\ g.closing = FALSE /\ g.request = 0
          /\ g.gen = s.gen /\ g.calls = s.calls /\ g.opened = s.opened
      BY <3>2, ResetFields
    <3> HIDE DEF g
    <3>4. /\ r \in Shell /\ Bare(r) /\ r.opened = s.opened /\ r.gen = o.gen
          /\ r.calls = o.calls /\ r.closing = o.closing /\ r.request = o.request
      BY <3>3, <1>3, <3>1
    <3> QED  BY <1>2, <1>5, <3>1, <3>3, <3>4 DEF CallsKept
  <2>6. CASE IsOpen(c) /\ c.scene
    <3> DEFINE f == FadeOut(l)
    <3>1. o = f  BY <2>1, <2>2, <2>6 DEF Close, l
    <3>2. /\ f \in Shell /\ f.shield = FALSE /\ f.grab = FALSE /\ f.gap = FALSE
          /\ f.input = FALSE /\ f.closing = TRUE /\ f.request = 0
          /\ f.opened = s.opened /\ CallsMore(s, f)
      BY ZenonT(60), <2>3, FadeOutFields DEF CallsMore
    <3> HIDE DEF f
    <3>4. /\ r \in Shell /\ Bare(r) /\ r.opened = s.opened /\ r.gen = o.gen
          /\ r.calls = o.calls /\ r.closing = o.closing /\ r.request = o.request
      BY <3>2, <1>3, <3>1
    <3>5. CallsMore(s, r)  BY <3>1, <3>2, <3>4 DEF CallsMore
    <3> QED  BY <1>2, <1>5, <3>1, <3>2, <3>4, <3>5
  <2> QED  BY <2>2, <2>4, <2>5, <2>6, ShellFields
<1> QED  BY <1>4, <1>5

\* A call of a new generation is the only one that counts.
LEMMA MoreIsNew ==
  ASSUME NEW s \in Shell, Timely(s), NEW t \in Shell, CallsMore(s, t)
  PROVE  /\ Timely(t)
         /\ t.calls = s.calls => NoDoom(t)
         /\ \A i \in 1 .. Len(t.calls) :
              Doom(t, i) => i = Len(s.calls) + 1 /\ t.calls[i].panel = s.opened
<1>1. s.gen \in Nat /\ s.calls \in Seq(Call) /\ s.opened \in Nat /\ t.gen = s.gen + 1
  BY ShellFields DEF CallsMore
<1>2. \A i \in 1 .. Len(s.calls) : s.calls[i].gen \in Nat /\ s.calls[i].gen < t.gen
  <2>1. ASSUME NEW i \in 1 .. Len(s.calls) PROVE s.calls[i].gen \in Nat /\ s.calls[i].gen < t.gen
    <3>1. s.calls[i].gen \in Nat  BY CallAt
    <3> QED  BY <1>1, <3>1 DEF Timely
  <2> QED  BY <2>1
<1>3. CASE t.calls = s.calls
  BY <1>1, <1>2, <1>3 DEF Timely, NoDoom, Doom
<1>4. CASE t.calls # s.calls
  <2> DEFINE call == [kind |-> "destroy", gen |-> s.gen + 1, panel |-> s.opened]
  <2>1. t.calls = Append(s.calls, call)  BY <1>4 DEF CallsMore
  <2>2. s.gen + 1 \in Nat  BY <1>1
  <2>3. call \in Call /\ call.gen = t.gen /\ call.panel = s.opened
    BY <1>1, <2>2 DEF Call
  <2> HIDE DEF call
  <2>4. /\ Len(s.calls) \in Nat /\ Len(t.calls) = Len(s.calls) + 1
        /\ \A i \in 1 .. Len(s.calls) : t.calls[i] = s.calls[i]
        /\ t.calls[Len(s.calls) + 1] = call
    BY <1>1, <2>1, <2>3, OneMore
  <2>5. \A i \in 1 .. Len(t.calls) : i \in 1 .. Len(s.calls) \/ i = Len(s.calls) + 1
    BY <2>4, SMT
  <2>6. ASSUME NEW i \in 1 .. Len(t.calls) PROVE t.calls[i].gen <= t.gen
    <3>1. t.gen \in Nat  BY <1>1
    <3>2. CASE i \in 1 .. Len(s.calls)
      <4>1. t.calls[i] = s.calls[i]  BY <2>4, <3>2
      <4>2. s.calls[i].gen \in Nat /\ s.calls[i].gen < t.gen  BY <1>2, <3>2
      <4> QED  BY <3>1, <4>1, <4>2
    <3>3. CASE i = Len(s.calls) + 1
      <4>1. t.calls[i].gen = t.gen  BY <2>3, <2>4, <3>3
      <4> QED  BY <3>1, <4>1
    <3> QED  BY <2>5, <3>2, <3>3
  <2>7. ASSUME NEW i \in 1 .. Len(t.calls), Doom(t, i)
        PROVE  i = Len(s.calls) + 1 /\ t.calls[i].panel = s.opened
    <3>1. i \notin 1 .. Len(s.calls)
      <4> SUFFICES ASSUME i \in 1 .. Len(s.calls) PROVE FALSE
        OBVIOUS
      <4>1. s.calls[i].gen = t.gen  BY <2>4, <2>7 DEF Doom
      <4> QED  BY <1>1, <1>2, <4>1
    <3>2. i = Len(s.calls) + 1  BY <2>5, <3>1
    <3> QED  BY <2>3, <2>4, <3>2
  <2> QED  BY <1>4, <2>6, <2>7 DEF Timely
<1> QED  BY <1>3, <1>4

\* destroyPanel, when no other is put off.
LEMMA DestroySane ==
  ASSUME NEW s \in Shell, Timely(s), NoDoom(s)
  PROVE  Sane(DestroyPanel(s)) /\ ~IsOpen(DestroyPanel(s))
<1> DEFINE t == DestroyPanel(s)
<1>1. /\ t \in Shell /\ Bare(t)
      /\ \/ CallsKept(s, t) /\ t.closing = FALSE
         \/ CallsMore(s, t) /\ t.closing = TRUE /\ t.request = 0
  BY DestroyFields
<1> HIDE DEF t
<1>2. ~IsOpen(t) /\ Fits(t) /\ Caught(t)
  BY <1>1 DEF Bare, IsOpen, Fits, Caught
<1>3. CASE CallsKept(s, t) /\ t.closing = FALSE
  <2>1. NoDoom(t) /\ Timely(t)  BY <1>3 DEF CallsKept, NoDoom, Doom, Timely
  <2>2. Ends(t)  BY <1>1, <2>1 DEF Ends, NoDoom, Bare
  <2> QED  BY <1>1, <1>2, <2>1, <2>2 DEF Sane, t
<1>4. CASE CallsMore(s, t) /\ t.closing = TRUE
  <2>1. /\ Timely(t)
        /\ \A i \in 1 .. Len(t.calls) :
             Doom(t, i) => i = Len(s.calls) + 1 /\ t.calls[i].panel = s.opened
    BY <1>1, <1>4, MoreIsNew
  <2>2. Ends(t)  BY <1>1, <1>2, <1>4, <2>1 DEF Ends, Bare
  <2> QED  BY <1>1, <1>2, <2>1, <2>2 DEF Sane, t
<1> QED  BY <1>1, <1>3, <1>4

-----------------------------------------------------------------------------
(* Panels are closed and opened. *)

\* What a handler does to the requests: it leaves the pending one with its prompt,
\* drops it with a prompt that was open, or opens the prompt for it.
Hands(s, t) ==
  /\ t.request = s.request \/ (t.request = 0 /\ IsOpenPanel(s, Prompt))
  /\ t.request # 0 /\ IsOpenPanel(s, Prompt) => IsOpenPanel(t, Prompt)
  /\ t.request # 0 /\ IsOpenPanel(t, Prompt) =>
       IsOpenPanel(s, Prompt) \/ (t.surface = "mapped" /\ ~t.closing)

LEMMA DestroyHands ==
  ASSUME NEW s \in Shell, Fits(s), NEW u \in Shell, u.panel = s.panel, u.request = s.request
  PROVE  Hands(s, DestroyPanel(u))
<1> DEFINE t == DestroyPanel(u)
<1>1. /\ Bare(t)
      /\ u.panel # Prompt \/ u.request = 0 => t.request = u.request
      /\ u.panel = Prompt => t.request = 0
  BY DestroyFields
<1> HIDE DEF t
<1>2. ~IsOpenPanel(t, Prompt)  BY <1>1 DEF Bare, IsOpenPanel, IsOpen
<1>3. Prompt # None  BY PanelAssumption
<1>4. s.panel = Prompt => IsOpenPanel(s, Prompt)  BY <1>3 DEF Fits, IsOpenPanel
<1>5. IsOpenPanel(s, Prompt) => s.panel = Prompt  BY DEF IsOpenPanel
<1> QED  BY <1>1, <1>2, <1>4, <1>5 DEF Hands, t

\* closePanel
LEMMA CloseSane ==
  ASSUME NEW s, Sane(s)
  PROVE  Sane(ClosePanel(s)) /\ Hands(s, ClosePanel(s))
<1> DEFINE l == Leave(s)
           t == ClosePanel(s)
<1>1. s \in Shell /\ Timely(s) /\ Fits(s) /\ Ends(s) /\ Caught(s)  BY DEF Sane
<1>2. /\ l \in Shell /\ l.closing = TRUE /\ l.input = FALSE
      /\ l.shield = FALSE /\ l.grab = FALSE
      /\ l.panel = s.panel /\ l.surface = s.surface /\ l.scene = s.scene /\ l.gen = s.gen
      /\ l.attached = s.attached /\ l.gap = s.gap /\ l.request = s.request
      /\ l.calls = s.calls /\ l.opened = s.opened /\ l.astray = s.astray
  BY <1>1, LeaveFields
<1>3. CASE ~IsOpen(s) \/ s.closing
  <2>1. t = s  BY <1>3 DEF ClosePanel, Close
  <2>2. Hands(s, s)  BY DEF Hands
  <2> QED  BY <2>1, <2>2
<1>4. CASE IsOpen(s) /\ ~s.closing /\ s.scene
  <2> DEFINE f == FadeOut(l)
  <2>1. t = f  BY <1>4 DEF ClosePanel, Close
  <2> HIDE DEF l
  <2>2. /\ f \in Shell /\ f.gen = s.gen + 1
        /\ \/ f.anim = "close" /\ f.due = f.gen /\ f.gap = s.gap /\ f.calls = s.calls
           \/ f.anim = "none" /\ f.gap = FALSE
        /\ CallsMore(s, f)
        /\ f.closing = TRUE /\ f.input = FALSE /\ f.shield = FALSE /\ f.grab = FALSE
        /\ f.panel = s.panel /\ f.surface = s.surface /\ f.scene = s.scene
        /\ f.attached = s.attached /\ f.request = s.request
        /\ f.opened = s.opened /\ f.astray = s.astray
    BY ZenonT(120), <1>2, FadeOutFields DEF CallsMore
  <2> HIDE DEF f
  <2>3. Fits(f) /\ Caught(f)  BY <1>1, <1>4, <2>2 DEF Fits, Caught, IsOpen
  <2>4. /\ Timely(f)
        /\ f.calls = s.calls => NoDoom(f)
        /\ \A i \in 1 .. Len(f.calls) :
             Doom(f, i) => i = Len(s.calls) + 1 /\ f.calls[i].panel = s.opened
    BY <1>1, <2>2, MoreIsNew
  <2>5. Ends(f)  BY <2>2, <2>4 DEF Ends
  <2>6. Hands(s, f)  BY <2>2 DEF Hands, IsOpenPanel, IsOpen
  <2> QED  BY <2>1, <2>2, <2>3, <2>4, <2>5, <2>6 DEF Sane
<1>5. CASE IsOpen(s) /\ ~s.closing /\ ~s.scene
  <2>1. t = DestroyPanel(l)  BY <1>5 DEF ClosePanel, Close
  <2> HIDE DEF l
  <2>2. NoDoom(s)  BY <1>1, <1>5 DEF Ends, NoDoom
  <2>3. NoDoom(l) /\ Timely(l)  BY <1>1, <1>2, <2>2 DEF NoDoom, Doom, Timely
  <2>4. Sane(DestroyPanel(l))  BY <1>2, <2>3, DestroySane
  <2>5. Hands(s, DestroyPanel(l))  BY <1>1, <1>2, DestroyHands
  <2> QED  BY <2>1, <2>4, <2>5
<1> QED  BY <1>3, <1>4, <1>5

\* The start of openPanel leaves nothing open; where it leaves m_closing set, it has
\* cancelled the request.
LEMMA PreemptSane ==
  ASSUME NEW s, Sane(s)
  PROVE  /\ Sane(Preempt(s)) /\ ~IsOpen(Preempt(s))
         /\ Hands(s, Preempt(s))
         /\ Preempt(s).closing => Preempt(s).request = 0
<1> DEFINE g == s.gen + 1
           u == [s EXCEPT !.gen = g, !.closing = FALSE]
           t == Preempt(s)
<1>1. s \in Shell /\ Timely(s) /\ Fits(s) /\ Ends(s) /\ s.gen \in Nat /\ s.closing \in BOOLEAN
  BY ShellFields DEF Sane
<1>2. CASE ~IsOpen(s) /\ ~s.closing
  <2>1. t = s  BY <1>2 DEF Preempt
  <2>2. Hands(s, s)  BY DEF Hands
  <2> QED  BY <1>2, <2>1, <2>2
<1>3. CASE IsOpen(s) \/ s.closing
  <2>1. t = DestroyPanel(u)  BY <1>3, Zenon DEF Preempt
  <2>2. g \in Nat /\ s.gen < g  BY <1>1
  <2> HIDE DEF g
  <2>3. u \in Shell /\ u.gen = g /\ u.calls = s.calls /\ u.panel = s.panel /\ u.request = s.request
    BY <1>1, <2>2, ZenonT(60) DEF Shell
  <2> HIDE DEF u
  <2>4. ASSUME NEW i \in 1 .. Len(s.calls) PROVE s.calls[i].gen <= g /\ s.calls[i].gen # g
    <3>1. s.calls[i].gen \in Nat /\ s.calls[i].gen <= s.gen  BY <1>1, CallAt DEF Timely
    <3> QED  BY <1>1, <2>2, <3>1
  <2>5. NoDoom(u) /\ Timely(u)  BY <2>3, <2>4 DEF NoDoom, Doom, Timely
  <2>6. Sane(DestroyPanel(u)) /\ ~IsOpen(DestroyPanel(u))  BY <2>3, <2>5, DestroySane
  <2>7. DestroyPanel(u).closing => DestroyPanel(u).request = 0
    BY <2>3, DestroyFields
  <2>8. Hands(s, DestroyPanel(u))  BY <1>1, <2>3, DestroyHands
  <2> QED  BY <2>1, <2>6, <2>7, <2>8
<1> QED  BY <1>2, <1>3

\* openPanel
LEMMA OpenSane ==
  ASSUME NEW s, Sane(s), NEW id \in Panels \cup {Prompt}, NEW attach \in BOOLEAN,
         NEW ok \in BOOLEAN, grabs \in BOOLEAN
  PROVE  Sane(OpenPanel(s, id, attach, ok)) /\ Hands(s, OpenPanel(s, id, attach, ok))
<1> DEFINE c == Preempt(s)
           n == c.opened + 1
           a == IF c.closing THEN "over" ELSE "no"
           caught == ~grabs
           made == [c EXCEPT !.panel = id, !.surface = "mapped", !.attached = attach,
                             !.shield = caught, !.opened = n, !.astray = a]
           call == [kind |-> "grab", gen |-> c.gen, panel |-> n]
           more == Append(c.calls, call)
           t == [made EXCEPT !.calls = more]
<1>1. /\ Sane(c) /\ ~IsOpen(c) /\ Hands(s, c) /\ (c.closing => c.request = 0)
  BY PreemptSane
<1> HIDE DEF c
<1>2. c \in Shell /\ Timely(c) /\ Fits(c) /\ Ends(c) /\ Caught(c)  BY <1>1 DEF Sane
<1>3. /\ c.closing \in BOOLEAN /\ c.opened \in Nat /\ c.gen \in Nat /\ c.calls \in Seq(Call)
      /\ n \in Nat /\ a \in {"no", "over", "still"} /\ caught \in BOOLEAN
      /\ id # None
  <2>1. c.closing \in BOOLEAN /\ c.opened \in Nat /\ c.gen \in Nat /\ c.calls \in Seq(Call)
    BY <1>2, ShellFields
  <2>2. id # None  BY PanelAssumption
  <2> QED  BY <2>1, <2>2
<1>4. CASE ~ok
  <2>1. OpenPanel(s, id, attach, ok) = c  BY <1>4, Zenon DEF OpenPanel, c
  <2> QED  BY <1>1, <2>1
<1>5. CASE ok
  <2>1. call \in Call /\ call.kind = "grab" /\ call.gen = c.gen
    BY <1>3 DEF Call
  <2>2. OpenPanel(s, id, attach, ok)
          = CallLater([c EXCEPT !.panel = id, !.surface = "mapped", !.attached = attach,
                                !.shield = ~grabs, !.opened = @ + 1,
                                !.astray = IF c.closing THEN "over" ELSE "no"], "grab")
    BY <1>5, Zenon DEF OpenPanel, c
  <2>3. OpenPanel(s, id, attach, ok) = CallLater(made, "grab")  BY <2>2, Zenon
  <2> HIDE DEF n, a, caught
  <2>4. /\ made \in Shell /\ made.gen = c.gen /\ made.opened = n /\ made.calls = c.calls
    BY <1>2, <1>3, ZenonT(120) DEF Shell
  <2>5. OpenPanel(s, id, attach, ok) = t
    BY <2>3, <2>4, Zenon DEF CallLater
  <2> HIDE DEF call
  <2>6. /\ more \in Seq(Call) /\ Len(c.calls) \in Nat /\ Len(more) = Len(c.calls) + 1
        /\ \A i \in 1 .. Len(c.calls) : more[i] = c.calls[i]
        /\ more[Len(c.calls) + 1] = call
    BY <1>3, <2>1, OneMore
  <2> HIDE DEF more
  <2>7. t \in Shell
    <3> HIDE DEF made
    <3> QED  BY <2>4, <2>6, Zenon DEF Shell, Call
  <2>8. /\ t.panel = id /\ t.surface = "mapped" /\ t.attached = attach /\ t.shield = caught
        /\ t.opened = n /\ t.astray = a /\ t.calls = more
        /\ t.scene = c.scene /\ t.input = c.input /\ t.closing = c.closing /\ t.gen = c.gen
        /\ t.anim = c.anim /\ t.due = c.due /\ t.gap = c.gap /\ t.grab = c.grab
        /\ t.request = c.request
    BY <1>2, Zenon DEF Shell
  <2> HIDE DEF t
  <2>9. Fits(t)  BY <1>1, <1>2, <1>3, <2>8 DEF Fits, IsOpen
  <2>10. \A i \in 1 .. Len(more) : i \in 1 .. Len(c.calls) \/ i = Len(c.calls) + 1
    BY <2>6, SMT
  <2>11. ASSUME NEW i \in 1 .. Len(t.calls), Doom(t, i)
         PROVE  i \in 1 .. Len(c.calls) /\ Doom(c, i)
    <3>1. t.calls[i].kind = "destroy" /\ t.calls[i].gen = c.gen  BY <2>8, <2>11 DEF Doom
    <3>2. i # Len(c.calls) + 1  BY <2>1, <2>6, <2>8, <3>1
    <3>3. i \in 1 .. Len(c.calls)  BY <2>8, <2>10, <3>2
    <3>4. t.calls[i] = c.calls[i]  BY <2>6, <2>8, <3>3
    <3> QED  BY <3>1, <3>3, <3>4 DEF Doom
  <2>12. Ends(t)
    <3>1. t.anim = "close" => FALSE
      BY <1>1, <1>2, <2>8 DEF Fits
    <3>2. ASSUME NEW i \in 1 .. Len(t.calls), Doom(t, i)
          PROVE  t.closing /\ t.astray = "over"
      <4>1. i \in 1 .. Len(c.calls) /\ Doom(c, i)  BY <2>11, <3>2
      <4>2. c.closing  BY <1>2, <4>1 DEF Ends
      <4> QED  BY <2>8, <4>2 DEF a
    <3>3. ASSUME NEW i \in 1 .. Len(t.calls), NEW j \in 1 .. Len(t.calls), Doom(t, i), Doom(t, j)
          PROVE  i = j
      <4>1. i \in 1 .. Len(c.calls) /\ Doom(c, i) /\ j \in 1 .. Len(c.calls) /\ Doom(c, j)
        BY <2>11, <3>3
      <4> QED  BY <1>2, <4>1 DEF Ends
    <3> QED  BY <3>1, <3>2, <3>3 DEF Ends
  <2>13. Timely(t)
    <3>1. ASSUME NEW i \in 1 .. Len(more) PROVE more[i].gen <= c.gen
      <4>1. CASE i \in 1 .. Len(c.calls)
        BY <1>2, <2>6, <4>1 DEF Timely
      <4>2. CASE i = Len(c.calls) + 1
        BY <1>3, <2>1, <2>6, <4>2
      <4> QED  BY <2>10, <4>1, <4>2
    <3> QED  BY <2>8, <3>1 DEF Timely
  <2>14. Caught(t)
    <3>1. Len(c.calls) + 1 \in 1 .. Len(more)  BY <2>6, SMT
    <3>2. Grabs(t)  BY <2>1, <2>6, <2>8, <3>1 DEF Grabs
    <3> QED  BY <2>8, <3>2 DEF Caught, caught
  <2>15. Hands(s, t)
    <3>1. t.request = s.request \/ (t.request = 0 /\ IsOpenPanel(s, Prompt))
      BY <1>1, <2>8 DEF Hands
    <3>2. t.request # 0 => ~IsOpenPanel(s, Prompt)
      BY <1>1, <2>8 DEF Hands, IsOpenPanel
    <3>3. t.request # 0 => t.surface = "mapped" /\ ~t.closing
      BY <1>1, <2>8
    <3> QED  BY <3>1, <3>2, <3>3 DEF Hands
  <2> QED  BY <2>5, <2>7, <2>9, <2>12, <2>13, <2>14, <2>15 DEF Sane
<1> QED  BY <1>4, <1>5

-----------------------------------------------------------------------------
(* The agent. *)

\* Clearing or changing what the agent has leaves the panel sane.
LEMMA AgentSane ==
  ASSUME NEW s, Sane(s), NEW t \in Shell,
         <<t.panel, t.surface, t.scene, t.input, t.closing, t.gen>>
           = <<s.panel, s.surface, s.scene, s.input, s.closing, s.gen>>,
         <<t.anim, t.due, t.attached, t.gap, t.shield, t.grab>>
           = <<s.anim, s.due, s.attached, s.gap, s.shield, s.grab>>,
         <<t.calls, t.opened, t.astray>> = <<s.calls, s.opened, s.astray>>
  PROVE  Sane(t)
<1>1. Timely(t) /\ Fits(t) /\ Ends(t) /\ Caught(t)
  BY DEF Sane, Timely, Fits, Ends, NoDoom, Doom, Caught, Grabs, IsOpen
<1> QED  BY <1>1 DEF Sane

LEMMA ClearSane ==
  ASSUME NEW s, Sane(s)
  PROVE  Sane(ClearPending(s))
<1>1. s \in Shell  BY DEF Sane
<1> QED  BY <1>1, ClearFields, AgentSane

\* The state callback.
LEMMA StateSane ==
  ASSUME NEW s, Sane(s), NEW ok \in BOOLEAN, grabs \in BOOLEAN
  PROVE  Sane(StateChanged(s, ok)) /\ Hands(s, StateChanged(s, ok))
<1>1. Hands(s, s)  BY DEF Hands
<1>2. Sane(ClosePanel(s)) /\ Hands(s, ClosePanel(s))  BY CloseSane
<1>3. FALSE \in BOOLEAN /\ Prompt \in Panels \cup {Prompt}  OBVIOUS
<1>4. Sane(OpenPanel(s, Prompt, FALSE, ok)) /\ Hands(s, OpenPanel(s, Prompt, FALSE, ok))
  BY <1>3, OpenSane
<1> QED  BY <1>1, <1>2, <1>4, Zenon DEF StateChanged

-----------------------------------------------------------------------------
(* The steps. *)

\* What Hands says of the requests is what they need, whoever takes them along.
LEMMA HandsShows ==
  ASSUME Shows, NEW t, Becomes(t, {}), Hands(shell, t), UNCHANGED <<asked, unseen>>
  PROVE  Shows'
<1>1. /\ shell' = t
      /\ dropped' = dropped \cup ({shell.request} \ {0, t.request})
      /\ seen' = IF IsOpenPanel(t, Prompt) /\ t.surface = "mapped" /\ ~t.closing
                 THEN seen \cup ({t.request} \ {0}) ELSE seen
  BY DEF Becomes
<1>2. asked \in Nat /\ 0 \in 0 .. asked /\ 0 \notin 1 .. asked /\ \A r \in 0 .. asked : r # 0 => r \in 1 .. asked
  BY PanelAssumption DEF Shows
<1>3. t.request \in 0 .. asked  BY <1>2 DEF Shows, Hands
<1>4. seen' \cup unseen \subseteq 1 .. asked /\ seen \subseteq seen'
  BY <1>1, <1>2, <1>3 DEF Shows
<1>5. t.request \in seen' => IsOpenPanel(t, Prompt)
  <2> SUFFICES ASSUME t.request \in seen', ~IsOpenPanel(t, Prompt) PROVE FALSE
    OBVIOUS
  <2>1. t.request \in seen /\ t.request # 0  BY <1>1, <1>2, <1>4
  <2>2. t.request = shell.request  BY <2>1 DEF Hands
  <2>3. IsOpenPanel(shell, Prompt)  BY <2>1, <2>2 DEF Shows
  <2> QED  BY <2>1, <2>3 DEF Hands
<1>6. IsOpenPanel(t, Prompt) => t.request \in seen' \cup unseen \cup {0}
  <2> SUFFICES ASSUME IsOpenPanel(t, Prompt), t.request # 0
               PROVE  t.request \in seen' \cup unseen
    OBVIOUS
  <2>1. CASE t.surface = "mapped" /\ ~t.closing
    BY <1>1, <2>1
  <2>2. CASE IsOpenPanel(shell, Prompt)
    <3>1. t.request = shell.request  BY DEF Hands
    <3> QED  BY <1>4, <2>2, <3>1 DEF Shows
  <2> QED  BY <2>1, <2>2 DEF Hands
<1>7. dropped' \subseteq seen' \cup unseen
  <2>1. CASE shell.request \in {0, t.request}
    BY <1>1, <1>4, <2>1 DEF Shows
  <2>2. CASE shell.request \notin {0, t.request}
    <3>1. IsOpenPanel(shell, Prompt)  BY <2>2 DEF Hands
    <3>2. shell.request \in seen \cup unseen  BY <2>2, <3>1 DEF Shows
    <3> QED  BY <1>1, <1>4, <3>2 DEF Shows
  <2> QED  BY <2>1, <2>2
<1> QED  BY <1>1, <1>3, <1>4, <1>5, <1>6, <1>7 DEF Shows, IsOpenPanel, IsOpen

\* So is a request that is taken from the agent, whatever becomes of its prompt.
LEMMA TakenShows ==
  ASSUME Shows, NEW t, t.request = 0, Becomes(t, {shell.request}), UNCHANGED unseen,
         asked' \in asked .. MaxRequests
  PROVE  Shows'
<1>1. shell' = t /\ dropped' = dropped /\ seen' = seen
  BY DEF Becomes
<1>2. asked \in Nat /\ asked' \in 0 .. MaxRequests /\ 0 \in 0 .. asked'
      /\ 1 .. asked \subseteq 1 .. asked' /\ 0 \notin 1 .. asked
  BY PanelAssumption DEF Shows
<1> QED  BY <1>1, <1>2 DEF Shows

\* The next deferred call.
LEMMA RunCallSane ==
  ASSUME Sane(shell), RunCall, grabs \in BOOLEAN
  PROVE  Sane(shell') /\ Hands(shell, shell') /\ Becomes(shell', {})
<1> DEFINE call == Head(shell.calls)
           left == Tail(shell.calls)
           s == [shell EXCEPT !.calls = left]
           g == [s EXCEPT !.grab = TRUE]
<1>1. /\ shell \in Shell /\ Timely(shell) /\ Fits(shell) /\ Ends(shell) /\ Caught(shell)
      /\ shell.calls \in Seq(Call) /\ shell.calls # <<>>
  BY ShellFields DEF Sane, RunCall
<1>2. /\ left \in Seq(Call) /\ call = shell.calls[1]
      /\ Len(shell.calls) \in Nat /\ Len(shell.calls) > 0
      /\ Len(left) = Len(shell.calls) - 1
      /\ \A i \in 1 .. Len(left) : left[i] = shell.calls[i + 1]
  BY <1>1, OneLess
<1>3. /\ \/ call.gen # s.gen /\ shell' = s
         \/ call.gen = s.gen /\ call.kind = "destroy" /\ shell' = DestroyPanel(s)
         \/ call.gen = s.gen /\ call.kind = "grab" /\ IsOpen(s) /\ grabs /\ shell' = g
         \/ call.gen = s.gen /\ call.kind = "grab" /\ ~(IsOpen(s) /\ grabs) /\ shell' = s
      /\ Becomes(shell', {})
  <2>1. call.kind \in {"grab", "destroy"}
    <3>1. 1 \in 1 .. Len(shell.calls)  BY <1>2
    <3> QED  BY <1>1, <1>2, <3>1, CallAt
  <2>2. Becomes(CASE call.gen # s.gen -> s
               [] call.gen = s.gen /\ call.kind = "destroy" -> DestroyPanel(s)
               [] call.gen = s.gen /\ call.kind = "grab" ->
                    IF IsOpen(s) /\ grabs THEN g ELSE s, {})
    BY DEF RunCall
  <2>3. ASSUME NEW t, Becomes(t, {}) PROVE shell' = t /\ Becomes(shell', {})
    BY <2>3 DEF Becomes
  <2> HIDE DEF call, s, g
  <2>4. CASE call.gen # s.gen  BY <2>2, <2>3, <2>4
  <2>5. CASE call.gen = s.gen /\ call.kind = "destroy"
    <3>1. Becomes(DestroyPanel(s), {})  BY <2>2, <2>5
    <3> QED  BY <2>3, <2>5, <3>1
  <2>6. CASE call.gen = s.gen /\ call.kind = "grab" /\ IsOpen(s) /\ grabs
    <3>1. Becomes(g, {})  BY <2>2, <2>6
    <3> QED  BY <2>3, <2>6, <3>1
  <2>7. CASE call.gen = s.gen /\ call.kind = "grab" /\ ~(IsOpen(s) /\ grabs)
    <3>1. Becomes(s, {})  BY <2>2, <2>7
    <3> QED  BY <2>3, <2>7, <3>1
  <2> QED  BY <2>1, <2>4, <2>5, <2>6, <2>7
<1> HIDE DEF call, left
<1>4. /\ s \in Shell /\ s.calls = left /\ s.gen = shell.gen
      /\ s.panel = shell.panel /\ s.surface = shell.surface
      /\ s.scene = shell.scene /\ s.input = shell.input /\ s.closing = shell.closing
      /\ s.anim = shell.anim /\ s.due = shell.due /\ s.attached = shell.attached
      /\ s.gap = shell.gap /\ s.shield = shell.shield /\ s.grab = shell.grab
      /\ s.request = shell.request /\ s.opened = shell.opened /\ s.astray = shell.astray
  BY <1>1, <1>2, Zenon DEF Shell, Call
<1>5. /\ g \in Shell /\ g.calls = left /\ g.gen = shell.gen
      /\ g.panel = shell.panel /\ g.surface = shell.surface
      /\ g.scene = shell.scene /\ g.input = shell.input /\ g.closing = shell.closing
      /\ g.anim = shell.anim /\ g.due = shell.due /\ g.attached = shell.attached
      /\ g.gap = shell.gap /\ g.shield = shell.shield /\ g.grab = TRUE
      /\ g.request = shell.request /\ g.opened = shell.opened /\ g.astray = shell.astray
  <2> HIDE DEF s
  <2> QED  BY <1>4, Zenon DEF Shell
<1> HIDE DEF s, g
<1>6. /\ \A i \in 1 .. Len(left) : i + 1 \in 1 .. Len(shell.calls) /\ i + 1 # 1
      /\ \A i, j \in 1 .. Len(left) : i + 1 = j + 1 => i = j
      /\ 1 \in 1 .. Len(shell.calls)
      /\ \A i \in 1 .. Len(shell.calls) : i = 1 \/ (i - 1 \in 1 .. Len(left) /\ i = (i - 1) + 1)
  BY <1>2, SMT
<1>7. ASSUME NEW t, t.calls = left, t.gen = shell.gen, NEW i \in 1 .. Len(left)
      PROVE  Doom(t, i) => Doom(shell, i + 1) /\ t.calls[i] = shell.calls[i + 1]
  BY <1>2, <1>6, <1>7 DEF Doom
<1>8. ASSUME NEW t \in Shell, t.calls = left, t.gen = shell.gen, t.closing = shell.closing,
             t.anim = shell.anim, t.due = shell.due, t.opened = shell.opened,
             t.astray = shell.astray, t.surface = shell.surface
      PROVE  Timely(t) /\ Ends(t)
  <2>1. Timely(t)  BY <1>1, <1>2, <1>6, <1>8 DEF Timely
  <2>2. t.anim = "close" => t.closing /\ t.due = t.gen /\ NoDoom(t)
    BY <1>1, <1>6, <1>7, <1>8 DEF Ends, NoDoom
  <2>3. ASSUME NEW i \in 1 .. Len(t.calls), Doom(t, i)
        PROVE  t.closing /\ (IsOpen(t) /\ t.astray # "over" => t.calls[i].panel = t.opened)
    BY <1>1, <1>6, <1>7, <1>8, <2>3 DEF Ends, IsOpen
  <2>4. ASSUME NEW i \in 1 .. Len(t.calls), NEW j \in 1 .. Len(t.calls), Doom(t, i), Doom(t, j)
        PROVE  i = j
    <3>1. Doom(shell, i + 1) /\ Doom(shell, j + 1)  BY <1>7, <1>8, <2>4
    <3>2. i + 1 = j + 1  BY <1>1, <1>6, <1>8, <3>1 DEF Ends
    <3> QED  BY <1>6, <1>8, <3>2
  <2> QED  BY <2>1, <2>2, <2>3, <2>4 DEF Ends
<1>9. ASSUME NEW t, t.panel = shell.panel, t.surface = shell.surface, t.request = shell.request
      PROVE  Hands(shell, t)
  BY <1>9 DEF Hands, IsOpenPanel, IsOpen
<1>10. Timely(s) /\ Ends(s) /\ Hands(shell, s)  BY <1>4, <1>8, <1>9
<1>11. Fits(s)  BY <1>1, <1>4 DEF Fits, IsOpen
<1>12. CASE call.gen # s.gen /\ shell' = s
  <2>1. ASSUME Grabs(shell) PROVE Grabs(s)
    <3>1. PICK i \in 1 .. Len(shell.calls) :
            shell.calls[i].kind = "grab" /\ shell.calls[i].gen = shell.gen
      BY <2>1 DEF Grabs
    <3>2. i # 1  BY <1>2, <1>4, <1>12, <3>1
    <3>3. i - 1 \in 1 .. Len(left) /\ left[i - 1] = shell.calls[i]
      BY <1>2, <1>6, <3>2
    <3> QED  BY <1>4, <3>1, <3>3 DEF Grabs
  <2>2. Caught(s)  BY <1>1, <1>4, <2>1 DEF Caught
  <2> QED  BY <1>3, <1>4, <1>10, <1>11, <1>12, <2>2 DEF Sane
<1>13. CASE call.gen = s.gen /\ call.kind = "destroy" /\ shell' = DestroyPanel(s)
  <2>1. Doom(shell, 1)  BY <1>2, <1>4, <1>6, <1>13 DEF Doom
  <2>2. ASSUME NEW i \in 1 .. Len(s.calls), Doom(s, i) PROVE FALSE
    <3>1. Doom(shell, i + 1) /\ i + 1 \in 1 .. Len(shell.calls) /\ i + 1 # 1
      BY <1>4, <1>6, <1>7, <2>2
    <3> QED  BY <1>1, <1>6, <2>1, <3>1 DEF Ends
  <2>3. NoDoom(s)  BY <2>2 DEF NoDoom
  <2>4. Sane(DestroyPanel(s))  BY <1>4, <1>10, <2>3, DestroySane
  <2>5. Hands(shell, DestroyPanel(s))  BY <1>1, <1>4, DestroyHands
  <2> QED  BY <1>3, <1>13, <2>4, <2>5
<1>14. CASE call.gen = s.gen /\ call.kind = "grab" /\ IsOpen(s) /\ grabs /\ shell' = g
  <2>1. Timely(g) /\ Ends(g) /\ Hands(shell, g)  BY <1>5, <1>8, <1>9
  <2>2. Fits(g)  BY <1>1, <1>4, <1>5, <1>14 DEF Fits, IsOpen
  <2>3. Caught(g)  BY <1>5, <1>14 DEF Caught
  <2> QED  BY <1>3, <1>5, <1>14, <2>1, <2>2, <2>3 DEF Sane
<1>15. CASE call.gen = s.gen /\ call.kind = "grab" /\ ~(IsOpen(s) /\ grabs) /\ shell' = s
  <2>1. s.surface = "mapped" => ~grabs  BY <1>15 DEF IsOpen
  <2>2. Caught(s)  BY <1>1, <1>4, <2>1 DEF Caught
  <2> QED  BY <1>3, <1>4, <1>10, <1>11, <1>15, <2>2 DEF Sane
<1> QED  BY <1>3, <1>12, <1>13, <1>14, <1>15

\* The steps that leave the deferred calls, the generation and the panel alone.
LEMMA FrameSane ==
  ASSUME Sane(shell), NEW t \in Shell,
         <<t.calls, t.gen, t.panel, t.opened, t.request>>
           = <<shell.calls, shell.gen, shell.panel, shell.opened, shell.request>>,
         <<t.closing, t.due, t.attached, t.shield, t.grab>>
           = <<shell.closing, shell.due, shell.attached, shell.shield, shell.grab>>,
         IsOpen(t) <=> IsOpen(shell), t.surface = "mapped" => shell.surface = "mapped",
         t.anim = "close" => shell.anim = "close",
         t.astray = shell.astray \/ (t.astray = "still" /\ shell.anim = "close"),
         t.input \/ t.anim # "none" => t.scene, t.scene => IsOpen(t),
         t.gap => t.attached /\ t.surface = "mapped"
  PROVE  Sane(t) /\ Hands(shell, t)
<1>1. /\ Timely(shell) /\ Fits(shell) /\ Ends(shell) /\ Caught(shell)  BY DEF Sane
<1>2. Timely(t)  BY <1>1 DEF Timely
<1>3. Fits(t)  BY <1>1 DEF Fits
<1>4. \A i \in 1 .. Len(shell.calls) : Doom(t, i) <=> Doom(shell, i)  BY DEF Doom
<1>5. Ends(t)
  <2>1. t.anim = "close" => t.closing /\ t.due = t.gen /\ NoDoom(t)
    BY <1>1, <1>4 DEF Ends, NoDoom
  <2>2. ASSUME NEW i \in 1 .. Len(t.calls), Doom(t, i)
        PROVE  t.closing /\ (IsOpen(t) /\ t.astray # "over" => t.calls[i].panel = t.opened)
    <3>1. Doom(shell, i)  BY <1>4, <2>2
    <3>2. shell.anim # "close"  BY <1>1, <3>1, <2>2 DEF Ends, NoDoom
    <3>3. /\ shell.closing
          /\ IsOpen(shell) /\ shell.astray # "over" => shell.calls[i].panel = shell.opened
      BY <1>1, <2>2, <3>1 DEF Ends
    <3> QED  BY <3>2, <3>3
  <2>3. \A i, j \in 1 .. Len(t.calls) : Doom(t, i) /\ Doom(t, j) => i = j
    BY <1>1, <1>4 DEF Ends
  <2> QED  BY <2>1, <2>2, <2>3 DEF Ends
<1>6. Caught(t)  BY <1>1 DEF Caught, Grabs
<1>7. Hands(shell, t)  BY DEF Hands, IsOpenPanel
<1> QED  BY <1>2, <1>3, <1>5, <1>6, <1>7 DEF Sane

\* What a handler may make of the shell, for the steps that take no request.
LEMMA HandlerInv ==
  ASSUME PanelIInv, NEW t, Becomes(t, {}), Sane(t), Hands(shell, t),
         UNCHANGED <<grabs, asked, unseen>>, motion' \in BOOLEAN,
         events' \in {events, events + 1}, events' \in 0 .. MaxEvents
  PROVE  PanelIInv'
<1>1. Shows'  BY HandsShows DEF PanelIInv
<1>2. shell' = t  BY DEF Becomes
<1>3. Sane(t)'
  BY DEF Sane, Caught, Grabs, Timely, Fits, Ends, Doom, NoDoom, IsOpen, Shell
<1>4. Sane(shell)'  BY SMTT(30), <1>2 DEF Sane, Caught, Grabs, Timely, Fits, Ends, Doom, NoDoom, IsOpen, Shell
<1> QED  BY <1>1, <1>4 DEF PanelIInv, Rest

LEMMA InitSane == Init => PanelIInv
<1> SUFFICES ASSUME Init PROVE PanelIInv
  OBVIOUS
<1>1. <<>> \in Seq(Call) /\ Len(<<>>) = 0  BY EmptySeq
<1>2. shell \in Shell  BY <1>1, SMT DEF Init, Shell, Call
<1>3. 1 .. Len(shell.calls) = {}  BY <1>1, SMT DEF Init
<1>4. Timely(shell) /\ Ends(shell)
  BY <1>3, SMT DEF Init, Timely, Ends, NoDoom
<1>5. Fits(shell) /\ Caught(shell)  BY SMT DEF Init, Fits, Caught, IsOpen
<1>6. Shows
  <2>1. 0 \in 0 .. MaxRequests  BY PanelAssumption
  <2>2. IsOpen(shell) = FALSE /\ shell.request = 0  BY SMT DEF Init, IsOpen
  <2> QED  BY <2>1, <2>2 DEF Init, Shows, IsOpenPanel
<1>7. Rest  BY PanelAssumption DEF Init, Rest
<1> QED  BY <1>2, <1>4, <1>5, <1>6, <1>7 DEF PanelIInv, Sane

\* The frames of a mapped surface.
LEMMA FramesInv ==
  ASSUME PanelIInv, Frames
  PROVE  PanelIInv'
<1>1. /\ Sane(shell) /\ shell \in Shell /\ Fits(shell) /\ motion \in BOOLEAN
      /\ shell.attached \in BOOLEAN /\ events \in 0 .. MaxEvents
      /\ UNCHANGED <<grabs, asked, unseen, motion, events>>
  BY ShellFields DEF PanelIInv, Sane, Rest, Frames, BuildScene, Reveal, OpenEnds, CloseEnds, rest
<1>2. ASSUME NEW t, Becomes(t, {}), Sane(t), Hands(shell, t) PROVE PanelIInv'
  BY <1>1, <1>2, HandlerInv
<1>3. CASE BuildScene
  <2> DEFINE anim == IF motion THEN "open" ELSE "none"
             gap == ~motion /\ shell.attached
             t == [shell EXCEPT !.scene = TRUE, !.input = TRUE, !.anim = anim, !.gap = gap]
  <2>1. Becomes(t, {}) /\ shell.surface = "mapped"  BY <1>3 DEF BuildScene
  <2>2. anim \in {"none", "open", "close"} /\ anim # "close" /\ gap \in BOOLEAN
        /\ (gap => shell.attached)
    BY <1>1
  <2> HIDE DEF anim, gap
  <2>3. /\ t \in Shell /\ t.scene = TRUE /\ t.input = TRUE /\ t.anim = anim /\ t.gap = gap
        /\ t.calls = shell.calls /\ t.gen = shell.gen /\ t.panel = shell.panel
        /\ t.opened = shell.opened /\ t.request = shell.request /\ t.surface = shell.surface
        /\ t.closing = shell.closing /\ t.due = shell.due /\ t.attached = shell.attached
        /\ t.shield = shell.shield /\ t.grab = shell.grab /\ t.astray = shell.astray
    BY <1>1, <2>2, ZenonT(60) DEF Shell
  <2> HIDE DEF t
  <2>4. Sane(t) /\ Hands(shell, t)
    BY <1>1, <2>1, <2>2, <2>3, FrameSane DEF IsOpen
  <2> QED  BY <1>2, <2>1, <2>4
<1>4. CASE Reveal
  <2> DEFINE t == [shell EXCEPT !.gap = TRUE]
  <2>1. Becomes(t, {}) /\ shell.surface = "mapped" /\ shell.anim = "open" /\ shell.attached
    BY <1>4 DEF Reveal
  <2>2. /\ t \in Shell /\ t.scene = shell.scene /\ t.input = shell.input /\ t.anim = shell.anim
        /\ t.calls = shell.calls /\ t.gen = shell.gen /\ t.panel = shell.panel
        /\ t.opened = shell.opened /\ t.request = shell.request /\ t.surface = shell.surface
        /\ t.closing = shell.closing /\ t.due = shell.due /\ t.attached = shell.attached
        /\ t.shield = shell.shield /\ t.grab = shell.grab /\ t.astray = shell.astray
    BY <1>1, Zenon DEF Shell
  <2> HIDE DEF t
  <2>3. Sane(t) /\ Hands(shell, t)
    BY <1>1, <2>1, <2>2, FrameSane DEF IsOpen, Fits
  <2> QED  BY <1>2, <2>1, <2>3
<1>5. CASE OpenEnds
  <2> DEFINE t == [shell EXCEPT !.anim = "none", !.gap = shell.attached]
  <2>1. Becomes(t, {}) /\ shell.surface = "mapped" /\ shell.anim = "open"
    BY <1>5 DEF OpenEnds
  <2>2. /\ t \in Shell /\ t.scene = shell.scene /\ t.input = shell.input /\ t.anim = "none"
        /\ t.gap = shell.attached
        /\ t.calls = shell.calls /\ t.gen = shell.gen /\ t.panel = shell.panel
        /\ t.opened = shell.opened /\ t.request = shell.request /\ t.surface = shell.surface
        /\ t.closing = shell.closing /\ t.due = shell.due /\ t.attached = shell.attached
        /\ t.shield = shell.shield /\ t.grab = shell.grab /\ t.astray = shell.astray
    BY <1>1, Zenon DEF Shell
  <2> HIDE DEF t
  <2>3. Sane(t) /\ Hands(shell, t)
    BY <1>1, <2>1, <2>2, FrameSane DEF IsOpen, Fits
  <2> QED  BY <1>2, <2>1, <2>3
<1>6. CASE CloseEnds
  <2> DEFINE call == [kind |-> "destroy", gen |-> shell.due, panel |-> shell.opened]
             more == Append(shell.calls, call)
             t == [shell EXCEPT !.anim = "none", !.gap = FALSE, !.calls = more]
  <2>1. Becomes(t, {}) /\ shell.anim = "close"  BY <1>6 DEF CloseEnds
  <2>2. /\ shell.due \in Nat /\ shell.gen \in Nat /\ shell.opened \in Nat
        /\ shell.calls \in Seq(Call)
        /\ Ends(shell) /\ Timely(shell) /\ shell.closing /\ shell.due = shell.gen /\ NoDoom(shell)
    BY <1>1, <2>1, ShellFields DEF Sane, Ends
  <2>3. call \in Call /\ call.gen = shell.gen /\ call.panel = shell.opened
    BY <2>2 DEF Call
  <2> HIDE DEF call
  <2>4. /\ more \in Seq(Call) /\ Len(shell.calls) \in Nat /\ Len(more) = Len(shell.calls) + 1
        /\ \A i \in 1 .. Len(shell.calls) : more[i] = shell.calls[i]
        /\ more[Len(shell.calls) + 1] = call
    BY <2>2, <2>3, OneMore
  <2>5. \A i \in 1 .. Len(more) : i \in 1 .. Len(shell.calls) \/ i = Len(shell.calls) + 1
    BY <2>4, SMT
  <2> HIDE DEF more
  <2>6. /\ t \in Shell /\ t.scene = shell.scene /\ t.input = shell.input /\ t.anim = "none"
        /\ t.gap = FALSE /\ t.calls = more /\ t.gen = shell.gen /\ t.panel = shell.panel
        /\ t.opened = shell.opened /\ t.request = shell.request /\ t.surface = shell.surface
        /\ t.closing = shell.closing /\ t.due = shell.due /\ t.attached = shell.attached
        /\ t.shield = shell.shield /\ t.grab = shell.grab /\ t.astray = shell.astray
    BY <1>1, <2>4, Zenon DEF Shell, Call
  <2> HIDE DEF t
  <2>7. Fits(t) /\ Caught(t) /\ Hands(shell, t)
    BY <1>1, <2>2, <2>6 DEF Fits, Caught, Hands, IsOpenPanel, IsOpen
  <2>8. ASSUME NEW i \in 1 .. Len(t.calls), Doom(t, i)
        PROVE  i = Len(shell.calls) + 1 /\ t.calls[i].panel = t.opened
    <3>1. i \notin 1 .. Len(shell.calls)
      BY <2>2, <2>4, <2>6, <2>8 DEF NoDoom, Doom
    <3> QED  BY <2>3, <2>4, <2>5, <2>6, <3>1
  <2>9. Ends(t)  BY <2>2, <2>6, <2>8 DEF Ends
  <2>10. Timely(t)
    <3>1. ASSUME NEW i \in 1 .. Len(more) PROVE more[i].gen <= shell.gen
      <4>1. CASE i \in 1 .. Len(shell.calls)
        BY <2>2, <2>4, <4>1 DEF Timely
      <4>2. CASE i = Len(shell.calls) + 1
        BY <2>2, <2>3, <2>4, <4>2
      <4> QED  BY <2>5, <4>1, <4>2
    <3> QED  BY <2>6, <3>1 DEF Timely
  <2> QED  BY <1>2, <2>1, <2>6, <2>7, <2>9, <2>10 DEF Sane
<1> QED  BY <1>3, <1>4, <1>5, <1>6 DEF Frames

\* A handler whose request is taken, or was not there.
LEMMA TakenInv ==
  ASSUME PanelIInv, NEW t, t.request = 0, Becomes(t, {shell.request}), Sane(t),
         UNCHANGED <<motion, grabs, unseen>>, asked' \in asked .. MaxRequests,
         events' \in 0 .. MaxEvents
  PROVE  PanelIInv'
<1>1. Shows'  BY TakenShows DEF PanelIInv
<1>2. shell' = t  BY DEF Becomes
<1>3. Sane(shell)'  BY <1>2 DEF Sane, Caught, Grabs, Timely, Fits, Ends, Doom, NoDoom, IsOpen, Shell
<1> QED  BY <1>1, <1>3 DEF PanelIInv, Rest

\* The settings and the outputs.
LEMMA SurroundingsInv ==
  ASSUME PanelIInv, SwitchMotion \/ OutputGoes
  PROVE  PanelIInv'
<1>1. /\ Sane(shell) /\ shell \in Shell /\ Fits(shell) /\ motion \in BOOLEAN
      /\ shell.astray \in {"no", "over", "still"}
      /\ UNCHANGED <<grabs, asked, unseen>> /\ motion' \in BOOLEAN
      /\ events' = events + 1 /\ events' \in 0 .. MaxEvents
  <2>1. Sane(shell) /\ shell \in Shell /\ Fits(shell)  BY DEF PanelIInv, Sane
  <2>2. /\ motion \in BOOLEAN /\ motion' \in BOOLEAN /\ UNCHANGED <<grabs, asked, unseen>>
        /\ events \in 0 .. MaxEvents /\ Happens
    BY DEF PanelIInv, Rest, SwitchMotion, OutputGoes, rest
  <2>3. events' = events + 1 /\ events' \in 0 .. MaxEvents
    BY <2>2, PanelAssumption DEF Happens
  <2> QED  BY <2>1, <2>2, <2>3, ShellFields
<1>2. ASSUME NEW t, Becomes(t, {}), Sane(t), Hands(shell, t) PROVE PanelIInv'
  BY <1>1, <1>2, HandlerInv
<1>3. CASE SwitchMotion /\ motion
  <2> DEFINE astray == IF shell.anim = "close" THEN "still" ELSE shell.astray
             t == [shell EXCEPT !.anim = "none", !.astray = astray]
  <2>1. Becomes([shell EXCEPT !.anim = "none",
                              !.astray = IF shell.anim = "close" THEN "still" ELSE @], {})
    BY <1>3 DEF SwitchMotion
  <2>2. Becomes(t, {})  BY <2>1
  <2>3. /\ astray \in {"no", "over", "still"}
        /\ astray = shell.astray \/ (astray = "still" /\ shell.anim = "close")
    BY <1>1
  <2> HIDE DEF astray
  <2>4. /\ t \in Shell /\ t.scene = shell.scene /\ t.input = shell.input /\ t.anim = "none"
        /\ t.gap = shell.gap /\ t.astray = astray
        /\ t.calls = shell.calls /\ t.gen = shell.gen /\ t.panel = shell.panel
        /\ t.opened = shell.opened /\ t.request = shell.request /\ t.surface = shell.surface
        /\ t.closing = shell.closing /\ t.due = shell.due /\ t.attached = shell.attached
        /\ t.shield = shell.shield /\ t.grab = shell.grab
    BY <1>1, <2>3, Zenon DEF Shell
  <2> HIDE DEF t
  <2>5. Sane(t) /\ Hands(shell, t)
    BY <1>1, <2>3, <2>4, FrameSane DEF IsOpen, Fits
  <2> QED  BY <1>2, <2>2, <2>5
<1>4. CASE SwitchMotion /\ ~motion
  <2>1. Becomes(shell, {})  BY <1>4 DEF SwitchMotion
  <2>2. Hands(shell, shell)  BY DEF Hands
  <2> QED  BY <1>1, <1>2, <2>1, <2>2
<1>5. CASE OutputGoes
  <2> DEFINE t == [shell EXCEPT !.surface = "dead", !.gap = FALSE]
  <2>1. Becomes(t, {}) /\ shell.surface = "mapped"  BY <1>5 DEF OutputGoes
  <2>2. /\ t \in Shell /\ t.scene = shell.scene /\ t.input = shell.input /\ t.anim = shell.anim
        /\ t.gap = FALSE /\ t.astray = shell.astray /\ t.surface = "dead"
        /\ t.calls = shell.calls /\ t.gen = shell.gen /\ t.panel = shell.panel
        /\ t.opened = shell.opened /\ t.request = shell.request
        /\ t.closing = shell.closing /\ t.due = shell.due /\ t.attached = shell.attached
        /\ t.shield = shell.shield /\ t.grab = shell.grab
    BY <1>1, Zenon DEF Shell
  <2> HIDE DEF t
  <2>3. Sane(t) /\ Hands(shell, t)
    BY <1>1, <2>1, <2>2, FrameSane DEF IsOpen, Fits
  <2> QED  BY <1>2, <2>1, <2>3
<1> QED  BY <1>3, <1>4, <1>5

\* What the user does to the panels.
LEMMA UserInv ==
  ASSUME PanelIInv,
         UserCloses \/ \E id \in Panels \cup {Prompt}, attach, ok \in BOOLEAN :
                         Toggle(id, attach, ok)
  PROVE  PanelIInv'
<1>1. /\ Sane(shell) /\ grabs \in BOOLEAN /\ motion \in BOOLEAN
      /\ UNCHANGED <<motion, grabs, asked, unseen>>
      /\ events' = events + 1 /\ events' \in 0 .. MaxEvents
  BY PanelAssumption DEF PanelIInv, Rest, UserCloses, Toggle, Happens, rest
<1>2. ASSUME NEW t, Becomes(t, {}), Sane(t), Hands(shell, t) PROVE PanelIInv'
  BY <1>1, <1>2, HandlerInv
<1>3. Sane(ClosePanel(shell)) /\ Hands(shell, ClosePanel(shell))  BY <1>1, CloseSane
<1>4. CASE UserCloses
  BY <1>2, <1>3, <1>4 DEF UserCloses
<1>5. ASSUME NEW id \in Panels \cup {Prompt}, NEW attach \in BOOLEAN, NEW ok \in BOOLEAN,
             Toggle(id, attach, ok)
      PROVE  PanelIInv'
  <2>1. /\ Sane(OpenPanel(shell, id, attach, ok))
        /\ Hands(shell, OpenPanel(shell, id, attach, ok))
    BY <1>1, OpenSane
  <2>2. \/ Becomes(TogglePanel(shell, id, attach, ok), {})
        \/ Becomes(BarButton(shell, id, attach, ok), {})
    BY <1>5 DEF Toggle
  <2>3. Becomes(ClosePanel(shell), {}) \/ Becomes(OpenPanel(shell, id, attach, ok), {})
    BY <2>2, Zenon DEF TogglePanel, BarButton
  <2> QED  BY <1>2, <1>3, <2>1, <2>3
<1> QED  BY <1>4, <1>5

\* A request for authentication begins.
LEMMA InitiateInv ==
  ASSUME PanelIInv, NEW outcome \in {"starts", "fails", "refused"}, Initiate(outcome)
  PROVE  PanelIInv'
<1> DEFINE id == asked + 1
           starts == outcome = "starts"
           b == [shell EXCEPT !.request = id, !.asks = FALSE, !.session = starts]
           leaving == IsOpenPanel(shell, Prompt) /\ (shell.closing \/ shell.surface = "dead")
<1>1. /\ Sane(shell) /\ shell \in Shell /\ Shows /\ grabs \in BOOLEAN /\ motion \in BOOLEAN
      /\ UNCHANGED <<motion, grabs, events>> /\ events \in 0 .. MaxEvents
      /\ asked < MaxRequests /\ asked' = id
  BY DEF PanelIInv, Sane, Rest, Initiate
<1>2. /\ asked \in Nat /\ id \in 1 .. MaxRequests /\ id # 0 /\ id \notin 1 .. asked
      /\ 1 .. asked \subseteq 1 .. id /\ id \in 1 .. id /\ id \in 0 .. id
      /\ id \in 0 .. MaxRequests /\ id \in asked .. MaxRequests
  BY <1>1, PanelAssumption DEF Shows
<1>3. /\ unseen' = IF leaving /\ starts THEN unseen \cup {id} ELSE unseen
      /\ Becomes(CASE starts -> StateChanged(b, TRUE)
                   [] outcome = "fails" -> StateChanged(ClearPending(b), TRUE)
                   [] outcome = "refused" -> ClearPending(shell),
                 {shell.request})
  BY DEF Initiate
<1> HIDE DEF id
<1>4. starts \in BOOLEAN /\ id \in Requests  BY <1>2 DEF Requests
<1>4a. starts => outcome # "fails" /\ outcome # "refused"  OBVIOUS
<1> HIDE DEF starts
<1>5. /\ b \in Shell /\ b.request = id /\ b.asks = FALSE
      /\ b.scene = shell.scene /\ b.input = shell.input /\ b.anim = shell.anim
      /\ b.gap = shell.gap /\ b.astray = shell.astray /\ b.surface = shell.surface
      /\ b.calls = shell.calls /\ b.gen = shell.gen /\ b.panel = shell.panel
      /\ b.opened = shell.opened /\ b.closing = shell.closing /\ b.due = shell.due
      /\ b.attached = shell.attached /\ b.shield = shell.shield /\ b.grab = shell.grab
  BY <1>1, <1>4, Zenon DEF Shell
<1> HIDE DEF b
<1>6. Sane(b)  BY <1>1, <1>5, AgentSane
<1>7. ASSUME NEW t, t.request = 0, Becomes(t, {shell.request}), Sane(t), ~starts
      PROVE  PanelIInv'
  BY <1>1, <1>2, <1>3, <1>7, TakenInv
<1>8. CASE starts
  <2>1. StateChanged(b, TRUE) = b  BY <1>2, <1>5 DEF StateChanged
  <2>2. Becomes(b, {shell.request})  BY <1>3, <1>4a, <1>8, <2>1
  <2>3. /\ shell' = b /\ dropped' = dropped
        /\ seen' = IF IsOpenPanel(b, Prompt) /\ b.surface = "mapped" /\ ~b.closing
                   THEN seen \cup {id} ELSE seen
    BY <1>2, <1>5, <2>2 DEF Becomes
  <2>4. unseen' = IF leaving THEN unseen \cup {id} ELSE unseen  BY <1>3, <1>8
  <2>5. seen' \cup unseen' \subseteq 1 .. id  BY <1>1, <1>2, <2>3, <2>4 DEF Shows
  <2>6. id \in seen' => IsOpenPanel(b, Prompt)
    <3>1. id \notin seen  BY <1>1, <1>2 DEF Shows
    <3> QED  BY <2>3, <3>1
  <2>7. IsOpenPanel(b, Prompt) => id \in seen' \cup unseen' \cup {0}
    <3>1. IsOpenPanel(b, Prompt) <=> IsOpenPanel(shell, Prompt)
      BY <1>5 DEF IsOpenPanel, IsOpen
    <3>2. b.surface \in {"none", "mapped", "dead"} /\ b.closing \in BOOLEAN
      BY <1>5, ShellFields
    <3>3. IsOpenPanel(b, Prompt) => b.surface # "none"  BY DEF IsOpenPanel, IsOpen
    <3> QED  BY <1>5, <2>3, <2>4, <3>1, <3>2, <3>3
  <2>8. dropped' \subseteq seen' \cup unseen'  BY <1>1, <2>3, <2>4 DEF Shows
  <2>9. Shows'
    BY <1>1, <1>2, <1>5, <2>3, <2>5, <2>6, <2>7, <2>8 DEF Shows, IsOpenPanel, IsOpen
  <2>10. Sane(shell)'
    BY <1>1, <1>6, <2>3
       DEF Sane, Caught, Grabs, Timely, Fits, Ends, Doom, NoDoom, IsOpen, Shell
  <2> QED  BY <1>1, <2>9, <2>10 DEF PanelIInv, Rest
<1>9. CASE ~starts /\ outcome = "fails"
  <2> DEFINE c == ClearPending(b)
             t == StateChanged(c, TRUE)
  <2>1. Becomes(t, {shell.request})  BY <1>3, <1>9
  <2>2. Sane(c) /\ c.request = 0  BY <1>5, <1>6, ClearSane, ClearFields
  <2> HIDE DEF c
  <2>3. TRUE \in BOOLEAN  OBVIOUS
  <2>4. Sane(t) /\ Hands(c, t)  BY <1>1, <2>2, <2>3, StateSane
  <2> HIDE DEF t
  <2>5. t.request = 0  BY <2>2, <2>4 DEF Hands
  <2> QED  BY <1>7, <1>9, <2>1, <2>4, <2>5
<1>10. CASE ~starts /\ outcome = "refused"
  <2>1. Becomes(ClearPending(shell), {shell.request})  BY <1>3, <1>10
  <2>2. Sane(ClearPending(shell)) /\ ClearPending(shell).request = 0
    BY <1>1, ClearSane, ClearFields
  <2> QED  BY <1>7, <1>10, <2>1, <2>2
<1> QED  BY <1>8, <1>9, <1>10 DEF starts

\* What the sessions and the authority do with it.
LEMMA AgentInv ==
  ASSUME PanelIInv,
         \/ \E asks, ok \in BOOLEAN : SessionSpeaks(asks, ok)
         \/ Submit
         \/ \E gained, again \in BOOLEAN : Completes(gained, again)
         \/ AuthorityCancels
         \/ AgentRestarts
  PROVE  PanelIInv'
<1>1. /\ Sane(shell) /\ shell \in Shell /\ shell.asks \in BOOLEAN
      /\ grabs \in BOOLEAN /\ motion \in BOOLEAN /\ asked \in 0 .. MaxRequests
      /\ UNCHANGED <<motion, grabs, asked, unseen>>
  BY ShellFields
     DEF PanelIInv, Sane, Rest, Shows, SessionSpeaks, Submit, Completes, AuthorityCancels,
         AgentRestarts, rest
<1>2. events' \in {events, events + 1} /\ events' \in 0 .. MaxEvents
  <2>1. events' = events \/ Happens
    BY DEF SessionSpeaks, Submit, Completes, AuthorityCancels, AgentRestarts
  <2>2. events \in 0 .. MaxEvents  BY DEF PanelIInv, Rest
  <2> QED  BY <2>1, <2>2, PanelAssumption DEF Happens
<1>3. ASSUME NEW asks \in BOOLEAN, NEW ok \in BOOLEAN,
             Becomes(StateChanged([shell EXCEPT !.asks = asks], ok), {})
      PROVE  PanelIInv'
  <2> DEFINE s == [shell EXCEPT !.asks = asks]
             t == StateChanged(s, ok)
  <2>1. /\ s \in Shell /\ s.request = shell.request
        /\ s.scene = shell.scene /\ s.input = shell.input /\ s.anim = shell.anim
        /\ s.gap = shell.gap /\ s.astray = shell.astray /\ s.surface = shell.surface
        /\ s.calls = shell.calls /\ s.gen = shell.gen /\ s.panel = shell.panel
        /\ s.opened = shell.opened /\ s.closing = shell.closing /\ s.due = shell.due
        /\ s.attached = shell.attached /\ s.shield = shell.shield /\ s.grab = shell.grab
    BY <1>1, Zenon DEF Shell
  <2>2. Becomes(t, {})  BY <1>3
  <2> HIDE DEF s
  <2>3. Sane(s)  BY <1>1, <2>1, AgentSane
  <2>4. Sane(t) /\ Hands(s, t)  BY <1>1, <2>3, StateSane
  <2> HIDE DEF t
  <2>5. Hands(shell, t)  BY <2>1, <2>4 DEF Hands, IsOpenPanel, IsOpen
  <2> QED  BY <1>1, <1>2, <2>2, <2>4, <2>5, HandlerInv
<1>4. ASSUME NEW t, t.request = 0, Sane(t), Becomes(t, {shell.request})
      PROVE  PanelIInv'
  <2>1. asked' \in asked .. MaxRequests  BY <1>1, PanelAssumption
  <2> QED  BY <1>1, <1>2, <1>4, <2>1, TakenInv
<1>5. Sane(ClearPending(shell)) /\ ClearPending(shell).request = 0
  BY <1>1, ClearSane, ClearFields
<1>6. ASSUME Becomes(StateChanged(ClearPending(shell), TRUE), {shell.request}) PROVE PanelIInv'
  <2> DEFINE c == ClearPending(shell)
             t == StateChanged(c, TRUE)
  <2>1. TRUE \in BOOLEAN  OBVIOUS
  <2> HIDE DEF c
  <2>2. Sane(c) /\ c.request = 0  BY <1>5 DEF c
  <2>3. Sane(t) /\ Hands(c, t)  BY <1>1, <2>1, <2>2, StateSane
  <2>4. Becomes(t, {shell.request})  BY <1>6 DEF c
  <2> HIDE DEF t
  <2>5. t.request = 0  BY <2>2, <2>3 DEF Hands
  <2> QED  BY <1>4, <2>3, <2>4, <2>5
<1>7. ASSUME NEW asks \in BOOLEAN, NEW ok \in BOOLEAN, SessionSpeaks(asks, ok)
      PROVE  PanelIInv'
  <2> DEFINE more == shell.asks \/ asks
  <2>1. Becomes(StateChanged([shell EXCEPT !.asks = @ \/ asks], ok), {})
    BY <1>7 DEF SessionSpeaks
  <2>2. Becomes(StateChanged([shell EXCEPT !.asks = more], ok), {})  BY <2>1
  <2>3. more \in BOOLEAN  BY <1>1
  <2> HIDE DEF more
  <2> QED  BY <1>3, <2>2, <2>3
<1>8. TRUE \in BOOLEAN /\ FALSE \in BOOLEAN  OBVIOUS
<1>9. CASE Submit
  BY <1>3, <1>8, <1>9 DEF Submit
<1>10. ASSUME NEW gained \in BOOLEAN, NEW again \in BOOLEAN, Completes(gained, again)
       PROVE  PanelIInv'
  BY <1>3, <1>6, <1>8, <1>10, Zenon DEF Completes
<1>11. CASE AuthorityCancels
  BY <1>6, <1>11 DEF AuthorityCancels
<1>12. CASE AgentRestarts
  BY <1>4, <1>5, <1>12 DEF AgentRestarts
<1> QED  BY <1>7, <1>9, <1>10, <1>11, <1>12

LEMMA NextSane == PanelIInv /\ [Next]_vars => PanelIInv'
<1> SUFFICES ASSUME PanelIInv, [Next]_vars PROVE PanelIInv'
  OBVIOUS
<1>1. CASE RunCall
  <2>1. /\ Sane(shell) /\ grabs \in BOOLEAN /\ motion \in BOOLEAN /\ events \in 0 .. MaxEvents
        /\ UNCHANGED <<motion, grabs, asked, unseen, events>>
    BY <1>1 DEF PanelIInv, Rest, RunCall, rest
  <2>2. Sane(shell') /\ Hands(shell, shell') /\ Becomes(shell', {})
    BY <1>1, <2>1, RunCallSane
  <2> QED  BY <2>1, <2>2, HandlerInv
<1>2. CASE UNCHANGED vars
  BY <1>2 DEF vars, PanelIInv, Shows, Rest, Sane, Caught, Grabs, Timely, Fits, Ends, Doom,
              NoDoom, IsOpen, IsOpenPanel, Shell
<1>3. CASE Frames  BY <1>3, FramesInv
<1>4. CASE SwitchMotion \/ OutputGoes  BY <1>4, SurroundingsInv
<1>5. CASE UserCloses \/ \E id \in Panels \cup {Prompt}, attach, ok \in BOOLEAN :
             Toggle(id, attach, ok)
  BY <1>5, UserInv
<1>6. CASE \E outcome \in {"starts", "fails", "refused"} : Initiate(outcome)
  BY <1>6, InitiateInv
<1>7. CASE \/ \E asks, ok \in BOOLEAN : SessionSpeaks(asks, ok)
           \/ Submit
           \/ \E gained, again \in BOOLEAN : Completes(gained, again)
           \/ AuthorityCancels
           \/ AgentRestarts
  BY <1>7, AgentInv
<1> QED  BY <1>1, <1>2, <1>3, <1>4, <1>5, <1>6, <1>7 DEF Next, Frames

-----------------------------------------------------------------------------
(* The theorems. *)

LEMMA AlwaysSane == Spec => []PanelIInv
<1> QED  BY InitSane, NextSane, PTL DEF Spec

\* Surface, panel, scene, animation and the bar's gap go together, and what is open
\* and stays open can be dismissed by a click outside, now or once a deferred call
\* is made.
THEOREM PanelIsSound == Spec => []PanelInv
<1>1. PanelIInv => PanelInv
  <2> SUFFICES ASSUME PanelIInv PROVE PanelInv
    OBVIOUS
  <2>1. Sane(shell) /\ Shows /\ Rest  BY DEF PanelIInv
  <2>2. TypeOK
    <3>1. seen \cup unseen \cup dropped \subseteq Requests
      <4>1. 1 .. asked \subseteq 1 .. MaxRequests  BY <2>1, PanelAssumption DEF Shows
      <4> QED  BY <2>1, <4>1 DEF Shows, Requests
    <3> QED  BY <2>1, <3>1 DEF TypeOK, Sane, Shows, Rest
  <2>3. Mapped /\ ~shell.closing => shell.shield \/ shell.grab \/ Queued("grab")
    BY <2>1 DEF Sane, Caught, Grabs, Mapped, Queued
  <2> QED  BY <2>1, <2>2, <2>3 DEF PanelInv, Sane, Fits, Mapped
<1> QED  BY <1>1, AlwaysSane, PTL

\* A deferred destroyPanel that still counts is for the panel that is open, unless
\* that was opened over a prompt that was cancelling its request.
THEOREM DestroysTheRightPanel == Spec => []NoStaleDestroy
<1>1. PanelIInv => NoStaleDestroy
  BY DEF PanelIInv, Sane, Ends, Doom, NoStaleDestroy
<1> QED  BY <1>1, AlwaysSane, PTL

\* A request that was shown keeps its prompt as long as it is pending, and closing a
\* prompt cancels only what was shown in it or came while it was leaving.
THEOREM PromptIsShown == Spec => []PromptInv
<1>1. PanelIInv => PromptInv
  BY DEF PanelIInv, Shows, PromptInv
<1> QED  BY <1>1, AlwaysSane, PTL
=============================================================================
