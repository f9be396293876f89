----------------------- MODULE NotificationToast_proofs -----------------------
(***************************************************************************)
(* Proofs for NotificationToast: for any outputs, popups and events, the   *)
(* cards of every surface run parallel to the entries, nothing on screen   *)
(* overlaps and no popup is kept waiting for a place there is, a popup     *)
(* that leaves is on its way out, and a countdown that stands still has    *)
(* something that will start it again.                                     *)
(*                                                                         *)
(* The handlers are functions of a state which call each other, so there   *)
(* is a lemma about each of them, from the bottom up.  Most of them are    *)
(* what the pointer sets off (Hovers), and leave everything as it is but   *)
(* countdowns and hovering.  Where a handler goes through all outputs or   *)
(* all entries, the lemma says what is so after each step (Climb).  The    *)
(* inductive invariant is IInv, below the handlers, and then there is a    *)
(* lemma about each action.                                                *)
(***************************************************************************)
EXTENDS NotificationToast, SequenceTheorems, WellFoundedInduction, TLAPS

-----------------------------------------------------------------------------
(* Numbers, and going through them. *)

LEMMA LeastMember ==
  ASSUME NEW T \in SUBSET Nat, T # {}
  PROVE  \E m \in T : \A k \in T : m <= k
<1> DEFINE R == {r \in Nat \X Nat : r[1] < r[2]}
<1>1. IsWellFoundedOn(R, Nat)  BY NatLessThanWellFounded DEF OpToRel
<1>2. \A x, y \in Nat : y < x => <<y, x>> \in R
  <2> SUFFICES ASSUME NEW x \in Nat, NEW y \in Nat, y < x PROVE <<y, x>> \in R
    OBVIOUS
  <2>1. <<y, x>> \in Nat \X Nat  OBVIOUS
  <2> QED  BY <2>1
<1> HIDE DEF R
<1>3. PICK m \in T : \A k \in T : <<k, m>> \notin R  BY <1>1, WFMin, Zenon
<1>4. \A k \in T : ~(k < m)  BY <1>2, <1>3
<1> QED  BY <1>4

\* What is so at the start and from each step to the next is so at the end.
LEMMA Climb ==
  ASSUME NEW n \in Nat, NEW K, 0 \in K, \A k \in 1 .. n : k - 1 \in K => k \in K
  PROVE  \A k \in 0 .. n : k \in K
<1> DEFINE Bad == {k \in 0 .. n : k \notin K}
<1> SUFFICES ASSUME Bad # {} PROVE FALSE
  OBVIOUS
<1>1. Bad \in SUBSET Nat  OBVIOUS
<1>2. PICK k \in Bad : \A l \in Bad : k <= l
  <2> HIDE DEF Bad
  <2> QED  BY <1>1, LeastMember
<1>3. k # 0 /\ k \in 1 .. n  BY <1>2
<1>4. k - 1 \in 0 .. n /\ ~(k <= k - 1)  BY <1>3
<1>5. k - 1 \in K  BY <1>2, <1>4
<1> QED  BY <1>2, <1>3, <1>5

\* The last of a bounded set of numbers.
LEMMA GreatestMember ==
  ASSUME NEW n \in Nat, NEW T \in SUBSET (0 .. n), T # {}
  PROVE  \E m \in T : \A k \in T : m >= k
<1> DEFINE B == {b \in Nat : \A k \in T : k <= b}
<1>1. n \in B  OBVIOUS
<1>2. PICK b \in B : \A c \in B : b <= c
  <2> HIDE DEF B
  <2>1. B \in SUBSET Nat  BY DEF B
  <2> QED  BY <1>1, <2>1, LeastMember
<1>3. b \in T
  <2> SUFFICES ASSUME b \notin T PROVE FALSE
    OBVIOUS
  <2>1. PICK t \in T : TRUE  OBVIOUS
  <2>2. b # 0  BY <1>2, <2>1
  <2>3. \A k \in T : k <= b - 1  BY <1>2, <2>2
  <2>4. b - 1 \in B  BY <1>2, <2>2, <2>3
  <2> QED  BY <1>2, <2>2, <2>4
<1> QED  BY <1>2, <1>3

LEMMA RoomFacts ==
  /\ Len(Rooms) \in Nat \ {0} /\ Screens = 1 .. Len(Rooms)
  /\ \A n \in Screens : Rooms[n] \in Nat \ {0} /\ Rooms[n] <= MaxRoom
  /\ MaxRoom \in Nat \ {0} /\ Queued = MaxRoom
<1>1. Rooms \in Seq(Nat \ {0}) /\ Rooms # <<>>  BY ToastAssumption
<1>2. /\ Len(Rooms) \in Nat \ {0} /\ Screens = 1 .. Len(Rooms)
      /\ \A n \in Screens : Rooms[n] \in Nat \ {0}
  BY <1>1, LenProperties, EmptySeq, ElementOfSeq DEF Screens
<1>3. Range(Rooms) = {Rooms[n] : n \in Screens}  BY DEF Range, Screens
<1> DEFINE K == {k \in 0 .. Len(Rooms) :
                   k # 0 => \E m \in 1 .. k : \A n \in 1 .. k : Rooms[n] <= Rooms[m]}
<1>4. \A k \in 1 .. Len(Rooms) : k - 1 \in K => k \in K
  <2> SUFFICES ASSUME NEW k \in 1 .. Len(Rooms), k - 1 \in K PROVE k \in K
    OBVIOUS
  <2>1. CASE k = 1
    <3>1. 1 \in 1 .. k /\ \A n \in 1 .. k : Rooms[n] <= Rooms[1]  BY <2>1, <1>2
    <3> QED  BY <3>1
  <2>2. CASE k # 1
    <3>1. PICK m \in 1 .. k - 1 : \A n \in 1 .. k - 1 : Rooms[n] <= Rooms[m]  BY <2>2
    <3> DEFINE w == IF Rooms[m] <= Rooms[k] THEN k ELSE m
    <3>2. w \in 1 .. k  OBVIOUS
    <3>3. \A n \in 1 .. k : Rooms[n] <= Rooms[w]
      <4> TAKE n \in 1 .. k
      <4>1. Rooms[n] \in Nat /\ Rooms[m] \in Nat /\ Rooms[k] \in Nat  BY <1>2
      <4>2. n = k \/ n \in 1 .. k - 1  OBVIOUS
      <4> QED  BY <3>1, <4>1, <4>2
    <3> HIDE DEF w
    <3> QED  BY <3>2, <3>3
  <2>3. \E m \in 1 .. k : \A n \in 1 .. k : Rooms[n] <= Rooms[m]  BY <2>1, <2>2
  <2> QED  BY <2>3
<1>5. Len(Rooms) \in K
  <2>1. 0 \in K  BY <1>2
  <2> HIDE DEF K
  <2>2. \A k \in 0 .. Len(Rooms) : k \in K  BY <1>2, <1>4, <2>1, Climb
  <2> QED  BY <1>2, <2>2
<1>6. PICK m \in 1 .. Len(Rooms) : \A n \in 1 .. Len(Rooms) : Rooms[n] <= Rooms[m]  BY <1>2, <1>5
<1>7. Rooms[m] \in Range(Rooms) /\ \A q \in Range(Rooms) : q <= Rooms[m]  BY <1>2, <1>3, <1>6
<1>8. MaxRoom \in Range(Rooms) /\ \A q \in Range(Rooms) : q <= MaxRoom  BY <1>7, Zenon DEF MaxRoom
<1> QED  BY <1>2, <1>3, <1>8 DEF Queued

\* F keeps to the states U; it leads from each of the sets P[k] to the next; g is
\* the states of going from s through 1..n with F.
KeepsTo(F, U, n) == \A t \in U, k \in 1 .. n : F[<<t, k>>] \in U
Leads(F, P, n) == \A k \in 1 .. n : \A t \in P[k - 1] : F[<<t, k>>] \in P[k]
Runs(g, F, s, n) == g[0] = s /\ \A k \in 1 .. n : g[k] = F[<<g[k - 1], k>>]
RunsIn(g, U, F, s, n) == g[0] = s /\ \A k \in 1 .. n : g[k - 1] \in U => g[k] = F[<<g[k - 1], k>>]

LEMMA StepsExist ==
  ASSUME NEW U, NEW s \in U, NEW n \in Nat, NEW F, KeepsTo(F, U, n)
  PROVE  \E g \in [0 .. n -> U] : Runs(g, F, s, n)
<1> DEFINE Good(g, m) == g[0] = s /\ \A k \in 1 .. m : g[k] = F[<<g[k - 1], k>>]
           K == {m \in 0 .. n : \E g \in [0 .. m -> U] : Good(g, m)}
<1>1. 0 \in K
  <2> DEFINE g == [k \in 0 .. 0 |-> s]
  <2>1. g \in [0 .. 0 -> U] /\ g[0] = s  OBVIOUS
  <2> HIDE DEF g
  <2>2. Good(g, 0)  BY <2>1
  <2> QED  BY <2>1, <2>2
<1>2. \A m \in 1 .. n : m - 1 \in K => m \in K
  <2> SUFFICES ASSUME NEW m \in 1 .. n, m - 1 \in K PROVE m \in K
    OBVIOUS
  <2>1. PICK g \in [0 .. m - 1 -> U] : Good(g, m - 1)  OBVIOUS
  <2> DEFINE v == F[<<g[m - 1], m>>]
             h == [k \in 0 .. m |-> IF k = m THEN v ELSE g[k]]
  <2>2. g[m - 1] \in U /\ v \in U  BY DEF KeepsTo
  <2>3. \A k \in 0 .. m : h[k] = IF k = m THEN v ELSE g[k]  OBVIOUS
  <2>4. h \in [0 .. m -> U]
    <3> HIDE DEF v
    <3> QED  BY <2>2
  <2>5. h[0] = s  BY <2>1, <2>3
  <2>6. ASSUME NEW k \in 1 .. m PROVE h[k] = F[<<h[k - 1], k>>]
    <3>1. k - 1 \in 0 .. m /\ k - 1 # m /\ k \in 0 .. m  OBVIOUS
    <3>2. h[k - 1] = g[k - 1]  BY <2>3, <3>1
    <3>3. CASE k = m  BY <2>3, <3>1, <3>2, <3>3
    <3>4. CASE k # m
      <4>1. k \in 1 .. m - 1  BY <3>4
      <4>2. g[k] = F[<<g[k - 1], k>>]  BY <2>1, <4>1
      <4> QED  BY <2>3, <3>1, <3>2, <3>4, <4>2
    <3> QED  BY <3>3, <3>4
  <2> HIDE DEF h
  <2>7. Good(h, m)  BY <2>5, <2>6
  <2> QED  BY <2>4, <2>7
<1>3. n \in K
  <2> HIDE DEF K
  <2> QED  BY <1>1, <1>2, Climb
<1> QED  BY <1>3 DEF Runs

\* Going from s through 1..n with F, where each step leads from one of the sets
\* P[k] to the next: there is such a sequence of states, and each such sequence
\* ends in the last of the sets.
LEMMA Steps ==
  ASSUME NEW U, NEW s, NEW n \in Nat, NEW F, NEW P \in [0 .. n -> SUBSET U], s \in P[0],
         Leads(F, P, n)
  PROVE  /\ \E h \in [0 .. n -> U] : Runs(h, F, s, n)
         /\ \A g : RunsIn(g, U, F, s, n) => g[n] \in P[n]
<1>1. ASSUME NEW g, RunsIn(g, U, F, s, n)
      PROVE  \A k \in 0 .. n : g[k] \in P[k]
  <2> DEFINE K == {k \in 0 .. n : g[k] \in P[k]}
  <2>1. 0 \in K  BY <1>1 DEF RunsIn
  <2>2. \A k \in 1 .. n : k - 1 \in K => k \in K
    <3> SUFFICES ASSUME NEW k \in 1 .. n, k - 1 \in K PROVE k \in K
      OBVIOUS
    <3>1. g[k - 1] \in P[k - 1] /\ P[k - 1] \in SUBSET U /\ k \in 0 .. n  OBVIOUS
    <3>2. g[k] = F[<<g[k - 1], k>>]  BY <1>1, <3>1 DEF RunsIn
    <3> QED  BY <3>1, <3>2 DEF Leads
  <2>3. \A k \in 0 .. n : k \in K
    <3> HIDE DEF K
    <3> QED  BY <2>1, <2>2, Climb
  <2> QED  BY <2>3
<1> DEFINE G == [x \in U \X (1 .. n) |-> IF F[x] \in U THEN F[x] ELSE s]
<1>2. s \in U  OBVIOUS
<1>3. \A t \in U, k \in 1 .. n : G[<<t, k>>] = IF F[<<t, k>>] \in U THEN F[<<t, k>>] ELSE s
  <2> SUFFICES ASSUME NEW t \in U, NEW k \in 1 .. n
               PROVE  G[<<t, k>>] = IF F[<<t, k>>] \in U THEN F[<<t, k>>] ELSE s
    OBVIOUS
  <2>1. <<t, k>> \in U \X (1 .. n)  OBVIOUS
  <2> QED  BY <2>1
<1> HIDE DEF G
<1>4. KeepsTo(G, U, n)  BY <1>2, <1>3 DEF KeepsTo
<1>5. PICK h \in [0 .. n -> U] : Runs(h, G, s, n)  BY <1>2, <1>4, StepsExist
<1> DEFINE K == {k \in 0 .. n : h[k] \in P[k]}
<1>6. ASSUME NEW k \in 1 .. n, h[k - 1] \in P[k - 1]
      PROVE  h[k] = F[<<h[k - 1], k>>] /\ h[k] \in P[k]
  <2>1. F[<<h[k - 1], k>>] \in P[k]  BY <1>6 DEF Leads
  <2>2. P[k] \in SUBSET U /\ h[k - 1] \in U  OBVIOUS
  <2>3. h[k] = G[<<h[k - 1], k>>]  BY <1>5 DEF Runs
  <2> QED  BY <1>3, <2>1, <2>2, <2>3
<1>7. \A k \in 0 .. n : k \in K
  <2>1. 0 \in K  BY <1>5 DEF Runs
  <2>2. \A k \in 1 .. n : k - 1 \in K => k \in K
    <3> SUFFICES ASSUME NEW k \in 1 .. n, k - 1 \in K PROVE k \in K
      OBVIOUS
    <3>1. h[k - 1] \in P[k - 1] /\ k \in 0 .. n  OBVIOUS
    <3> QED  BY <1>6, <3>1
  <2> HIDE DEF K
  <2> QED  BY <2>1, <2>2, Climb
<1>8. \A k \in 1 .. n : h[k] = F[<<h[k - 1], k>>]
  <2> TAKE k \in 1 .. n
  <2>1. k - 1 \in K  BY <1>7
  <2> QED  BY <1>6, <2>1
<1>9. Runs(h, F, s, n)  BY <1>5, <1>8 DEF Runs
<1> QED  BY <1>1, <1>9

-----------------------------------------------------------------------------
(* States of the toast, with the notes of the manager, and their parts. *)

Cards == Card \cup {NoCard}
Screen == [scene : BOOLEAN, cards : Seq(Cards), rebuild : BOOLEAN]
Notes == UNION {[D -> Note] : D \in SUBSET Ids}
Calls == SUBSET ({"remove", "finish"} \X Ids)
State ==
  [notes : Notes, entries : Seq(Entry), screens : Seq(Screen), pointer : Places \cup {Outside},
   area : Ids \cup {0}, calls : Calls, lastPosition : {"top", "bottom"}]

LEMMA StateFields ==
  ASSUME NEW s \in State
  PROVE  /\ s.notes \in Notes /\ s.entries \in Seq(Entry) /\ s.screens \in Seq(Screen)
         /\ s.pointer \in Places \cup {Outside} /\ s.area \in Ids \cup {0} /\ s.calls \in Calls
         /\ s.lastPosition \in {"top", "bottom"}
         /\ Len(s.entries) \in Nat /\ DOMAIN s.entries = 1 .. Len(s.entries)
         /\ Len(s.screens) \in Nat /\ DOMAIN s.screens = 1 .. Len(s.screens)
         /\ \A i \in 1 .. Len(s.entries) : s.entries[i] \in Entry
<1>1. /\ s.notes \in Notes /\ s.entries \in Seq(Entry) /\ s.screens \in Seq(Screen)
      /\ s.pointer \in Places \cup {Outside} /\ s.area \in Ids \cup {0} /\ s.calls \in Calls
      /\ s.lastPosition \in {"top", "bottom"}
  BY Zenon DEF State
<1> QED  BY <1>1, LenProperties, ElementOfSeq

LEMMA ScreenFields ==
  ASSUME NEW s \in State, NEW n \in 1 .. Len(s.screens)
  PROVE  /\ s.screens[n] \in Screen /\ s.screens[n].scene \in BOOLEAN
         /\ s.screens[n].cards \in Seq(Cards) /\ s.screens[n].rebuild \in BOOLEAN
         /\ Len(s.screens[n].cards) \in Nat
         /\ DOMAIN s.screens[n].cards = 1 .. Len(s.screens[n].cards)
         /\ \A i \in 1 .. Len(s.screens[n].cards) : s.screens[n].cards[i] \in Cards
<1>1. s.screens[n] \in Screen  BY StateFields, ElementOfSeq
<1>2. /\ s.screens[n].scene \in BOOLEAN /\ s.screens[n].cards \in Seq(Cards)
      /\ s.screens[n].rebuild \in BOOLEAN
  BY <1>1 DEF Screen
<1> QED  BY <1>1, <1>2, LenProperties, ElementOfSeq

LEMMA EntryFields ==
  ASSUME NEW e \in Entry
  PROVE  /\ e.id \in Ids /\ e.timeout \in Timeouts /\ e.height \in Heights /\ e.height \in Nat \ {0}
         /\ e.y \in 0 .. MaxRoom /\ e.lasts \in BOOLEAN /\ e.left \in BOOLEAN /\ e.exiting \in BOOLEAN
         /\ e.hovered \in BOOLEAN /\ e.updated \in BOOLEAN /\ e.lost \in BOOLEAN
BY ToastAssumption DEF Entry

LEMMA CardFields ==
  /\ NoCard.id = 0 /\ NoCard \in Cards
  /\ \A c \in Cards : c # NoCard =>
       /\ c \in Card /\ c.id \in Ids /\ c.leave \in {"none", "keep", "resume"}
       /\ c.countdown \in {"off", "runs", "driven"} /\ c.left \in BOOLEAN /\ c.exit \in BOOLEAN
  /\ \A c \in Card : c \in Cards /\ c # NoCard
<1>1. NoCard.id = 0 /\ NoCard \in Cards  BY DEF NoCard, Cards
<1>2. \A c \in Card : /\ c.id \in Ids /\ c.leave \in {"none", "keep", "resume"}
                      /\ c.countdown \in {"off", "runs", "driven"} /\ c.left \in BOOLEAN /\ c.exit \in BOOLEAN
  BY DEF Card
<1>3. 0 \notin Ids  BY ToastAssumption DEF Ids
<1>4. \A c \in Card : c # NoCard  BY <1>1, <1>2, <1>3
<1> QED  BY <1>1, <1>2, <1>4 DEF Cards

LEMMA EntrySet ==
  ASSUME NEW s \in State, NEW i \in 1 .. Len(s.entries), NEW e \in Entry
  PROVE  /\ SetEntry(s, i, e) \in State
         /\ SetEntry(s, i, e).notes = s.notes /\ SetEntry(s, i, e).screens = s.screens
         /\ SetEntry(s, i, e).pointer = s.pointer /\ SetEntry(s, i, e).area = s.area
         /\ SetEntry(s, i, e).calls = s.calls /\ SetEntry(s, i, e).lastPosition = s.lastPosition
         /\ Len(SetEntry(s, i, e).entries) = Len(s.entries)
         /\ \A j \in 1 .. Len(s.entries) :
              SetEntry(s, i, e).entries[j] = IF j = i THEN e ELSE s.entries[j]
<1> DEFINE q == [s.entries EXCEPT ![i] = e]
<1>1. s.entries \in Seq(Entry)  BY StateFields
<1>2. /\ q \in Seq(Entry) /\ Len(q) = Len(s.entries)
      /\ \A j \in 1 .. Len(s.entries) : q[j] = IF j = i THEN e ELSE s.entries[j]
  BY <1>1, ExceptSeq
<1>3. SetEntry(s, i, e) = [s EXCEPT !.entries = q]  BY DEF SetEntry
<1> HIDE DEF q
<1>4. SetEntry(s, i, e) \in State  BY <1>2, <1>3 DEF State
<1>5. SetEntry(s, i, e).entries = q  BY <1>3 DEF State
<1>6. /\ SetEntry(s, i, e).notes = s.notes /\ SetEntry(s, i, e).screens = s.screens
      /\ SetEntry(s, i, e).pointer = s.pointer /\ SetEntry(s, i, e).area = s.area
      /\ SetEntry(s, i, e).calls = s.calls /\ SetEntry(s, i, e).lastPosition = s.lastPosition
  BY <1>3 DEF State
<1> QED  BY <1>2, <1>4, <1>5, <1>6

\* The screens of t are those of s but for the card at i on screen n, which is c.
Swapped(s, t, n, i, c) ==
  \A m \in 1 .. Len(s.screens) :
    /\ t.screens[m].scene = s.screens[m].scene /\ t.screens[m].rebuild = s.screens[m].rebuild
    /\ Len(t.screens[m].cards) = Len(s.screens[m].cards)
    /\ \A j \in 1 .. Len(s.screens[m].cards) :
         t.screens[m].cards[j] = IF m = n /\ j = i THEN c ELSE s.screens[m].cards[j]

LEMMA CardSet ==
  ASSUME NEW s \in State, NEW n \in 1 .. Len(s.screens), NEW i \in 1 .. Len(s.screens[n].cards),
         NEW c \in Cards, NEW t, t = SetCard(s, n, i, c)
  PROVE  /\ t \in State /\ t.notes = s.notes /\ t.entries = s.entries /\ t.pointer = s.pointer
         /\ t.area = s.area /\ t.calls = s.calls /\ t.lastPosition = s.lastPosition
         /\ Len(t.screens) = Len(s.screens) /\ Swapped(s, t, n, i, c)
<1> DEFINE q == [s.screens[n].cards EXCEPT ![i] = c]
           r == [s.screens[n] EXCEPT !.cards = q]
           p == [s.screens EXCEPT ![n] = r]
<1>1. /\ s.screens \in Seq(Screen) /\ s.screens[n] \in Screen /\ s.screens[n].cards \in Seq(Cards)
  BY StateFields, ScreenFields
<1>2. /\ q \in Seq(Cards) /\ Len(q) = Len(s.screens[n].cards)
      /\ \A j \in 1 .. Len(s.screens[n].cards) : q[j] = IF j = i THEN c ELSE s.screens[n].cards[j]
  BY <1>1, ExceptSeq
<1>3. t = [s EXCEPT !.screens = p]  BY DEF SetCard
<1> HIDE DEF q
<1>4. /\ r \in Screen /\ r.cards = q /\ r.scene = s.screens[n].scene
      /\ r.rebuild = s.screens[n].rebuild
  BY <1>1, <1>2 DEF Screen
<1> HIDE DEF r
<1>5. /\ p \in Seq(Screen) /\ Len(p) = Len(s.screens)
      /\ \A m \in 1 .. Len(s.screens) : p[m] = IF m = n THEN r ELSE s.screens[m]
  BY <1>1, <1>4, ExceptSeq
<1> HIDE DEF p
<1>6. /\ t \in State /\ t.screens = p /\ t.notes = s.notes /\ t.entries = s.entries
      /\ t.pointer = s.pointer /\ t.area = s.area /\ t.calls = s.calls
      /\ t.lastPosition = s.lastPosition
  BY <1>3, <1>5 DEF State
<1>7. ASSUME NEW m \in 1 .. Len(s.screens)
      PROVE  /\ t.screens[m].scene = s.screens[m].scene /\ t.screens[m].rebuild = s.screens[m].rebuild
             /\ Len(t.screens[m].cards) = Len(s.screens[m].cards)
             /\ \A j \in 1 .. Len(s.screens[m].cards) :
                  t.screens[m].cards[j] = IF m = n /\ j = i THEN c ELSE s.screens[m].cards[j]
  <2>1. CASE m = n  BY <1>2, <1>4, <1>5, <1>6, <2>1
  <2>2. CASE m # n
    <3>1. t.screens[m] = s.screens[m]  BY <1>5, <1>6, <2>2
    <3> QED  BY <2>2, <3>1
  <2> QED  BY <2>1, <2>2
<1> QED  BY <1>5, <1>6, <1>7 DEF Swapped

-----------------------------------------------------------------------------
(* What a state is like, entry by entry and screen by screen. *)

\* Find finds what it is to find.
Distinct(s) ==
  \A i, j \in 1 .. Len(s.entries) : s.entries[i].id = s.entries[j].id => i = j

\* The cards of screen n run parallel to the entries.
Line(s, n) ==
  /\ Len(s.screens[n].cards) = IF s.screens[n].scene THEN Len(s.entries) ELSE 0
  /\ \A i \in 1 .. Len(s.screens[n].cards) : s.screens[n].cards[i] # NoCard =>
       /\ s.screens[n].cards[i].id = s.entries[i].id
       /\ s.screens[n].cards[i].leave = "keep" =>
            s.entries[i].timeout = "never" \/ s.entries[i].updated

\* The dispatcher holds a card of the screen the pointer is on.
Points(s) ==
  /\ s.pointer = Outside => s.area = 0
  /\ s.pointer # Outside => s.pointer[1] \in 1 .. Len(s.screens)
  /\ s.area # 0 =>
       \E i \in 1 .. Len(s.entries) : s.entries[i].id = s.area /\ HasCard(s, s.pointer[1], i)

\* Entry i: it lasts as its notification does, its exit is driven, its expiry
\* time does not stand still, it is live, and screen n shows it.
Lasts(s, i) == s.entries[i].lasts # (s.entries[i].timeout = "never") => s.entries[i].updated
Driven(s, i) ==
  s.entries[i].exiting /\ ~s.entries[i].lost =>
    \/ <<"finish", s.entries[i].id>> \in s.calls
    \/ 1 \in 1 .. Len(s.screens) /\ HasCard(s, 1, i) /\ s.screens[1].cards[i].exit
Stopped(s, i) ==
  /\ Placed(s.entries[i]) /\ s.entries[i].timeout = "timed"
  /\ s.entries[i].id \in DOMAIN s.notes /\ ~s.notes[s.entries[i].id].counting
Held(s, i) == Stopped(s, i) => s.entries[i].hovered \/ s.entries[i].updated
Live(s, i) == ~s.entries[i].exiting => s.entries[i].id \in DOMAIN s.notes
Shows(s, n, i) ==
  s.screens[n].scene /\ ~s.entries[i].exiting => (HasCard(s, n, i) <=> Fits(s.entries[i], n))

\* What stays lies apart.
Apart(s) ==
  \A i \in 1 .. Len(s.entries) : Placed(s.entries[i]) =>
    /\ Rows(s.entries[i].y, s.entries[i].height) \subseteq 0 .. MaxRoom - 1
    /\ \A j \in 1 .. Len(s.entries) : j # i /\ Placed(s.entries[j]) =>
         Rows(s.entries[i].y, s.entries[i].height) \cap Rows(s.entries[j].y, s.entries[j].height) = {}

-----------------------------------------------------------------------------
(* States that are alike but for countdowns and hovering. *)

SameEntry(e, f) ==
  /\ f.id = e.id /\ f.timeout = e.timeout /\ f.height = e.height /\ f.y = e.y
  /\ f.lasts = e.lasts /\ f.exiting = e.exiting /\ f.updated = e.updated /\ f.lost = e.lost
SameCard(c, d) ==
  /\ d = NoCard <=> c = NoCard
  /\ d.id = c.id /\ d.leave = c.leave /\ d.exit = c.exit

\* Also but for the cards at x; 0 for no exception.
Like(s, t, x) ==
  /\ t \in State /\ DOMAIN t.notes = DOMAIN s.notes
  /\ s.calls \subseteq t.calls /\ t.pointer = s.pointer
  /\ Len(t.entries) = Len(s.entries) /\ Len(t.screens) = Len(s.screens)
  /\ \A i \in 1 .. Len(s.entries) : SameEntry(s.entries[i], t.entries[i])
  /\ \A n \in 1 .. Len(s.screens) :
       /\ t.screens[n].scene = s.screens[n].scene
       /\ Len(t.screens[n].cards) = Len(s.screens[n].cards)
       /\ \A j \in 1 .. Len(s.screens[n].cards) :
            j # x => SameCard(s.screens[n].cards[j], t.screens[n].cards[j])

\* And no popup that is held stops.
Hovers(s, t, x) ==
  /\ Like(s, t, x)
  /\ \A i \in 1 .. Len(s.entries) : Held(s, i) => Held(t, i)

LEMMA LikeSelf ==
  ASSUME NEW s \in State, NEW x
  PROVE  Like(s, s, x) /\ Hovers(s, s, x)
BY DEF Like, Hovers, SameEntry, SameCard

LEMMA LikeTrans ==
  ASSUME NEW s \in State, NEW t \in State, NEW u \in State, NEW x, Like(s, t, x), Like(t, u, x)
  PROVE  Like(s, u, x)
<1>1. /\ DOMAIN u.notes = DOMAIN s.notes /\ s.calls \subseteq u.calls /\ u.pointer = s.pointer
      /\ Len(u.entries) = Len(s.entries) /\ Len(u.screens) = Len(s.screens)
  BY DEF Like
<1>2. ASSUME NEW i \in 1 .. Len(s.entries) PROVE SameEntry(s.entries[i], u.entries[i])
  <2>1. SameEntry(s.entries[i], t.entries[i]) /\ SameEntry(t.entries[i], u.entries[i])  BY DEF Like
  <2> QED  BY <2>1 DEF SameEntry
<1>3. ASSUME NEW n \in 1 .. Len(s.screens)
      PROVE  /\ u.screens[n].scene = s.screens[n].scene
             /\ Len(u.screens[n].cards) = Len(s.screens[n].cards)
             /\ \A j \in 1 .. Len(s.screens[n].cards) :
                  j # x => SameCard(s.screens[n].cards[j], u.screens[n].cards[j])
  <2>1. /\ t.screens[n].scene = s.screens[n].scene /\ u.screens[n].scene = t.screens[n].scene
        /\ Len(t.screens[n].cards) = Len(s.screens[n].cards)
        /\ Len(u.screens[n].cards) = Len(t.screens[n].cards)
    BY DEF Like
  <2>2. ASSUME NEW j \in 1 .. Len(s.screens[n].cards), j # x
        PROVE  SameCard(s.screens[n].cards[j], u.screens[n].cards[j])
    <3>1. SameCard(s.screens[n].cards[j], t.screens[n].cards[j])  BY <2>2 DEF Like
    <3>2. n \in 1 .. Len(t.screens) /\ j \in 1 .. Len(t.screens[n].cards)  BY <2>1 DEF Like
    <3>3. SameCard(t.screens[n].cards[j], u.screens[n].cards[j])  BY <2>2, <3>2 DEF Like
    <3> QED  BY <3>1, <3>3, Zenon DEF SameCard
  <2> QED  BY <2>1, <2>2
<1> QED  BY <1>1, <1>2, <1>3, Zenon DEF Like

LEMMA HoversTrans ==
  ASSUME NEW s \in State, NEW t \in State, NEW u \in State, NEW x, Hovers(s, t, x), Hovers(t, u, x)
  PROVE  Hovers(s, u, x)
<1>1. Like(s, t, x) /\ Like(t, u, x) /\ Len(t.entries) = Len(s.entries)  BY DEF Hovers, Like
<1>2. Like(s, u, x)  BY <1>1, LikeTrans
<1> QED  BY <1>1, <1>2, Zenon DEF Hovers

LEMMA LikeFewer ==
  ASSUME NEW s, NEW t, NEW x
  PROVE  (Like(s, t, 0) => Like(s, t, x)) /\ (Hovers(s, t, 0) => Hovers(s, t, x))
<1>1. SUFFICES ASSUME Like(s, t, 0) PROVE Like(s, t, x)
  BY DEF Hovers
<1>2. ASSUME NEW n \in 1 .. Len(s.screens), NEW j \in 1 .. Len(s.screens[n].cards), j # x
      PROVE  SameCard(s.screens[n].cards[j], t.screens[n].cards[j])
  <2>1. j # 0  OBVIOUS
  <2> QED  BY <1>1, <2>1 DEF Like
<1> QED  BY <1>1, <1>2 DEF Like

LEMMA LikeCards ==
  ASSUME NEW s \in State, NEW t \in State, NEW x, Like(s, t, x), NEW n \in 1 .. Len(s.screens)
  PROVE  /\ n \in 1 .. Len(t.screens)
         /\ \A j : j # x => (HasCard(t, n, j) <=> HasCard(s, n, j))
         /\ \A j : j # x /\ HasCard(s, n, j) => SameCard(s.screens[n].cards[j], t.screens[n].cards[j])
<1>1. n \in 1 .. Len(t.screens) /\ Len(t.screens[n].cards) = Len(s.screens[n].cards)  BY DEF Like
<1>2. /\ DOMAIN s.screens[n].cards = 1 .. Len(s.screens[n].cards)
      /\ DOMAIN t.screens[n].cards = 1 .. Len(s.screens[n].cards)
  BY <1>1, ScreenFields
<1>3. ASSUME NEW j, j # x
      PROVE  /\ HasCard(t, n, j) <=> HasCard(s, n, j)
             /\ HasCard(s, n, j) => SameCard(s.screens[n].cards[j], t.screens[n].cards[j])
  <2>1. CASE j \in 1 .. Len(s.screens[n].cards)
    <3>1. SameCard(s.screens[n].cards[j], t.screens[n].cards[j])  BY <1>3, <2>1 DEF Like
    <3> QED  BY <1>2, <3>1, Zenon DEF HasCard, SameCard
  <2>2. CASE j \notin 1 .. Len(s.screens[n].cards)
    BY <1>2, <2>2, Zenon DEF HasCard
  <2> QED  BY <2>1, <2>2
<1> QED  BY <1>1, <1>3

LEMMA LikeEntries ==
  ASSUME NEW s \in State, NEW t \in State, NEW x, Like(s, t, x), NEW i \in 1 .. Len(s.entries)
  PROVE  /\ i \in 1 .. Len(t.entries) /\ SameEntry(s.entries[i], t.entries[i])
         /\ Placed(t.entries[i]) <=> Placed(s.entries[i])
         /\ \A n : Fits(t.entries[i], n) <=> Fits(s.entries[i], n)
         /\ Lasts(s, i) => Lasts(t, i)
         /\ Live(s, i) => Live(t, i)
<1>1. /\ i \in 1 .. Len(t.entries) /\ SameEntry(s.entries[i], t.entries[i])
      /\ DOMAIN t.notes = DOMAIN s.notes
  BY DEF Like
<1>2. Placed(t.entries[i]) <=> Placed(s.entries[i])  BY <1>1, Zenon DEF SameEntry, Placed
<1>3. \A n : Fits(t.entries[i], n) <=> Fits(s.entries[i], n)
  BY <1>1, <1>2, Zenon DEF SameEntry, Fits
<1> HIDE DEF Placed, Fits
<1> QED  BY <1>1, <1>2, <1>3, Zenon DEF SameEntry, Lasts, Live

LEMMA LikeWhole ==
  ASSUME NEW s \in State, NEW t \in State, NEW x, Like(s, t, x)
  PROVE  /\ Distinct(s) => Distinct(t)
         /\ Apart(s) => Apart(t)
<1>1. Len(t.entries) = Len(s.entries)  BY DEF Like
<1>2. \A i \in 1 .. Len(s.entries) :
        /\ t.entries[i].id = s.entries[i].id /\ t.entries[i].y = s.entries[i].y
        /\ t.entries[i].height = s.entries[i].height
        /\ Placed(t.entries[i]) <=> Placed(s.entries[i])
  BY LikeEntries DEF SameEntry
<1>3. Distinct(s) => Distinct(t)  BY <1>1, <1>2 DEF Distinct
<1>4. ASSUME Apart(s) PROVE Apart(t)
  <2> SUFFICES ASSUME NEW i \in 1 .. Len(s.entries), Placed(t.entries[i])
      PROVE  /\ Rows(t.entries[i].y, t.entries[i].height) \subseteq 0 .. MaxRoom - 1
             /\ \A j \in 1 .. Len(s.entries) : j # i /\ Placed(t.entries[j]) =>
                  Rows(t.entries[i].y, t.entries[i].height)
                    \cap Rows(t.entries[j].y, t.entries[j].height) = {}
    BY <1>1 DEF Apart
  <2>1. Placed(s.entries[i])  BY <1>2
  <2>2. /\ Rows(s.entries[i].y, s.entries[i].height) \subseteq 0 .. MaxRoom - 1
        /\ \A j \in 1 .. Len(s.entries) : j # i /\ Placed(s.entries[j]) =>
             Rows(s.entries[i].y, s.entries[i].height)
               \cap Rows(s.entries[j].y, s.entries[j].height) = {}
    BY <1>4, <2>1 DEF Apart
  <2> QED  BY <1>2, <2>2, Zenon
<1> QED  BY <1>3, <1>4

LEMMA LikeDriven ==
  ASSUME NEW s \in State, NEW t \in State, NEW x, Like(s, t, x),
         NEW i \in 1 .. Len(s.entries), i # x
  PROVE  /\ Driven(s, i) => Driven(t, i)
         /\ \A n \in 1 .. Len(s.screens) : Shows(s, n, i) => Shows(t, n, i)
<1>1. SameEntry(s.entries[i], t.entries[i])  BY LikeEntries
<1>2. s.calls \subseteq t.calls /\ Len(t.screens) = Len(s.screens)  BY DEF Like
<1>3. ASSUME NEW n \in 1 .. Len(s.screens), HasCard(s, n, i), s.screens[n].cards[i].exit
      PROVE  HasCard(t, n, i) /\ t.screens[n].cards[i].exit
  <2>1. HasCard(t, n, i) /\ SameCard(s.screens[n].cards[i], t.screens[n].cards[i])
    BY <1>3, LikeCards
  <2>2. t.screens[n].cards[i].exit = s.screens[n].cards[i].exit  BY <2>1 DEF SameCard
  <2> QED  BY <1>3, <2>1, <2>2
<1>4. Driven(s, i) => Driven(t, i)
  BY <1>1, <1>2, <1>3, Zenon DEF Driven, SameEntry
<1>5. ASSUME NEW n \in 1 .. Len(s.screens), Shows(s, n, i) PROVE Shows(t, n, i)
  <2>1. t.screens[n].scene = s.screens[n].scene  BY DEF Like
  <2>2. HasCard(t, n, i) <=> HasCard(s, n, i)  BY LikeCards
  <2>3. Fits(t.entries[i], n) <=> Fits(s.entries[i], n)  BY LikeEntries
  <2> QED  BY <1>1, <1>5, <2>1, <2>2, <2>3, Zenon DEF SameEntry, Shows
<1> QED  BY <1>4, <1>5

\* The cards at x, if any, are checked by themselves.
LEMMA LikeLine ==
  ASSUME NEW s \in State, NEW t \in State, NEW x, Like(s, t, x),
         NEW n \in 1 .. Len(s.screens), Line(s, n),
         HasCard(t, n, x) =>
           /\ t.screens[n].cards[x].id = t.entries[x].id
           /\ t.screens[n].cards[x].leave = "keep" =>
                t.entries[x].timeout = "never" \/ t.entries[x].updated
  PROVE  Line(t, n)
<1>1. /\ t.screens[n].scene = s.screens[n].scene /\ Len(t.entries) = Len(s.entries)
      /\ Len(t.screens[n].cards) = Len(s.screens[n].cards)
  BY DEF Like
<1>2. Len(t.screens[n].cards) = IF t.screens[n].scene THEN Len(t.entries) ELSE 0
  BY <1>1 DEF Line
<1>3. ASSUME NEW i \in 1 .. Len(t.screens[n].cards), t.screens[n].cards[i] # NoCard
      PROVE  /\ t.screens[n].cards[i].id = t.entries[i].id
             /\ t.screens[n].cards[i].leave = "keep" =>
                  t.entries[i].timeout = "never" \/ t.entries[i].updated
  <2>1. i \in DOMAIN t.screens[n].cards  BY LikeCards, ScreenFields
  <2>2. HasCard(t, n, i)  BY <1>3, <2>1 DEF HasCard
  <2>3. CASE i = x  BY <2>2, <2>3
  <2>4. CASE i # x
    <3>1. HasCard(s, n, i)  BY <2>2, <2>4, LikeCards
    <3>2. SameCard(s.screens[n].cards[i], t.screens[n].cards[i])  BY <2>4, <3>1, LikeCards
    <3>3. i \in 1 .. Len(s.screens[n].cards) /\ s.screens[n].cards[i] # NoCard
      BY <3>1, <1>1 DEF HasCard
    <3>4. i \in 1 .. Len(s.entries)  BY <1>1, <3>3, StateFields DEF Line
    <3>5. SameEntry(s.entries[i], t.entries[i])  BY <3>4, LikeEntries
    <3>6. /\ s.screens[n].cards[i].id = s.entries[i].id
          /\ s.screens[n].cards[i].leave = "keep" =>
               s.entries[i].timeout = "never" \/ s.entries[i].updated
      BY <3>3 DEF Line
    <3> QED  BY <3>2, <3>5, <3>6, Zenon DEF SameCard, SameEntry
  <2> QED  BY <2>3, <2>4
<1> QED  BY <1>2, <1>3 DEF Line

LEMMA AlikeLine ==
  ASSUME NEW s \in State, NEW t \in State, Like(s, t, 0), NEW n \in 1 .. Len(s.screens), Line(s, n)
  PROVE  Line(t, n)
<1>1. n \in 1 .. Len(t.screens)  BY LikeCards
<1>2. DOMAIN t.screens[n].cards = 1 .. Len(t.screens[n].cards)  BY <1>1, ScreenFields
<1>3. ~HasCard(t, n, 0)  BY <1>2 DEF HasCard
<1> QED  BY <1>3, LikeLine

-----------------------------------------------------------------------------
(* Expiry times and countdowns. *)

\* t is s but for the expiry time of id.
Counts(s, t, id, counting) ==
  /\ Like(s, t, 0) /\ t.entries = s.entries /\ t.screens = s.screens /\ t.area = s.area
  /\ t.calls = s.calls
  /\ \A j \in DOMAIN s.notes : j # id => t.notes[j] = s.notes[j]
  /\ id \in DOMAIN s.notes => t.notes[id].counting = counting

LEMMA ExpirySet ==
  ASSUME NEW s \in State, NEW id, NEW counting \in BOOLEAN, NEW t, t = SetExpiry(s, id, counting)
  PROVE  Counts(s, t, id, counting)
<1>1. CASE id \notin DOMAIN s.notes
  <2>1. t = s  BY <1>1 DEF SetExpiry
  <2> QED  BY <1>1, <2>1, LikeSelf DEF Counts
<1>2. CASE id \in DOMAIN s.notes
  <2> DEFINE new == [s.notes EXCEPT ![id].counting = counting]
  <2>1. PICK D \in SUBSET Ids : s.notes \in [D -> Note]  BY StateFields, Zenon DEF Notes
  <2>2. DOMAIN s.notes = D /\ s.notes[id] \in Note  BY <1>2, <2>1
  <2>3. [s.notes[id] EXCEPT !.counting = counting] \in Note  BY <2>2 DEF Note
  <2>4. /\ new \in [D -> Note]
        /\ \A j \in D : new[j] = IF j = id THEN [s.notes[id] EXCEPT !.counting = counting] ELSE s.notes[j]
    BY <2>1, <2>3
  <2>5. [s.notes[id] EXCEPT !.counting = counting].counting = counting  BY <2>2 DEF Note
  <2>6. t = [s EXCEPT !.notes = new]  BY <1>2 DEF SetExpiry
  <2> HIDE DEF new
  <2>7. new \in Notes  BY <2>4 DEF Notes
  <2>8. t \in State  BY <2>6, <2>7 DEF State
  <2>9. /\ t.notes = new /\ t.entries = s.entries /\ t.screens = s.screens /\ t.area = s.area
        /\ t.pointer = s.pointer /\ t.calls = s.calls
    BY <2>6 DEF State
  <2>10. DOMAIN t.notes = DOMAIN s.notes  BY <2>2, <2>4, <2>9
  <2>11. Like(s, t, 0)  BY <2>8, <2>9, <2>10, Zenon DEF Like, SameEntry, SameCard
  <2>12. new[id] = [s.notes[id] EXCEPT !.counting = counting]  BY <1>2, <2>2, <2>4
  <2>13. \A j \in DOMAIN s.notes : j # id => t.notes[j] = s.notes[j]  BY <2>2, <2>4, <2>9
  <2>14. t.notes[id].counting = counting  BY <2>5, <2>9, <2>12, Zenon
  <2> QED  BY <2>9, <2>11, <2>13, <2>14 DEF Counts
<1> QED  BY <1>1, <1>2

\* Alike, with the same popups hovered and the same expiry times stopped.
Marks(s, t) ==
  /\ Like(s, t, 0) /\ t.notes = s.notes /\ t.area = s.area
  /\ \A i \in 1 .. Len(s.entries) : t.entries[i].hovered = s.entries[i].hovered

LEMMA MarksTrans ==
  ASSUME NEW s \in State, NEW t \in State, NEW u \in State, Marks(s, t), Marks(t, u)
  PROVE  Marks(s, u)
<1>1. Like(s, t, 0) /\ Like(t, u, 0)  BY DEF Marks
<1>2. Like(s, u, 0)  BY <1>1, LikeTrans
<1>3. Len(t.entries) = Len(s.entries)  BY <1>1 DEF Like
<1> QED  BY <1>2, <1>3 DEF Marks

LEMMA CardLike ==
  ASSUME NEW s \in State, NEW n \in 1 .. Len(s.screens), NEW i \in 1 .. Len(s.screens[n].cards),
         NEW c \in Cards, NEW t, t = SetCard(s, n, i, c)
  PROVE  /\ Like(s, t, i) /\ t.notes = s.notes /\ t.entries = s.entries /\ t.area = s.area
         /\ t.calls = s.calls
         /\ SameCard(s.screens[n].cards[i], c) => Marks(s, t)
<1>1. /\ t \in State /\ t.notes = s.notes /\ t.entries = s.entries /\ t.pointer = s.pointer
      /\ t.area = s.area /\ t.calls = s.calls /\ Len(t.screens) = Len(s.screens)
  BY ZenonT(60), CardSet
<1>2. \A m \in 1 .. Len(s.screens) :
        /\ t.screens[m].scene = s.screens[m].scene
        /\ Len(t.screens[m].cards) = Len(s.screens[m].cards)
        /\ \A j \in 1 .. Len(s.screens[m].cards) :
             t.screens[m].cards[j] = IF m = n /\ j = i THEN c ELSE s.screens[m].cards[j]
  <2>1. Swapped(s, t, n, i, c)  BY CardSet
  <2> QED  BY <2>1 DEF Swapped
<1>3. Like(s, t, i)  BY <1>1, <1>2 DEF Like, SameEntry, SameCard
<1>4. ASSUME SameCard(s.screens[n].cards[i], c) PROVE Marks(s, t)
  <2>1. ASSUME NEW m \in 1 .. Len(s.screens), NEW j \in 1 .. Len(s.screens[m].cards)
        PROVE  SameCard(s.screens[m].cards[j], t.screens[m].cards[j])
    <3>1. CASE m = n /\ j = i  BY <1>2, <1>4, <3>1
    <3>2. CASE ~(m = n /\ j = i)
      <4>1. t.screens[m].cards[j] = s.screens[m].cards[j]  BY <1>2, <3>2
      <4> QED  BY <4>1 DEF SameCard
    <3> QED  BY <3>1, <3>2
  <2>2. Like(s, t, 0)  BY <1>1, <1>2, <2>1, Zenon DEF Like, SameEntry
  <2> QED  BY <1>1, <2>2, Zenon DEF Marks
<1> QED  BY <1>1, <1>3, <1>4

LEMMA EntryLike ==
  ASSUME NEW s \in State, NEW i \in 1 .. Len(s.entries), NEW e \in Entry, SameEntry(s.entries[i], e),
         NEW t, t = SetEntry(s, i, e)
  PROVE  /\ Like(s, t, 0) /\ t.notes = s.notes /\ t.area = s.area
         /\ t.entries[i] = e
         /\ \A j \in 1 .. Len(s.entries) : j # i => t.entries[j] = s.entries[j]
<1>1. /\ t \in State /\ t.notes = s.notes /\ t.screens = s.screens /\ t.pointer = s.pointer
      /\ t.area = s.area /\ t.calls = s.calls /\ Len(t.entries) = Len(s.entries)
      /\ \A j \in 1 .. Len(s.entries) : t.entries[j] = IF j = i THEN e ELSE s.entries[j]
  BY EntrySet
<1>2. ASSUME NEW j \in 1 .. Len(s.entries) PROVE SameEntry(s.entries[j], t.entries[j])
  <2>1. CASE j = i  BY <1>1, <2>1
  <2>2. CASE j # i
    <3>1. t.entries[j] = s.entries[j]  BY <1>1, <2>2
    <3> QED  BY <3>1 DEF SameEntry
  <2> QED  BY <2>1, <2>2
<1>3. Like(s, t, 0)  BY <1>1, <1>2, Zenon DEF Like, SameCard
<1> QED  BY <1>1, <1>3

LEMMA MarksSelf ==
  ASSUME NEW s \in State
  PROVE  Marks(s, s)
BY LikeSelf DEF Marks

LEMMA HasCardFields ==
  ASSUME NEW s \in State, NEW n \in 1 .. Len(s.screens), NEW i, HasCard(s, n, i)
  PROVE  /\ i \in 1 .. Len(s.screens[n].cards) /\ s.screens[n].cards[i] \in Card
         /\ s.screens[n].cards[i] # NoCard
BY ScreenFields, CardFields DEF HasCard

LEMMA PauseOnMarks ==
  ASSUME NEW s \in State, NEW n \in 1 .. Len(s.screens), NEW i \in 1 .. Len(s.entries)
  PROVE  Marks(s, PauseOn(s, n, i))
<1>1. CASE ~HasCard(s, n, i)
  <2>1. PauseOn(s, n, i) = s  BY <1>1 DEF PauseOn
  <2> QED  BY <2>1, MarksSelf
<1>2. CASE HasCard(s, n, i)
  <2> DEFINE card == s.screens[n].cards[i]
             e == [s.entries[i] EXCEPT !.left = card.left]
             off == [card EXCEPT !.countdown = "off"]
             read == SetEntry(s, i, e)
             t == SetCard(read, n, i, off)
  <2>1. card \in Card /\ i \in 1 .. Len(s.screens[n].cards)  BY <1>2, HasCardFields
  <2>2. off \in Card /\ SameCard(card, off) /\ card.left \in BOOLEAN
    <3>1. off \in Card /\ off.id = card.id /\ off.leave = card.leave /\ off.exit = card.exit
      BY <2>1 DEF Card
    <3> QED  BY <2>1, <3>1, CardFields DEF SameCard
  <2>3. s.entries[i] \in Entry  BY StateFields
  <2>4. e \in Entry /\ SameEntry(s.entries[i], e) /\ e.hovered = s.entries[i].hovered
    BY <2>2, <2>3 DEF Entry, SameEntry
  <2>5. PauseOn(s, n, i) = t  BY <1>2 DEF PauseOn
  <2> HIDE DEF e, off
  <2>6. /\ Like(s, read, 0) /\ read.notes = s.notes /\ read.area = s.area /\ read.entries[i] = e
        /\ \A j \in 1 .. Len(s.entries) : j # i => read.entries[j] = s.entries[j]
    BY <2>4, EntryLike
  <2>7. read.screens = s.screens  BY <2>4, EntrySet
  <2>8. \A j \in 1 .. Len(s.entries) : read.entries[j].hovered = s.entries[j].hovered
    BY <2>4, <2>6
  <2>9. read \in State /\ Marks(s, read)  BY <2>6, <2>8 DEF Marks, Like
  <2> HIDE DEF read
  <2>10. /\ n \in 1 .. Len(read.screens) /\ i \in 1 .. Len(read.screens[n].cards)
         /\ SameCard(read.screens[n].cards[i], off) /\ off \in Cards
    BY <2>1, <2>2, <2>7, CardFields
  <2>11. Marks(read, t)  BY <2>9, <2>10, CardLike
  <2>12. t \in State  BY <2>11 DEF Marks, Like
  <2> QED  BY <2>5, <2>9, <2>11, <2>12, MarksTrans
<1> QED  BY <1>1, <1>2

LEMMA ResumeOnMarks ==
  ASSUME NEW s \in State, NEW n \in 1 .. Len(s.screens), NEW i \in 1 .. Len(s.entries)
  PROVE  Marks(s, ResumeOn(s, n, i))
<1>1. CASE ~HasCard(s, n, i)
  <2>1. ResumeOn(s, n, i) = s  BY <1>1 DEF ResumeOn
  <2> QED  BY <2>1, MarksSelf
<1>2. CASE HasCard(s, n, i)
  <2> DEFINE card == s.screens[n].cards[i]
             on == [card EXCEPT !.countdown = "driven", !.left = TRUE]
  <2>1. card \in Card /\ i \in 1 .. Len(s.screens[n].cards)  BY <1>2, HasCardFields
  <2>2. on \in Card /\ SameCard(card, on)
    <3>1. on \in Card /\ on.id = card.id /\ on.leave = card.leave /\ on.exit = card.exit
      BY <2>1 DEF Card
    <3> QED  BY <2>1, <3>1, CardFields DEF SameCard
  <2>3. ResumeOn(s, n, i) = SetCard(s, n, i, on)  BY <1>2 DEF ResumeOn
  <2>4. on \in Cards  BY <2>2, CardFields
  <2> HIDE DEF on
  <2> QED  BY <2>1, <2>2, <2>3, <2>4, CardLike
<1> QED  BY <1>1, <1>2

LEMMA PauseMarks ==
  ASSUME NEW s \in State, NEW i \in 1 .. Len(s.entries)
  PROVE  Marks(s, PauseCountdowns(s, i))
<1> DEFINE n == Len(s.screens)
           R(g) == g = [k \in 0 .. n |-> IF k = 0 THEN s ELSE PauseOn(g[k - 1], k, i)]
           after == CHOOSE g : R(g)
           F == [x \in State \X (1 .. n) |-> PauseOn(x[1], x[2], i)]
           Stage == {t \in State : Marks(s, t)}
           P == [k \in 0 .. n |-> Stage]
<1>1. n \in Nat /\ P \in [0 .. n -> SUBSET State] /\ s \in P[0]  BY StateFields, MarksSelf
<1>2. ASSUME NEW t \in State, NEW k \in 1 .. n PROVE F[<<t, k>>] = PauseOn(t, k, i)
  <2>1. <<t, k>> \in State \X (1 .. n)  OBVIOUS
  <2> QED  BY <2>1
<1>3. Leads(F, P, n)
  <2> SUFFICES ASSUME NEW k \in 1 .. n, NEW t \in Stage PROVE PauseOn(t, k, i) \in Stage
    BY <1>2 DEF Leads
  <2>1. k \in 1 .. Len(t.screens) /\ i \in 1 .. Len(t.entries)  BY DEF Marks, Like
  <2>2. Marks(t, PauseOn(t, k, i))  BY <2>1, PauseOnMarks
  <2>3. PauseOn(t, k, i) \in State  BY <2>2 DEF Marks, Like
  <2> QED  BY <2>2, <2>3, MarksTrans
<1> HIDE DEF F, P
<1>4. PICK h \in [0 .. n -> State] : Runs(h, F, s, n)  BY <1>1, <1>3, Steps
<1> HIDE DEF n
<1>5. R(h)
  <2>1. ASSUME NEW k \in 1 .. n PROVE h[k] = PauseOn(h[k - 1], k, i)
    <3>1. k - 1 \in 0 .. n  BY <1>1
    <3>2. h[k - 1] \in State /\ h[k] = F[<<h[k - 1], k>>]  BY <1>4, <3>1 DEF Runs
    <3> QED  BY <1>2, <3>2
  <2>2. h[0] = s /\ \A k \in 0 .. n : k = 0 \/ k \in 1 .. n  BY <1>1, <1>4 DEF Runs
  <2>3. \A k \in 0 .. n : h[k] = IF k = 0 THEN s ELSE PauseOn(h[k - 1], k, i)  BY <2>1, <2>2
  <2> QED  BY <2>3
<1>6. R(after)  BY <1>5, Zenon
<1>7. PauseCountdowns(s, i) = after[n]  BY DEF PauseCountdowns, Each, n
<1> HIDE DEF after
<1>8. RunsIn(after, State, F, s, n)
  <2>1. after[0] = s  BY <1>1, <1>6
  <2>2. ASSUME NEW k \in 1 .. n, after[k - 1] \in State PROVE after[k] = F[<<after[k - 1], k>>]
    <3>1. k \in 0 .. n /\ k # 0  BY <1>1
    <3>2. after[k] = PauseOn(after[k - 1], k, i)  BY <1>6, <3>1
    <3> QED  BY <1>2, <2>2, <3>2
  <2> QED  BY <2>1, <2>2 DEF RunsIn
<1>9. after[n] \in P[n]  BY <1>1, <1>3, <1>8, Steps
<1> QED  BY <1>1, <1>7, <1>9 DEF P

LEMMA ResumeMarks ==
  ASSUME NEW s \in State, NEW i \in 1 .. Len(s.entries)
  PROVE  Marks(s, ResumeCountdowns(s, i))
<1> DEFINE idle == s.entries[i].lasts \/ s.entries[i].hovered \/ ~s.entries[i].left
<1>i. CASE idle
  <2>1. ResumeCountdowns(s, i) = s  BY <1>i DEF ResumeCountdowns
  <2> QED  BY <2>1, MarksSelf
<1>r. SUFFICES ASSUME ~idle PROVE Marks(s, ResumeCountdowns(s, i))
  BY <1>i
<1> DEFINE n == Len(s.screens)
           R(g) == g = [k \in 0 .. n |-> IF k = 0 THEN s ELSE ResumeOn(g[k - 1], k, i)]
           after == CHOOSE g : R(g)
           F == [x \in State \X (1 .. n) |-> ResumeOn(x[1], x[2], i)]
           Stage(k) == {t \in State : Marks(s, t)}
           P == [k \in 0 .. n |-> Stage(k)]
<1>1. n \in Nat /\ P \in [0 .. n -> SUBSET State] /\ s \in P[0]  BY StateFields, MarksSelf
<1>2. ASSUME NEW t \in State, NEW k \in 1 .. n PROVE F[<<t, k>>] = ResumeOn(t, k, i)
  <2>1. <<t, k>> \in State \X (1 .. n)  OBVIOUS
  <2> QED  BY <2>1
<1>3. Leads(F, P, n)
  <2> SUFFICES ASSUME NEW k \in 1 .. n, NEW t \in Stage(k - 1) PROVE ResumeOn(t, k, i) \in Stage(k)
    BY <1>2 DEF Leads
  <2>1. k \in 1 .. Len(t.screens) /\ i \in 1 .. Len(t.entries)  BY DEF Marks, Like
  <2>2. Marks(t, ResumeOn(t, k, i))  BY <2>1, ResumeOnMarks
  <2>3. ResumeOn(t, k, i) \in State  BY <2>2 DEF Marks, Like
  <2> QED  BY <2>2, <2>3, MarksTrans
<1> HIDE DEF F, P
<1>4. PICK h \in [0 .. n -> State] : Runs(h, F, s, n)  BY <1>1, <1>3, Steps
<1> HIDE DEF n
<1>5. R(h)
  <2>1. ASSUME NEW k \in 1 .. n PROVE h[k] = ResumeOn(h[k - 1], k, i)
    <3>1. k - 1 \in 0 .. n  BY <1>1
    <3>2. h[k - 1] \in State /\ h[k] = F[<<h[k - 1], k>>]  BY <1>4, <3>1 DEF Runs
    <3> QED  BY <1>2, <3>2
  <2>2. h[0] = s /\ \A k \in 0 .. n : k = 0 \/ k \in 1 .. n  BY <1>1, <1>4 DEF Runs
  <2>3. \A k \in 0 .. n : h[k] = IF k = 0 THEN s ELSE ResumeOn(h[k - 1], k, i)  BY <2>1, <2>2
  <2> QED  BY <2>3
<1>6. R(after)  BY <1>5, Zenon
<1>7. ResumeCountdowns(s, i) = after[n]  BY <1>r DEF ResumeCountdowns, Each, n
<1> HIDE DEF after
<1>8. RunsIn(after, State, F, s, n)
  <2>1. after[0] = s  BY <1>1, <1>6
  <2>2. ASSUME NEW k \in 1 .. n, after[k - 1] \in State PROVE after[k] = F[<<after[k - 1], k>>]
    <3>1. k \in 0 .. n /\ k # 0  BY <1>1
    <3>2. after[k] = ResumeOn(after[k - 1], k, i)  BY <1>6, <3>1
    <3> QED  BY <1>2, <2>2, <3>2
  <2> QED  BY <2>1, <2>2 DEF RunsIn
<1>9. after[n] \in P[n]  BY <1>1, <1>3, <1>8, Steps
<1>10. after[n] \in Stage(n)  BY <1>1, <1>9 DEF P
<1> QED  BY <1>7, <1>10

-----------------------------------------------------------------------------
(* The pointer enters and leaves cards. *)

LEMMA AreaSet ==
  ASSUME NEW s \in State, NEW area \in Ids \cup {0}, NEW t, t = [s EXCEPT !.area = area]
  PROVE  /\ t \in State /\ Like(s, t, 0) /\ t.notes = s.notes /\ t.entries = s.entries
         /\ t.screens = s.screens /\ t.area = area /\ t.calls = s.calls
<1>1. /\ t \in State /\ t.notes = s.notes /\ t.entries = s.entries /\ t.screens = s.screens
      /\ t.pointer = s.pointer /\ t.area = area /\ t.calls = s.calls
  BY DEF State
<1> QED  BY <1>1, Zenon DEF Like, SameEntry, SameCard

LEMMA HeldAlike ==
  ASSUME NEW s \in State, NEW t \in State, NEW x, Like(s, t, x), NEW i \in 1 .. Len(s.entries),
         t.entries[i].hovered = s.entries[i].hovered,
         s.entries[i].id \in DOMAIN s.notes => t.notes[s.entries[i].id] = s.notes[s.entries[i].id],
         Held(s, i)
  PROVE  Held(t, i)
<1>1. /\ SameEntry(s.entries[i], t.entries[i]) /\ DOMAIN t.notes = DOMAIN s.notes
      /\ Placed(t.entries[i]) <=> Placed(s.entries[i])
  <2>1. DOMAIN t.notes = DOMAIN s.notes  BY DEF Like
  <2> QED  BY <2>1, LikeEntries
<1>2. /\ t.entries[i].id = s.entries[i].id /\ t.entries[i].timeout = s.entries[i].timeout
      /\ t.entries[i].updated = s.entries[i].updated
  BY <1>1 DEF SameEntry
<1>3. Stopped(t, i) => Stopped(s, i)  BY <1>1, <1>2, Zenon DEF Stopped
<1> QED  BY <1>2, <1>3 DEF Held

LEMMA EnterHovers ==
  ASSUME NEW s \in State, Distinct(s), NEW n \in 1 .. Len(s.screens), NEW i \in 1 .. Len(s.entries),
         HasCard(s, n, i), s.screens[n].cards[i].id = s.entries[i].id,
         NEW t, t = Enter(s, n, i)
  PROVE  t \in State /\ Hovers(s, t, 0) /\ t.area = s.entries[i].id
<1> DEFINE card == s.screens[n].cards[i]
           over == [s EXCEPT !.area = card.id]
           e == [s.entries[i] EXCEPT !.hovered = TRUE, !.left = card.left]
           held == SetEntry(over, i, e)
           paused == PauseCountdowns(held, i)
<1>1. card \in Card /\ card.left \in BOOLEAN /\ card.id \in Ids  BY HasCardFields, CardFields
<1>2. s.entries[i] \in Entry  BY StateFields
<1>3. e \in Entry /\ SameEntry(s.entries[i], e) /\ e.hovered = TRUE
  BY <1>1, <1>2 DEF Entry, SameEntry
<1>4. t = IF card.leave = "none" THEN over ELSE SetExpiry(paused, card.id, FALSE)
  BY DEF Enter
<1>5. card.id = s.entries[i].id  OBVIOUS
<1> HIDE DEF e, card
<1>6. /\ over \in State /\ Like(s, over, 0) /\ over.notes = s.notes /\ over.entries = s.entries
      /\ over.area = card.id
  BY <1>1, AreaSet
<1> HIDE DEF over
<1>7. CASE card.leave = "none"
  <2>1. \A j \in 1 .. Len(s.entries) : Held(s, j) => Held(over, j)
    BY <1>6, HeldAlike
  <2> QED  BY <1>4, <1>5, <1>6, <1>7, <2>1 DEF Hovers
<1>8. CASE card.leave # "none"
  <2>1. i \in 1 .. Len(over.entries) /\ SameEntry(over.entries[i], e)  BY <1>3, <1>6
  <2>2. /\ Like(over, held, 0) /\ held.notes = over.notes /\ held.area = over.area
        /\ held.entries[i] = e
        /\ \A j \in 1 .. Len(over.entries) : j # i => held.entries[j] = over.entries[j]
    BY <1>3, <1>6, <2>1, EntryLike
  <2> HIDE DEF held
  <2>3. held \in State /\ Len(held.entries) = Len(s.entries)  BY <1>6, <2>2 DEF Like
  <2>4. Marks(held, paused)  BY <2>3, PauseMarks
  <2> HIDE DEF paused
  <2>5. paused \in State  BY <2>4 DEF Marks, Like
  <2>6. /\ Like(paused, t, 0) /\ t.entries = paused.entries /\ t.area = paused.area
        /\ \A j \in DOMAIN paused.notes : j # card.id => t.notes[j] = paused.notes[j]
    <3>1. t = SetExpiry(paused, card.id, FALSE) /\ FALSE \in BOOLEAN  BY <1>4, <1>8
    <3>2. Counts(paused, t, card.id, FALSE)  BY <2>5, <3>1, ExpirySet
    <3> QED  BY <3>2 DEF Counts
  <2>7. t \in State /\ paused.notes = held.notes /\ Like(held, paused, 0) /\ paused.area = held.area
    BY <2>4, <2>6 DEF Marks, Like
  <2>8. Like(s, t, 0)
    <3>1. Like(s, held, 0)  BY <1>6, <2>2, <2>3, LikeTrans
    <3>2. Like(s, paused, 0)  BY <2>3, <2>5, <2>7, <3>1, LikeTrans
    <3> QED  BY <2>5, <2>6, <2>7, <3>2, LikeTrans
  <2>9. t.area = s.entries[i].id  BY <1>5, <1>6, <2>2, <2>6, <2>7
  <2>10. ASSUME NEW j \in 1 .. Len(s.entries), Held(s, j) PROVE Held(t, j)
    <3>1. t.entries[j].hovered = held.entries[j].hovered  BY <2>3, <2>4, <2>6 DEF Marks
    <3>2. CASE j = i
      <4>1. t.entries[j].hovered = TRUE  BY <1>3, <2>2, <3>1, <3>2
      <4> QED  BY <4>1 DEF Held
    <3>3. CASE j # i
      <4>1. s.entries[j].id # card.id  BY <1>5, <3>3 DEF Distinct
      <4>2. s.entries[j].id \in DOMAIN s.notes => t.notes[s.entries[j].id] = s.notes[s.entries[j].id]
        BY <1>6, <2>2, <2>6, <2>7, <4>1
      <4>3. t.entries[j].hovered = s.entries[j].hovered  BY <1>6, <2>2, <3>1, <3>3
      <4> QED  BY <2>7, <2>8, <2>10, <4>2, <4>3, HeldAlike
    <3> QED  BY <3>2, <3>3
  <2> QED  BY <2>7, <2>8, <2>9, <2>10 DEF Hovers
<1> QED  BY <1>7, <1>8

LEMMA LeftHovers ==
  ASSUME NEW s \in State, Distinct(s), NEW n \in 1 .. Len(s.screens), NEW i \in 1 .. Len(s.entries),
         HasCard(s, n, i), Line(s, n), NEW t, t = Left(s, n, i)
  PROVE  t \in State /\ Hovers(s, t, 0) /\ t.area = 0
<1> DEFINE card == s.screens[n].cards[i]
           off == [s EXCEPT !.area = 0]
           e == [s.entries[i] EXCEPT !.hovered = FALSE, !.left = card.left]
           freed == SetEntry(off, i, e)
           again == SetExpiry(freed, card.id, TRUE)
           resumed == ResumeCountdowns(again, i)
<1>1. /\ card \in Card /\ card.left \in BOOLEAN /\ card.id = s.entries[i].id
      /\ card.leave = "keep" => s.entries[i].timeout = "never" \/ s.entries[i].updated
  BY HasCardFields, CardFields DEF Line
<1>2. s.entries[i] \in Entry  BY StateFields
<1>3. e \in Entry /\ SameEntry(s.entries[i], e)  BY <1>1, <1>2 DEF Entry, SameEntry
<1>4. t = IF card.leave = "none" THEN off
          ELSE IF card.leave = "keep" THEN freed
          ELSE IF card.left THEN resumed ELSE again
  BY DEF Left
<1> HIDE DEF e, card
<1>5. 0 \in Ids \cup {0}  OBVIOUS
<1>6. /\ off \in State /\ Like(s, off, 0) /\ off.notes = s.notes /\ off.entries = s.entries
      /\ off.area = 0
  BY <1>5, AreaSet
<1> HIDE DEF off
<1>7. i \in 1 .. Len(off.entries) /\ SameEntry(off.entries[i], e)  BY <1>3, <1>6
<1>8. /\ Like(off, freed, 0) /\ freed.notes = off.notes /\ freed.area = off.area
      /\ \A j \in 1 .. Len(off.entries) : j # i => freed.entries[j] = off.entries[j]
  BY <1>3, <1>6, <1>7, EntryLike
<1> HIDE DEF freed
<1>9. freed \in State /\ Len(freed.entries) = Len(s.entries)  BY <1>6, <1>8 DEF Like
<1>10. Like(s, freed, 0)  BY <1>6, <1>8, <1>9, LikeTrans
\* The other popups are as they were.
<1>11. ASSUME NEW u \in State, Like(s, u, 0), NEW j \in 1 .. Len(s.entries), j # i, Held(s, j),
              u.entries[j].hovered = freed.entries[j].hovered,
              \A id \in DOMAIN s.notes : id # card.id => u.notes[id] = freed.notes[id]
       PROVE  Held(u, j)
  <2>1. s.entries[j].id # card.id  BY <1>1, <1>11 DEF Distinct
  <2>2. u.entries[j].hovered = s.entries[j].hovered  BY <1>6, <1>8, <1>11
  <2>3. s.entries[j].id \in DOMAIN s.notes => u.notes[s.entries[j].id] = s.notes[s.entries[j].id]
    BY <1>6, <1>8, <1>11, <2>1
  <2> QED  BY <1>11, <2>2, <2>3, HeldAlike
<1>12. CASE card.leave = "none"
  <2>1. \A j \in 1 .. Len(s.entries) : Held(s, j) => Held(off, j)  BY <1>6, HeldAlike
  <2> QED  BY <1>4, <1>6, <1>12, <2>1 DEF Hovers
<1>13. CASE card.leave = "keep"
  <2>1. SameEntry(s.entries[i], freed.entries[i])  BY <1>9, <1>10, LikeEntries
  <2>2. Held(freed, i)  BY <1>1, <1>13, <2>1 DEF Held, Stopped, SameEntry
  <2>3. \A j \in 1 .. Len(s.entries) : Held(s, j) => Held(freed, j)  BY <1>9, <1>10, <1>11, <2>2
  <2>4. t = freed  BY <1>4, <1>13
  <2> QED  BY <1>6, <1>8, <1>9, <1>10, <2>3, <2>4 DEF Hovers
<1>14. CASE card.leave # "none" /\ card.leave # "keep"
  <2>1. Counts(freed, again, card.id, TRUE)
    <3>1. TRUE \in BOOLEAN  OBVIOUS
    <3> QED  BY <1>9, <3>1, ExpirySet
  <2> HIDE DEF again
  <2>2. /\ Like(freed, again, 0) /\ again.entries = freed.entries /\ again.area = freed.area
        /\ \A j \in DOMAIN freed.notes : j # card.id => again.notes[j] = freed.notes[j]
        /\ card.id \in DOMAIN freed.notes => again.notes[card.id].counting
    BY <2>1 DEF Counts
  <2>3. again \in State /\ i \in 1 .. Len(again.entries)  BY <1>9, <2>2 DEF Like
  <2>4. Marks(again, resumed) /\ Marks(again, again)  BY <2>3, ResumeMarks, MarksSelf
  <2>5. t = resumed \/ t = again  BY <1>4, <1>14
  <2> HIDE DEF resumed
  <2>6. Marks(again, t)  BY <2>4, <2>5
  <2>7. t \in State /\ Like(again, t, 0) /\ t.notes = again.notes /\ t.area = again.area
    BY <2>6 DEF Marks, Like
  <2>8. Like(s, t, 0)
    <3>1. Like(s, again, 0)  BY <1>9, <1>10, <2>2, <2>3, LikeTrans
    <3> QED  BY <2>3, <2>7, <3>1, LikeTrans
  <2>9. Held(t, i)
    <3>1. SameEntry(s.entries[i], t.entries[i])  BY <2>7, <2>8, LikeEntries
    <3>2. t.entries[i].id = card.id  BY <1>1, <3>1 DEF SameEntry
    <3>3. DOMAIN freed.notes = DOMAIN s.notes /\ DOMAIN t.notes = DOMAIN s.notes
      BY <1>10, <2>8 DEF Like
    <3>4. ~Stopped(t, i)  BY <2>2, <2>7, <3>2, <3>3 DEF Stopped
    <3> QED  BY <3>4 DEF Held
  <2>10. ASSUME NEW j \in 1 .. Len(s.entries), Held(s, j) PROVE Held(t, j)
    <3>1. CASE j = i  BY <2>9, <3>1
    <3>2. CASE j # i
      <4>1. t.entries[j].hovered = freed.entries[j].hovered  BY <1>9, <2>2, <2>6 DEF Marks
      <4>2. \A id \in DOMAIN s.notes : id # card.id => t.notes[id] = freed.notes[id]
        <5>1. DOMAIN freed.notes = DOMAIN s.notes  BY <1>10 DEF Like
        <5> QED  BY <2>2, <2>7, <5>1
      <4> QED  BY <1>11, <2>7, <2>8, <2>10, <3>2, <4>1, <4>2
    <3> QED  BY <3>1, <3>2
  <2>11. t.area = 0  BY <1>6, <1>8, <2>2, <2>7
  <2> QED  BY <2>7, <2>8, <2>10, <2>11 DEF Hovers
<1> QED  BY <1>12, <1>13, <1>14

LEMMA FindFacts ==
  ASSUME NEW s \in State, Distinct(s), NEW id
  PROVE  /\ Find(s, id) = 0 <=> \A i \in 1 .. Len(s.entries) : s.entries[i].id # id
         /\ Find(s, id) # 0 => Find(s, id) \in 1 .. Len(s.entries) /\ s.entries[Find(s, id)].id = id
         /\ \A i \in 1 .. Len(s.entries) : s.entries[i].id = id => Find(s, id) = i
<1> DEFINE at == {i \in DOMAIN s.entries : s.entries[i].id = id}
<1>1. DOMAIN s.entries = 1 .. Len(s.entries)  BY StateFields
<1>2. Find(s, id) = IF at = {} THEN 0 ELSE CHOOSE i \in at : TRUE  BY Zenon DEF Find
<1>3. CASE at = {}  BY <1>1, <1>2, <1>3
<1>4. CASE at # {}
  <2>1. Find(s, id) \in at  BY <1>2, <1>4
  <2>2. Find(s, id) \in 1 .. Len(s.entries) /\ s.entries[Find(s, id)].id = id  BY <1>1, <2>1
  <2> QED  BY <2>2 DEF Distinct
<1> QED  BY <1>3, <1>4

\* What the dispatcher needs: the line of cards of the screen the pointer is on.
Aims(s) ==
  s \in State /\ Distinct(s) /\ Points(s) /\ (s.pointer # Outside => Line(s, s.pointer[1]))

LEMMA LeaveHovers ==
  ASSUME NEW s, Aims(s), NEW t, t = LeaveArea(s)
  PROVE  t \in State /\ Hovers(s, t, 0) /\ t.area = 0
<1>1. s \in State /\ Distinct(s) /\ Points(s)  BY DEF Aims
<1>2. CASE s.area = 0
  <2>1. t = s  BY <1>2 DEF LeaveArea
  <2> QED  BY <1>1, <1>2, <2>1, LikeSelf
<1>3. CASE s.area # 0
  <2>1. PICK i \in 1 .. Len(s.entries) : s.entries[i].id = s.area /\ HasCard(s, s.pointer[1], i)
    BY <1>1, <1>3 DEF Points
  <2>2. s.pointer # Outside /\ s.pointer[1] \in 1 .. Len(s.screens)  BY <1>1, <1>3 DEF Points
  <2>3. Find(s, s.area) = i  BY <1>1, <2>1, FindFacts
  <2>4. t = Left(s, s.pointer[1], i)  BY <1>3, <2>3 DEF LeaveArea
  <2>5. Line(s, s.pointer[1])  BY <2>2 DEF Aims
  <2> QED  BY <1>1, <2>1, <2>2, <2>4, <2>5, LeftHovers
<1> QED  BY <1>2, <1>3

LEMMA HitFacts ==
  ASSUME NEW s \in State, Hit(s) # 0
  PROVE  s.pointer # Outside /\ Hit(s) \in 1 .. Len(s.entries) /\ HasCard(s, s.pointer[1], Hit(s))
<1> DEFINE n == s.pointer[1]
           below == {i \in DOMAIN s.entries :
                       HasCard(s, n, i) /\ s.pointer[2] \in Rows(s.entries[i].y, s.entries[i].height)}
           stay == {i \in below : ~s.entries[i].exiting}
           found == IF stay # {} THEN stay ELSE below
<1>1. Hit(s) = IF s.pointer = Outside \/ below = {} THEN 0 ELSE CHOOSE i \in found : TRUE
  BY Zenon DEF Hit
<1>2. s.pointer # Outside /\ below # {}  BY <1>1
<1>3. found # {} /\ found \subseteq below  BY <1>2
<1> HIDE DEF found
<1>4. Hit(s) \in found  BY <1>1, <1>2, <1>3
<1>5. Hit(s) \in below  BY <1>3, <1>4
<1> QED  BY <1>2, <1>5, StateFields

LEMMA AimsAlike ==
  ASSUME NEW s, Aims(s), NEW t \in State, Like(s, t, 0), Points(t)
  PROVE  Aims(t)
<1>1. s \in State /\ Distinct(s) /\ Points(s) /\ t.pointer = s.pointer  BY DEF Aims, Like
<1>2. Distinct(t)  BY <1>1, LikeWhole
<1>3. ASSUME t.pointer # Outside PROVE Line(t, t.pointer[1])
  <2>1. s.pointer[1] \in 1 .. Len(s.screens) /\ Line(s, s.pointer[1])  BY <1>1, <1>3 DEF Aims, Points
  <2> QED  BY <1>1, <2>1, AlikeLine
<1> QED  BY <1>2, <1>3 DEF Aims

LEMMA UpdateHoverHovers ==
  ASSUME NEW s, Aims(s), NEW t, t = UpdateHover(s)
  PROVE  t \in State /\ Hovers(s, t, 0) /\ Points(t)
<1> DEFINE i == Hit(s)
           id == IF i = 0 THEN 0 ELSE s.entries[i].id
           left == LeaveArea(s)
           n == s.pointer[1]
<1>1. s \in State /\ Distinct(s) /\ Points(s)  BY DEF Aims
<1>2. t = IF id = s.area THEN s ELSE IF i = 0 THEN left ELSE Enter(left, n, i)
  BY Zenon DEF UpdateHover
<1>3. left \in State /\ Hovers(s, left, 0) /\ left.area = 0  BY LeaveHovers
<1> HIDE DEF left
<1>4. Like(s, left, 0) /\ left.pointer = s.pointer /\ Len(left.screens) = Len(s.screens)
      /\ Len(left.entries) = Len(s.entries)
  BY <1>3 DEF Hovers, Like
<1>5. Points(left)  BY <1>1, <1>3, <1>4 DEF Points
<1>6. CASE t = s  BY <1>1, <1>6, LikeSelf
<1>7. CASE t = left  BY <1>3, <1>5, <1>7
<1>8. CASE i # 0 /\ t = Enter(left, n, i)
  <2>1. s.pointer # Outside /\ i \in 1 .. Len(s.entries) /\ HasCard(s, n, i)
    BY <1>1, <1>8, HitFacts
  <2>2. n \in 1 .. Len(s.screens) /\ n \in 1 .. Len(left.screens)  BY <1>1, <1>4, <2>1 DEF Points
  <2>3. Aims(left)  BY <1>3, <1>4, <1>5, AimsAlike
  <2>4. Line(left, n) /\ Distinct(left)  BY <1>4, <2>1, <2>3 DEF Aims
  <2> HIDE DEF i, n
  <2>5. i # 0 /\ HasCard(left, n, i)  BY <1>1, <1>3, <1>4, <1>8, <2>1, <2>2, LikeCards
  <2>6. left.screens[n].cards[i].id = left.entries[i].id
    BY <1>3, <2>2, <2>4, <2>5, HasCardFields DEF Line
  <2>7. i \in 1 .. Len(left.entries)  BY <1>4, <2>1
  <2>8. t \in State /\ Hovers(left, t, 0) /\ t.area = left.entries[i].id
    BY <1>3, <1>8, <2>2, <2>4, <2>5, <2>6, <2>7, EnterHovers
  <2>9. Hovers(s, t, 0)  BY <1>1, <1>3, <2>8, HoversTrans
  <2>10. Points(t)
    <3>1. Like(left, t, 0) /\ t.pointer = left.pointer /\ Len(t.screens) = Len(left.screens)
          /\ Len(t.entries) = Len(left.entries)
      BY <2>8 DEF Hovers, Like
    <3>2. t.entries[i].id = t.area  BY <1>3, <2>7, <2>8, <3>1, LikeEntries DEF SameEntry
    <3>3. HasCard(t, n, i)  BY <1>3, <2>2, <2>5, <2>8, <3>1, LikeCards
    <3>4. i \in 1 .. Len(t.entries)  BY <2>7, <3>1
    <3>5. t.pointer # Outside /\ t.pointer[1] = n  BY <1>4, <2>1, <3>1 DEF n
    <3> QED  BY <2>2, <3>1, <3>2, <3>3, <3>4, <3>5 DEF Points
  <2> QED  BY <2>8, <2>9, <2>10
<1> QED  BY <1>2, <1>6, <1>7, <1>8

-----------------------------------------------------------------------------
(* Cards come and go. *)

LEMMA HeldSame ==
  ASSUME NEW s, NEW t, t.entries = s.entries, t.notes = s.notes, NEW i
  PROVE  Held(s, i) <=> Held(t, i)
BY DEF Held, Stopped

LEMMA LineSame ==
  ASSUME NEW s, NEW t, t.entries = s.entries, t.screens = s.screens, NEW n, Line(s, n)
  PROVE  Line(t, n)
<1> DEFINE E == s.entries
           S == s.screens
<1>1. /\ Len(S[n].cards) = IF S[n].scene THEN Len(E) ELSE 0
      /\ \A i \in 1 .. Len(S[n].cards) : S[n].cards[i] # NoCard =>
           /\ S[n].cards[i].id = E[i].id
           /\ S[n].cards[i].leave = "keep" => E[i].timeout = "never" \/ E[i].updated
  BY DEF Line
<1>2. t.entries = E /\ t.screens = S  OBVIOUS
<1> HIDE DEF E, S
<1> QED  BY <1>1, <1>2, Zenon DEF Line

LEMMA SetAlike ==
  ASSUME NEW s \in State, NEW t \in State, Hovers(s, t, 0),
         NEW n \in 1 .. Len(s.screens), NEW i \in 1 .. Len(s.screens[n].cards), NEW c \in Cards,
         NEW u, u = SetCard(s, n, i, c), NEW v, v = SetCard(t, n, i, c)
  PROVE  u \in State /\ v \in State /\ Hovers(u, v, 0)
<1>1. Like(s, t, 0)  BY DEF Hovers
<1>2. n \in 1 .. Len(t.screens) /\ i \in 1 .. Len(t.screens[n].cards)  BY <1>1 DEF Like
<1>t. Len(t.screens) = Len(s.screens)  BY <1>1 DEF Like
<1>3. /\ u \in State /\ u.notes = s.notes /\ u.entries = s.entries /\ u.pointer = s.pointer
      /\ u.calls = s.calls /\ Len(u.screens) = Len(s.screens) /\ Swapped(s, u, n, i, c)
  BY SMTT(30), CardSet
<1>4. /\ v \in State /\ v.notes = t.notes /\ v.entries = t.entries /\ v.pointer = t.pointer
      /\ v.calls = t.calls /\ Len(v.screens) = Len(t.screens) /\ Swapped(t, v, n, i, c)
  BY SMTT(30), <1>2, CardSet
<1>5. /\ DOMAIN v.notes = DOMAIN u.notes /\ u.calls \subseteq v.calls /\ v.pointer = u.pointer
      /\ Len(v.entries) = Len(u.entries) /\ Len(v.screens) = Len(u.screens)
      /\ \A j \in 1 .. Len(u.entries) : SameEntry(u.entries[j], v.entries[j])
  BY <1>1, <1>t, <1>3, <1>4 DEF Like
<1>6. ASSUME NEW m \in 1 .. Len(u.screens)
      PROVE  /\ v.screens[m].scene = u.screens[m].scene
             /\ Len(v.screens[m].cards) = Len(u.screens[m].cards)
             /\ \A j \in 1 .. Len(u.screens[m].cards) :
                  SameCard(u.screens[m].cards[j], v.screens[m].cards[j])
  <2>1. m \in 1 .. Len(s.screens) /\ m \in 1 .. Len(t.screens)  BY <1>t, <1>3
  <2>2. /\ u.screens[m].scene = s.screens[m].scene
        /\ Len(u.screens[m].cards) = Len(s.screens[m].cards)
        /\ \A j \in 1 .. Len(s.screens[m].cards) :
             u.screens[m].cards[j] = IF m = n /\ j = i THEN c ELSE s.screens[m].cards[j]
    BY <1>3, <2>1 DEF Swapped
  <2>3. /\ v.screens[m].scene = t.screens[m].scene
        /\ Len(v.screens[m].cards) = Len(t.screens[m].cards)
        /\ \A j \in 1 .. Len(t.screens[m].cards) :
             v.screens[m].cards[j] = IF m = n /\ j = i THEN c ELSE t.screens[m].cards[j]
    BY <1>4, <2>1 DEF Swapped
  <2>4. /\ t.screens[m].scene = s.screens[m].scene
        /\ Len(t.screens[m].cards) = Len(s.screens[m].cards)
    BY <1>1, <2>1 DEF Like
  <2>5. ASSUME NEW j \in 1 .. Len(s.screens[m].cards)
        PROVE  SameCard(s.screens[m].cards[j], t.screens[m].cards[j])
    <3>1. j # 0  OBVIOUS
    <3> QED  BY <1>1, <2>1, <3>1 DEF Like
  <2>6. ASSUME NEW j \in 1 .. Len(s.screens[m].cards)
        PROVE  SameCard(u.screens[m].cards[j], v.screens[m].cards[j])
    <3>1. CASE m = n /\ j = i
      <4>1. u.screens[m].cards[j] = v.screens[m].cards[j]  BY <2>2, <2>3, <2>4, <3>1
      <4> QED  BY <4>1 DEF SameCard
    <3>2. CASE ~(m = n /\ j = i)
      <4>1. /\ u.screens[m].cards[j] = s.screens[m].cards[j]
            /\ v.screens[m].cards[j] = t.screens[m].cards[j]
        BY <2>2, <2>3, <2>4, <3>2
      <4> QED  BY <2>5, <4>1
    <3> QED  BY <3>1, <3>2
  <2> QED  BY <2>2, <2>3, <2>4, <2>6
<1>7. Like(u, v, 0)  BY <1>4, <1>5, <1>6 DEF Like
<1>8. ASSUME NEW j \in 1 .. Len(u.entries), Held(u, j) PROVE Held(v, j)
  <2>1. Held(s, j) /\ j \in 1 .. Len(s.entries)  BY <1>3, <1>8, HeldSame
  <2>2. Held(t, j)  BY <2>1 DEF Hovers
  <2> QED  BY <1>4, <2>2, HeldSame
<1> QED  BY <1>3, <1>4, <1>7, <1>8 DEF Hovers

LEMMA CardGone ==
  ASSUME NEW s \in State, NEW n \in 1 .. Len(s.screens), NEW i \in 1 .. Len(s.screens[n].cards),
         NEW t, t = SetCard(s, n, i, NoCard)
  PROVE  /\ ~HasCard(t, n, i)
         /\ \A m \in 1 .. Len(s.screens) : \A j : m # n \/ j # i =>
              (HasCard(t, m, j) <=> HasCard(s, m, j))
         /\ Points(s) /\ (s.area # s.entries[i].id \/ s.pointer[1] # n) => Points(t)
<1>1. NoCard \in Cards  BY CardFields
<1>2. /\ t \in State /\ t.entries = s.entries /\ t.pointer = s.pointer /\ t.area = s.area
      /\ Len(t.screens) = Len(s.screens) /\ Swapped(s, t, n, i, NoCard)
  BY <1>1, CardSet
<1>3. ASSUME NEW m \in 1 .. Len(s.screens), NEW j
      PROVE  HasCard(t, m, j) <=> HasCard(s, m, j) /\ ~(m = n /\ j = i)
  <2>1. /\ Len(t.screens[m].cards) = Len(s.screens[m].cards)
        /\ \A l \in 1 .. Len(s.screens[m].cards) :
             t.screens[m].cards[l] = IF m = n /\ l = i THEN NoCard ELSE s.screens[m].cards[l]
    BY <1>2 DEF Swapped
  <2>2. /\ DOMAIN s.screens[m].cards = 1 .. Len(s.screens[m].cards)
        /\ DOMAIN t.screens[m].cards = 1 .. Len(s.screens[m].cards)
    <3>1. m \in 1 .. Len(t.screens)  BY <1>2
    <3> QED  BY <1>2, <2>1, <3>1, ScreenFields
  <2> QED  BY <2>1, <2>2 DEF HasCard
<1>4. ~HasCard(t, n, i)  BY <1>3
<1>5. ASSUME Points(s), s.area # s.entries[i].id \/ s.pointer[1] # n PROVE Points(t)
  <2>1. ASSUME s.area # 0
        PROVE  \E j \in 1 .. Len(s.entries) : s.entries[j].id = s.area /\ HasCard(t, s.pointer[1], j)
    <3>1. PICK j \in 1 .. Len(s.entries) : s.entries[j].id = s.area /\ HasCard(s, s.pointer[1], j)
      BY <1>5, <2>1 DEF Points
    <3>2. s.pointer[1] \in 1 .. Len(s.screens)  BY <1>5, <2>1 DEF Points
    <3>3. HasCard(t, s.pointer[1], j)  BY <1>3, <1>5, <3>1, <3>2
    <3> QED  BY <3>1, <3>3
  <2> QED  BY <1>2, <1>5, <2>1 DEF Points
<1> QED  BY <1>3, <1>4, <1>5

LEMMA RemoveCardHovers ==
  ASSUME NEW s \in State, NEW n \in 1 .. Len(s.screens), NEW i \in 1 .. Len(s.entries),
         i \in 1 .. Len(s.screens[n].cards), s.pointer[1] = n => Aims(s),
         NEW gone, gone = SetCard(s, n, i, NoCard), NEW t, t = RemoveCard(s, n, i)
  PROVE  t \in State /\ Hovers(gone, t, 0) /\ (Points(s) => Points(t))
<1> DEFINE here == s.pointer[1] = n
           left == IF here /\ s.area = s.entries[i].id THEN LeaveArea(s) ELSE s
           gap == SetCard(left, n, i, NoCard)
<1>1. t = IF ~HasCard(s, n, i) THEN s ELSE IF here THEN UpdateHover(gap) ELSE gap
  BY Zenon DEF RemoveCard
<1>2. NoCard \in Cards  BY CardFields
<1>3. /\ gone \in State /\ gone.notes = s.notes /\ gone.entries = s.entries /\ gone.pointer = s.pointer
      /\ gone.calls = s.calls /\ Len(gone.screens) = Len(s.screens) /\ Swapped(s, gone, n, i, NoCard)
  BY SMTT(30), <1>2, CardSet
<1>4. CASE ~HasCard(s, n, i)
  <2>1. t = s  BY <1>1, <1>4
  <2>2. s.screens[n].cards[i] = NoCard  BY <1>4, ScreenFields DEF HasCard
  <2>3. ASSUME NEW m \in 1 .. Len(s.screens)
        PROVE  /\ s.screens[m].scene = gone.screens[m].scene
               /\ Len(s.screens[m].cards) = Len(gone.screens[m].cards)
               /\ \A j \in 1 .. Len(gone.screens[m].cards) :
                    SameCard(gone.screens[m].cards[j], s.screens[m].cards[j])
    <3>1. /\ gone.screens[m].scene = s.screens[m].scene
          /\ Len(gone.screens[m].cards) = Len(s.screens[m].cards)
          /\ \A j \in 1 .. Len(s.screens[m].cards) :
               gone.screens[m].cards[j] = IF m = n /\ j = i THEN NoCard ELSE s.screens[m].cards[j]
      BY <1>3 DEF Swapped
    <3>2. \A j \in 1 .. Len(s.screens[m].cards) : gone.screens[m].cards[j] = s.screens[m].cards[j]
      BY <2>2, <3>1
    <3> QED  BY <3>1, <3>2 DEF SameCard
  <2>4. Like(gone, s, 0)  BY <1>3, <2>3, Zenon DEF Like, SameEntry
  <2>5. \A j \in 1 .. Len(gone.entries) : Held(gone, j) => Held(s, j)  BY <1>3, HeldSame
  <2> QED  BY <2>1, <2>4, <2>5 DEF Hovers
<1>5. CASE HasCard(s, n, i) /\ ~here
  <2>1. t = gone  BY <1>1, <1>5
  <2>2. Points(s) => Points(gone)  BY <1>5, CardGone
  <2> QED  BY <1>3, <2>1, <2>2, LikeSelf
<1>6. CASE HasCard(s, n, i) /\ here
  <2>1. Aims(s) /\ Distinct(s) /\ Points(s) /\ Line(s, n)
    <3>1. Aims(s) /\ Distinct(s) /\ Points(s)  BY <1>6 DEF Aims
    <3>2. s.pointer # Outside  BY <1>6 DEF Outside
    <3> QED  BY <1>6, <3>1, <3>2 DEF Aims
  <2>2. left \in State /\ Hovers(s, left, 0) /\ Points(left) /\ left.area # s.entries[i].id
    <3>1. s.entries[i].id # 0  BY StateFields, EntryFields DEF Ids
    <3>2. CASE s.area = s.entries[i].id
      <4>1. left = LeaveArea(s)  BY <1>6, <3>2
      <4>2. left \in State /\ Hovers(s, left, 0) /\ left.area = 0  BY <2>1, <4>1, LeaveHovers
      <4>3. Like(s, left, 0)  BY <4>2 DEF Hovers
      <4>4. left.pointer = s.pointer /\ Len(left.screens) = Len(s.screens)  BY <4>3 DEF Like
      <4>5. Points(left)  BY <2>1, <4>2, <4>4 DEF Points
      <4> QED  BY <3>1, <4>2, <4>5
    <3>3. CASE s.area # s.entries[i].id
      <4>1. left = s  BY <3>3
      <4> QED  BY <2>1, <3>3, <4>1, LikeSelf
    <3> QED  BY <3>2, <3>3
  <2> HIDE DEF left
  <2>3. gap \in State /\ Hovers(gone, gap, 0)  BY <1>2, <2>2, SetAlike
  <2>4. Like(s, left, 0)  BY <2>2 DEF Hovers
  <2>5. n \in 1 .. Len(left.screens) /\ i \in 1 .. Len(left.screens[n].cards)  BY <2>4 DEF Like
  <2>6. left.pointer = s.pointer /\ left.entries[i].id = s.entries[i].id
    <3>1. SameEntry(s.entries[i], left.entries[i])  BY <2>2, <2>4, LikeEntries
    <3> QED  BY <2>4, <3>1 DEF Like, SameEntry
  <2>7. Points(gap) /\ ~HasCard(gap, n, i)
    <3>1. left.area # left.entries[i].id \/ left.pointer[1] # n  BY <2>2, <2>6
    <3> HIDE DEF here
    <3> DEFINE g == gap
    <3>2. g = SetCard(left, n, i, NoCard)  OBVIOUS
    <3> HIDE DEF g
    <3>3. ~HasCard(g, n, i)  BY <2>2, <2>5, <3>2, CardGone
    <3>4. Points(g)  BY <2>2, <2>5, <3>1, <3>2, CardGone, ZenonT(30)
    <3> QED  BY <3>3, <3>4 DEF g
  <2>8. Like(left, gap, i)  BY <1>2, <2>2, <2>5, CardLike
  <2>9. Line(left, n) /\ Distinct(left)  BY <2>1, <2>2, <2>4, AlikeLine, LikeWhole
  <2>10. Line(gap, n) /\ Distinct(gap)
    <3>1. Distinct(gap)  BY <2>2, <2>3, <2>8, <2>9, LikeWhole
    <3>2. Line(gap, n)  BY <2>2, <2>3, <2>5, <2>7, <2>8, <2>9, LikeLine
    <3> QED  BY <3>1, <3>2
  <2>11. gap.pointer[1] = n  BY <1>6, <2>6, <2>8 DEF Like
  <2>12. Aims(gap)  BY <2>3, <2>7, <2>10, <2>11 DEF Aims
  <2>13. t = UpdateHover(gap)  BY <1>1, <1>6
  <2> HIDE DEF gap
  <2>14. t \in State /\ Hovers(gap, t, 0) /\ Points(t)  BY <2>12, <2>13, UpdateHoverHovers
  <2> QED  BY <1>3, <2>3, <2>14, HoversTrans
<1> QED  BY <1>4, <1>5, <1>6

\* Every line of cards is in order, and the dispatcher too.
Lined(s) == s \in State /\ Distinct(s) /\ \A n \in 1 .. Len(s.screens) : Line(s, n)
Sane(s) == Lined(s) /\ Points(s)

LEMMA SaneAims ==
  ASSUME NEW s, Sane(s)
  PROVE  Aims(s)
BY DEF Sane, Lined, Aims, Points

LEMMA LinedAlike ==
  ASSUME NEW s, Lined(s), NEW t \in State, Like(s, t, 0)
  PROVE  Lined(t)
<1>1. s \in State /\ Len(t.screens) = Len(s.screens)  BY DEF Lined, Like
<1>2. Distinct(t)  BY <1>1, LikeWhole DEF Lined
<1>3. \A n \in 1 .. Len(t.screens) : Line(t, n)  BY <1>1, AlikeLine DEF Lined
<1> QED  BY <1>2, <1>3 DEF Lined

\* Another card at i on screen n, which may be one of the entry there.
LEMMA CardLines ==
  ASSUME NEW s, Lined(s), NEW n \in 1 .. Len(s.screens), NEW i \in 1 .. Len(s.screens[n].cards),
         NEW c \in Cards, NEW t, t = SetCard(s, n, i, c),
         c # NoCard => /\ c.id = s.entries[i].id
                       /\ c.leave = "keep" => s.entries[i].timeout = "never" \/ s.entries[i].updated
  PROVE  Lined(t)
<1>1. s \in State /\ Distinct(s)  BY DEF Lined
<1>2. /\ t \in State /\ t.entries = s.entries /\ Len(t.screens) = Len(s.screens)
      /\ Swapped(s, t, n, i, c)
  BY <1>1, CardSet
<1>3. ASSUME NEW m \in 1 .. Len(s.screens) PROVE Line(t, m)
  <2>1. /\ t.screens[m].scene = s.screens[m].scene
        /\ Len(t.screens[m].cards) = Len(s.screens[m].cards)
        /\ \A j \in 1 .. Len(s.screens[m].cards) :
             t.screens[m].cards[j] = IF m = n /\ j = i THEN c ELSE s.screens[m].cards[j]
    BY <1>2 DEF Swapped
  <2>2. Line(s, m)  BY DEF Lined
  <2>3. Len(t.screens[m].cards) = IF t.screens[m].scene THEN Len(t.entries) ELSE 0
    BY <1>2, <2>1, <2>2 DEF Line
  <2>4. ASSUME NEW j \in 1 .. Len(t.screens[m].cards), t.screens[m].cards[j] # NoCard
        PROVE  /\ t.screens[m].cards[j].id = t.entries[j].id
               /\ t.screens[m].cards[j].leave = "keep" =>
                    t.entries[j].timeout = "never" \/ t.entries[j].updated
    <3>1. CASE m = n /\ j = i
      <4>1. t.screens[m].cards[j] = c  BY <2>1, <3>1
      <4> QED  BY <1>2, <2>4, <3>1, <4>1
    <3>2. CASE ~(m = n /\ j = i)
      <4>1. t.screens[m].cards[j] = s.screens[m].cards[j]  BY <2>1, <3>2
      <4>2. j \in 1 .. Len(s.screens[m].cards)  BY <2>1
      <4> QED  BY <1>2, <2>2, <2>4, <4>1, <4>2 DEF Line
    <3> QED  BY <3>1, <3>2
  <2> QED  BY <2>3, <2>4 DEF Line
<1>4. Distinct(t)  BY <1>1, <1>2 DEF Distinct
<1> QED  BY <1>2, <1>3, <1>4 DEF Lined

LEMMA CallsSet ==
  ASSUME NEW s \in State, NEW calls \in Calls, NEW t, t = [s EXCEPT !.calls = calls]
  PROVE  /\ t \in State /\ t.notes = s.notes /\ t.entries = s.entries /\ t.screens = s.screens
         /\ t.pointer = s.pointer /\ t.area = s.area /\ t.calls = calls
BY DEF State

\* A card is added to screen n, and perhaps calls.
LEMMA CardAdded ==
  ASSUME NEW s, Sane(s), NEW n \in 1 .. Len(s.screens), NEW i \in 1 .. Len(s.screens[n].cards),
         NEW c \in Card, c.id = s.entries[i].id,
         c.leave = "keep" => s.entries[i].timeout = "never" \/ s.entries[i].updated,
         NEW calls \in Calls, s.calls \subseteq calls,
         NEW t, t = [SetCard(s, n, i, c) EXCEPT !.calls = calls]
  PROVE  /\ t \in State /\ Hovers(s, t, i) /\ Sane(t) /\ HasCard(t, n, i)
         /\ \A m \in 1 .. Len(s.screens) : m # n => (HasCard(t, m, i) <=> HasCard(s, m, i))
<1> DEFINE u == SetCard(s, n, i, c)
<1>1. s \in State /\ Points(s) /\ c \in Cards /\ c # NoCard /\ Lined(s)  BY CardFields DEF Sane, Lined
<1>2. /\ u \in State /\ u.notes = s.notes /\ u.entries = s.entries /\ u.pointer = s.pointer
      /\ u.area = s.area /\ Len(u.screens) = Len(s.screens) /\ Swapped(s, u, n, i, c)
  BY <1>1, CardSet
<1>3. Like(s, u, i)  BY <1>1, CardLike
<1>4. t = [u EXCEPT !.calls = calls]  OBVIOUS
<1> HIDE DEF u
<1>5. /\ t \in State /\ t.notes = u.notes /\ t.entries = u.entries /\ t.screens = u.screens
      /\ t.pointer = u.pointer /\ t.area = u.area /\ t.calls = calls
  BY <1>2, <1>4 DEF State
<1>6. ASSUME NEW m \in 1 .. Len(s.screens), NEW j
      PROVE  HasCard(u, m, j) <=> HasCard(s, m, j) \/ (m = n /\ j = i)
  <2>1. /\ Len(u.screens[m].cards) = Len(s.screens[m].cards)
        /\ \A l \in 1 .. Len(s.screens[m].cards) :
             u.screens[m].cards[l] = IF m = n /\ l = i THEN c ELSE s.screens[m].cards[l]
    BY <1>2 DEF Swapped
  <2>2. /\ DOMAIN s.screens[m].cards = 1 .. Len(s.screens[m].cards)
        /\ DOMAIN u.screens[m].cards = 1 .. Len(s.screens[m].cards)
    <3>1. m \in 1 .. Len(u.screens)  BY <1>2
    <3> QED  BY <1>1, <1>2, <2>1, <3>1, ScreenFields
  <2> QED  BY <1>1, <2>1, <2>2 DEF HasCard
<1>7. \A m, j : HasCard(t, m, j) <=> HasCard(u, m, j)  BY <1>5 DEF HasCard
<1>8. Points(u)
  <2>1. ASSUME s.area # 0
        PROVE  \E j \in 1 .. Len(s.entries) : s.entries[j].id = s.area /\ HasCard(u, s.pointer[1], j)
    <3>1. PICK j \in 1 .. Len(s.entries) : s.entries[j].id = s.area /\ HasCard(s, s.pointer[1], j)
      BY <1>1, <2>1 DEF Points
    <3>2. s.pointer[1] \in 1 .. Len(s.screens)  BY <1>1, <2>1 DEF Points
    <3> QED  BY <1>6, <3>1, <3>2
  <2> QED  BY <1>1, <1>2, <2>1 DEF Points
<1>9. Lined(u)  BY <1>1, CardLines DEF u
<1>10. Sane(t)
  <2>1. Distinct(t)  BY <1>5, <1>9 DEF Lined, Distinct
  <2>2. Points(t)  BY <1>5, <1>7, <1>8 DEF Points
  <2>3. ASSUME NEW m \in 1 .. Len(t.screens) PROVE Line(t, m)
    <3>1. Line(u, m)  BY <1>5, <1>9 DEF Lined
    <3> QED  BY <1>5, <3>1, LineSame
  <2> QED  BY <1>5, <2>1, <2>2, <2>3 DEF Sane, Lined
<1>11. Like(s, t, i)  BY <1>3, <1>5 DEF Like
<1>12. \A j \in 1 .. Len(s.entries) : Held(s, j) => Held(t, j)  BY <1>2, <1>5, HeldSame
<1> QED  BY <1>5, <1>6, <1>7, <1>10, <1>11, <1>12 DEF Hovers

\* Screen n shows entry i as it should, and the others as before.
Turned(s, t, n, i) ==
  /\ t \in State /\ Hovers(s, t, i) /\ Sane(t)
  /\ t.screens[n].scene => (HasCard(t, n, i) <=> Fits(t.entries[i], n))
  /\ \A m \in 1 .. Len(s.screens) : m # n => (HasCard(t, m, i) <=> HasCard(s, m, i))

LEMMA SyncOnTurns ==
  ASSUME NEW s, Sane(s), NEW n \in 1 .. Len(s.screens), NEW i \in 1 .. Len(s.entries), Lasts(s, i),
         NEW t, t = SyncOn(s, n, i)
  PROVE  Turned(s, t, n, i)
<1> DEFINE e == s.entries[i]
<1>1. s \in State /\ Lined(s) /\ e \in Entry  BY StateFields DEF Sane, Lined
<1>2. CASE t = s /\ (s.screens[n].scene => (HasCard(s, n, i) <=> Fits(e, n)))
  <2>1. Hovers(s, s, i)  BY <1>1, LikeSelf
  <2> QED  BY <1>1, <1>2, <2>1 DEF Turned
<1>3. CASE s.screens[n].scene /\ Fits(e, n) /\ ~HasCard(s, n, i)
  <2> DEFINE c == NewCard(e)
             calls == IF EndsAtOnce(e) THEN s.calls \cup {<<"remove", e.id>>} ELSE s.calls
             added == SetCard(s, n, i, c)
  <2>1. i \in 1 .. Len(s.screens[n].cards)  BY <1>1, <1>3 DEF Lined, Line
  <2>2. c \in Card /\ c.id = e.id /\ (c.leave = "keep" => e.lasts)
    BY <1>1, EntryFields DEF NewCard, Card
  <2>3. c.leave = "keep" => e.timeout = "never" \/ e.updated  BY <2>2 DEF Lasts
  <2>4. calls \in Calls /\ s.calls \subseteq calls
    <3>1. <<"remove", e.id>> \in {"remove", "finish"} \X Ids  BY <1>1, EntryFields
    <3> QED  BY <1>1, <3>1, StateFields DEF Calls
  <2>5. added \in State /\ added.calls = s.calls  BY <1>1, <2>1, <2>2, CardSet, CardFields
  <2>6. t = IF EndsAtOnce(e) THEN [added EXCEPT !.calls = @ \cup {<<"remove", e.id>>}] ELSE added
    BY <1>3 DEF SyncOn, AddCard
  <2> HIDE DEF added, c
  <2>7. t = [added EXCEPT !.calls = calls]
    <3>1. CASE EndsAtOnce(e)  BY <2>5, <2>6, <3>1
    <3>2. CASE ~EndsAtOnce(e)
      <4>1. [added EXCEPT !.calls = added.calls] = added  BY <2>5 DEF State
      <4> QED  BY <2>5, <2>6, <3>2, <4>1
    <3> QED  BY <3>1, <3>2
  <2> HIDE DEF calls
  <2>8. /\ t \in State /\ Hovers(s, t, i) /\ Sane(t) /\ HasCard(t, n, i)
        /\ \A m \in 1 .. Len(s.screens) : m # n => (HasCard(t, m, i) <=> HasCard(s, m, i))
    BY <2>1, <2>2, <2>3, <2>4, <2>7, CardAdded DEF added
  <2>9. Fits(t.entries[i], n)
    <3>1. Like(s, t, i)  BY <2>8 DEF Hovers
    <3> QED  BY <1>1, <1>3, <2>8, <3>1, LikeEntries
  <2> QED  BY <2>8, <2>9 DEF Turned
<1>4. CASE s.screens[n].scene /\ ~Fits(e, n)
  <2> DEFINE gone == SetCard(s, n, i, NoCard)
  <2>1. i \in 1 .. Len(s.screens[n].cards)  BY <1>1, <1>4 DEF Lined, Line
  <2>2. NoCard \in Cards  BY CardFields
  <2>3. Lined(gone)  BY <1>1, <2>1, <2>2, CardLines
  <2>4. gone \in State /\ Like(s, gone, i) /\ gone.entries = s.entries /\ gone.notes = s.notes
    <3>1. Like(s, gone, i) /\ gone.entries = s.entries /\ gone.notes = s.notes
      BY <1>1, <2>1, <2>2, CardLike
    <3> QED  BY <3>1 DEF Like
  <2>5. /\ ~HasCard(gone, n, i)
        /\ \A m \in 1 .. Len(s.screens) : \A j : m # n \/ j # i => (HasCard(gone, m, j) <=> HasCard(s, m, j))
    BY <1>1, <2>1, CardGone
  <2>6. t = RemoveCard(s, n, i)  BY <1>4 DEF SyncOn
  <2> HIDE DEF gone
  <2>7. t \in State /\ Hovers(gone, t, 0) /\ Points(t)
    BY <1>1, <2>1, <2>6, SaneAims, RemoveCardHovers DEF gone, Sane
  <2>8. Like(gone, t, 0)  BY <2>7 DEF Hovers
  <2>9. Sane(t)  BY <2>3, <2>7, <2>8, LinedAlike DEF Sane
  <2>10. Hovers(s, t, i)
    <3>1. Hovers(s, gone, i)  BY <2>4, HeldSame DEF Hovers
    <3>2. Hovers(gone, t, i)  BY <2>7, LikeFewer
    <3> QED  BY <1>1, <2>4, <2>7, <3>1, <3>2, HoversTrans
  <2>11. Like(s, t, i) /\ Len(gone.screens) = Len(s.screens)  BY <2>4, <2>10 DEF Hovers, Like
  <2>12. \A m \in 1 .. Len(s.screens) : HasCard(t, m, i) <=> HasCard(gone, m, i)
    BY <2>4, <2>7, <2>8, <2>11, LikeCards
  <2>13. ~Fits(t.entries[i], n)  BY <1>1, <1>4, <2>7, <2>11, LikeEntries
  <2> QED  BY <2>5, <2>7, <2>9, <2>10, <2>12, <2>13 DEF Turned
<1> QED  BY <1>2, <1>3, <1>4 DEF SyncOn

LEMMA SyncShows ==
  ASSUME NEW s, Sane(s), NEW i \in 1 .. Len(s.entries), Lasts(s, i), NEW t, t = Sync(s, i)
  PROVE  t \in State /\ Hovers(s, t, i) /\ Sane(t) /\ \A n \in 1 .. Len(t.screens) : Shows(t, n, i)
<1>s. s \in State  BY DEF Sane, Lined
<1> DEFINE n == Len(s.screens)
           R(g) == g = [k \in 0 .. n |-> IF k = 0 THEN s ELSE SyncOn(g[k - 1], k, i)]
           after == CHOOSE g : R(g)
           F == [x \in State \X (1 .. n) |-> SyncOn(x[1], x[2], i)]
           Stage(k) == {u \in State : Hovers(s, u, i) /\ Sane(u) /\ \A m \in 1 .. k :
                         u.screens[m].scene => (HasCard(u, m, i) <=> Fits(u.entries[i], m))}
           P == [k \in 0 .. n |-> Stage(k)]
<1>1. n \in Nat /\ P \in [0 .. n -> SUBSET State] /\ s \in P[0]
  <2>1. n \in Nat /\ Hovers(s, s, i)  BY <1>s, StateFields, LikeSelf
  <2>2. s \in Stage(0)  BY <1>s, <2>1
  <2> QED  BY <2>1, <2>2
<1>2. ASSUME NEW u \in State, NEW k \in 1 .. n PROVE F[<<u, k>>] = SyncOn(u, k, i)
  <2>1. <<u, k>> \in State \X (1 .. n)  OBVIOUS
  <2> QED  BY <2>1
<1>3. Leads(F, P, n)
  <2> SUFFICES ASSUME NEW k \in 1 .. n, NEW t1 \in Stage(k - 1) PROVE SyncOn(t1, k, i) \in Stage(k)
    BY <1>2 DEF Leads
  <2> DEFINE u == SyncOn(t1, k, i)
  <2>1. t1 \in State /\ Like(s, t1, i) /\ Sane(t1) /\ Hovers(s, t1, i)  BY DEF Hovers
  <2>2. k \in 1 .. Len(t1.screens) /\ i \in 1 .. Len(t1.entries) /\ Lasts(t1, i)
    <3>1. Lasts(t1, i)  BY <1>s, <2>1, LikeEntries
    <3> QED  BY <2>1, <3>1 DEF Like
  <2>3. Turned(t1, u, k, i)  BY <2>1, <2>2, SyncOnTurns
  <2>4. /\ u \in State /\ Hovers(t1, u, i) /\ Sane(u)
        /\ u.screens[k].scene => (HasCard(u, k, i) <=> Fits(u.entries[i], k))
        /\ \A m \in 1 .. Len(t1.screens) : m # k => (HasCard(u, m, i) <=> HasCard(t1, m, i))
    BY <2>3 DEF Turned
  <2> HIDE DEF u
  <2>5. Hovers(s, u, i)  BY <1>s, <2>1, <2>4, HoversTrans
  <2>6. ASSUME NEW m \in 1 .. k, u.screens[m].scene
        PROVE  HasCard(u, m, i) <=> Fits(u.entries[i], m)
    <3>1. CASE m = k  BY <2>4, <2>6, <3>1
    <3>2. CASE m # k
      <4>1. m \in 1 .. k - 1 /\ m \in 1 .. Len(t1.screens)  BY <2>2, <3>2
      <4>2. Like(t1, u, i)  BY <2>4 DEF Hovers
      <4>3. t1.screens[m].scene  BY <2>6, <4>1, <4>2 DEF Like
      <4>4. HasCard(t1, m, i) <=> Fits(t1.entries[i], m)  BY <4>1, <4>3
      <4>5. Fits(u.entries[i], m) <=> Fits(t1.entries[i], m)  BY <2>1, <2>2, <2>4, <4>2, LikeEntries
      <4> QED  BY <2>4, <3>2, <4>1, <4>4, <4>5
    <3> QED  BY <3>1, <3>2
  <2> QED  BY <2>4, <2>5, <2>6 DEF u
<1> HIDE DEF F, P
<1>4. PICK h \in [0 .. n -> State] : Runs(h, F, s, n)  BY <1>1, <1>3, Steps
<1> HIDE DEF n
<1>5. R(h)
  <2>1. ASSUME NEW k \in 1 .. n PROVE h[k] = SyncOn(h[k - 1], k, i)
    <3>1. k - 1 \in 0 .. n  BY <1>1
    <3>2. h[k - 1] \in State /\ h[k] = F[<<h[k - 1], k>>]  BY <1>4, <3>1 DEF Runs
    <3> QED  BY <1>2, <3>2
  <2>2. h[0] = s /\ \A k \in 0 .. n : k = 0 \/ k \in 1 .. n  BY <1>1, <1>4 DEF Runs
  <2>3. \A k \in 0 .. n : h[k] = IF k = 0 THEN s ELSE SyncOn(h[k - 1], k, i)  BY <2>1, <2>2
  <2> QED  BY <2>3
<1>6. R(after)  BY <1>5, Zenon
<1>7. t = after[n]  BY DEF Sync, Each, n
<1> HIDE DEF after
<1>8. RunsIn(after, State, F, s, n)
  <2>1. after[0] = s  BY <1>1, <1>6
  <2>2. ASSUME NEW k \in 1 .. n, after[k - 1] \in State PROVE after[k] = F[<<after[k - 1], k>>]
    <3>1. k \in 0 .. n /\ k # 0  BY <1>1
    <3>2. after[k] = SyncOn(after[k - 1], k, i)  BY <1>6, <3>1
    <3> QED  BY <1>2, <2>2, <3>2
  <2> QED  BY <2>1, <2>2 DEF RunsIn
<1>9. after[n] \in P[n]  BY <1>1, <1>3, <1>8, Steps
<1>10. after[n] \in Stage(n)  BY <1>1, <1>9 DEF P
<1>11. Hovers(s, t, i) /\ Sane(t)  BY <1>7, <1>10
<1>12. ASSUME NEW m \in 1 .. Len(t.screens) PROVE Shows(t, m, i)
  <2>1. m \in 1 .. n  BY <1>11 DEF Hovers, Like, n
  <2>2. t.screens[m].scene => (HasCard(t, m, i) <=> Fits(t.entries[i], m))  BY <1>7, <1>10, <2>1
  <2> QED  BY <2>2 DEF Shows
<1> QED  BY <1>7, <1>10, <1>11, <1>12

-----------------------------------------------------------------------------
(* One entry changes. *)

Fine(s, i) == Lasts(s, i) /\ Driven(s, i) /\ Held(s, i) /\ Live(s, i)
Shown(s, i) == \A n \in 1 .. Len(s.screens) : Shows(s, n, i)
Good(s) ==
  Sane(s) /\ Apart(s) /\ \A i \in 1 .. Len(s.entries) : Fine(s, i) /\ Shown(s, i)
GoodBut(s, i) ==
  /\ Sane(s) /\ Apart(s)
  /\ \A j \in 1 .. Len(s.entries) : Fine(s, j) /\ (j # i => Shown(s, j))

LEMMA EntryChanged ==
  ASSUME NEW s, Sane(s), NEW i \in 1 .. Len(s.entries), NEW e \in Entry, e.id = s.entries[i].id,
         s.entries[i].timeout = "never" \/ s.entries[i].updated => e.timeout = "never" \/ e.updated,
         NEW t, t = SetEntry(s, i, e)
  PROVE  /\ Sane(t)
         /\ \A j \in 1 .. Len(s.entries) : j # i =>
              (Fine(s, j) => Fine(t, j)) /\ (Shown(s, j) => Shown(t, j))
<1>1. s \in State /\ Distinct(s) /\ Points(s) /\ Lined(s)  BY DEF Sane, Lined
<1>2. /\ t \in State /\ t.notes = s.notes /\ t.screens = s.screens /\ t.pointer = s.pointer
      /\ t.area = s.area /\ t.calls = s.calls /\ Len(t.entries) = Len(s.entries)
      /\ \A j \in 1 .. Len(s.entries) : t.entries[j] = IF j = i THEN e ELSE s.entries[j]
  BY <1>1, EntrySet
<1>3. \A j \in 1 .. Len(s.entries) : t.entries[j].id = s.entries[j].id  BY <1>2
<1>4. \A n, j : HasCard(t, n, j) <=> HasCard(s, n, j)  BY <1>2 DEF HasCard
<1>5. Distinct(t)  BY <1>1, <1>2, <1>3 DEF Distinct
<1>6. Points(t)  BY <1>1, <1>2, <1>3, <1>4 DEF Points
<1>7. ASSUME NEW n \in 1 .. Len(t.screens) PROVE Line(t, n)
  <2>1. Line(s, n)  BY <1>1, <1>2 DEF Lined
  <2>2. \A j \in 1 .. Len(s.entries) :
          s.entries[j].timeout = "never" \/ s.entries[j].updated =>
            t.entries[j].timeout = "never" \/ t.entries[j].updated
    BY <1>2
  <2>3. \A j \in 1 .. Len(s.screens[n].cards) : j \in 1 .. Len(s.entries)
    BY <1>1, <2>1, StateFields DEF Line
  <2>4. Len(t.screens[n].cards) = IF t.screens[n].scene THEN Len(t.entries) ELSE 0
    BY <1>2, <2>1 DEF Line
  <2>5. ASSUME NEW j \in 1 .. Len(t.screens[n].cards), t.screens[n].cards[j] # NoCard
        PROVE  /\ t.screens[n].cards[j].id = t.entries[j].id
               /\ t.screens[n].cards[j].leave = "keep" =>
                    t.entries[j].timeout = "never" \/ t.entries[j].updated
    <3>1. /\ s.screens[n].cards[j].id = s.entries[j].id
          /\ s.screens[n].cards[j].leave = "keep" =>
               s.entries[j].timeout = "never" \/ s.entries[j].updated
      BY <1>2, <2>1, <2>5 DEF Line
    <3> QED  BY <1>2, <1>3, <2>2, <2>3, <3>1
  <2> QED  BY <2>4, <2>5 DEF Line
<1>8. Sane(t)  BY <1>2, <1>5, <1>6, <1>7 DEF Sane, Lined
<1>9. ASSUME NEW j \in 1 .. Len(s.entries), j # i
      PROVE  (Fine(s, j) => Fine(t, j)) /\ (Shown(s, j) => Shown(t, j))
  <2>1. t.entries[j] = s.entries[j]  BY <1>2, <1>9
  <2>2. Lasts(s, j) => Lasts(t, j)  BY <2>1 DEF Lasts
  <2>3. Driven(s, j) => Driven(t, j)  BY <1>2, <1>4, <2>1 DEF Driven
  <2>4. Held(s, j) => Held(t, j)  BY <1>2, <2>1 DEF Held, Stopped
  <2>5. Live(s, j) => Live(t, j)  BY <1>2, <2>1 DEF Live
  <2>6. Shown(s, j) => Shown(t, j)  BY <1>2, <1>4, <2>1 DEF Shown, Shows
  <2> QED  BY <2>2, <2>3, <2>4, <2>5, <2>6 DEF Fine
<1> QED  BY <1>8, <1>9

\* The expiry time of id changes; one that is started holds nothing up.
Retimed(s, t, id, counting) ==
  /\ Sane(t) /\ t.entries = s.entries /\ t.screens = s.screens /\ t.calls = s.calls
  /\ DOMAIN t.notes = DOMAIN s.notes /\ Like(s, t, 0)
  /\ (Apart(s) => Apart(t))
  /\ \A j \in 1 .. Len(s.entries) :
       /\ (Lasts(s, j) => Lasts(t, j)) /\ (Driven(s, j) => Driven(t, j))
       /\ (Live(s, j) => Live(t, j)) /\ (Shown(s, j) => Shown(t, j))
       /\ s.entries[j].id # id => (Held(s, j) => Held(t, j))
       /\ s.entries[j].id = id => (counting => Held(t, j))

LEMMA ExpiryChanged ==
  ASSUME NEW s, Sane(s), NEW id, NEW counting \in BOOLEAN, NEW t, t = SetExpiry(s, id, counting)
  PROVE  Retimed(s, t, id, counting)
<1>1. s \in State /\ Points(s) /\ Lined(s)  BY DEF Sane, Lined
<1>2. Counts(s, t, id, counting)  BY <1>1, ExpirySet
<1>3. /\ Like(s, t, 0) /\ t.entries = s.entries /\ t.screens = s.screens /\ t.area = s.area
      /\ t.calls = s.calls
      /\ \A j \in DOMAIN s.notes : j # id => t.notes[j] = s.notes[j]
      /\ id \in DOMAIN s.notes => t.notes[id].counting = counting
  BY <1>2 DEF Counts
<1>4. t \in State /\ t.pointer = s.pointer /\ DOMAIN t.notes = DOMAIN s.notes  BY <1>3 DEF Like
<1>5. Points(t)  BY <1>1, <1>3, <1>4 DEF Points, HasCard
<1>6. Sane(t)  BY <1>1, <1>3, <1>4, <1>5, LinedAlike DEF Sane
<1>7. Apart(s) => Apart(t)  BY <1>1, <1>3, <1>4, LikeWhole
<1>8. ASSUME NEW j \in 1 .. Len(s.entries)
      PROVE  /\ (Lasts(s, j) => Lasts(t, j)) /\ (Driven(s, j) => Driven(t, j))
             /\ (Live(s, j) => Live(t, j)) /\ (Shown(s, j) => Shown(t, j))
             /\ s.entries[j].id # id => (Held(s, j) => Held(t, j))
             /\ s.entries[j].id = id => (counting => Held(t, j))
  <2>1. (Lasts(s, j) => Lasts(t, j)) /\ (Live(s, j) => Live(t, j))
    BY <1>1, <1>3, <1>4, LikeEntries
  <2>2. j # 0  OBVIOUS
  <2>3. Driven(s, j) => Driven(t, j)  BY <1>1, <1>3, <1>4, <2>2, LikeDriven
  <2>4. Shown(s, j) => Shown(t, j)  BY <1>3 DEF Shown, Shows, HasCard
  <2>5. s.entries[j].id # id => (Held(s, j) => Held(t, j))  BY <1>3, <1>4 DEF Held, Stopped
  <2>6. s.entries[j].id = id => (counting => Held(t, j))  BY <1>3, <1>4 DEF Held, Stopped
  <2> QED  BY <2>1, <2>3, <2>4, <2>5, <2>6
<1> QED  BY <1>3, <1>4, <1>6, <1>7, <1>8 DEF Retimed

LEMMA SyncGood ==
  ASSUME NEW s, NEW i \in 1 .. Len(s.entries), GoodBut(s, i), ~s.entries[i].exiting,
         NEW t, t = Sync(s, i)
  PROVE  t \in State /\ Like(s, t, i) /\ Good(t)
<1>1. s \in State /\ Sane(s) /\ Apart(s) /\ Lasts(s, i)  BY DEF GoodBut, Fine, Sane, Lined
<1>2. t \in State /\ Hovers(s, t, i) /\ Sane(t) /\ \A n \in 1 .. Len(t.screens) : Shows(t, n, i)
  BY <1>1, SyncShows
<1>3. Like(s, t, i)  BY <1>2 DEF Hovers
<1>4. Apart(t) /\ Len(t.entries) = Len(s.entries) /\ Len(t.screens) = Len(s.screens)
  BY <1>1, <1>2, <1>3, LikeWhole, ZenonT(30) DEF Like
<1>5. ASSUME NEW j \in 1 .. Len(s.entries) PROVE Fine(t, j) /\ Shown(t, j)
  <2>1. Fine(s, j) /\ (j # i => Shown(s, j))  BY DEF GoodBut
  <2>2. Lasts(t, j) /\ Live(t, j)  BY <1>1, <1>2, <1>3, <2>1, LikeEntries DEF Fine
  <2>3. Held(t, j)  BY <1>2, <2>1 DEF Hovers, Fine
  <2>4. CASE j = i
    <3>1. SameEntry(s.entries[i], t.entries[i])  BY <1>1, <1>2, <1>3, LikeEntries
    <3>2. Driven(t, i)  BY <3>1 DEF Driven, SameEntry
    <3> QED  BY <1>2, <2>2, <2>3, <2>4, <3>2 DEF Fine, Shown
  <2>5. CASE j # i
    <3>1. Driven(t, j)  BY <1>1, <1>2, <1>3, <2>1, <2>5, LikeDriven DEF Fine
    <3>2. \A n \in 1 .. Len(s.screens) : Shows(t, n, j)
      BY <1>1, <1>2, <1>3, <2>1, <2>5, LikeDriven DEF Shown
    <3> QED  BY <1>4, <2>2, <2>3, <3>1, <3>2 DEF Fine, Shown
  <2> QED  BY <2>4, <2>5
<1> QED  BY <1>2, <1>3, <1>4, <1>5 DEF Good

-----------------------------------------------------------------------------
(* Places for the queue. *)

Waits(s, i) ==
  ~s.entries[i].exiting /\ ~Placed(s.entries[i]) => Free(s, s.entries[i].height) = {}

LEMMA PlacementFacts ==
  ASSUME NEW s \in State, NEW height, NEW y, y = Placement(s, height)
  PROVE  /\ y = Queued => Free(s, height) = {}
         /\ y # Queued => y \in Free(s, height)
         /\ y \in 0 .. MaxRoom
<1> DEFINE free == Free(s, height)
<1>1. free \subseteq 0 .. MaxRoom - 1 /\ MaxRoom \in Nat /\ Queued = MaxRoom
  BY RoomFacts DEF Free
<1>2. y = IF free = {} THEN Queued
          ELSE IF position = "top" THEN CHOOSE x \in free : \A z \in free : x <= z
          ELSE CHOOSE x \in free : \A z \in free : x >= z
  BY DEF Placement
<1> HIDE DEF free
<1>3. CASE free = {}  BY <1>1, <1>2, <1>3 DEF free
<1>4. CASE free # {}
  <2>1. free \in SUBSET Nat /\ free \in SUBSET (0 .. MaxRoom)  BY <1>1
  <2>2. \E x \in free : \A z \in free : x <= z  BY <1>4, <2>1, LeastMember
  <2>3. \E x \in free : \A z \in free : x >= z  BY <1>1, <1>4, <2>1, GreatestMember
  <2>4. y \in free  BY <1>2, <1>4, <2>2, <2>3
  <2> QED  BY <1>1, <2>4 DEF free
<1> QED  BY <1>3, <1>4

\* The step of Reveal for one entry.
PlaceEntry(t, i) ==
  LET e == t.entries[i]
      y == Placement(t, e.height)
      placed == SetEntry(t, i, [e EXCEPT !.y = y])
  IN IF e.exiting \/ Placed(e) \/ y = Queued THEN t
     ELSE Sync(IF e.timeout = "timed" THEN SetExpiry(placed, e.id, TRUE) ELSE placed, i)

\* The popups of s stay where they are.
Settles(s, t) ==
  /\ Len(t.entries) = Len(s.entries) /\ DOMAIN t.notes = DOMAIN s.notes
  /\ s.calls \subseteq t.calls /\ Len(t.screens) = Len(s.screens)
  /\ \A j \in 1 .. Len(s.entries) :
       /\ t.entries[j].id = s.entries[j].id /\ t.entries[j].height = s.entries[j].height
       /\ t.entries[j].exiting = s.entries[j].exiting
       /\ Placed(s.entries[j]) => Placed(t.entries[j]) /\ t.entries[j].y = s.entries[j].y

LEMMA SettlesTrans ==
  ASSUME NEW s, NEW t, NEW u, Settles(s, t), Settles(t, u)
  PROVE  Settles(s, u)
<1> HIDE DEF Placed
<1>1. /\ Len(u.entries) = Len(s.entries) /\ DOMAIN u.notes = DOMAIN s.notes
      /\ s.calls \subseteq u.calls /\ Len(u.screens) = Len(s.screens)
      /\ Len(t.entries) = Len(s.entries)
  BY DEF Settles
<1>2. ASSUME NEW j \in 1 .. Len(s.entries)
      PROVE  /\ u.entries[j].id = s.entries[j].id /\ u.entries[j].height = s.entries[j].height
             /\ u.entries[j].exiting = s.entries[j].exiting
             /\ Placed(s.entries[j]) => Placed(u.entries[j]) /\ u.entries[j].y = s.entries[j].y
  BY <1>1 DEF Settles
<1> QED  BY <1>1, <1>2, Zenon DEF Settles

\* What settles takes places, so that who waits goes on waiting.
LEMMA SettledWait ==
  ASSUME NEW s \in State, NEW t \in State, Settles(s, t), NEW i \in 1 .. Len(s.entries), Waits(s, i)
  PROVE  Waits(t, i)
<1>1. ASSUME ~t.entries[i].exiting, ~Placed(t.entries[i]) PROVE Free(t, t.entries[i].height) = {}
  <2> DEFINE h == s.entries[i].height
  <2>1. ~s.entries[i].exiting /\ ~Placed(s.entries[i]) /\ t.entries[i].height = h
    BY <1>1 DEF Settles
  <2>2. Free(s, h) = {}  BY <2>1 DEF Waits
  <2>3. DOMAIN s.entries = 1 .. Len(s.entries) /\ DOMAIN t.entries = 1 .. Len(s.entries)
    BY StateFields DEF Settles
  <2>4. \A j \in 1 .. Len(s.entries) : Placed(s.entries[j]) =>
          /\ Placed(t.entries[j]) /\ t.entries[j].y = s.entries[j].y
          /\ t.entries[j].height = s.entries[j].height
    BY DEF Settles
  <2> HIDE DEF h
  <2>5. Free(t, h) \subseteq Free(s, h)  BY <2>3, <2>4, Zenon DEF Free
  <2> QED  BY <2>1, <2>2, <2>5
<1> QED  BY <1>1 DEF Waits

LEMMA PlaceEntryGood ==
  ASSUME NEW s, Good(s), NEW i \in 1 .. Len(s.entries), NEW t, t = PlaceEntry(s, i)
  PROVE  t \in State /\ Good(t) /\ Settles(s, t) /\ Waits(t, i)
<1> DEFINE e == s.entries[i]
           y == Placement(s, e.height)
           f == [e EXCEPT !.y = y]
           placed == SetEntry(s, i, f)
           u == IF e.timeout = "timed" THEN SetExpiry(placed, e.id, TRUE) ELSE placed
<1>1. s \in State /\ Sane(s) /\ Apart(s) /\ Distinct(s)  BY DEF Good, Sane, Lined
<1>2. t = IF e.exiting \/ Placed(e) \/ y = Queued THEN s ELSE Sync(u, i)
  BY DEF PlaceEntry
<1>3. y = Queued => Free(s, e.height) = {}  BY <1>1, PlacementFacts
<1>4. y # Queued => y \in Free(s, e.height)  BY <1>1, PlacementFacts
<1>5. y \in 0 .. MaxRoom  BY <1>1, PlacementFacts
<1> HIDE DEF y
<1>6. CASE e.exiting \/ Placed(e) \/ y = Queued
  <2>1. t = s  BY <1>2, <1>6
  <2>2. Waits(s, i)  BY <1>3, <1>6 DEF Waits
  <2> QED  BY <1>1, <2>1, <2>2 DEF Settles
<1>7. CASE ~e.exiting /\ ~Placed(e) /\ y # Queued
  <2>1. e \in Entry  BY <1>1, StateFields
  <2>2. /\ f \in Entry /\ f.id = e.id /\ f.timeout = e.timeout /\ f.height = e.height /\ f.y = y
        /\ f.lasts = e.lasts /\ f.exiting = e.exiting /\ f.updated = e.updated /\ f.lost = e.lost
    BY <1>5, <2>1 DEF Entry
  <2> HIDE DEF f
  <2>3. /\ placed \in State /\ placed.notes = s.notes /\ placed.screens = s.screens
        /\ placed.calls = s.calls /\ Len(placed.entries) = Len(s.entries)
        /\ \A j \in 1 .. Len(s.entries) : placed.entries[j] = IF j = i THEN f ELSE s.entries[j]
    BY <1>1, <2>2, EntrySet
  <2>4. /\ Sane(placed)
        /\ \A j \in 1 .. Len(s.entries) : j # i => Fine(placed, j) /\ Shown(placed, j)
    BY <1>1, <2>2, EntryChanged DEF Good
  <2> HIDE DEF placed
  <2>5. Apart(placed)
    <3>1. /\ y \in 0 .. MaxRoom - 1 /\ y + e.height <= MaxRoom
          /\ \A j \in 1 .. Len(s.entries) : Placed(s.entries[j]) =>
               Rows(y, e.height) \cap Rows(s.entries[j].y, s.entries[j].height) = {}
      BY <1>1, <1>4, <1>7, StateFields DEF Free
    <3>2. Rows(y, e.height) \subseteq 0 .. MaxRoom - 1
      BY <2>1, <3>1, RoomFacts, EntryFields, SMTT(30) DEF Rows
    <3>3. \A j \in 1 .. Len(s.entries) : Placed(s.entries[j]) =>
            /\ Rows(s.entries[j].y, s.entries[j].height) \subseteq 0 .. MaxRoom - 1
            /\ \A k \in 1 .. Len(s.entries) : k # j /\ Placed(s.entries[k]) =>
                 Rows(s.entries[j].y, s.entries[j].height)
                   \cap Rows(s.entries[k].y, s.entries[k].height) = {}
      BY <1>1 DEF Apart
    <3> DEFINE R(j) == Rows(s.entries[j].y, s.entries[j].height)
               Q(j) == Rows(placed.entries[j].y, placed.entries[j].height)
    <3>4. Q(i) = Rows(y, e.height) /\ \A j \in 1 .. Len(s.entries) : j # i => Q(j) = R(j)
      BY <2>2, <2>3
    <3>5. \A j \in 1 .. Len(s.entries) : j # i =>
            (Placed(placed.entries[j]) <=> Placed(s.entries[j]))
      BY <2>3
    <3>6. \A j \in 1 .. Len(s.entries) : j # i /\ Placed(s.entries[j]) =>
            Q(i) \cap Q(j) = {} /\ Q(j) \cap Q(i) = {}
      BY <3>1, <3>4
    <3> HIDE DEF Q
    <3>7. \A j \in 1 .. Len(s.entries) : Placed(placed.entries[j]) =>
            /\ Q(j) \subseteq 0 .. MaxRoom - 1
            /\ \A k \in 1 .. Len(s.entries) : k # j /\ Placed(placed.entries[k]) => Q(j) \cap Q(k) = {}
      <4> HIDE DEF Placed
      <4> TAKE j \in 1 .. Len(s.entries)
      <4>1. CASE j = i  BY <3>2, <3>4, <3>5, <3>6, <4>1
      <4>2. CASE j # i  BY <3>3, <3>4, <3>5, <3>6, <4>2
      <4> QED  BY <4>1, <4>2
    <3> QED  BY <2>3, <3>7 DEF Apart, Q
  <2>6. Fine(s, i) /\ placed.entries[i] = f  BY <2>3 DEF Good
  <2>7. Lasts(placed, i) /\ Live(placed, i)  BY <2>2, <2>3, <2>6 DEF Fine, Lasts, Live
  <2>8. Driven(placed, i)  BY <1>7, <2>2, <2>6 DEF Driven
  <2>9. /\ u \in State /\ GoodBut(u, i) /\ u.entries = placed.entries /\ u.calls = s.calls
        /\ DOMAIN u.notes = DOMAIN s.notes /\ Len(u.screens) = Len(s.screens)
    <3>1. CASE e.timeout = "timed"
      <4>1. u = SetExpiry(placed, e.id, TRUE) /\ TRUE \in BOOLEAN  BY <3>1
      <4> HIDE DEF u
      <4>2. /\ Sane(u) /\ u.entries = placed.entries /\ u.screens = placed.screens
            /\ u.calls = placed.calls /\ DOMAIN u.notes = DOMAIN placed.notes
            /\ (Apart(placed) => Apart(u))
        <5>1. Retimed(placed, u, e.id, TRUE)  BY <2>4, <4>1, ExpiryChanged
        <5> QED  BY <5>1 DEF Retimed
      <4>3. ASSUME NEW j \in 1 .. Len(placed.entries)
            PROVE  Fine(u, j) /\ (j # i => Shown(u, j))
        <5>1. /\ (Lasts(placed, j) => Lasts(u, j)) /\ (Driven(placed, j) => Driven(u, j))
              /\ (Live(placed, j) => Live(u, j)) /\ (Shown(placed, j) => Shown(u, j))
              /\ placed.entries[j].id # e.id => (Held(placed, j) => Held(u, j))
              /\ placed.entries[j].id = e.id => Held(u, j)
          <6>1. Retimed(placed, u, e.id, TRUE)  BY <2>4, <4>1, ExpiryChanged
          <6> QED  BY <6>1 DEF Retimed
        <5>2. CASE j = i  BY <2>2, <2>6, <2>7, <2>8, <5>1, <5>2 DEF Fine
        <5>3. CASE j # i  BY <2>3, <2>4, <5>1, <5>3 DEF Fine
        <5> QED  BY <5>2, <5>3
      <4> QED  BY <2>3, <2>5, <4>2, <4>3 DEF GoodBut, Sane, Lined
    <3>2. CASE e.timeout # "timed"
      <4>1. u = placed  BY <3>2
      <4>2. Held(placed, i)  BY <2>2, <2>6, <3>2 DEF Held, Stopped
      <4> HIDE DEF u
      <4> QED  BY <2>3, <2>4, <2>5, <2>7, <2>8, <4>1, <4>2 DEF GoodBut, Fine
    <3> QED  BY <3>1, <3>2
  <2> HIDE DEF u
  <2>10. i \in 1 .. Len(u.entries) /\ ~u.entries[i].exiting  BY <1>7, <2>2, <2>3, <2>9
  <2>11. t = Sync(u, i)  BY <1>2, <1>7
  <2>12. t \in State /\ Like(u, t, i) /\ Good(t)  BY <2>9, <2>10, <2>11, SyncGood
  <2>13. Settles(s, t)
    <3>1. /\ Len(t.entries) = Len(s.entries) /\ DOMAIN t.notes = DOMAIN s.notes
          /\ s.calls \subseteq t.calls /\ Len(t.screens) = Len(s.screens)
      BY <2>3, <2>9, <2>12 DEF Like
    <3>2. ASSUME NEW j \in 1 .. Len(s.entries)
          PROVE  /\ t.entries[j].id = s.entries[j].id /\ t.entries[j].height = s.entries[j].height
                 /\ t.entries[j].exiting = s.entries[j].exiting
                 /\ Placed(s.entries[j]) => Placed(t.entries[j]) /\ t.entries[j].y = s.entries[j].y
      <4>1. j \in 1 .. Len(u.entries)  BY <2>3, <2>9
      <4>2. SameEntry(u.entries[j], t.entries[j]) /\ (Placed(t.entries[j]) <=> Placed(u.entries[j]))
        BY <2>9, <2>12, <4>1, LikeEntries
      <4>3. CASE j = i
        <5>1. u.entries[j] = f  BY <2>6, <2>9, <4>3
        <5> QED  BY <1>7, <2>2, <4>2, <4>3, <5>1 DEF SameEntry
      <4>4. CASE j # i
        <5>1. u.entries[j] = s.entries[j]  BY <2>3, <2>9, <4>4
        <5> QED  BY <4>2, <5>1 DEF SameEntry
      <4> QED  BY <4>3, <4>4
    <3> QED  BY <3>1, <3>2 DEF Settles
  <2>14. Waits(t, i)
    <3>1. Placed(u.entries[i])  BY <1>7, <2>2, <2>6, <2>9 DEF Placed
    <3>2. Placed(t.entries[i])  BY <2>9, <2>10, <2>12, <3>1, LikeEntries
    <3> QED  BY <3>2 DEF Waits
  <2> QED  BY <2>12, <2>13, <2>14
<1> QED  BY <1>6, <1>7

\* After Reveal nobody waits for a place there is.
LEMMA RevealGood ==
  ASSUME NEW s, Good(s), NEW t, t = Reveal(s)
  PROVE  t \in State /\ Good(t) /\ Settles(s, t) /\ \A i \in 1 .. Len(t.entries) : Waits(t, i)
<1>s. s \in State  BY DEF Good, Sane, Lined
<1> DEFINE n == Len(s.entries)
           R(g) == g = [k \in 0 .. n |-> IF k = 0 THEN s ELSE PlaceEntry(g[k - 1], k)]
           after == CHOOSE g : R(g)
           F == [x \in State \X (1 .. n) |-> PlaceEntry(x[1], x[2])]
           Stage(k) == {u \in State : Good(u) /\ Settles(s, u) /\ \A j \in 1 .. k : Waits(u, j)}
           P == [k \in 0 .. n |-> Stage(k)]
<1>1. n \in Nat /\ P \in [0 .. n -> SUBSET State] /\ s \in P[0]
  <2>1. n \in Nat /\ Settles(s, s)  BY <1>s, StateFields DEF Settles
  <2>2. s \in Stage(0)  BY <1>s, <2>1
  <2> QED  BY <2>1, <2>2
<1>2. ASSUME NEW u \in State, NEW k \in 1 .. n PROVE F[<<u, k>>] = PlaceEntry(u, k)
  <2>1. <<u, k>> \in State \X (1 .. n)  OBVIOUS
  <2> QED  BY <2>1
<1>3. Leads(F, P, n)
  <2> SUFFICES ASSUME NEW k \in 1 .. n, NEW t1 \in Stage(k - 1) PROVE PlaceEntry(t1, k) \in Stage(k)
    BY <1>2 DEF Leads
  <2> DEFINE v == PlaceEntry(t1, k)
  <2>1. t1 \in State /\ Good(t1) /\ Settles(s, t1) /\ k \in 1 .. Len(t1.entries)  BY DEF Settles
  <2>2. v \in State /\ Good(v) /\ Settles(t1, v) /\ Waits(v, k)  BY <2>1, PlaceEntryGood
  <2> HIDE DEF v
  <2>3. Settles(s, v)  BY <2>1, <2>2, SettlesTrans
  <2>4. ASSUME NEW j \in 1 .. k PROVE Waits(v, j)
    <3>1. CASE j = k  BY <2>2, <3>1
    <3>2. CASE j # k
      <4>1. j \in 1 .. k - 1 /\ j \in 1 .. Len(t1.entries)  BY <2>1, <3>2
      <4> QED  BY <2>1, <2>2, <4>1, SettledWait
    <3> QED  BY <3>1, <3>2
  <2> QED  BY <2>2, <2>3, <2>4 DEF v
<1> HIDE DEF F, P
<1>4. PICK h \in [0 .. n -> State] : Runs(h, F, s, n)  BY <1>1, <1>3, Steps
<1> HIDE DEF n
<1>5. R(h)
  <2>1. ASSUME NEW k \in 1 .. n PROVE h[k] = PlaceEntry(h[k - 1], k)
    <3>1. k - 1 \in 0 .. n  BY <1>1
    <3>2. h[k - 1] \in State /\ h[k] = F[<<h[k - 1], k>>]  BY <1>4, <3>1 DEF Runs
    <3> QED  BY <1>2, <3>2
  <2>2. h[0] = s /\ \A k \in 0 .. n : k = 0 \/ k \in 1 .. n  BY <1>1, <1>4 DEF Runs
  <2>3. \A k \in 0 .. n : h[k] = IF k = 0 THEN s ELSE PlaceEntry(h[k - 1], k)  BY <2>1, <2>2
  <2> QED  BY <2>3
<1>6. R(after)  BY <1>5, Zenon
<1>7. t = after[n]  BY DEF Reveal, PlaceEntry, Each, n
<1> HIDE DEF after
<1>8. RunsIn(after, State, F, s, n)
  <2>1. after[0] = s  BY <1>1, <1>6
  <2>2. ASSUME NEW k \in 1 .. n, after[k - 1] \in State PROVE after[k] = F[<<after[k - 1], k>>]
    <3>1. k \in 0 .. n /\ k # 0  BY <1>1
    <3>2. after[k] = PlaceEntry(after[k - 1], k)  BY <1>6, <3>1
    <3> QED  BY <1>2, <2>2, <3>2
  <2> QED  BY <2>1, <2>2 DEF RunsIn
<1>9. after[n] \in P[n]  BY <1>1, <1>3, <1>8, Steps
<1>10. after[n] \in Stage(n)  BY <1>1, <1>9 DEF P
<1>11. Len(t.entries) = n  BY <1>7, <1>10 DEF Settles, n
<1> QED  BY <1>7, <1>10, <1>11

-----------------------------------------------------------------------------
(* Surfaces go and come. *)

\* What the handlers do not add to.
Keeps(s, t) ==
  /\ DOMAIN t.notes = DOMAIN s.notes
  /\ \A j \in 1 .. Len(t.entries) : \E i \in 1 .. Len(s.entries) : t.entries[j].id = s.entries[i].id

LEMMA KeepsTrans ==
  ASSUME NEW s, NEW t, NEW u, Keeps(s, t), Keeps(t, u)
  PROVE  Keeps(s, u)
<1>1. DOMAIN u.notes = DOMAIN s.notes  BY DEF Keeps
<1>2. ASSUME NEW j \in 1 .. Len(u.entries)
      PROVE  \E i \in 1 .. Len(s.entries) : u.entries[j].id = s.entries[i].id
  <2>1. PICK k \in 1 .. Len(t.entries) : u.entries[j].id = t.entries[k].id  BY DEF Keeps
  <2>2. PICK i \in 1 .. Len(s.entries) : t.entries[k].id = s.entries[i].id  BY DEF Keeps
  <2> QED  BY <2>1, <2>2
<1> QED  BY <1>1, <1>2 DEF Keeps

LEMMA SettlesKeeps ==
  ASSUME NEW s, NEW t, Settles(s, t)
  PROVE  Keeps(s, t)
BY DEF Settles, Keeps

LEMMA LikeKeeps ==
  ASSUME NEW s \in State, NEW t \in State, NEW x, Like(s, t, x)
  PROVE  Keeps(s, t)
BY LikeEntries DEF Like, Keeps, SameEntry

\* Leaving a card does not touch the expiry time of what has no popup.
LEMMA LeaveOthers ==
  ASSUME NEW s, Aims(s), NEW t, t = LeaveArea(s),
         NEW id \in DOMAIN s.notes, \A i \in 1 .. Len(s.entries) : s.entries[i].id # id
  PROVE  t.notes[id] = s.notes[id]
<1>1. s \in State /\ Distinct(s) /\ Points(s)  BY DEF Aims
<1>2. CASE s.area = 0  BY <1>2 DEF LeaveArea
<1>3. CASE s.area # 0
  <2> DEFINE n == s.pointer[1]
  <2>1. PICK i \in 1 .. Len(s.entries) : s.entries[i].id = s.area /\ HasCard(s, n, i)
    BY <1>1, <1>3 DEF Points
  <2> DEFINE card == s.screens[n].cards[i]
             off == [s EXCEPT !.area = 0]
             e == [s.entries[i] EXCEPT !.hovered = FALSE, !.left = card.left]
             freed == SetEntry(off, i, e)
             again == SetExpiry(freed, card.id, TRUE)
             resumed == ResumeCountdowns(again, i)
  <2>2. s.pointer # Outside /\ n \in 1 .. Len(s.screens)  BY <1>1, <1>3 DEF Points
  <2>3. Find(s, s.area) = i  BY <1>1, <2>1, FindFacts
  <2>4. t = Left(s, n, i)  BY <1>3, <2>3 DEF LeaveArea
  <2>5. Line(s, n)  BY <2>2 DEF Aims
  <2>6. card \in Card /\ card.left \in BOOLEAN /\ card.id = s.entries[i].id
    BY <1>1, <2>1, <2>2, <2>5, HasCardFields, CardFields DEF Line
  <2>7. t = IF card.leave = "none" THEN off
            ELSE IF card.leave = "keep" THEN freed
            ELSE IF card.left THEN resumed ELSE again
    BY <2>4 DEF Left
  <2>8. s.entries[i] \in Entry  BY <1>1, StateFields
  <2>9. e \in Entry  BY <2>6, <2>8 DEF Entry
  <2>10. card.id # id  BY <2>6
  <2> HIDE DEF e, card
  <2>11. off \in State /\ off.notes = s.notes /\ off.entries = s.entries
    BY <1>1 DEF State
  <2> HIDE DEF off
  <2>12. freed \in State /\ freed.notes = s.notes /\ Len(freed.entries) = Len(s.entries)
    <3>1. i \in 1 .. Len(off.entries)  BY <2>11
    <3> QED  BY <2>9, <2>11, <3>1, EntrySet
  <2> HIDE DEF freed
  <2>13. Counts(freed, again, card.id, TRUE)
    <3>1. TRUE \in BOOLEAN  OBVIOUS
    <3> QED  BY <2>12, <3>1, ExpirySet
  <2> HIDE DEF again
  <2>14. again.notes[id] = s.notes[id] /\ Like(freed, again, 0)  BY <2>10, <2>12, <2>13 DEF Counts
  <2>15. again \in State /\ i \in 1 .. Len(again.entries)  BY <2>12, <2>14 DEF Like
  <2>16. Marks(again, resumed)  BY <2>15, ResumeMarks
  <2> HIDE DEF resumed
  <2>17. resumed.notes[id] = s.notes[id]  BY <2>14, <2>16 DEF Marks
  <2> QED  BY <2>7, <2>11, <2>12, <2>14, <2>17
<1> QED  BY <1>2, <1>3

\* The entries after LoseExits.
Lost(q) == [i \in DOMAIN q |-> [q[i] EXCEPT !.lost = q[i].lost \/ q[i].exiting]]

LEMMA LostFacts ==
  ASSUME NEW q \in Seq(Entry)
  PROVE  /\ Lost(q) \in Seq(Entry) /\ Len(Lost(q)) = Len(q)
         /\ \A i \in 1 .. Len(q) :
              /\ Lost(q)[i].id = q[i].id /\ Lost(q)[i].timeout = q[i].timeout
              /\ Lost(q)[i].height = q[i].height /\ Lost(q)[i].y = q[i].y
              /\ Lost(q)[i].lasts = q[i].lasts /\ Lost(q)[i].left = q[i].left
              /\ Lost(q)[i].exiting = q[i].exiting /\ Lost(q)[i].hovered = q[i].hovered
              /\ Lost(q)[i].updated = q[i].updated
              /\ q[i].exiting => Lost(q)[i].lost
<1>1. /\ DOMAIN q = 1 .. Len(q) /\ Len(q) \in Nat /\ \A i \in 1 .. Len(q) : q[i] \in Entry
  BY LenProperties, ElementOfSeq
<1> DEFINE f(i) == [q[i] EXCEPT !.lost = q[i].lost \/ q[i].exiting]
<1>2. \A i \in 1 .. Len(q) : f(i) \in Entry  BY <1>1 DEF Entry
<1>3. ASSUME NEW i \in 1 .. Len(q)
      PROVE  /\ f(i).id = q[i].id /\ f(i).timeout = q[i].timeout
             /\ f(i).height = q[i].height /\ f(i).y = q[i].y
             /\ f(i).lasts = q[i].lasts /\ f(i).left = q[i].left
             /\ f(i).exiting = q[i].exiting /\ f(i).hovered = q[i].hovered
             /\ f(i).updated = q[i].updated
             /\ q[i].exiting => f(i).lost
  BY <1>1 DEF Entry
<1>4. Lost(q) = [i \in 1 .. Len(q) |-> f(i)]  BY <1>1 DEF Lost
<1> HIDE DEF f
<1>5. \A i \in 1 .. Len(q) : Lost(q)[i] = f(i)  BY <1>4
<1>6. Lost(q) \in Seq(Entry) /\ Len(Lost(q)) = Len(q)  BY <1>1, <1>2, <1>4, SeqDef, LenProperties
<1> QED  BY <1>3, <1>5, <1>6

LEMMA DropGood ==
  ASSUME NEW s, Good(s), NEW t, t = DropSurfaces(s)
  PROVE  /\ t \in State /\ Good(t) /\ Keeps(s, t) /\ t.screens = <<>>
         /\ \A id \in DOMAIN s.notes :
              (\A i \in 1 .. Len(s.entries) : s.entries[i].id # id) => t.notes[id] = s.notes[id]
<1> DEFINE left == LeaveArea(s)
           lost == Lost(left.entries)
<1>1. s \in State /\ Sane(s) /\ Aims(s) /\ Apart(s)  BY SaneAims DEF Good, Sane, Lined
<1>2. left \in State /\ Hovers(s, left, 0)  BY <1>1, LeaveHovers
<1>3. \A id \in DOMAIN s.notes :
        (\A i \in 1 .. Len(s.entries) : s.entries[i].id # id) => left.notes[id] = s.notes[id]
  BY <1>1, LeaveOthers
<1>4. t = [left EXCEPT !.entries = lost, !.screens = <<>>, !.pointer = Outside, !.area = 0]
  <2>1. t = [LoseExits(left) EXCEPT !.screens = <<>>, !.pointer = Outside, !.area = 0]
    BY DEF DropSurfaces
  <2> HIDE DEF left
  <2>2. LoseExits(left) = [left EXCEPT !.entries = lost]  BY Zenon DEF LoseExits, Lost
  <2> HIDE DEF lost
  <2> QED  BY <1>2, <2>1, <2>2 DEF State
<1> HIDE DEF left
<1>5. left.entries \in Seq(Entry)  BY <1>2, StateFields
<1>6. /\ lost \in Seq(Entry) /\ Len(lost) = Len(left.entries)
      /\ \A i \in 1 .. Len(left.entries) :
           /\ lost[i].id = left.entries[i].id /\ lost[i].timeout = left.entries[i].timeout
           /\ lost[i].height = left.entries[i].height /\ lost[i].y = left.entries[i].y
           /\ lost[i].lasts = left.entries[i].lasts
           /\ lost[i].exiting = left.entries[i].exiting /\ lost[i].hovered = left.entries[i].hovered
           /\ lost[i].updated = left.entries[i].updated
           /\ left.entries[i].exiting => lost[i].lost
  BY <1>5, LostFacts
<1> HIDE DEF lost
<1>7. /\ t \in State /\ t.notes = left.notes /\ t.entries = lost /\ t.screens = <<>>
      /\ t.pointer = Outside /\ t.area = 0 /\ t.calls = left.calls
  <2>1. <<>> \in Seq(Screen) /\ Outside \in Places \cup {Outside} /\ 0 \in Ids \cup {0}
    BY EmptySeq
  <2> QED  BY <1>2, <1>4, <1>6, <2>1 DEF State
<1>8. Like(s, left, 0) /\ Len(left.entries) = Len(s.entries) /\ DOMAIN left.notes = DOMAIN s.notes
  BY <1>2 DEF Hovers, Like
<1>9. Len(t.screens) = 0  BY <1>7
<1>10. Distinct(t) /\ Apart(t)
  <2>1. Distinct(left) /\ Apart(left)  BY <1>1, <1>2, <1>8, LikeWhole DEF Sane, Lined
  <2>2. Distinct(t)  BY <1>6, <1>7, <2>1 DEF Distinct
  <2>3. \A i \in 1 .. Len(left.entries) : Placed(lost[i]) <=> Placed(left.entries[i])
    BY <1>6 DEF Placed
  <2>4. Apart(t)
    <3>a. t.entries = lost /\ Len(t.entries) = Len(left.entries)  BY <1>6, <1>7
    <3> SUFFICES ASSUME NEW i \in 1 .. Len(left.entries), Placed(lost[i])
        PROVE  /\ Rows(lost[i].y, lost[i].height) \subseteq 0 .. MaxRoom - 1
               /\ \A j \in 1 .. Len(left.entries) : j # i /\ Placed(lost[j]) =>
                    Rows(lost[i].y, lost[i].height) \cap Rows(lost[j].y, lost[j].height) = {}
      BY <3>a, Zenon DEF Apart
    <3>1. /\ Rows(left.entries[i].y, left.entries[i].height) \subseteq 0 .. MaxRoom - 1
          /\ \A j \in 1 .. Len(left.entries) : j # i /\ Placed(left.entries[j]) =>
               Rows(left.entries[i].y, left.entries[i].height)
                 \cap Rows(left.entries[j].y, left.entries[j].height) = {}
      BY <2>1, <2>3 DEF Apart
    <3> QED  BY <1>6, <2>3, <3>1, Zenon
  <2> QED  BY <2>2, <2>4
<1>11. Sane(t)
  <2>1. Points(t)  BY <1>7 DEF Points
  <2> QED  BY <1>7, <1>9, <1>10, <2>1 DEF Sane, Lined
<1>12. ASSUME NEW i \in 1 .. Len(left.entries) PROVE Fine(t, i) /\ Shown(t, i)
  <2>1. Fine(s, i) /\ Lasts(left, i) /\ Live(left, i) /\ Held(left, i)
    <3>1. Fine(s, i)  BY <1>8 DEF Good
    <3>2. Lasts(left, i) /\ Live(left, i)  BY <1>1, <1>2, <1>8, <3>1, LikeEntries DEF Fine
    <3> QED  BY <1>2, <1>8, <3>1, <3>2 DEF Fine, Hovers
  <2>2. Lasts(t, i) /\ Live(t, i)  BY <1>6, <1>7, <2>1 DEF Lasts, Live
  <2>3. Held(t, i)  BY <1>6, <1>7, <2>1 DEF Held, Stopped, Placed
  <2>4. Driven(t, i)  BY <1>6, <1>7 DEF Driven
  <2> QED  BY <1>9, <2>2, <2>3, <2>4 DEF Fine, Shown
<1>13. Keeps(s, t)
  <2>1. Keeps(s, left)  BY <1>1, <1>2, <1>8, LikeKeeps
  <2>2. Keeps(left, t)  BY <1>6, <1>7 DEF Keeps
  <2> QED  BY <2>1, <2>2, KeepsTrans
<1> QED  BY <1>3, <1>6, <1>7, <1>10, <1>11, <1>12, <1>13 DEF Good

LEMMA DestroyGood ==
  ASSUME NEW s, Good(s), NEW t, t = DestroySurfaces(s)
  PROVE  t \in State /\ Good(t) /\ Keeps(s, t) /\ Len(t.entries) = 0
<1> DEFINE d == DropSurfaces(s)
<1>1. d \in State /\ Good(d) /\ Keeps(s, d)  BY DropGood
<1>2. t = [d EXCEPT !.entries = <<>>]  BY DEF DestroySurfaces
<1> HIDE DEF d
<1>3. <<>> \in Seq(Entry)  BY EmptySeq
<1>4. /\ t \in State /\ t.notes = d.notes /\ t.entries = <<>> /\ t.screens = d.screens
      /\ t.pointer = d.pointer /\ t.area = d.area
  BY <1>1, <1>2, <1>3 DEF State
<1>5. Len(t.entries) = 0  BY <1>4
<1>6. d.screens = <<>>  BY DropGood DEF d
<1>12. d.pointer = Outside /\ d.area = 0
  <2>1. Len(d.screens) = 0 /\ Points(d) /\ d.pointer \in Places \cup {Outside}
    BY <1>1, <1>6, StateFields DEF Good, Sane
  <2>2. 1 .. Len(d.screens) = {}  BY <2>1
  <2> QED  BY <2>1, <2>2 DEF Points
<1>7. Len(t.screens) = 0  BY <1>4, <1>6
<1>8. Points(t)  BY <1>4, <1>12 DEF Points
<1>9. Distinct(t) /\ Apart(t)  BY <1>5 DEF Distinct, Apart
<1>10. Sane(t)  BY <1>4, <1>7, <1>8, <1>9 DEF Sane, Lined
<1>11. Keeps(s, t)  BY <1>1, <1>4, <1>5 DEF Keeps
<1> QED  BY <1>4, <1>5, <1>9, <1>10, <1>11 DEF Good

\* t has all that s has but for its surfaces, the new ones of which have no cards.
LEMMA EnsureGood ==
  ASSUME NEW s, Good(s), position \in Positions, NEW t, t = EnsureSurfaces(s)
  PROVE  /\ t \in State /\ Good(t) /\ Keeps(s, t)
         /\ \A id \in DOMAIN s.notes :
              (\A i \in 1 .. Len(s.entries) : s.entries[i].id # id) => t.notes[id] = s.notes[id]
<1> DEFINE kept == IF s.lastPosition = position THEN s ELSE DropSurfaces(s)
           new == [scene |-> FALSE, cards |-> <<>>, rebuild |-> FALSE]
           screens == IF kept.screens = <<>> THEN [n \in Screens |-> new] ELSE kept.screens
<1>1. /\ kept \in State /\ Good(kept) /\ Keeps(s, kept)
      /\ \A id \in DOMAIN s.notes :
           (\A i \in 1 .. Len(s.entries) : s.entries[i].id # id) => kept.notes[id] = s.notes[id]
  <2>1. CASE s.lastPosition = position  BY <2>1 DEF Good, Sane, Lined, Keeps
  <2>2. CASE s.lastPosition # position
    <3>1. kept = DropSurfaces(s)  BY <2>2
    <3> QED  BY <3>1, DropGood
  <2> QED  BY <2>1, <2>2
<1>2. t = [kept EXCEPT !.lastPosition = position, !.screens = screens]
  BY DEF EnsureSurfaces
<1> HIDE DEF kept
<1>3. new \in Screen /\ new.scene = FALSE /\ new.cards = <<>> /\ Len(new.cards) = 0
  BY EmptySeq DEF Screen
<1> HIDE DEF new
<1>4. screens \in Seq(Screen)
  <2>1. [n \in 1 .. Len(Rooms) |-> new] \in Seq(Screen)  BY <1>3, RoomFacts, SeqDef
  <2> QED  BY <1>1, <2>1, RoomFacts, StateFields
<1> HIDE DEF screens
<1>5. /\ t \in State /\ t.notes = kept.notes /\ t.entries = kept.entries /\ t.screens = screens
      /\ t.pointer = kept.pointer /\ t.area = kept.area /\ t.calls = kept.calls
  <2>1. position \in {"top", "bottom"}  BY ToastAssumption
  <2> QED  BY <1>1, <1>2, <1>4, <2>1 DEF State
<1>6. CASE kept.screens # <<>>
  <2>1. screens = kept.screens  BY <1>6 DEF screens
  <2>2. \A n, i : HasCard(t, n, i) <=> HasCard(kept, n, i)  BY <1>5, <2>1 DEF HasCard
  <2>3. Distinct(t) /\ Points(t) /\ Apart(t)
    <3>1. Distinct(kept) /\ Points(kept) /\ Apart(kept)  BY <1>1 DEF Good, Sane, Lined
    <3>2. Distinct(t)  BY <1>5, <3>1 DEF Distinct
    <3>3. Points(t)  BY <1>5, <2>1, <2>2, <3>1 DEF Points
    <3>4. Apart(t)  BY <1>5, <3>1, Zenon DEF Apart
    <3> QED  BY <3>2, <3>3, <3>4
  <2>4. \A n \in 1 .. Len(t.screens) : Line(t, n)
    BY <1>1, <1>5, <2>1, LineSame DEF Good, Sane, Lined
  <2>5. ASSUME NEW i \in 1 .. Len(t.entries) PROVE Fine(t, i) /\ Shown(t, i)
    <3>1. Fine(kept, i) /\ Shown(kept, i)  BY <1>1, <1>5 DEF Good
    <3>2. Lasts(t, i) /\ Held(t, i) /\ Live(t, i)
      BY <1>5, <3>1 DEF Fine, Lasts, Held, Live, Stopped
    <3>3. Driven(t, i)  BY <1>5, <2>1, <2>2, <3>1 DEF Fine, Driven
    <3>4. Shown(t, i)  BY <1>5, <2>1, <2>2, <3>1 DEF Shown, Shows
    <3> QED  BY <3>2, <3>3, <3>4 DEF Fine
  <2> QED  BY <1>1, <1>5, <2>3, <2>4, <2>5 DEF Good, Sane, Lined, Keeps
<1>7. CASE kept.screens = <<>>
  <2>1. Len(kept.screens) = 0 /\ 1 .. Len(kept.screens) = {}  BY <1>7
  <2>2. \A n \in 1 .. Len(t.screens) : t.screens[n] = new
    <3>1. screens = [n \in 1 .. Len(Rooms) |-> new]  BY <1>7, RoomFacts DEF screens
    <3>2. Len(screens) = Len(Rooms)  BY <3>1, RoomFacts, LenProperties, <1>4
    <3> QED  BY <1>5, <3>1, <3>2
  <2>3. kept.pointer = Outside /\ kept.area = 0
    <3>1. Points(kept) /\ kept.pointer \in Places \cup {Outside}  BY <1>1, StateFields DEF Good, Sane
    <3> QED  BY <2>1, <3>1 DEF Points
  <2>4. Distinct(t) /\ Apart(t)
    <3>1. Distinct(kept) /\ Apart(kept)  BY <1>1 DEF Good, Sane, Lined
    <3>2. Distinct(t)  BY <1>5, <3>1 DEF Distinct
    <3>3. Apart(t)  BY <1>5, <3>1, Zenon DEF Apart
    <3> QED  BY <3>2, <3>3
  <2>5. Points(t)  BY <1>5, <2>3 DEF Points
  <2>6. \A n \in 1 .. Len(t.screens) : Line(t, n)  BY <1>3, <2>2 DEF Line
  <2>7. ASSUME NEW i \in 1 .. Len(t.entries) PROVE Fine(t, i) /\ Shown(t, i)
    <3>1. Fine(kept, i)  BY <1>1, <1>5 DEF Good
    <3>2. Lasts(t, i) /\ Held(t, i) /\ Live(t, i)
      BY <1>5, <3>1 DEF Fine, Lasts, Held, Live, Stopped
    <3>3. Driven(t, i)  BY <1>5, <2>1, <3>1 DEF Fine, Driven
    <3>4. Shown(t, i)  BY <1>3, <2>2 DEF Shown, Shows
    <3> QED  BY <3>2, <3>3, <3>4 DEF Fine
  <2> QED  BY <1>1, <1>5, <2>4, <2>5, <2>6, <2>7 DEF Good, Sane, Lined, Keeps
<1> QED  BY <1>6, <1>7

-----------------------------------------------------------------------------
(* A popup goes for good. *)

\* Where what is at j after the removal at i was before.
Before(i, j) == IF j < i THEN j ELSE j + 1

\* r is q without what is at i.
Shorter(q, r, i) ==
  Len(r) = Len(q) - 1 /\ \A j \in 1 .. Len(r) : r[j] = q[Before(i, j)]

LEMMA RemovedAt ==
  ASSUME NEW S, NEW q \in Seq(S), NEW i \in 1 .. Len(q), NEW r, r = RemoveAt(q, i)
  PROVE  r \in Seq(S) /\ Shorter(q, r, i)
<1> DEFINE a == SubSeq(q, 1, i - 1)
           b == SubSeq(q, i + 1, Len(q))
<1>1. Len(q) \in Nat  BY LenProperties
<1>2. a \in Seq(S) /\ Len(a) = i - 1 /\ \A j \in 1 .. i - 1 : a[j] = q[j]
  BY SubSeqProperties
<1>3. b \in Seq(S) /\ Len(b) = Len(q) - i /\ \A j \in 1 .. Len(q) - i : b[j] = q[i + j]
  BY <1>1, SubSeqProperties
<1>4. r = a \o b  BY DEF RemoveAt
<1> HIDE DEF a, b
<1>5. /\ r \in Seq(S) /\ Len(r) = Len(a) + Len(b)
      /\ \A j \in 1 .. Len(r) : r[j] = IF j <= Len(a) THEN a[j] ELSE b[j - Len(a)]
  <2>1. /\ a \o b \in Seq(S) /\ Len(a \o b) = Len(a) + Len(b)
        /\ \A j \in 1 .. Len(a) + Len(b) : (a \o b)[j] = IF j <= Len(a) THEN a[j] ELSE b[j - Len(a)]
    BY <1>2, <1>3, ConcatProperties
  <2> QED  BY <1>4, <2>1
<1>6. ASSUME NEW j \in 1 .. Len(r) PROVE r[j] = q[Before(i, j)]
  <2>1. CASE j < i  BY <1>2, <1>5, <2>1 DEF Before
  <2>2. CASE j >= i
    <3>1. j - Len(a) \in 1 .. Len(q) - i /\ i + (j - Len(a)) = j + 1  BY <1>1, <1>2, <1>3, <1>5, <2>2
    <3>2. r[j] = b[j - Len(a)]  BY <1>2, <1>5, <2>2
    <3>3. Before(i, j) = j + 1  BY <2>2 DEF Before
    <3> QED  BY <1>3, <3>1, <3>2, <3>3
  <2> QED  BY <2>1, <2>2
<1> QED  BY <1>1, <1>2, <1>3, <1>5, <1>6 DEF Shorter

LEMMA BeforeFacts ==
  ASSUME NEW n \in Nat, NEW i \in 1 .. n
  PROVE  /\ \A j \in 1 .. n - 1 : Before(i, j) \in 1 .. n /\ Before(i, j) # i
         /\ \A j, k \in 1 .. n - 1 : Before(i, j) = Before(i, k) => j = k
         /\ \A j \in 1 .. n : j # i => \E k \in 1 .. n - 1 : Before(i, k) = j
<1>1. ASSUME NEW j \in 1 .. n, j # i PROVE \E k \in 1 .. n - 1 : Before(i, k) = j
  <2> DEFINE k == IF j < i THEN j ELSE j - 1
  <2>1. k \in 1 .. n - 1 /\ Before(i, k) = j  BY <1>1 DEF Before
  <2> QED  BY <2>1
<1> QED  BY <1>1 DEF Before

\* v is u without the card at i on screen k.
Cut(u, v, k, i) ==
  /\ v \in State /\ v.notes = u.notes /\ v.entries = u.entries /\ v.pointer = u.pointer
  /\ v.area = u.area /\ v.calls = u.calls /\ Len(v.screens) = Len(u.screens)
  /\ \A m \in 1 .. Len(u.screens) :
       /\ v.screens[m].scene = u.screens[m].scene
       /\ m # k => v.screens[m] = u.screens[m]
  /\ Shorter(u.screens[k].cards, v.screens[k].cards, i)

LEMMA CardsCut ==
  ASSUME NEW u \in State, NEW k \in 1 .. Len(u.screens), NEW i \in 1 .. Len(u.screens[k].cards),
         NEW v, v = [u EXCEPT !.screens[k].cards = RemoveAt(@, i)]
  PROVE  Cut(u, v, k, i)
<1> DEFINE q == RemoveAt(u.screens[k].cards, i)
           r == [u.screens[k] EXCEPT !.cards = q]
           p == [u.screens EXCEPT ![k] = r]
<1>1. u.screens \in Seq(Screen) /\ u.screens[k] \in Screen /\ u.screens[k].cards \in Seq(Cards)
  BY StateFields, ScreenFields
<1>2. q \in Seq(Cards) /\ Shorter(u.screens[k].cards, q, i)  BY <1>1, RemovedAt
<1>3. v = [u EXCEPT !.screens = p]  OBVIOUS
<1> HIDE DEF q
<1>4. r \in Screen /\ r.cards = q /\ r.scene = u.screens[k].scene  BY <1>1, <1>2 DEF Screen
<1> HIDE DEF r
<1>5. /\ p \in Seq(Screen) /\ Len(p) = Len(u.screens)
      /\ \A m \in 1 .. Len(u.screens) : p[m] = IF m = k THEN r ELSE u.screens[m]
  BY <1>1, <1>4, ExceptSeq
<1> HIDE DEF p
<1>6. /\ v \in State /\ v.screens = p /\ v.notes = u.notes /\ v.entries = u.entries
      /\ v.pointer = u.pointer /\ v.area = u.area /\ v.calls = u.calls
  BY <1>3, <1>5 DEF State
<1>7. ASSUME NEW m \in 1 .. Len(u.screens)
      PROVE  v.screens[m].scene = u.screens[m].scene /\ (m # k => v.screens[m] = u.screens[m])
  <2>1. v.screens[m] = IF m = k THEN r ELSE u.screens[m]  BY <1>5, <1>6
  <2> QED  BY <1>4, <2>1
<1>8. v.screens[k].cards = q  BY <1>4, <1>5, <1>6
<1> QED  BY <1>2, <1>5, <1>6, <1>7, <1>8 DEF Cut

\* The cards r are those of q, or what is left of them.
Alike(q, r) == Len(r) = Len(q) /\ \A j \in 1 .. Len(q) : SameCard(q[j], r[j])
Thinned(q, r, i) == Len(r) = Len(q) - 1 /\ \A j \in 1 .. Len(r) : SameCard(q[Before(i, j)], r[j])

\* finishRemoval has got from s to t: what is at i has no card on the first k
\* screens any more.  Positions in t are those of s only on the screens that follow.
Thins(s, t, i, k) ==
  /\ t \in State /\ DOMAIN t.notes = DOMAIN s.notes /\ s.calls \subseteq t.calls
  /\ t.pointer = s.pointer
  /\ Len(t.entries) = Len(s.entries) /\ Len(t.screens) = Len(s.screens)
  /\ \A j \in 1 .. Len(s.entries) : SameEntry(s.entries[j], t.entries[j]) /\ (Held(s, j) => Held(t, j))
  /\ \A n \in 1 .. Len(s.screens) :
       /\ t.screens[n].scene = s.screens[n].scene
       /\ IF n <= k /\ s.screens[n].scene
          THEN Thinned(s.screens[n].cards, t.screens[n].cards, i)
          ELSE Alike(s.screens[n].cards, t.screens[n].cards)
  /\ s.pointer = Outside => t.area = 0
  /\ t.area # 0 => \E j \in 1 .. Len(s.entries) :
       s.entries[j].id = t.area /\ HasCard(s, s.pointer[1], j) /\ (s.pointer[1] <= k => j # i)

RemoveOn(t, n, i) ==
  IF ~t.screens[n].scene THEN t
  ELSE [RemoveCard(t, n, i) EXCEPT !.screens[n].cards = RemoveAt(@, i)]

LEMMA AlikeCards ==
  ASSUME NEW s \in State, NEW t \in State, NEW n \in 1 .. Len(s.screens), n \in 1 .. Len(t.screens),
         Alike(s.screens[n].cards, t.screens[n].cards)
  PROVE  \A j : HasCard(t, n, j) <=> HasCard(s, n, j)
<1>1. /\ DOMAIN s.screens[n].cards = 1 .. Len(s.screens[n].cards)
      /\ DOMAIN t.screens[n].cards = 1 .. Len(s.screens[n].cards)
  BY ScreenFields DEF Alike
<1>2. \A j \in 1 .. Len(s.screens[n].cards) :
        t.screens[n].cards[j] = NoCard <=> s.screens[n].cards[j] = NoCard
  BY DEF Alike, SameCard
<1> QED  BY <1>1, <1>2, Zenon DEF HasCard

LEMMA ThinsStep ==
  ASSUME NEW s, Sane(s), NEW i \in 1 .. Len(s.entries), NEW k \in 1 .. Len(s.screens),
         NEW t \in State, Thins(s, t, i, k - 1), NEW v, v = RemoveOn(t, k, i)
  PROVE  v \in State /\ Thins(s, v, i, k)
<1>1. s \in State /\ Distinct(s) /\ Points(s) /\ Line(s, k)  BY DEF Sane, Lined
<1>2. /\ DOMAIN t.notes = DOMAIN s.notes /\ s.calls \subseteq t.calls /\ t.pointer = s.pointer
      /\ Len(t.entries) = Len(s.entries) /\ Len(t.screens) = Len(s.screens)
      /\ \A j \in 1 .. Len(s.entries) : SameEntry(s.entries[j], t.entries[j])
      /\ \A j \in 1 .. Len(s.entries) : Held(s, j) => Held(t, j)
      /\ s.pointer = Outside => t.area = 0
      /\ k \in 1 .. Len(t.screens) /\ t.screens[k].scene = s.screens[k].scene
  BY DEF Thins
<1>3. ~(k <= k - 1) /\ s.pointer[1] \in Nat
  <2>1. s.pointer \in Places \cup {Outside}  BY <1>1, StateFields
  <2>2. \A p \in Places : p[1] \in Screens  BY DEF Places
  <2> QED  BY <2>1, <2>2, RoomFacts DEF Outside
<1>4. Alike(s.screens[k].cards, t.screens[k].cards)  BY <1>3 DEF Thins
<1>5. \A j : HasCard(t, k, j) <=> HasCard(s, k, j)  BY <1>1, <1>2, <1>4, AlikeCards
<1>6. ASSUME NEW n \in 1 .. Len(s.screens), n # k
      PROVE  /\ t.screens[n].scene = s.screens[n].scene
             /\ IF n <= k /\ s.screens[n].scene
                THEN Thinned(s.screens[n].cards, t.screens[n].cards, i)
                ELSE Alike(s.screens[n].cards, t.screens[n].cards)
  <2>1. n <= k <=> n <= k - 1  BY <1>6
  <2> QED  BY <2>1 DEF Thins
<1>7. CASE ~s.screens[k].scene
  <2>1. v = t  BY <1>2, <1>7 DEF RemoveOn
  <2>2. \A j : ~HasCard(s, k, j)
    <3>1. Len(s.screens[k].cards) = 0  BY <1>1, <1>7 DEF Line
    <3> QED  BY <1>1, <3>1, ScreenFields DEF HasCard
  <2>3. ASSUME t.area # 0
        PROVE  \E j \in 1 .. Len(s.entries) :
                 s.entries[j].id = t.area /\ HasCard(s, s.pointer[1], j) /\ (s.pointer[1] <= k => j # i)
    <3>1. PICK j \in 1 .. Len(s.entries) :
            s.entries[j].id = t.area /\ HasCard(s, s.pointer[1], j) /\ (s.pointer[1] <= k - 1 => j # i)
      BY <2>3 DEF Thins
    <3>2. s.pointer[1] # k  BY <2>2, <3>1
    <3>3. s.pointer[1] <= k => j # i  BY <1>3, <3>1, <3>2
    <3> QED  BY <3>1, <3>3
  <2>4. ASSUME NEW n \in 1 .. Len(s.screens)
        PROVE  /\ t.screens[n].scene = s.screens[n].scene
               /\ IF n <= k /\ s.screens[n].scene
                  THEN Thinned(s.screens[n].cards, t.screens[n].cards, i)
                  ELSE Alike(s.screens[n].cards, t.screens[n].cards)
    BY <1>2, <1>4, <1>6, <1>7
  <2> QED  BY <1>2, <2>1, <2>3, <2>4, Zenon DEF Thins
<1>8. CASE s.screens[k].scene
  <2> DEFINE gone == SetCard(t, k, i, NoCard)
             u == RemoveCard(t, k, i)
  <2>1. i \in 1 .. Len(t.entries) /\ i \in 1 .. Len(t.screens[k].cards)
    BY <1>1, <1>2, <1>4, <1>8 DEF Line, Alike
  <2>2. s.pointer[1] = k => Aims(t)
    <3> SUFFICES ASSUME s.pointer[1] = k PROVE Aims(t)
      OBVIOUS
    <3>1. Distinct(t)  BY <1>1, <1>2 DEF Distinct, SameEntry
    <3>2. Points(t)
      <4>1. ASSUME t.area # 0
            PROVE  \E j \in 1 .. Len(t.entries) : t.entries[j].id = t.area /\ HasCard(t, t.pointer[1], j)
        <5>1. PICK j \in 1 .. Len(s.entries) : s.entries[j].id = t.area /\ HasCard(s, k, j)
          BY <4>1 DEF Thins
        <5>2. t.entries[j].id = t.area  BY <1>2, <5>1 DEF SameEntry
        <5> QED  BY <1>2, <1>5, <5>1, <5>2
      <4> QED  BY <1>2, <4>1 DEF Points
    <3>3. Line(t, k)
      <4>1. Len(t.screens[k].cards) = IF t.screens[k].scene THEN Len(t.entries) ELSE 0
        BY <1>1, <1>2, <1>4 DEF Line, Alike
      <4>2. ASSUME NEW j \in 1 .. Len(t.screens[k].cards), t.screens[k].cards[j] # NoCard
            PROVE  /\ t.screens[k].cards[j].id = t.entries[j].id
                   /\ t.screens[k].cards[j].leave = "keep" =>
                        t.entries[j].timeout = "never" \/ t.entries[j].updated
        <5>1. j \in 1 .. Len(s.screens[k].cards) /\ j \in 1 .. Len(s.entries)
          BY <1>1, <1>4, <1>8 DEF Line, Alike
        <5>2. SameCard(s.screens[k].cards[j], t.screens[k].cards[j]) /\ SameEntry(s.entries[j], t.entries[j])
          BY <1>2, <1>4, <5>1 DEF Alike
        <5>3. s.screens[k].cards[j] # NoCard  BY <4>2, <5>2 DEF SameCard
        <5>4. /\ s.screens[k].cards[j].id = s.entries[j].id
              /\ s.screens[k].cards[j].leave = "keep" =>
                   s.entries[j].timeout = "never" \/ s.entries[j].updated
          BY <1>1, <5>1, <5>3 DEF Line
        <5> QED  BY <5>2, <5>4, Zenon DEF SameCard, SameEntry
      <4> QED  BY <4>1, <4>2 DEF Line
    <3> QED  BY <1>2, <3>1, <3>2, <3>3 DEF Aims
  <2>3. v = [u EXCEPT !.screens[k].cards = RemoveAt(@, i)]  BY <1>2, <1>8 DEF RemoveOn
  <2>4. NoCard \in Cards  BY CardFields
  <2>5. /\ gone \in State /\ gone.notes = t.notes /\ gone.entries = t.entries
        /\ gone.pointer = t.pointer /\ gone.area = t.area /\ gone.calls = t.calls
        /\ Len(gone.screens) = Len(t.screens) /\ Swapped(t, gone, k, i, NoCard)
    <3>1. gone = SetCard(t, k, i, NoCard)  OBVIOUS
    <3> HIDE DEF gone
    <3>2. k \in 1 .. Len(t.screens) /\ i \in 1 .. Len(t.screens[k].cards)  BY <1>2, <2>1
    <3>3. /\ gone \in State /\ gone.notes = t.notes /\ gone.entries = t.entries
          /\ gone.pointer = t.pointer /\ gone.area = t.area /\ gone.calls = t.calls
          /\ Len(gone.screens) = Len(t.screens)
      BY <2>4, <3>1, <3>2, CardSet, ZenonT(60)
    <3>4. Swapped(t, gone, k, i, NoCard)  BY <2>4, <3>1, <3>2, CardSet
    <3> QED  BY <3>3, <3>4
  <2>6. u = IF ~HasCard(t, k, i) THEN t ELSE IF t.pointer[1] = k THEN u ELSE gone
    BY DEF RemoveCard
  <2>7. ~HasCard(gone, k, i)  BY <1>2, <2>1, CardGone
  <2>8. \A j : j # i => (HasCard(gone, k, j) <=> HasCard(t, k, j))  BY <1>2, <2>1, CardGone, ZenonT(60)
  <2>9. t.pointer[1] = k => Aims(t)  BY <1>2, <2>2
  <2>10. u \in State /\ Hovers(gone, u, 0) /\ (Points(t) => Points(u))
    <3> HIDE DEF gone, u
    <3> QED  BY <1>2, <2>1, <2>9, RemoveCardHovers DEF gone, u
  <2> HIDE DEF gone, u
  <2>11. /\ Like(gone, u, 0) /\ Len(u.screens) = Len(s.screens) /\ Len(u.entries) = Len(s.entries)
         /\ DOMAIN u.notes = DOMAIN s.notes /\ s.calls \subseteq u.calls /\ u.pointer = s.pointer
    BY <1>2, <2>5, <2>10 DEF Hovers, Like
  <2>12. ASSUME NEW n \in 1 .. Len(s.screens)
         PROVE  /\ u.screens[n].scene = s.screens[n].scene
                /\ Len(u.screens[n].cards) = Len(t.screens[n].cards)
                /\ \A j \in 1 .. Len(t.screens[n].cards) :
                     n # k \/ j # i => SameCard(t.screens[n].cards[j], u.screens[n].cards[j])
    <3>1. /\ gone.screens[n].scene = t.screens[n].scene
          /\ Len(gone.screens[n].cards) = Len(t.screens[n].cards)
          /\ \A j \in 1 .. Len(t.screens[n].cards) :
               n # k \/ j # i => gone.screens[n].cards[j] = t.screens[n].cards[j]
      BY <1>2, <2>5 DEF Swapped
    <3>2. /\ u.screens[n].scene = gone.screens[n].scene
          /\ Len(u.screens[n].cards) = Len(gone.screens[n].cards)
          /\ \A j \in 1 .. Len(gone.screens[n].cards) :
               j # 0 => SameCard(gone.screens[n].cards[j], u.screens[n].cards[j])
      BY <1>2, <2>5, <2>11 DEF Like
    <3>3. \A j \in 1 .. Len(t.screens[n].cards) : j # 0  OBVIOUS
    <3> QED  BY <1>2, <1>6, <3>1, <3>2, <3>3
  <2>13. k \in 1 .. Len(u.screens) /\ i \in 1 .. Len(u.screens[k].cards)  BY <2>1, <2>11, <2>12
  <2>14. Cut(u, v, k, i)  BY <2>3, <2>10, <2>13, CardsCut
  <2>15. /\ v \in State /\ v.notes = u.notes /\ v.entries = u.entries /\ v.pointer = u.pointer
         /\ v.area = u.area /\ v.calls = u.calls /\ Len(v.screens) = Len(u.screens)
         /\ \A m \in 1 .. Len(u.screens) :
              v.screens[m].scene = u.screens[m].scene /\ (m # k => v.screens[m] = u.screens[m])
         /\ Shorter(u.screens[k].cards, v.screens[k].cards, i)
    BY <2>14 DEF Cut
  <2>16. ASSUME NEW n \in 1 .. Len(s.screens)
         PROVE  /\ v.screens[n].scene = s.screens[n].scene
                /\ IF n <= k /\ s.screens[n].scene
                   THEN Thinned(s.screens[n].cards, v.screens[n].cards, i)
                   ELSE Alike(s.screens[n].cards, v.screens[n].cards)
    <3>1. v.screens[n].scene = s.screens[n].scene  BY <2>11, <2>12, <2>15
    <3>2. CASE n = k
      <4> DEFINE q == s.screens[k].cards
                 p == u.screens[k].cards
                 r == v.screens[k].cards
      <4>1. Len(q) \in Nat /\ Len(p) = Len(q) /\ Len(r) = Len(q) - 1 /\ i \in 1 .. Len(q)
        BY <1>1, <1>4, <2>1, <2>12, <2>15, ScreenFields DEF Alike, Shorter
      <4>2. \A j \in 1 .. Len(q) : j # i => SameCard(q[j], p[j])
        <5>1. \A j \in 1 .. Len(q) : SameCard(q[j], t.screens[k].cards[j])
              /\ Len(t.screens[k].cards) = Len(q)
          BY <1>4 DEF Alike
        <5>2. \A j \in 1 .. Len(q) : j # i => SameCard(t.screens[k].cards[j], p[j])
          BY <2>12, <5>1
        <5> QED  BY <5>1, <5>2, Zenon DEF SameCard
      <4>3. \A j \in 1 .. Len(r) : r[j] = p[Before(i, j)]  BY <2>15 DEF Shorter
      <4>4. \A j \in 1 .. Len(q) - 1 : Before(i, j) \in 1 .. Len(q) /\ Before(i, j) # i
        BY <4>1, BeforeFacts
      <4> HIDE DEF q, p, r
      <4>5. Thinned(q, r, i)  BY <4>1, <4>2, <4>3, <4>4 DEF Thinned
      <4> QED  BY <1>8, <3>1, <3>2, <4>5 DEF q, r
    <3>3. CASE n # k
      <4> DEFINE c == s.screens[n].cards
                 q == t.screens[n].cards
                 r == v.screens[n].cards
      <4>1. Len(r) = Len(q) /\ \A j \in 1 .. Len(q) : SameCard(q[j], r[j])
        BY <2>11, <2>12, <2>15, <3>3
      <4> HIDE DEF q, r, c
      <4>2. ASSUME Thinned(c, q, i) PROVE Thinned(c, r, i)
        <5>1. Len(r) = Len(c) - 1  BY <4>1, <4>2 DEF Thinned
        <5>2. \A j \in 1 .. Len(r) : SameCard(c[Before(i, j)], q[j]) /\ SameCard(q[j], r[j])
          BY <4>1, <4>2 DEF Thinned
        <5>3. \A j \in 1 .. Len(r) : SameCard(c[Before(i, j)], r[j])  BY <5>2, Zenon DEF SameCard
        <5> QED  BY <5>1, <5>3 DEF Thinned
      <4>3. ASSUME Alike(c, q) PROVE Alike(c, r)
        <5>1. \A j \in 1 .. Len(c) : SameCard(c[j], q[j]) /\ SameCard(q[j], r[j])
          BY <4>1, <4>3 DEF Alike
        <5>2. \A j \in 1 .. Len(c) : SameCard(c[j], r[j])  BY <5>1, Zenon DEF SameCard
        <5> QED  BY <4>1, <4>3, <5>2 DEF Alike
      <4> QED  BY <1>6, <3>1, <3>3, <4>2, <4>3 DEF c, q, r
    <3> QED  BY <3>2, <3>3
  <2>17. ASSUME NEW j \in 1 .. Len(s.entries)
         PROVE  SameEntry(s.entries[j], v.entries[j]) /\ (Held(s, j) => Held(v, j))
    <3>1. SameEntry(s.entries[j], gone.entries[j]) /\ SameEntry(gone.entries[j], u.entries[j])
      BY <1>2, <2>5, <2>11 DEF Like
    <3>2. SameEntry(s.entries[j], u.entries[j])  BY <3>1, Zenon DEF SameEntry
    <3>3. Held(s, j) => Held(t, j)  BY <1>2
    <3>4. Held(t, j) => Held(gone, j)  BY <2>5, HeldSame
    <3>5. Held(gone, j) => Held(u, j)  BY <1>2, <2>5, <2>10 DEF Hovers
    <3>6. Held(u, j) => Held(v, j)  BY <2>15, HeldSame
    <3> QED  BY <2>15, <3>2, <3>3, <3>4, <3>5, <3>6
  <2>18. CASE t.pointer[1] # k
    <3>1. u.area = t.area  BY <2>5, <2>6, <2>18
    <3>2. ASSUME t.area # 0
          PROVE  \E j \in 1 .. Len(s.entries) :
                   s.entries[j].id = t.area /\ HasCard(s, s.pointer[1], j) /\ (s.pointer[1] <= k => j # i)
      <4>1. PICK j \in 1 .. Len(s.entries) :
              s.entries[j].id = t.area /\ HasCard(s, s.pointer[1], j) /\ (s.pointer[1] <= k - 1 => j # i)
        BY <3>2 DEF Thins
      <4>2. s.pointer[1] <= k => j # i  BY <1>2, <1>3, <2>18, <4>1
      <4> QED  BY <4>1, <4>2
    <3>3. /\ s.pointer = Outside => v.area = 0
          /\ v.area # 0 => \E j \in 1 .. Len(s.entries) :
               s.entries[j].id = v.area /\ HasCard(s, s.pointer[1], j) /\ (s.pointer[1] <= k => j # i)
      BY <1>2, <2>15, <3>1, <3>2
    <3> QED  BY <2>11, <2>15, <2>16, <2>17, <3>3, Zenon DEF Thins
  <2>19. CASE t.pointer[1] = k
    <3>1. Points(u)  BY <2>9, <2>10, <2>19 DEF Aims
    <3>2. ASSUME u.area # 0
          PROVE  \E j \in 1 .. Len(s.entries) :
                   s.entries[j].id = u.area /\ HasCard(s, s.pointer[1], j) /\ (s.pointer[1] <= k => j # i)
      <4>1. PICK j \in 1 .. Len(u.entries) : u.entries[j].id = u.area /\ HasCard(u, k, j)
        BY <1>2, <2>11, <2>19, <3>1, <3>2 DEF Points
      <4>2. k \in 1 .. Len(gone.screens)  BY <1>2, <2>5
      <4>3. j # 0  OBVIOUS
      <4>4. \A l : l # 0 => (HasCard(u, k, l) <=> HasCard(gone, k, l))
        BY <2>5, <2>10, <2>11, <4>2, LikeCards
      <4>5. HasCard(gone, k, j)  BY <4>1, <4>3, <4>4
      <4>6. j # i /\ HasCard(s, k, j)  BY <1>5, <2>7, <2>8, <4>5
      <4>7. s.entries[j].id = u.entries[j].id  BY <2>11, <2>15, <2>17 DEF SameEntry
      <4> QED  BY <1>2, <2>11, <2>19, <4>1, <4>6, <4>7
    <3>3. /\ s.pointer = Outside => v.area = 0
          /\ v.area # 0 => \E j \in 1 .. Len(s.entries) :
               s.entries[j].id = v.area /\ HasCard(s, s.pointer[1], j) /\ (s.pointer[1] <= k => j # i)
      <4>1. s.pointer = Outside => v.area = 0  BY <2>11, <2>15, <3>1 DEF Points
      <4> QED  BY <2>15, <3>2, <4>1
    <3> QED  BY <2>11, <2>15, <2>16, <2>17, <3>3, Zenon DEF Thins
  <2> QED  BY <2>15, <2>18, <2>19
<1> QED  BY <1>7, <1>8

\* All screens, one after the other.
RemoveAll(s, i) == LET remove(t, n) == RemoveOn(t, n, i) IN Each(remove, s, Len(s.screens))

LEMMA ThinsAll ==
  ASSUME NEW s, Sane(s), NEW i \in 1 .. Len(s.entries), NEW t, t = RemoveAll(s, i)
  PROVE  t \in State /\ Thins(s, t, i, Len(s.screens))
<1>s. s \in State /\ Points(s)  BY DEF Sane, Lined
<1> DEFINE n == Len(s.screens)
           R(g) == g = [k \in 0 .. n |-> IF k = 0 THEN s ELSE RemoveOn(g[k - 1], k, i)]
           after == CHOOSE g : R(g)
           F == [x \in State \X (1 .. n) |-> RemoveOn(x[1], x[2], i)]
           Stage(k) == {u \in State : Thins(s, u, i, k)}
           P == [k \in 0 .. n |-> Stage(k)]
<1>1. n \in Nat /\ P \in [0 .. n -> SUBSET State] /\ s \in P[0]
  <2>1. n \in Nat  BY <1>s, StateFields
  <2>2. ASSUME NEW m \in 1 .. Len(s.screens)
        PROVE  /\ s.screens[m].scene = s.screens[m].scene
               /\ IF m <= 0 /\ s.screens[m].scene
                  THEN Thinned(s.screens[m].cards, s.screens[m].cards, i)
                  ELSE Alike(s.screens[m].cards, s.screens[m].cards)
    BY DEF Alike, SameCard
  <2>3. \A j \in 1 .. Len(s.entries) : SameEntry(s.entries[j], s.entries[j])  BY DEF SameEntry
  <2>4. ASSUME s.area # 0
        PROVE  \E j \in 1 .. Len(s.entries) :
                 s.entries[j].id = s.area /\ HasCard(s, s.pointer[1], j) /\ (s.pointer[1] <= 0 => j # i)
    <3>1. PICK j \in 1 .. Len(s.entries) : s.entries[j].id = s.area /\ HasCard(s, s.pointer[1], j)
      BY <1>s, <2>4 DEF Points
    <3>2. s.pointer[1] \in 1 .. n  BY <1>s, <2>4 DEF Points
    <3>3. ~(s.pointer[1] <= 0)  BY <3>2
    <3> QED  BY <3>1, <3>3
  <2>5. s.pointer = Outside => s.area = 0  BY <1>s DEF Points
  <2>6. Thins(s, s, i, 0)
    <3> HIDE DEF n
    <3> QED  BY <1>s, <2>2, <2>3, <2>4, <2>5, Zenon DEF Thins
  <2>7. s \in Stage(0)  BY <1>s, <2>6
  <2> QED  BY <2>1, <2>7
<1>2. ASSUME NEW u \in State, NEW k \in 1 .. n PROVE F[<<u, k>>] = RemoveOn(u, k, i)
  <2>1. <<u, k>> \in State \X (1 .. n)  OBVIOUS
  <2> QED  BY <2>1
<1>3. Leads(F, P, n)
  <2> SUFFICES ASSUME NEW k \in 1 .. n, NEW t1 \in Stage(k - 1) PROVE RemoveOn(t1, k, i) \in Stage(k)
    BY <1>2 DEF Leads
  <2> DEFINE v == RemoveOn(t1, k, i)
  <2>1. t1 \in State /\ Thins(s, t1, i, k - 1)  OBVIOUS
  <2>2. v \in State /\ Thins(s, v, i, k)  BY <2>1, ThinsStep
  <2> QED  BY <2>2
<1> HIDE DEF F, P
<1>4. PICK h \in [0 .. n -> State] : Runs(h, F, s, n)  BY <1>1, <1>3, Steps
<1> HIDE DEF n
<1>5. R(h)
  <2>1. ASSUME NEW k \in 1 .. n PROVE h[k] = RemoveOn(h[k - 1], k, i)
    <3>1. k - 1 \in 0 .. n  BY <1>1
    <3>2. h[k - 1] \in State /\ h[k] = F[<<h[k - 1], k>>]  BY <1>4, <3>1 DEF Runs
    <3> QED  BY <1>2, <3>2
  <2>2. h[0] = s /\ \A k \in 0 .. n : k = 0 \/ k \in 1 .. n  BY <1>1, <1>4 DEF Runs
  <2>3. \A k \in 0 .. n : h[k] = IF k = 0 THEN s ELSE RemoveOn(h[k - 1], k, i)  BY <2>1, <2>2
  <2> QED  BY <2>3
<1>6. R(after)  BY <1>5, Zenon
<1>7. t = after[n]  BY DEF RemoveAll, Each, n
<1> HIDE DEF after
<1>8. RunsIn(after, State, F, s, n)
  <2>1. after[0] = s  BY <1>1, <1>6
  <2>2. ASSUME NEW k \in 1 .. n, after[k - 1] \in State PROVE after[k] = F[<<after[k - 1], k>>]
    <3>1. k \in 0 .. n /\ k # 0  BY <1>1
    <3>2. after[k] = RemoveOn(after[k - 1], k, i)  BY <1>6, <3>1
    <3> QED  BY <1>2, <2>2, <3>2
  <2> QED  BY <2>1, <2>2 DEF RunsIn
<1>9. after[n] \in P[n]  BY <1>1, <1>3, <1>8, Steps
<1>10. after[n] \in Stage(n)  BY <1>1, <1>9 DEF P
<1> QED  BY <1>7, <1>10 DEF n

\* What has another id than the popup that goes is in order.
Leaves(s, id) ==
  /\ Sane(s) /\ Apart(s)
  /\ \A j \in 1 .. Len(s.entries) : s.entries[j].id # id => Fine(s, j) /\ Shown(s, j)

LEMMA RestGood ==
  ASSUME NEW s, NEW id, Leaves(s, id), NEW i \in 1 .. Len(s.entries), s.entries[i].id = id,
         NEW t \in State, Thins(s, t, i, Len(s.screens)),
         NEW rest, rest = [t EXCEPT !.entries = RemoveAt(@, i),
                                    !.calls = @ \ {<<"remove", id>>, <<"finish", id>>}]
  PROVE  Good(rest) /\ Keeps(s, rest)
<1> DEFINE m == Len(s.entries)
           B(j) == Before(i, j)
<1>1. /\ s \in State /\ Sane(s) /\ Distinct(s) /\ Apart(s) /\ Points(s)
      /\ \A n \in 1 .. Len(s.screens) : Line(s, n)
  BY DEF Leaves, Sane, Lined
<1>2. /\ DOMAIN t.notes = DOMAIN s.notes /\ s.calls \subseteq t.calls /\ t.pointer = s.pointer
      /\ Len(t.entries) = m /\ Len(t.screens) = Len(s.screens)
      /\ \A j \in 1 .. m : SameEntry(s.entries[j], t.entries[j])
      /\ \A j \in 1 .. m : Held(s, j) => Held(t, j)
      /\ s.pointer = Outside => t.area = 0
  BY DEF Thins
<1>3. t.entries \in Seq(Entry) /\ t.calls \in Calls /\ m \in Nat /\ i \in 1 .. m
  BY <1>1, StateFields
<1> DEFINE q == RemoveAt(t.entries, i)
           calls == t.calls \ {<<"remove", id>>, <<"finish", id>>}
<1>4. q \in Seq(Entry) /\ Shorter(t.entries, q, i)  BY <1>2, <1>3, RemovedAt
<1>5. calls \in Calls  BY <1>3 DEF Calls
<1>6. rest = [t EXCEPT !.entries = q, !.calls = calls]  BY DEF State
<1> HIDE DEF q, calls
<1>7. /\ rest \in State /\ rest.notes = t.notes /\ rest.entries = q /\ rest.screens = t.screens
      /\ rest.pointer = t.pointer /\ rest.area = t.area /\ rest.calls = calls
  BY <1>4, <1>5, <1>6 DEF State
<1>8. Len(q) = m - 1 /\ \A j \in 1 .. m - 1 : q[j] = t.entries[B(j)]
  BY <1>2, <1>4 DEF Shorter
<1>9. /\ \A j \in 1 .. m - 1 : B(j) \in 1 .. m /\ B(j) # i
      /\ \A j, k \in 1 .. m - 1 : B(j) = B(k) => j = k
      /\ \A j \in 1 .. m : j # i => \E k \in 1 .. m - 1 : B(k) = j
  BY <1>3, BeforeFacts
<1> HIDE DEF B, m
<1>10. \A j \in 1 .. m - 1 : SameEntry(s.entries[B(j)], q[j]) /\ s.entries[B(j)].id # id
  <2> TAKE j \in 1 .. m - 1
  <2>1. B(j) \in 1 .. m /\ B(j) # i  BY <1>9
  <2>2. SameEntry(s.entries[B(j)], q[j])  BY <1>2, <1>8, <2>1
  <2>3. s.entries[B(j)].id # id  BY <1>1, <2>1 DEF Distinct, m
  <2> QED  BY <2>2, <2>3
<1>11. \A j \in 1 .. m - 1 : Placed(q[j]) <=> Placed(s.entries[B(j)])
  BY <1>10, Zenon DEF SameEntry, Placed
<1>12. \A j \in 1 .. m - 1 : \A n : Fits(q[j], n) <=> Fits(s.entries[B(j)], n)
  BY <1>10, <1>11, Zenon DEF SameEntry, Fits
<1>13. Distinct(rest)
  <2> SUFFICES ASSUME NEW j \in 1 .. m - 1, NEW k \in 1 .. m - 1, q[j].id = q[k].id PROVE j = k
    BY <1>7, <1>8 DEF Distinct
  <2>1. s.entries[B(j)].id = s.entries[B(k)].id  BY <1>10 DEF SameEntry
  <2> QED  BY <1>1, <1>9, <2>1 DEF Distinct, m
<1>14. Apart(rest)
  <2> SUFFICES ASSUME NEW j \in 1 .. m - 1, Placed(q[j])
      PROVE  /\ Rows(q[j].y, q[j].height) \subseteq 0 .. MaxRoom - 1
             /\ \A k \in 1 .. m - 1 : k # j /\ Placed(q[k]) =>
                  Rows(q[j].y, q[j].height) \cap Rows(q[k].y, q[k].height) = {}
    BY <1>7, <1>8, Zenon DEF Apart
  <2>1. Placed(s.entries[B(j)]) /\ B(j) \in 1 .. Len(s.entries)  BY <1>9, <1>11 DEF m
  <2>2. /\ Rows(s.entries[B(j)].y, s.entries[B(j)].height) \subseteq 0 .. MaxRoom - 1
        /\ \A l \in 1 .. Len(s.entries) : l # B(j) /\ Placed(s.entries[l]) =>
             Rows(s.entries[B(j)].y, s.entries[B(j)].height)
               \cap Rows(s.entries[l].y, s.entries[l].height) = {}
    BY <1>1, <2>1 DEF Apart
  <2>3. \A k \in 1 .. m - 1 : q[k].y = s.entries[B(k)].y /\ q[k].height = s.entries[B(k)].height
    BY <1>10 DEF SameEntry
  <2>4. ASSUME NEW k \in 1 .. m - 1, k # j, Placed(q[k])
        PROVE  Rows(q[j].y, q[j].height) \cap Rows(q[k].y, q[k].height) = {}
    <3>1. B(k) \in 1 .. Len(s.entries) /\ B(k) # B(j) /\ Placed(s.entries[B(k)])
      BY <1>9, <1>11, <2>4 DEF m
    <3> QED  BY <2>2, <2>3, <3>1
  <2> QED  BY <2>2, <2>3, <2>4
\* The cards of screen n, if it has a scene, and where they come from.
<1>15. ASSUME NEW n \in 1 .. Len(s.screens), s.screens[n].scene
       PROVE  /\ Len(s.screens[n].cards) = m /\ Len(rest.screens[n].cards) = m - 1
              /\ \A j \in 1 .. m - 1 : SameCard(s.screens[n].cards[B(j)], rest.screens[n].cards[j])
  <2>1. Len(s.screens[n].cards) = m  BY <1>1, <1>15 DEF Line, m
  <2>2. n <= Len(s.screens)  OBVIOUS
  <2>3. Thinned(s.screens[n].cards, t.screens[n].cards, i)  BY <1>15, <2>2 DEF Thins
  <2> QED  BY <1>7, <2>1, <2>3 DEF Thinned, B
<1>16. ASSUME NEW n \in 1 .. Len(s.screens), ~s.screens[n].scene
       PROVE  Len(s.screens[n].cards) = 0 /\ Len(rest.screens[n].cards) = 0
  <2>1. Len(s.screens[n].cards) = 0  BY <1>1, <1>16 DEF Line
  <2>2. Alike(s.screens[n].cards, t.screens[n].cards)  BY <1>16 DEF Thins
  <2> QED  BY <1>7, <2>1, <2>2 DEF Alike
<1>17. \A n \in 1 .. Len(s.screens) : rest.screens[n].scene = s.screens[n].scene
  BY <1>7 DEF Thins
<1>18. ASSUME NEW n \in 1 .. Len(s.screens), NEW j \in 1 .. m - 1
       PROVE  /\ HasCard(rest, n, j) <=> HasCard(s, n, B(j))
              /\ HasCard(s, n, B(j)) => SameCard(s.screens[n].cards[B(j)], rest.screens[n].cards[j])
  <2>1. /\ DOMAIN s.screens[n].cards = 1 .. Len(s.screens[n].cards)
        /\ DOMAIN rest.screens[n].cards = 1 .. Len(rest.screens[n].cards)
    <3>1. n \in 1 .. Len(rest.screens)  BY <1>2, <1>7
    <3> QED  BY <1>1, <1>7, <3>1, ScreenFields
  <2>2. CASE s.screens[n].scene
    <3>1. B(j) \in DOMAIN s.screens[n].cards /\ j \in DOMAIN rest.screens[n].cards
      BY <1>9, <1>15, <2>1, <2>2
    <3>2. SameCard(s.screens[n].cards[B(j)], rest.screens[n].cards[j])  BY <1>15, <2>2
    <3> QED  BY <3>1, <3>2 DEF HasCard, SameCard
  <2>3. CASE ~s.screens[n].scene
    BY <1>16, <2>1, <2>3 DEF HasCard
  <2> QED  BY <2>2, <2>3
<1>19. ASSUME NEW n \in 1 .. Len(s.screens) PROVE Line(rest, n)
  <2>1. Len(rest.screens[n].cards) = IF rest.screens[n].scene THEN Len(rest.entries) ELSE 0
    BY <1>7, <1>8, <1>15, <1>16, <1>17
  <2>2. ASSUME NEW j \in 1 .. Len(rest.screens[n].cards), rest.screens[n].cards[j] # NoCard
        PROVE  /\ rest.screens[n].cards[j].id = rest.entries[j].id
               /\ rest.screens[n].cards[j].leave = "keep" =>
                    rest.entries[j].timeout = "never" \/ rest.entries[j].updated
    <3>1. s.screens[n].scene /\ j \in 1 .. m - 1  BY <1>15, <1>16
    <3>2. SameCard(s.screens[n].cards[B(j)], rest.screens[n].cards[j]) /\ SameEntry(s.entries[B(j)], q[j])
      BY <1>10, <1>15, <3>1
    <3>3. B(j) \in 1 .. Len(s.screens[n].cards) /\ s.screens[n].cards[B(j)] # NoCard
      BY <1>9, <1>15, <2>2, <3>1, <3>2 DEF SameCard
    <3>4. /\ s.screens[n].cards[B(j)].id = s.entries[B(j)].id
          /\ s.screens[n].cards[B(j)].leave = "keep" =>
               s.entries[B(j)].timeout = "never" \/ s.entries[B(j)].updated
      BY <1>1, <3>3 DEF Line
    <3> QED  BY <1>7, <3>2, <3>4, Zenon DEF SameCard, SameEntry
  <2> QED  BY <2>1, <2>2 DEF Line
<1>20. Points(rest)
  <2>1. s.pointer # Outside => s.pointer[1] \in 1 .. Len(s.screens)  BY <1>1 DEF Points
  <2>2. ASSUME t.area # 0
        PROVE  \E j \in 1 .. Len(q) : q[j].id = t.area /\ HasCard(rest, s.pointer[1], j)
    <3>1. PICK j \in 1 .. m :
            /\ s.entries[j].id = t.area /\ HasCard(s, s.pointer[1], j)
            /\ s.pointer[1] <= Len(s.screens) => j # i
      BY <2>2 DEF Thins, m
    <3>2. s.pointer[1] \in 1 .. Len(s.screens)  BY <1>2, <2>1, <2>2
    <3>3. j # i  BY <3>1, <3>2
    <3>4. PICK k \in 1 .. m - 1 : B(k) = j  BY <1>9, <3>3
    <3>5. HasCard(rest, s.pointer[1], k)  BY <1>18, <3>1, <3>2, <3>4
    <3>6. q[k].id = t.area  BY <1>10, <3>1, <3>4 DEF SameEntry
    <3> QED  BY <1>8, <3>5, <3>6
  <2> QED  BY <1>2, <1>7, <2>1, <2>2 DEF Points
<1>21. Sane(rest)  BY <1>2, <1>7, <1>13, <1>19, <1>20 DEF Sane, Lined
<1>22. ASSUME NEW j \in 1 .. m - 1 PROVE Fine(rest, j) /\ Shown(rest, j)
  <2> DEFINE b == B(j)
  <2>1. b \in 1 .. Len(s.entries) /\ b # i /\ s.entries[b].id # id /\ SameEntry(s.entries[b], q[j])
    BY <1>9, <1>10 DEF m
  <2>2. rest.entries[j] = q[j] /\ q[j] = t.entries[b]  BY <1>7, <1>8
  <2> HIDE DEF b
  <2>4. Fine(s, b) /\ Shown(s, b)  BY <2>1 DEF Leaves
  <2>5. Lasts(rest, j) /\ Live(rest, j)
    BY <1>2, <1>7, <2>1, <2>2, <2>4, Zenon DEF Fine, Lasts, Live, SameEntry
  <2>6. Held(rest, j)
    <3>1. Held(t, b)  BY <1>2, <2>1, <2>4 DEF Fine, m
    <3> QED  BY <1>7, <2>2, <3>1 DEF Held, Stopped
  <2>7. Driven(rest, j)
    <3> SUFFICES ASSUME q[j].exiting, ~q[j].lost
        PROVE  \/ <<"finish", q[j].id>> \in calls
               \/ 1 \in 1 .. Len(s.screens) /\ HasCard(rest, 1, j) /\ rest.screens[1].cards[j].exit
      BY <1>2, <1>7, <2>2 DEF Driven
    <3>1. s.entries[b].exiting /\ ~s.entries[b].lost /\ q[j].id = s.entries[b].id
      BY <2>1 DEF SameEntry
    <3>2. CASE <<"finish", s.entries[b].id>> \in s.calls
      <4>1. <<"finish", q[j].id>> \in t.calls  BY <1>2, <3>1, <3>2
      <4>2. <<"finish", q[j].id>> # <<"finish", id>> /\ <<"finish", q[j].id>> # <<"remove", id>>
        BY <2>1, <3>1
      <4> QED  BY <4>1, <4>2 DEF calls
    <3>3. CASE 1 \in 1 .. Len(s.screens) /\ HasCard(s, 1, b) /\ s.screens[1].cards[b].exit
      <4>1. HasCard(rest, 1, j) /\ SameCard(s.screens[1].cards[b], rest.screens[1].cards[j])
        BY <1>18, <3>3 DEF b
      <4> QED  BY <3>3, <4>1 DEF SameCard
    <3> QED  BY <2>4, <3>1, <3>2, <3>3 DEF Fine, Driven
  <2>8. ASSUME NEW n \in 1 .. Len(rest.screens) PROVE Shows(rest, n, j)
    <3>1. n \in 1 .. Len(s.screens)  BY <1>2, <1>7
    <3>2. Shows(s, n, b)  BY <2>4, <3>1 DEF Shown
    <3>3. HasCard(rest, n, j) <=> HasCard(s, n, b)  BY <1>18, <3>1 DEF b
    <3>4. Fits(q[j], n) <=> Fits(s.entries[b], n)  BY <1>12 DEF b
    <3>5. rest.screens[n].scene = s.screens[n].scene  BY <1>17, <3>1
    <3> QED  BY <2>1, <2>2, <3>2, <3>3, <3>4, <3>5, Zenon DEF Shows, SameEntry
  <2> QED  BY <2>5, <2>6, <2>7, <2>8 DEF Fine, Shown
<1>23. Keeps(s, rest)
  <2>1. \A j \in 1 .. m - 1 : q[j].id = s.entries[B(j)].id /\ B(j) \in 1 .. Len(s.entries)
    BY <1>9, <1>10 DEF SameEntry, m
  <2> QED  BY <1>2, <1>7, <1>8, <2>1 DEF Keeps
<1> QED  BY <1>7, <1>8, <1>14, <1>21, <1>22, <1>23 DEF Good

\* Who waits for a place has none; somebody who leaves will look again.
Crowded(s) == \A i \in 1 .. Len(s.entries) : Waits(s, i)
Moves(s) == Crowded(s) \/ \E i \in 1 .. Len(s.entries) : s.entries[i].exiting

LEMMA FinishRemovalGood ==
  ASSUME NEW s, NEW id, Leaves(s, id), NEW t, t = FinishRemoval(s, id)
  PROVE  Good(t) /\ Keeps(s, t) /\ (Moves(s) => Moves(t))
<1> DEFINE i == Find(s, id)
           all == RemoveAll(s, i)
           rest == [all EXCEPT !.entries = RemoveAt(@, i),
                               !.calls = @ \ {<<"remove", id>>, <<"finish", id>>}]
<1>1. s \in State /\ Sane(s) /\ Distinct(s)  BY DEF Leaves, Sane, Lined
<1>2. t = IF i = 0 THEN s ELSE IF rest.entries = <<>> THEN DestroySurfaces(rest) ELSE Reveal(rest)
  BY DEF FinishRemoval, RemoveAll, RemoveOn
<1> HIDE DEF rest
<1>3. CASE i = 0
  <2>1. t = s  BY <1>2, <1>3
  <2>2. \A j \in 1 .. Len(s.entries) : s.entries[j].id # id  BY <1>1, <1>3, FindFacts
  <2>3. Good(s) /\ Keeps(s, s)  BY <2>2 DEF Leaves, Good, Keeps
  <2> QED  BY <2>1, <2>3
<1>4. CASE i # 0
  <2>1. i \in 1 .. Len(s.entries) /\ s.entries[i].id = id  BY <1>1, <1>4, FindFacts
  <2> HIDE DEF i
  <2>2. all = RemoveAll(s, i)  OBVIOUS
  <2> HIDE DEF all
  <2>3. all \in State /\ Thins(s, all, i, Len(s.screens))  BY <1>1, <2>1, <2>2, ThinsAll
  <2>4. Good(rest) /\ Keeps(s, rest)  BY <2>1, <2>3, RestGood DEF rest
  <2>5. CASE rest.entries = <<>>
    <3>1. t = DestroySurfaces(rest)  BY <1>2, <1>4, <2>5
    <3>2. t \in State /\ Good(t) /\ Keeps(rest, t) /\ Len(t.entries) = 0  BY <2>4, <3>1, DestroyGood
    <3>3. Crowded(t)  BY <3>2 DEF Crowded
    <3> QED  BY <2>4, <3>2, <3>3, KeepsTrans DEF Moves
  <2>6. CASE rest.entries # <<>>
    <3>1. t = Reveal(rest)  BY <1>2, <1>4, <2>6
    <3>2. t \in State /\ Good(t) /\ Settles(rest, t) /\ \A j \in 1 .. Len(t.entries) : Waits(t, j)
      BY <2>4, <3>1, RevealGood
    <3>3. Keeps(s, t)  BY <2>4, <3>2, SettlesKeeps, KeepsTrans
    <3> QED  BY <3>2, <3>3 DEF Moves, Crowded
  <2> QED  BY <2>5, <2>6
<1> QED  BY <1>3, <1>4

-----------------------------------------------------------------------------
(* Popups leave. *)

\* From s to t the cards at i started to leave, on screens of N.
Parts(s, t, i, N) ==
  /\ t \in State /\ Like(s, t, i) /\ Sane(t)
  /\ t.notes = s.notes /\ t.entries = s.entries /\ t.calls = s.calls
  /\ \A m \in 1 .. Len(s.screens) : HasCard(t, m, i) <=> HasCard(s, m, i)
  /\ \A m \in N : HasCard(t, m, i) => t.screens[m].cards[i].exit

LEMMA DismissOnParts ==
  ASSUME NEW s, Sane(s), NEW n \in 1 .. Len(s.screens), NEW i \in 1 .. Len(s.entries),
         NEW N \in SUBSET (1 .. Len(s.screens)),
         \A m \in N : HasCard(s, m, i) => s.screens[m].cards[i].exit,
         NEW t, t = DismissOn(s, n, i)
  PROVE  Parts(s, t, i, N \cup {n})
<1>1. s \in State /\ Lined(s) /\ Points(s)  BY DEF Sane, Lined
<1>2. CASE ~HasCard(s, n, i)
  <2>1. t = s  BY <1>2 DEF DismissOn
  <2> QED  BY <1>1, <1>2, <2>1, LikeSelf DEF Parts
<1>3. CASE HasCard(s, n, i)
  <2> DEFINE c == s.screens[n].cards[i]
             d == [c EXCEPT !.countdown = "off", !.exit = TRUE]
  <2>1. c \in Card /\ i \in 1 .. Len(s.screens[n].cards)  BY <1>1, <1>3, HasCardFields
  <2>2. d \in Card /\ d.id = c.id /\ d.leave = c.leave /\ d.exit = TRUE  BY <2>1 DEF Card
  <2>3. d \in Cards /\ d # NoCard /\ c # NoCard  BY <2>1, <2>2, CardFields
  <2>4. t = SetCard(s, n, i, d)  BY <1>3 DEF DismissOn
  <2>5. /\ c.id = s.entries[i].id
        /\ c.leave = "keep" => s.entries[i].timeout = "never" \/ s.entries[i].updated
    BY <1>1, <2>1, <2>3 DEF Lined, Line
  <2> HIDE DEF d
  <2>6. /\ t \in State /\ t.notes = s.notes /\ t.entries = s.entries /\ t.pointer = s.pointer
        /\ t.area = s.area /\ t.calls = s.calls /\ Len(t.screens) = Len(s.screens)
        /\ Swapped(s, t, n, i, d)
    BY <1>1, <2>1, <2>3, <2>4, CardSet, SMTT(30)
  <2>7. Like(s, t, i)  BY <1>1, <2>1, <2>3, <2>4, CardLike
  <2>8. Lined(t)  BY <1>1, <2>1, <2>2, <2>3, <2>4, <2>5, CardLines
  <2>9. ASSUME NEW m \in 1 .. Len(s.screens)
        PROVE  /\ \A j : HasCard(t, m, j) <=> HasCard(s, m, j)
               /\ \A j \in 1 .. Len(s.screens[m].cards) :
                    t.screens[m].cards[j] = IF m = n /\ j = i THEN d ELSE s.screens[m].cards[j]
    <3>1. /\ Len(t.screens[m].cards) = Len(s.screens[m].cards)
          /\ \A j \in 1 .. Len(s.screens[m].cards) :
               t.screens[m].cards[j] = IF m = n /\ j = i THEN d ELSE s.screens[m].cards[j]
      BY <2>6 DEF Swapped
    <3>2. /\ DOMAIN s.screens[m].cards = 1 .. Len(s.screens[m].cards)
          /\ DOMAIN t.screens[m].cards = 1 .. Len(s.screens[m].cards)
      <4>1. m \in 1 .. Len(t.screens)  BY <2>6
      <4> QED  BY <1>1, <2>6, <3>1, <4>1, ScreenFields
    <3> QED  BY <1>3, <2>3, <3>1, <3>2 DEF HasCard
  <2>10. Points(t)
    <3>1. \A m \in 1 .. Len(s.screens) : \A j : HasCard(t, m, j) <=> HasCard(s, m, j)  BY <2>9
    <3>2. s.area # 0 => s.pointer[1] \in 1 .. Len(s.screens)  BY <1>1 DEF Points
    <3> QED  BY <1>1, <2>6, <3>1, <3>2 DEF Points
  <2>11. ASSUME NEW m \in N \cup {n}, HasCard(t, m, i) PROVE t.screens[m].cards[i].exit
    <3>1. m \in 1 .. Len(s.screens)  OBVIOUS
    <3>2. HasCard(s, m, i)  BY <2>9, <2>11, <3>1
    <3>3. i \in 1 .. Len(s.screens[m].cards)  BY <1>1, <3>1, <3>2, HasCardFields
    <3>4. CASE m = n  BY <2>2, <2>9, <3>1, <3>3, <3>4
    <3>5. CASE m # n
      <4>1. t.screens[m].cards[i] = s.screens[m].cards[i]  BY <2>9, <3>1, <3>3, <3>5
      <4> QED  BY <3>2, <3>5, <4>1
    <3> QED  BY <3>4, <3>5
  <2>12. \A m \in 1 .. Len(s.screens) : HasCard(t, m, i) <=> HasCard(s, m, i)  BY <2>9
  <2> QED  BY <2>6, <2>7, <2>8, <2>10, <2>11, <2>12 DEF Parts, Sane
<1> QED  BY <1>2, <1>3

\* All of them.
DismissAll(s, i, n) == LET dismiss(t, m) == DismissOn(t, m, i) IN Each(dismiss, s, n)

LEMMA DismissAllParts ==
  ASSUME NEW s, Sane(s), NEW i \in 1 .. Len(s.entries), NEW N, N = Len(s.screens),
         NEW t, t = DismissAll(s, i, N)
  PROVE  Parts(s, t, i, 1 .. N)
<1>s. s \in State  BY DEF Sane, Lined
<1> DEFINE n == N
           R(g) == g = [k \in 0 .. n |-> IF k = 0 THEN s ELSE DismissOn(g[k - 1], k, i)]
           after == CHOOSE g : R(g)
           F == [x \in State \X (1 .. n) |-> DismissOn(x[1], x[2], i)]
           Stage(k) == {u \in State : Parts(s, u, i, 1 .. k)}
           P == [k \in 0 .. n |-> Stage(k)]
<1>1. n \in Nat /\ P \in [0 .. n -> SUBSET State] /\ s \in P[0]
  <2>1. n \in Nat  BY <1>s, StateFields
  <2>2. Parts(s, s, i, 1 .. 0)  BY <1>s, LikeSelf DEF Parts
  <2>3. s \in Stage(0)  BY <1>s, <2>2
  <2> QED  BY <2>1, <2>3
<1>2. ASSUME NEW u \in State, NEW k \in 1 .. n PROVE F[<<u, k>>] = DismissOn(u, k, i)
  <2>1. <<u, k>> \in State \X (1 .. n)  OBVIOUS
  <2> QED  BY <2>1
<1>3. Leads(F, P, n)
  <2> SUFFICES ASSUME NEW k \in 1 .. n, NEW t1 \in Stage(k - 1) PROVE DismissOn(t1, k, i) \in Stage(k)
    BY <1>2 DEF Leads
  <2> DEFINE v == DismissOn(t1, k, i)
  <2>1. /\ t1 \in State /\ Like(s, t1, i) /\ Sane(t1)
        /\ t1.notes = s.notes /\ t1.entries = s.entries /\ t1.calls = s.calls
        /\ \A m \in 1 .. Len(s.screens) : HasCard(t1, m, i) <=> HasCard(s, m, i)
        /\ \A m \in 1 .. k - 1 : HasCard(t1, m, i) => t1.screens[m].cards[i].exit
    BY DEF Parts
  <2>2. Len(t1.screens) = n /\ i \in 1 .. Len(t1.entries) /\ 1 .. k - 1 \in SUBSET (1 .. Len(t1.screens))
    <3>1. Len(t1.screens) = n  BY <2>1 DEF Like
    <3> QED  BY <2>1, <3>1
  <2>3. (1 .. k - 1) \cup {k} = 1 .. k /\ k \in 1 .. Len(t1.screens)  BY <2>2
  <2>4. Parts(t1, v, i, (1 .. k - 1) \cup {k})  BY <2>1, <2>2, <2>3, DismissOnParts
  <2> HIDE DEF v
  <2>5. Parts(t1, v, i, 1 .. k)  BY <2>3, <2>4
  <2>6. /\ v \in State /\ Like(t1, v, i) /\ Sane(v)
        /\ v.notes = s.notes /\ v.entries = s.entries /\ v.calls = s.calls
        /\ \A m \in 1 .. Len(s.screens) : HasCard(v, m, i) <=> HasCard(s, m, i)
        /\ \A m \in 1 .. k : HasCard(v, m, i) => v.screens[m].cards[i].exit
    BY <2>1, <2>2, <2>5 DEF Parts
  <2>7. Like(s, v, i)  BY <1>s, <2>1, <2>6, LikeTrans
  <2> QED  BY <2>6, <2>7 DEF Parts, v
<1> HIDE DEF F, P
<1>4. PICK h \in [0 .. n -> State] : Runs(h, F, s, n)  BY <1>1, <1>3, Steps
<1> HIDE DEF n
<1>5. R(h)
  <2>1. ASSUME NEW k \in 1 .. n PROVE h[k] = DismissOn(h[k - 1], k, i)
    <3>1. k - 1 \in 0 .. n  BY <1>1
    <3>2. h[k - 1] \in State /\ h[k] = F[<<h[k - 1], k>>]  BY <1>4, <3>1 DEF Runs
    <3> QED  BY <1>2, <3>2
  <2>2. h[0] = s /\ \A k \in 0 .. n : k = 0 \/ k \in 1 .. n  BY <1>1, <1>4 DEF Runs
  <2>3. \A k \in 0 .. n : h[k] = IF k = 0 THEN s ELSE DismissOn(h[k - 1], k, i)  BY <2>1, <2>2
  <2> QED  BY <2>3
<1>6. R(after)  BY <1>5, Zenon
<1>7. t = after[n]  BY DEF DismissAll, Each, n
<1> HIDE DEF after
<1>8. RunsIn(after, State, F, s, n)
  <2>1. after[0] = s  BY <1>1, <1>6
  <2>2. ASSUME NEW k \in 1 .. n, after[k - 1] \in State PROVE after[k] = F[<<after[k - 1], k>>]
    <3>1. k \in 0 .. n /\ k # 0  BY <1>1
    <3>2. after[k] = DismissOn(after[k - 1], k, i)  BY <1>6, <3>1
    <3> QED  BY <1>2, <2>2, <3>2
  <2> QED  BY <2>1, <2>2 DEF RunsIn
<1>9. after[n] \in P[n]  BY <1>1, <1>3, <1>8, Steps
<1>10. after[n] \in Stage(n)  BY <1>1, <1>9 DEF P
<1> QED  BY <1>7, <1>10 DEF n

\* All is in order but that id may not be live any more.
Nearly(s, id) ==
  /\ Sane(s) /\ Apart(s)
  /\ \A j \in 1 .. Len(s.entries) :
       /\ Lasts(s, j) /\ Driven(s, j) /\ Held(s, j) /\ Shown(s, j)
       /\ s.entries[j].id # id => Live(s, j)

LEMMA RemovePopupGood ==
  ASSUME NEW s, NEW id, Nearly(s, id), NEW t, t = RemovePopup(s, id)
  PROVE  Good(t) /\ Keeps(s, t) /\ (Moves(s) => Moves(t))
<1> DEFINE i == Find(s, id)
           seen(n) == n \in DOMAIN s.screens /\ HasCard(s, n, i)
           e == [s.entries[i] EXCEPT !.exiting = TRUE, !.lost = ~seen(1)]
           leaving == SetEntry(s, i, e)
           dismissed == DismissAll(leaving, i, Len(s.screens))
<1>1. s \in State /\ Sane(s) /\ Distinct(s) /\ Apart(s)  BY DEF Nearly, Sane, Lined
<1>2. t = IF i = 0 \/ s.entries[i].exiting THEN s
          ELSE IF \E n \in Screens : seen(n) THEN dismissed ELSE FinishRemoval(leaving, id)
  BY DEF RemovePopup, DismissAll
<1>3. i # 0 => i \in 1 .. Len(s.entries) /\ s.entries[i].id = id  BY <1>1, FindFacts
<1>4. i = 0 => \A j \in 1 .. Len(s.entries) : s.entries[j].id # id  BY <1>1, FindFacts
<1> HIDE DEF i, dismissed
<1>5. CASE i = 0 \/ s.entries[i].exiting
  <2>1. t = s  BY <1>2, <1>5
  <2>2. ASSUME NEW j \in 1 .. Len(s.entries) PROVE Live(s, j)
    <3>1. CASE s.entries[j].id # id  BY <3>1 DEF Nearly
    <3>2. CASE s.entries[j].id = id
      <4>1. i # 0  BY <1>4, <3>2
      <4>2. j = i /\ s.entries[j].exiting  BY <1>1, <1>3, <1>5, <3>2, <4>1 DEF Distinct
      <4> QED  BY <4>2 DEF Live
    <3> QED  BY <3>1, <3>2
  <2> QED  BY <2>1, <2>2 DEF Nearly, Good, Fine, Keeps
<1>6. CASE i # 0 /\ ~s.entries[i].exiting
  <2>1. i \in 1 .. Len(s.entries) /\ s.entries[i].id = id /\ s.entries[i] \in Entry
    BY <1>1, <1>3, <1>6, StateFields
  <2>2. /\ e \in Entry /\ e.id = id /\ e.timeout = s.entries[i].timeout /\ e.lasts = s.entries[i].lasts
        /\ e.exiting = TRUE /\ e.lost = ~seen(1) /\ e.updated = s.entries[i].updated
    <3>1. (~seen(1)) \in BOOLEAN  OBVIOUS
    <3> HIDE DEF seen
    <3> QED  BY <2>1, <3>1 DEF Entry
  <2> HIDE DEF e
  <2>3. leaving = SetEntry(s, i, e)  OBVIOUS
  <2> HIDE DEF leaving
  <2>4. /\ leaving \in State /\ leaving.notes = s.notes /\ leaving.screens = s.screens
        /\ leaving.pointer = s.pointer /\ leaving.area = s.area /\ leaving.calls = s.calls
        /\ Len(leaving.entries) = Len(s.entries)
        /\ \A j \in 1 .. Len(s.entries) : leaving.entries[j] = IF j = i THEN e ELSE s.entries[j]
    BY <1>1, <2>1, <2>2, <2>3, EntrySet
  <2>5. /\ Sane(leaving)
        /\ \A j \in 1 .. Len(s.entries) : j # i =>
             (Fine(s, j) => Fine(leaving, j)) /\ (Shown(s, j) => Shown(leaving, j))
    BY <1>1, <2>1, <2>2, <2>3, EntryChanged
  <2>6. \A j \in 1 .. Len(s.entries) : j # i => Fine(leaving, j) /\ Shown(leaving, j)
    <3>1. \A j \in 1 .. Len(s.entries) : j # i => s.entries[j].id # id  BY <1>1, <2>1 DEF Distinct
    <3>2. \A j \in 1 .. Len(s.entries) : j # i => Fine(s, j) /\ Shown(s, j)
      BY <3>1 DEF Nearly, Fine
    <3> QED  BY <2>5, <3>2
  <2>7. leaving.entries[i] = e /\ ~Placed(e)  BY <2>1, <2>2, <2>4 DEF Placed
  <2>8. Apart(leaving)
    <3> DEFINE R(j) == Rows(s.entries[j].y, s.entries[j].height)
               Q(j) == Rows(leaving.entries[j].y, leaving.entries[j].height)
    <3>1. \A j \in 1 .. Len(s.entries) : Placed(leaving.entries[j]) =>
            j # i /\ Placed(s.entries[j]) /\ Q(j) = R(j)
      BY <2>4, <2>7
    <3>2. \A j \in 1 .. Len(s.entries) : Placed(s.entries[j]) =>
            /\ R(j) \subseteq 0 .. MaxRoom - 1
            /\ \A k \in 1 .. Len(s.entries) : k # j /\ Placed(s.entries[k]) => R(j) \cap R(k) = {}
      BY <1>1 DEF Apart
    <3> HIDE DEF Q, R, Placed
    <3>3. \A j \in 1 .. Len(s.entries) : Placed(leaving.entries[j]) =>
            /\ Q(j) \subseteq 0 .. MaxRoom - 1
            /\ \A k \in 1 .. Len(s.entries) : k # j /\ Placed(leaving.entries[k]) => Q(j) \cap Q(k) = {}
      BY <3>1, <3>2
    <3> QED  BY <2>4, <3>3 DEF Apart, Q
  <2>9. Keeps(s, leaving)  BY <2>1, <2>2, <2>4 DEF Keeps
  <2>10. CASE \E n \in Screens : seen(n)
    <3>1. t = dismissed  BY <1>2, <1>6, <2>10
    <3>2. Parts(leaving, t, i, 1 .. Len(s.screens))
      <4>1. i \in 1 .. Len(leaving.entries) /\ Len(s.screens) = Len(leaving.screens)  BY <2>1, <2>4
      <4> QED  BY <2>5, <3>1, <4>1, DismissAllParts DEF dismissed
    <3>3. /\ t \in State /\ Like(leaving, t, i) /\ Sane(t)
          /\ t.notes = leaving.notes /\ t.entries = leaving.entries /\ t.calls = leaving.calls
          /\ \A m \in 1 .. Len(leaving.screens) : HasCard(t, m, i) <=> HasCard(leaving, m, i)
          /\ \A m \in 1 .. Len(s.screens) : HasCard(t, m, i) => t.screens[m].cards[i].exit
      BY <3>2 DEF Parts
    <3>4. Len(t.screens) = Len(leaving.screens)  BY <3>3 DEF Like
    <3>5. ASSUME NEW j \in 1 .. Len(s.entries) PROVE Fine(t, j) /\ Shown(t, j)
      <4>1. CASE j # i
        <5>1. Fine(leaving, j) /\ Shown(leaving, j)  BY <2>6, <4>1
        <5>2. Lasts(t, j) /\ Held(t, j) /\ Live(t, j)
          BY <3>3, <5>1 DEF Fine, Lasts, Held, Stopped, Live
        <5>3. j \in 1 .. Len(leaving.entries)  BY <2>4
        <5>4. Driven(t, j)  BY <2>4, <3>3, <4>1, <5>1, <5>3, LikeDriven DEF Fine
        <5>5. \A n \in 1 .. Len(leaving.screens) : Shows(t, n, j)
          BY <2>4, <3>3, <4>1, <5>1, <5>3, LikeDriven DEF Shown
        <5> QED  BY <3>4, <5>2, <5>4, <5>5 DEF Fine, Shown
      <4>2. CASE j = i
        <5>1. t.entries[i] = e  BY <2>7, <3>3
        <5>2. Shown(t, i) /\ Live(t, i) /\ Held(t, i)
          BY <2>2, <2>7, <5>1 DEF Shown, Shows, Live, Held, Stopped
        <5>3. Lasts(t, i)
          <6>1. Lasts(s, i)  BY <2>1 DEF Nearly
          <6> QED  BY <2>2, <5>1, <6>1, Zenon DEF Lasts
        <5>4. Driven(t, i)
          <6>1. ASSUME ~e.lost PROVE 1 \in 1 .. Len(t.screens) /\ HasCard(t, 1, i) /\ t.screens[1].cards[i].exit
            <7>1. seen(1)  BY <2>2, <6>1, Zenon
            <7>2. 1 \in 1 .. Len(s.screens) /\ HasCard(s, 1, i)  BY <1>1, <7>1, StateFields
            <7>3. HasCard(leaving, 1, i)  BY <2>4, <7>2 DEF HasCard
            <7>4. HasCard(t, 1, i)  BY <2>4, <3>3, <7>2, <7>3
            <7> QED  BY <2>4, <3>3, <3>4, <7>2, <7>4
          <6> QED  BY <5>1, <6>1 DEF Driven
        <5> QED  BY <4>2, <5>2, <5>3, <5>4 DEF Fine
      <4> QED  BY <4>1, <4>2
    <3>6. Apart(t)  BY <2>4, <2>8, <3>3, LikeWhole
    <3>7. Good(t)  BY <2>4, <3>3, <3>5, <3>6 DEF Good
    <3>8. Keeps(s, t)
      <4>1. Keeps(leaving, t)  BY <3>3 DEF Keeps
      <4> QED  BY <2>9, <4>1, KeepsTrans
    <3>9. Moves(t)
      <4>1. i \in 1 .. Len(t.entries) /\ t.entries[i].exiting  BY <2>1, <2>2, <2>4, <2>7, <3>3
      <4> QED  BY <4>1 DEF Moves
    <3> QED  BY <3>7, <3>8, <3>9
  <2>11. CASE ~\E n \in Screens : seen(n)
    <3>1. t = FinishRemoval(leaving, id)  BY <1>2, <1>6, <2>11
    <3>2. Leaves(leaving, id)
      <4>1. \A j \in 1 .. Len(s.entries) : leaving.entries[j].id # id => j # i  BY <2>2, <2>7
      <4> QED  BY <2>4, <2>5, <2>6, <2>8, <4>1 DEF Leaves
    <3>3. Good(t) /\ Keeps(leaving, t) /\ (Moves(leaving) => Moves(t))
      BY <3>1, <3>2, FinishRemovalGood
    <3>4. Moves(leaving)
      <4>1. i \in 1 .. Len(leaving.entries) /\ leaving.entries[i].exiting  BY SMTT(30), <2>1, <2>2, <2>4, <2>7
      <4> QED  BY <4>1 DEF Moves
    <3> QED  BY <2>9, <3>3, <3>4, KeepsTrans
  <2> QED  BY <2>10, <2>11
<1> QED  BY <1>5, <1>6

-----------------------------------------------------------------------------
(* Popups come. *)

\* t is s with another entry, which has no cards yet.
Longer(s, t, e) ==
  /\ t \in State /\ t.notes = s.notes /\ t.pointer = s.pointer /\ t.area = s.area /\ t.calls = s.calls
  /\ Len(t.entries) = Len(s.entries) + 1 /\ Len(t.screens) = Len(s.screens)
  /\ t.entries[Len(s.entries) + 1] = e
  /\ \A j \in 1 .. Len(s.entries) : t.entries[j] = s.entries[j]
  /\ \A n \in 1 .. Len(s.screens) :
       /\ t.screens[n].scene = s.screens[n].scene
       /\ IF s.screens[n].scene
          THEN /\ Len(t.screens[n].cards) = Len(s.screens[n].cards) + 1
               /\ t.screens[n].cards[Len(s.screens[n].cards) + 1] = NoCard
          ELSE Len(t.screens[n].cards) = Len(s.screens[n].cards)
       /\ \A j \in 1 .. Len(s.screens[n].cards) : t.screens[n].cards[j] = s.screens[n].cards[j]

LEMMA EntryAdded ==
  ASSUME NEW s \in State, NEW e \in Entry,
         NEW t, t = [s EXCEPT !.entries = Append(@, e),
                              !.screens = [n \in DOMAIN @ |->
                                 IF @[n].scene
                                 THEN [@[n] EXCEPT !.cards = Append(s.screens[n].cards, NoCard)]
                                 ELSE @[n]]]
  PROVE  Longer(s, t, e)
<1> DEFINE m == Len(s.screens)
           q(n) == Append(s.screens[n].cards, NoCard)
           r(n) == IF s.screens[n].scene THEN [s.screens[n] EXCEPT !.cards = q(n)] ELSE s.screens[n]
           p == [n \in 1 .. m |-> r(n)]
           entries == Append(s.entries, e)
<1>1. /\ s.entries \in Seq(Entry) /\ Len(s.entries) \in Nat /\ m \in Nat /\ DOMAIN s.screens = 1 .. m
      /\ s.screens \in Seq(Screen)
  BY StateFields
<1>2. /\ entries \in Seq(Entry) /\ Len(entries) = Len(s.entries) + 1
      /\ entries[Len(s.entries) + 1] = e
      /\ \A j \in 1 .. Len(s.entries) : entries[j] = s.entries[j]
  BY <1>1, AppendProperties
<1>3. ASSUME NEW n \in 1 .. m
      PROVE  /\ q(n) \in Seq(Cards) /\ Len(q(n)) = Len(s.screens[n].cards) + 1
             /\ q(n)[Len(s.screens[n].cards) + 1] = NoCard
             /\ \A j \in 1 .. Len(s.screens[n].cards) : q(n)[j] = s.screens[n].cards[j]
  <2>1. s.screens[n].cards \in Seq(Cards) /\ NoCard \in Cards  BY ScreenFields, CardFields
  <2> QED  BY <2>1, AppendProperties
<1>4. t = [s EXCEPT !.entries = entries, !.screens = p]  BY <1>1
<1> HIDE DEF entries, q
<1>5. ASSUME NEW n \in 1 .. m
      PROVE  /\ r(n) \in Screen /\ r(n).scene = s.screens[n].scene
             /\ r(n).cards = IF s.screens[n].scene THEN q(n) ELSE s.screens[n].cards
  <2>1. s.screens[n] \in Screen  BY ScreenFields
  <2>2. CASE s.screens[n].scene
    <3>1. r(n) = [s.screens[n] EXCEPT !.cards = q(n)]  BY <2>2
    <3> HIDE DEF r
    <3> QED  BY <1>3, <2>1, <2>2, <3>1 DEF Screen
  <2>3. CASE ~s.screens[n].scene
    <3>1. r(n) = s.screens[n]  BY <2>3
    <3> HIDE DEF r
    <3> QED  BY <2>1, <2>3, <3>1
  <2> QED  BY <2>2, <2>3
<1> HIDE DEF r
<1>6. p \in Seq(Screen) /\ Len(p) = m /\ \A n \in 1 .. m : p[n] = r(n)
  BY <1>1, <1>5, SeqDef, LenProperties
<1> HIDE DEF p, m
<1>7. /\ t \in State /\ t.notes = s.notes /\ t.entries = entries /\ t.screens = p
      /\ t.pointer = s.pointer /\ t.area = s.area /\ t.calls = s.calls
  BY <1>2, <1>4, <1>6 DEF State
<1>8. ASSUME NEW n \in 1 .. m
      PROVE  /\ t.screens[n].scene = s.screens[n].scene
             /\ IF s.screens[n].scene
                THEN /\ Len(t.screens[n].cards) = Len(s.screens[n].cards) + 1
                     /\ t.screens[n].cards[Len(s.screens[n].cards) + 1] = NoCard
                ELSE Len(t.screens[n].cards) = Len(s.screens[n].cards)
             /\ \A j \in 1 .. Len(s.screens[n].cards) : t.screens[n].cards[j] = s.screens[n].cards[j]
  <2> DEFINE c == s.screens[n].cards
  <2>1. t.screens[n] = r(n)  BY <1>6, <1>7
  <2>2. /\ t.screens[n].scene = s.screens[n].scene
        /\ t.screens[n].cards = IF s.screens[n].scene THEN q(n) ELSE c
    BY <1>5, <2>1
  <2>3. /\ Len(q(n)) = Len(c) + 1 /\ q(n)[Len(c) + 1] = NoCard
        /\ \A j \in 1 .. Len(c) : q(n)[j] = c[j]
    BY <1>3
  <2>4. CASE s.screens[n].scene
    <3>1. t.screens[n].cards = q(n)  BY <2>2, <2>4
    <3> HIDE DEF c
    <3> QED  BY <2>2, <2>3, <2>4, <3>1 DEF c
  <2>5. CASE ~s.screens[n].scene
    <3>1. t.screens[n].cards = c  BY <2>2, <2>5
    <3> QED  BY <2>2, <2>5, <3>1
  <2> QED  BY <2>4, <2>5
<1> QED  BY <1>2, <1>6, <1>7, <1>8 DEF Longer, m

LEMMA LongerGood ==
  ASSUME NEW s, Good(s), NEW e \in Entry, \A i \in 1 .. Len(s.entries) : s.entries[i].id # e.id,
         NEW t, Longer(s, t, e), ~e.exiting, e.lasts = (e.timeout = "never"), e.id \in DOMAIN s.notes,
         Placed(e) /\ e.timeout = "timed" => s.notes[e.id].counting,
         Placed(e) => e.y \in Free(s, e.height)
  PROVE  GoodBut(t, Len(t.entries))
<1> DEFINE m == Len(s.entries)
<1>1. /\ s \in State /\ Distinct(s) /\ Points(s) /\ Apart(s)
      /\ \A n \in 1 .. Len(s.screens) : Line(s, n)
      /\ \A i \in 1 .. m : Fine(s, i) /\ Shown(s, i)
  BY DEF Good, Sane, Lined
<1>2. /\ t \in State /\ t.notes = s.notes /\ t.pointer = s.pointer /\ t.area = s.area /\ t.calls = s.calls
      /\ Len(t.entries) = m + 1 /\ Len(t.screens) = Len(s.screens) /\ t.entries[m + 1] = e
      /\ \A j \in 1 .. m : t.entries[j] = s.entries[j]
  BY DEF Longer
<1>3. m \in Nat  BY <1>1, StateFields
<1>4. ASSUME NEW n \in 1 .. Len(s.screens)
      PROVE  /\ t.screens[n].scene = s.screens[n].scene
             /\ IF s.screens[n].scene
                THEN /\ Len(s.screens[n].cards) = m /\ Len(t.screens[n].cards) = m + 1
                     /\ t.screens[n].cards[m + 1] = NoCard
                ELSE Len(s.screens[n].cards) = 0 /\ Len(t.screens[n].cards) = 0
             /\ \A j \in 1 .. Len(s.screens[n].cards) : t.screens[n].cards[j] = s.screens[n].cards[j]
  <2>1. Len(s.screens[n].cards) = IF s.screens[n].scene THEN m ELSE 0  BY <1>1 DEF Line
  <2> QED  BY <2>1 DEF Longer
<1>5. ASSUME NEW n \in 1 .. Len(s.screens)
      PROVE  \A j : HasCard(t, n, j) <=> HasCard(s, n, j)
  <2>1. /\ DOMAIN s.screens[n].cards = 1 .. Len(s.screens[n].cards)
        /\ DOMAIN t.screens[n].cards = 1 .. Len(t.screens[n].cards)
    <3>1. n \in 1 .. Len(t.screens)  BY <1>2
    <3> QED  BY <1>1, <1>2, <3>1, ScreenFields
  <2> DEFINE c == s.screens[n].cards
             d == t.screens[n].cards
  <2>2. /\ Len(c) \in Nat
        /\ Len(d) = Len(c) \/ (Len(c) = m /\ Len(d) = m + 1 /\ d[m + 1] = NoCard)
        /\ \A j \in 1 .. Len(c) : d[j] = c[j]
    BY <1>1, <1>4, ScreenFields
  <2> SUFFICES ASSUME NEW j
               PROVE  (j \in DOMAIN d /\ d[j] # NoCard) <=> (j \in DOMAIN c /\ c[j] # NoCard)
    BY DEF HasCard
  <2> HIDE DEF c, d
  <2>3. CASE Len(d) = Len(c)  BY <2>1, <2>2, <2>3 DEF c, d
  <2>4. CASE Len(c) = m /\ Len(d) = m + 1 /\ d[m + 1] = NoCard
    <3>1. DOMAIN c = 1 .. m /\ DOMAIN d = 1 .. m + 1  BY <2>1, <2>4 DEF c, d
    <3>2. j \in 1 .. m + 1 => j = m + 1 \/ j \in 1 .. m  BY <1>3
    <3>3. 1 .. m \subseteq 1 .. m + 1 /\ m + 1 \notin 1 .. m  BY <1>3
    <3> HIDE DEF m
    <3> QED  BY <2>2, <2>4, <3>1, <3>2, <3>3
  <2> QED  BY <2>2, <2>3, <2>4
<1> HIDE DEF m
<1>6. \A j \in 1 .. m + 1 : j = m + 1 \/ j \in 1 .. m  BY <1>3
<1>7. Distinct(t)
  <2> SUFFICES ASSUME NEW i \in 1 .. m + 1, NEW j \in 1 .. m + 1, t.entries[i].id = t.entries[j].id
               PROVE  i = j
    BY <1>2 DEF Distinct
  <2>1. \A k, l \in 1 .. m : s.entries[k].id = s.entries[l].id => k = l  BY <1>1 DEF Distinct, m
  <2>2. \A k \in 1 .. m : s.entries[k].id # e.id  BY DEF m
  <2> QED  BY <1>2, <1>6, <2>1, <2>2
<1>8. Points(t)
  <2>1. s.area # 0 =>
          \E i \in 1 .. m : s.entries[i].id = s.area /\ HasCard(t, s.pointer[1], i)
    BY <1>1, <1>5 DEF Points, m
  <2>2. \A i \in 1 .. m : i \in 1 .. m + 1  BY <1>3
  <2> QED  BY <1>1, <1>2, <2>1, <2>2 DEF Points
<1>9. ASSUME NEW n \in 1 .. Len(s.screens) PROVE Line(t, n)
  <2>1. Len(t.screens[n].cards) = IF t.screens[n].scene THEN Len(t.entries) ELSE 0
    BY <1>2, <1>4
  <2>2. ASSUME NEW j \in 1 .. Len(t.screens[n].cards), t.screens[n].cards[j] # NoCard
        PROVE  /\ t.screens[n].cards[j].id = t.entries[j].id
               /\ t.screens[n].cards[j].leave = "keep" =>
                    t.entries[j].timeout = "never" \/ t.entries[j].updated
    <3>1. j \in 1 .. m /\ j \in 1 .. Len(s.screens[n].cards)  BY <1>3, <1>4, <1>6, <2>2
    <3>2. t.screens[n].cards[j] = s.screens[n].cards[j] /\ t.entries[j] = s.entries[j]
      BY <1>2, <1>4, <3>1
    <3> QED  BY <1>1, <2>2, <3>1, <3>2 DEF Line
  <2> QED  BY <2>1, <2>2 DEF Line
<1>10. Sane(t)  BY <1>2, <1>7, <1>8, <1>9 DEF Sane, Lined
<1>11. Apart(t)
  <2> DEFINE R(j) == Rows(s.entries[j].y, s.entries[j].height)
             Q(j) == Rows(t.entries[j].y, t.entries[j].height)
  <2>1. \A j \in 1 .. m : Q(j) = R(j) /\ (Placed(t.entries[j]) <=> Placed(s.entries[j]))  BY <1>2
  <2>2. Q(m + 1) = Rows(e.y, e.height) /\ (Placed(t.entries[m + 1]) <=> Placed(e))  BY <1>2
  <2>3. \A j \in 1 .. m : Placed(s.entries[j]) =>
          /\ R(j) \subseteq 0 .. MaxRoom - 1
          /\ \A k \in 1 .. m : k # j /\ Placed(s.entries[k]) => R(j) \cap R(k) = {}
    BY <1>1 DEF Apart, m
  <2>4. ASSUME Placed(e)
        PROVE  /\ Rows(e.y, e.height) \subseteq 0 .. MaxRoom - 1
               /\ \A j \in 1 .. m : Placed(s.entries[j]) => Rows(e.y, e.height) \cap R(j) = {}
    <3>1. /\ e.y \in 0 .. MaxRoom - 1 /\ e.y + e.height <= MaxRoom
          /\ \A j \in DOMAIN s.entries : Placed(s.entries[j]) => Rows(e.y, e.height) \cap R(j) = {}
      BY <2>4 DEF Free
    <3>2. DOMAIN s.entries = 1 .. m  BY <1>1, StateFields DEF m
    <3>3. Rows(e.y, e.height) \subseteq 0 .. MaxRoom - 1
      <4> HIDE DEF R
      <4> QED  BY <3>1, RoomFacts, EntryFields DEF Rows
    <3> QED  BY <3>1, <3>2, <3>3
  <2> HIDE DEF Q, R, Placed
  <2>5. ASSUME NEW j \in 1 .. m + 1, Placed(t.entries[j])
        PROVE  /\ Q(j) \subseteq 0 .. MaxRoom - 1
               /\ \A k \in 1 .. m + 1 : k # j /\ Placed(t.entries[k]) => Q(j) \cap Q(k) = {}
    <3>1. CASE j = m + 1
      <4>1. Placed(e)  BY <2>2, <2>5, <3>1
      <4> QED  BY <1>6, <2>1, <2>2, <2>4, <3>1, <4>1
    <3>2. CASE j \in 1 .. m
      <4>1. Placed(s.entries[j])  BY <2>1, <2>5, <3>2
      <4>2. \A k \in 1 .. m : k # j /\ Placed(t.entries[k]) => Q(j) \cap Q(k) = {}
        BY <2>1, <2>3, <3>2, <4>1
      <4>3. Placed(e) => Q(j) \cap Q(m + 1) = {}
        <5>1. Placed(e) => Q(m + 1) \cap Q(j) = {}  BY <2>1, <2>2, <2>4, <3>2, <4>1
        <5> QED  BY <5>1
      <4> QED  BY <1>6, <2>1, <2>2, <2>3, <3>2, <4>1, <4>2, <4>3
    <3> QED  BY <1>6, <3>1, <3>2
  <2> QED  BY <1>2, <2>5 DEF Apart, Q
<1>12. ASSUME NEW j \in 1 .. m PROVE Fine(t, j) /\ Shown(t, j)
  <2>1. t.entries[j] = s.entries[j] /\ Fine(s, j) /\ Shown(s, j)  BY <1>1, <1>2 DEF m
  <2>2. Lasts(t, j) /\ Held(t, j) /\ Live(t, j)
    BY <1>2, <2>1 DEF Fine, Lasts, Held, Stopped, Live
  <2>3. Driven(t, j)
    <3>1. ASSUME 1 \in 1 .. Len(s.screens), HasCard(s, 1, j)
          PROVE  HasCard(t, 1, j) /\ t.screens[1].cards[j] = s.screens[1].cards[j]
      <4>1. j \in 1 .. Len(s.screens[1].cards)  BY <1>1, <3>1, HasCardFields
      <4> QED  BY <1>4, <1>5, <3>1, <4>1
    <3> QED  BY <1>2, <2>1, <3>1 DEF Fine, Driven
  <2>4. ASSUME NEW n \in 1 .. Len(t.screens) PROVE Shows(t, n, j)
    <3>1. n \in 1 .. Len(s.screens)  BY <1>2
    <3>2. Shows(s, n, j) /\ (HasCard(t, n, j) <=> HasCard(s, n, j)) /\ t.screens[n].scene = s.screens[n].scene
      BY <1>4, <1>5, <2>1, <3>1 DEF Shown
    <3> QED  BY <2>1, <3>2 DEF Shows
  <2> QED  BY <2>2, <2>3, <2>4 DEF Fine, Shown
<1>13. Fine(t, m + 1)
  <2>1. t.entries[m + 1] = e /\ t.notes = s.notes  BY <1>2
  <2>2. Lasts(t, m + 1) /\ Driven(t, m + 1) /\ Live(t, m + 1)  BY <2>1 DEF Lasts, Driven, Live
  <2>3. Held(t, m + 1)  BY <2>1 DEF Held, Stopped
  <2> QED  BY <2>2, <2>3 DEF Fine
<1> QED  BY <1>2, <1>6, <1>10, <1>11, <1>12, <1>13 DEF GoodBut

LEMMA AddPopupGood ==
  ASSUME NEW s, Good(s), NEW id \in Ids, id \in DOMAIN s.notes,
         \A i \in 1 .. Len(s.entries) : s.entries[i].id # id,
         NEW timeout \in Timeouts, NEW height \in Heights, position \in Positions,
         timeout = "timed" => s.notes[id].counting,
         NEW t, t = AddPopup(s, id, timeout, height)
  PROVE  /\ Good(t) /\ Moves(t) /\ DOMAIN t.notes = DOMAIN s.notes
         /\ \A j \in 1 .. Len(t.entries) :
              t.entries[j].id = id \/ \E i \in 1 .. Len(s.entries) : t.entries[j].id = s.entries[i].id
<1> DEFINE ready == EnsureSurfaces(s)
           y == Placement(ready, height)
           e == [id |-> id, timeout |-> timeout, height |-> height, y |-> y,
                 lasts |-> timeout = "never", left |-> TRUE, exiting |-> FALSE,
                 hovered |-> FALSE, updated |-> FALSE, lost |-> FALSE]
           held == IF y = Queued /\ timeout = "timed" THEN SetExpiry(ready, id, FALSE) ELSE ready
           shown == [held EXCEPT !.entries = Append(@, e),
                                 !.screens = [n \in DOMAIN @ |->
                                    IF @[n].scene
                                    THEN [@[n] EXCEPT !.cards = Append(held.screens[n].cards, NoCard)]
                                    ELSE @[n]]]
           synced == Sync(shown, Len(shown.entries))
<1>1. t = Reveal(synced)  BY DEF AddPopup
<1>2. /\ ready \in State /\ Good(ready) /\ Keeps(s, ready) /\ ready.notes[id] = s.notes[id]
  BY EnsureGood
<1> HIDE DEF synced
<1>3. y \in 0 .. MaxRoom /\ (y # Queued => y \in Free(ready, height))
  <2> HIDE DEF ready
  <2> QED  BY <1>2, PlacementFacts
<1> HIDE DEF ready, y, held
<1>4. /\ e \in Entry /\ e.id = id /\ e.timeout = timeout /\ e.height = height /\ e.y = y
      /\ e.lasts = (timeout = "never") /\ ~e.exiting
  BY <1>3 DEF Entry
<1> HIDE DEF e
<1>5. Longer(held, shown, e) \/ held \notin State
  <2>1. shown = [held EXCEPT !.entries = Append(@, e),
                             !.screens = [n \in DOMAIN @ |->
                                IF @[n].scene
                                THEN [@[n] EXCEPT !.cards = Append(held.screens[n].cards, NoCard)]
                                ELSE @[n]]]
    OBVIOUS
  <2> HIDE DEF shown
  <2> QED  BY <1>4, <2>1, EntryAdded
<1> HIDE DEF shown
<1>6. /\ held \in State /\ Good(held) /\ held.entries = ready.entries
      /\ DOMAIN held.notes = DOMAIN ready.notes
      /\ (y # Queued => held = ready)
  <2>1. CASE y = Queued /\ timeout = "timed"
    <3>1. held = SetExpiry(ready, id, FALSE) /\ FALSE \in BOOLEAN  BY <2>1 DEF held
    <3>2. Sane(ready) /\ Apart(ready)  BY <1>2 DEF Good
    <3>3. Retimed(ready, held, id, FALSE)  BY <3>1, <3>2, ExpiryChanged
    <3>4. /\ Sane(held) /\ held.entries = ready.entries /\ DOMAIN held.notes = DOMAIN ready.notes
          /\ Apart(held) /\ held \in State
      BY <3>2, <3>3 DEF Retimed, Sane, Lined
    <3>5. \A j \in 1 .. Len(ready.entries) : ready.entries[j].id # id  BY <1>2 DEF Keeps
    <3>6. ASSUME NEW j \in 1 .. Len(ready.entries) PROVE Fine(held, j) /\ Shown(held, j)
      <4>1. Fine(ready, j) /\ Shown(ready, j)  BY <1>2 DEF Good
      <4> QED  BY <3>3, <3>5, <4>1 DEF Retimed, Fine
    <3> QED  BY <2>1, <3>4, <3>6 DEF Good
  <2>2. CASE ~(y = Queued /\ timeout = "timed")
    <3>1. held = ready  BY <2>2 DEF held
    <3> QED  BY <1>2, <3>1
  <2> QED  BY <2>1, <2>2
<1>7. Longer(held, shown, e)  BY <1>5, <1>6
<1>8. GoodBut(shown, Len(shown.entries))
  <2>1. \A i \in 1 .. Len(held.entries) : held.entries[i].id # e.id  BY <1>2, <1>4, <1>6 DEF Keeps
  <2>2. e.id \in DOMAIN held.notes  BY <1>2, <1>4, <1>6 DEF Keeps
  <2>3. Placed(e) => y # Queued  BY <1>4 DEF Placed
  <2>4. Placed(e) /\ e.timeout = "timed" => held.notes[e.id].counting  BY <1>2, <1>4, <1>6, <2>3
  <2>5. Placed(e) => e.y \in Free(held, e.height)  BY <1>3, <1>4, <1>6, <2>3
  <2>6. e.lasts = (e.timeout = "never") /\ ~e.exiting  BY <1>4
  <2> QED  BY <1>4, <1>6, <1>7, <2>1, <2>2, <2>4, <2>5, <2>6, LongerGood
<1>9. /\ Len(shown.entries) = Len(held.entries) + 1 /\ shown.entries[Len(held.entries) + 1] = e
      /\ \A j \in 1 .. Len(held.entries) : shown.entries[j] = held.entries[j]
      /\ shown.notes = held.notes /\ Len(held.entries) \in Nat
  BY <1>6, <1>7, StateFields DEF Longer
<1>10. Len(shown.entries) \in 1 .. Len(shown.entries) /\ ~shown.entries[Len(shown.entries)].exiting
  BY <1>4, <1>9
<1>11. synced \in State /\ Like(shown, synced, Len(shown.entries)) /\ Good(synced)
  BY <1>8, <1>10, SyncGood DEF synced
<1>12. Good(t) /\ Settles(synced, t) /\ \A j \in 1 .. Len(t.entries) : Waits(t, j)
  BY <1>1, <1>11, RevealGood
<1>13. Moves(t)  BY <1>12 DEF Moves, Crowded
<1>14. shown \in State  BY <1>8 DEF GoodBut, Sane, Lined
<1>15. Keeps(shown, t)
  <2>1. Keeps(shown, synced)  BY <1>11, <1>14, LikeKeeps
  <2>2. Keeps(synced, t)  BY <1>12, SettlesKeeps
  <2> QED  BY <2>1, <2>2, KeepsTrans
<1>16. DOMAIN t.notes = DOMAIN s.notes  BY <1>2, <1>6, <1>9, <1>15 DEF Keeps
<1>17. ASSUME NEW j \in 1 .. Len(t.entries)
       PROVE  t.entries[j].id = id \/ \E i \in 1 .. Len(s.entries) : t.entries[j].id = s.entries[i].id
  <2>1. PICK k \in 1 .. Len(shown.entries) : t.entries[j].id = shown.entries[k].id  BY <1>15 DEF Keeps
  <2>2. CASE k = Len(held.entries) + 1  BY <1>4, <1>9, <2>1, <2>2
  <2>3. CASE k \in 1 .. Len(held.entries)
    <3>1. t.entries[j].id = ready.entries[k].id /\ k \in 1 .. Len(ready.entries)
      BY <1>6, <1>9, <2>1, <2>3
    <3> QED  BY <1>2, <3>1 DEF Keeps
  <2> QED  BY <1>9, <2>2, <2>3
<1> QED  BY <1>12, <1>13, <1>16, <1>17

-----------------------------------------------------------------------------
(* Popups are updated. *)

\* From s to t no popup moved, and what is at i has its cards where it had them.
Tied(s, t, i) ==
  /\ Len(t.entries) = Len(s.entries) /\ Len(t.screens) = Len(s.screens)
  /\ DOMAIN t.notes = DOMAIN s.notes /\ s.calls \subseteq t.calls
  /\ \A j \in 1 .. Len(s.entries) :
       /\ t.entries[j].id = s.entries[j].id /\ t.entries[j].timeout = s.entries[j].timeout
       /\ t.entries[j].height = s.entries[j].height /\ t.entries[j].y = s.entries[j].y
       /\ t.entries[j].exiting = s.entries[j].exiting /\ t.entries[j].updated = s.entries[j].updated
  /\ \A n \in 1 .. Len(s.screens) :
       t.screens[n].scene = s.screens[n].scene /\ (HasCard(t, n, i) <=> HasCard(s, n, i))

LEMMA TiedTrans ==
  ASSUME NEW s, NEW t, NEW u, NEW i, Tied(s, t, i), Tied(t, u, i)
  PROVE  Tied(s, u, i)
<1> HIDE DEF HasCard
<1>1. /\ Len(t.entries) = Len(s.entries) /\ Len(t.screens) = Len(s.screens)
      /\ Len(u.entries) = Len(s.entries) /\ Len(u.screens) = Len(s.screens)
      /\ DOMAIN u.notes = DOMAIN s.notes /\ s.calls \subseteq u.calls
  BY DEF Tied
<1>2. \A j \in 1 .. Len(s.entries) :
        /\ u.entries[j].id = s.entries[j].id /\ u.entries[j].timeout = s.entries[j].timeout
        /\ u.entries[j].height = s.entries[j].height /\ u.entries[j].y = s.entries[j].y
        /\ u.entries[j].exiting = s.entries[j].exiting /\ u.entries[j].updated = s.entries[j].updated
  BY <1>1 DEF Tied
<1>3. \A n \in 1 .. Len(s.screens) :
        u.screens[n].scene = s.screens[n].scene /\ (HasCard(u, n, i) <=> HasCard(s, n, i))
  BY <1>1, Zenon DEF Tied
<1> QED  BY <1>1, <1>2, <1>3 DEF Tied

LEMMA LikeTied ==
  ASSUME NEW s \in State, NEW t \in State, Like(s, t, 0), NEW i \in 1 .. Len(s.entries)
  PROVE  Tied(s, t, i)
<1>1. /\ Len(t.entries) = Len(s.entries) /\ Len(t.screens) = Len(s.screens)
      /\ DOMAIN t.notes = DOMAIN s.notes /\ s.calls \subseteq t.calls
      /\ \A n \in 1 .. Len(s.screens) : t.screens[n].scene = s.screens[n].scene
  BY DEF Like
<1>2. \A j \in 1 .. Len(s.entries) : SameEntry(s.entries[j], t.entries[j])  BY DEF Like
<1>3. i # 0  OBVIOUS
<1>4. \A n \in 1 .. Len(s.screens) : HasCard(t, n, i) <=> HasCard(s, n, i)  BY <1>3, LikeCards
<1> QED  BY <1>1, <1>2, <1>4 DEF Tied, SameEntry

LEMMA SettlesMoves ==
  ASSUME NEW s \in State, NEW t \in State, Settles(s, t), Moves(s)
  PROVE  Moves(t)
<1>1. Len(t.entries) = Len(s.entries)
      /\ \A j \in 1 .. Len(s.entries) : t.entries[j].exiting = s.entries[j].exiting
  BY DEF Settles
<1>2. CASE Crowded(s)
  <2>1. \A j \in 1 .. Len(s.entries) : Waits(t, j)  BY <1>2, SettledWait DEF Crowded
  <2> QED  BY <1>1, <2>1 DEF Moves, Crowded
<1>3. CASE \E j \in 1 .. Len(s.entries) : s.entries[j].exiting  BY <1>1, <1>3 DEF Moves
<1> QED  BY <1>2, <1>3 DEF Moves

LEMMA TiedSettles ==
  ASSUME NEW s, NEW t, NEW i, Tied(s, t, i)
  PROVE  Settles(s, t)
BY DEF Tied, Settles, Placed

\* What the pointer sets off leaves in order what is.
LEMMA HoversFine ==
  ASSUME NEW s, Sane(s), NEW t \in State, Hovers(s, t, 0), Points(t)
  PROVE  /\ Sane(t) /\ (Apart(s) => Apart(t)) /\ Len(t.entries) = Len(s.entries)
         /\ \A j \in 1 .. Len(s.entries) : (Fine(s, j) => Fine(t, j)) /\ (Shown(s, j) => Shown(t, j))
<1>1. s \in State /\ Lined(s) /\ Like(s, t, 0)  BY DEF Sane, Lined, Hovers
<1>2. Sane(t)  BY <1>1, LinedAlike DEF Sane
<1>3. Apart(s) => Apart(t)  BY <1>1, LikeWhole
<1>4. Len(t.entries) = Len(s.entries) /\ Len(t.screens) = Len(s.screens)  BY <1>1 DEF Like
<1>5. ASSUME NEW j \in 1 .. Len(s.entries)
      PROVE  (Fine(s, j) => Fine(t, j)) /\ (Shown(s, j) => Shown(t, j))
  <2>1. (Lasts(s, j) => Lasts(t, j)) /\ (Live(s, j) => Live(t, j))  BY <1>1, LikeEntries
  <2>2. j # 0  OBVIOUS
  <2>3. /\ Driven(s, j) => Driven(t, j)
        /\ \A n \in 1 .. Len(s.screens) : Shows(s, n, j) => Shows(t, n, j)
    BY <1>1, <2>2, LikeDriven
  <2>4. Held(s, j) => Held(t, j)  BY DEF Hovers
  <2>5. Shown(s, j) => Shown(t, j)  BY <1>4, <2>3 DEF Shown
  <2> QED  BY <2>1, <2>3, <2>4, <2>5 DEF Fine
<1> QED  BY <1>2, <1>3, <1>4, <1>5

\* One entry changes its place or its height.
LEMMA ApartChanged ==
  ASSUME NEW s, Apart(s), NEW i \in 1 .. Len(s.entries), NEW t, Len(t.entries) = Len(s.entries),
         \A j \in 1 .. Len(s.entries) : j # i => t.entries[j] = s.entries[j],
         NEW R, R = Rows(t.entries[i].y, t.entries[i].height),
         Placed(t.entries[i]) =>
           /\ R \subseteq 0 .. MaxRoom - 1
           /\ \A j \in 1 .. Len(s.entries) : j # i /\ Placed(s.entries[j]) =>
                R \cap Rows(s.entries[j].y, s.entries[j].height) = {}
  PROVE  Apart(t)
<1> DEFINE P(j) == Rows(s.entries[j].y, s.entries[j].height)
           Q(j) == Rows(t.entries[j].y, t.entries[j].height)
<1>1. \A j \in 1 .. Len(s.entries) : Placed(s.entries[j]) =>
        /\ P(j) \subseteq 0 .. MaxRoom - 1
        /\ \A k \in 1 .. Len(s.entries) : k # j /\ Placed(s.entries[k]) => P(j) \cap P(k) = {}
  BY DEF Apart
<1>2. \A j \in 1 .. Len(s.entries) : j # i =>
        Q(j) = P(j) /\ (Placed(t.entries[j]) <=> Placed(s.entries[j]))
  OBVIOUS
<1>3. Q(i) = R  OBVIOUS
<1>4. Placed(t.entries[i]) =>
        /\ Q(i) \subseteq 0 .. MaxRoom - 1
        /\ \A j \in 1 .. Len(s.entries) : j # i /\ Placed(s.entries[j]) =>
             Q(i) \cap P(j) = {} /\ P(j) \cap Q(i) = {}
  BY <1>3
<1> HIDE DEF P, Q, Placed
<1>5. ASSUME NEW j \in 1 .. Len(s.entries), Placed(t.entries[j])
      PROVE  /\ Q(j) \subseteq 0 .. MaxRoom - 1
             /\ \A k \in 1 .. Len(s.entries) : k # j /\ Placed(t.entries[k]) => Q(j) \cap Q(k) = {}
  <2>1. CASE j = i  BY <1>2, <1>4, <1>5, <2>1
  <2>2. CASE j # i  BY <1>1, <1>2, <1>4, <1>5, <2>2
  <2> QED  BY <2>1, <2>2
<1> QED  BY <1>5 DEF Apart, Q

\* Another card in the place of one.
LEMMA CardReplaced ==
  ASSUME NEW s, Sane(s), NEW n \in 1 .. Len(s.screens), NEW i \in 1 .. Len(s.entries),
         HasCard(s, n, i), NEW d \in Card, d.id = s.entries[i].id,
         d.leave = "keep" => s.entries[i].timeout = "never" \/ s.entries[i].updated,
         NEW t, t = SetCard(s, n, i, d)
  PROVE  /\ t \in State /\ Like(s, t, i) /\ Sane(t) /\ t.notes = s.notes /\ t.entries = s.entries
         /\ t.pointer = s.pointer /\ t.area = s.area /\ t.calls = s.calls
         /\ Len(t.screens) = Len(s.screens)
         /\ \A m \in 1 .. Len(s.screens) : \A j : HasCard(t, m, j) <=> HasCard(s, m, j)
<1>1. s \in State /\ Lined(s) /\ Points(s)  BY DEF Sane, Lined
<1>2. i \in 1 .. Len(s.screens[n].cards) /\ s.screens[n].cards[i] # NoCard  BY <1>1, HasCardFields
<1>3. d \in Cards /\ d # NoCard  BY CardFields
<1>4. /\ t \in State /\ t.notes = s.notes /\ t.entries = s.entries /\ t.pointer = s.pointer
      /\ t.area = s.area /\ t.calls = s.calls /\ Len(t.screens) = Len(s.screens)
      /\ Swapped(s, t, n, i, d)
  BY <1>1, <1>2, <1>3, CardSet
<1>5. Like(s, t, i)  BY <1>1, <1>2, <1>3, CardLike
<1>6. Lined(t)  BY <1>1, <1>2, <1>3, CardLines
<1>7. ASSUME NEW m \in 1 .. Len(s.screens)
      PROVE  \A j : HasCard(t, m, j) <=> HasCard(s, m, j)
  <2>1. /\ Len(t.screens[m].cards) = Len(s.screens[m].cards)
        /\ \A j \in 1 .. Len(s.screens[m].cards) :
             t.screens[m].cards[j] = IF m = n /\ j = i THEN d ELSE s.screens[m].cards[j]
    BY <1>4 DEF Swapped
  <2>2. /\ DOMAIN s.screens[m].cards = 1 .. Len(s.screens[m].cards)
        /\ DOMAIN t.screens[m].cards = 1 .. Len(s.screens[m].cards)
    <3>1. m \in 1 .. Len(t.screens)  BY <1>4
    <3> QED  BY <1>1, <1>4, <2>1, <3>1, ScreenFields
  <2> QED  BY <1>2, <1>3, <2>1, <2>2 DEF HasCard
<1>8. Points(t)
  <2>1. s.area # 0 => s.pointer[1] \in 1 .. Len(s.screens)  BY <1>1 DEF Points
  <2> QED  BY <1>1, <1>4, <1>7, <2>1 DEF Points
<1> QED  BY <1>4, <1>5, <1>6, <1>7, <1>8 DEF Sane

LEMMA UpdateCardTied ==
  ASSUME NEW s, NEW i \in 1 .. Len(s.entries), GoodBut(s, i), ~s.entries[i].exiting,
         NEW n \in 1 .. Len(s.screens), NEW again \in BOOLEAN, NEW hovered \in BOOLEAN,
         NEW timeout, timeout = s.entries[i].timeout,
         NEW t, t = UpdateCard(s, n, i, timeout, again, hovered)
  PROVE  GoodBut(t, i) /\ Tied(s, t, i)
<1> DEFINE lasts == timeout = "never"
           here == again /\ s.pointer[1] = n
           c == s.screens[n].cards[i]
           d == [c EXCEPT !.leave = IF again THEN "none" ELSE @, !.exit = @ /\ ~again,
                          !.countdown = IF lasts \/ hovered THEN "off" ELSE "runs", !.left = TRUE]
           e == [s.entries[i] EXCEPT !.lasts = lasts, !.left = TRUE]
           read == SetEntry(s, i, e)
           set == SetCard(read, n, i, d)
           aimed == IF s.area = s.entries[i].id THEN [set EXCEPT !.area = 0] ELSE set
<1>1. s \in State /\ Sane(s) /\ Lined(s) /\ Points(s) /\ Apart(s) /\ s.entries[i] \in Entry
  BY StateFields DEF GoodBut, Sane, Lined
<1>2. t = IF ~HasCard(s, n, i) THEN s ELSE IF ~here THEN set ELSE UpdateHover(aimed)
  BY DEF UpdateCard
<1>3. CASE ~HasCard(s, n, i)
  <2>1. t = s  BY <1>2, <1>3
  <2>2. Like(s, s, 0)  BY <1>1, LikeSelf
  <2> QED  BY <1>1, <2>1, <2>2, LikeTied
<1>4. CASE HasCard(s, n, i)
  <2>1. c \in Card /\ i \in 1 .. Len(s.screens[n].cards) /\ c # NoCard  BY <1>1, <1>4, HasCardFields
  <2>2. /\ c.id = s.entries[i].id
        /\ c.leave = "keep" => s.entries[i].timeout = "never" \/ s.entries[i].updated
    BY <1>1, <2>1 DEF Lined, Line
  <2>3. /\ e \in Entry /\ e.id = s.entries[i].id /\ e.timeout = s.entries[i].timeout
        /\ e.height = s.entries[i].height /\ e.y = s.entries[i].y /\ e.lasts = lasts
        /\ e.exiting = s.entries[i].exiting /\ e.hovered = s.entries[i].hovered
        /\ e.updated = s.entries[i].updated
    <3>1. lasts \in BOOLEAN  OBVIOUS
    <3> HIDE DEF lasts
    <3> QED  BY <1>1, <3>1 DEF Entry
  <2>4. d \in Card /\ d.id = c.id /\ (d.leave = "keep" => c.leave = "keep")
    <3>1. lasts \in BOOLEAN  OBVIOUS
    <3>2. c.leave \in {"none", "keep", "resume"} /\ c.exit \in BOOLEAN  BY <2>1 DEF Card
    <3> DEFINE leave == IF again THEN "none" ELSE c.leave
               exit == c.exit /\ ~again
               countdown == IF lasts \/ hovered THEN "off" ELSE "runs"
    <3>3. d = [c EXCEPT !.leave = leave, !.exit = exit, !.countdown = countdown, !.left = TRUE]
      OBVIOUS
    <3>4. /\ leave \in {"none", "keep", "resume"} /\ (leave = "keep" => c.leave = "keep")
          /\ exit \in BOOLEAN /\ countdown \in {"off", "runs", "driven"}
      BY <3>2
    <3> HIDE DEF leave, exit, countdown
    <3> QED  BY <2>1, <3>3, <3>4 DEF Card
  <2> HIDE DEF d, e
  <2>5. read = SetEntry(s, i, e) /\ set = SetCard(read, n, i, d)  OBVIOUS
  <2> HIDE DEF read, set
  <2>6. /\ read \in State /\ read.notes = s.notes /\ read.screens = s.screens
        /\ read.pointer = s.pointer /\ read.area = s.area /\ read.calls = s.calls
        /\ Len(read.entries) = Len(s.entries)
        /\ \A j \in 1 .. Len(s.entries) : read.entries[j] = IF j = i THEN e ELSE s.entries[j]
    BY <1>1, <2>3, <2>5, EntrySet
  <2>7. read.entries[i] = e  BY <2>6
  <2>8. /\ Sane(read)
        /\ \A j \in 1 .. Len(s.entries) : j # i =>
             (Fine(s, j) => Fine(read, j)) /\ (Shown(s, j) => Shown(read, j))
    BY <1>1, <2>3, <2>5, EntryChanged
  <2>9. \A j \in 1 .. Len(s.entries) : j # i => Fine(read, j) /\ Shown(read, j)
    BY <2>8 DEF GoodBut
  <2>10. Fine(read, i)
    <3>1. Fine(s, i)  BY DEF GoodBut
    <3>2. Lasts(read, i)
      <4>1. e.lasts = (e.timeout = "never")  BY <2>3
      <4> QED  BY <2>7, <4>1 DEF Lasts
    <3>3. Driven(read, i) /\ Live(read, i)  BY <2>3, <2>6, <2>7, <3>1 DEF Driven, Live, Fine
    <3>4. Held(read, i)  BY <2>3, <2>6, <2>7, <3>1 DEF Held, Stopped, Placed, Fine
    <3> QED  BY <3>2, <3>3, <3>4 DEF Fine
  <2>11. Apart(read)
    <3> DEFINE R == Rows(read.entries[i].y, read.entries[i].height)
    <3>1. R = Rows(s.entries[i].y, s.entries[i].height)  BY <2>3, <2>7
    <3>2. Placed(read.entries[i]) => Placed(s.entries[i])  BY <2>3, <2>7 DEF Placed
    <3>3. Placed(read.entries[i]) =>
            /\ R \subseteq 0 .. MaxRoom - 1
            /\ \A j \in 1 .. Len(s.entries) : j # i /\ Placed(s.entries[j]) =>
                 R \cap Rows(s.entries[j].y, s.entries[j].height) = {}
      BY <1>1, <3>1, <3>2 DEF Apart
    <3>4. R = Rows(read.entries[i].y, read.entries[i].height)  OBVIOUS
    <3> HIDE DEF R
    <3> QED  BY <1>1, <2>6, <3>3, <3>4, ApartChanged
  <2>12. /\ i \in 1 .. Len(read.entries) /\ n \in 1 .. Len(read.screens) /\ HasCard(read, n, i)
         /\ d.id = read.entries[i].id
         /\ d.leave = "keep" => read.entries[i].timeout = "never" \/ read.entries[i].updated
    <3>1. HasCard(read, n, i)  BY <1>4, <2>6 DEF HasCard
    <3> QED  BY <2>2, <2>3, <2>4, <2>6, <2>7, <3>1
  <2>13. /\ set \in State /\ Like(read, set, i) /\ Sane(set) /\ set.notes = read.notes
         /\ set.entries = read.entries /\ set.pointer = read.pointer /\ set.area = read.area
         /\ set.calls = read.calls /\ Len(set.screens) = Len(read.screens)
         /\ \A m \in 1 .. Len(read.screens) : \A j : HasCard(set, m, j) <=> HasCard(read, m, j)
    BY <2>4, <2>5, <2>8, <2>12, CardReplaced
  <2>14. ASSUME NEW j \in 1 .. Len(s.entries) PROVE Fine(set, j) /\ (j # i => Shown(set, j))
    <3>1. Fine(read, j)  BY <2>9, <2>10
    <3>2. Lasts(set, j) /\ Held(set, j) /\ Live(set, j)
      BY <2>13, <3>1 DEF Fine, Lasts, Held, Stopped, Live
    <3>3. j \in 1 .. Len(read.entries)  BY <2>6
    <3>4. CASE j = i
      <4>1. ~set.entries[i].exiting  BY <2>3, <2>7, <2>13
      <4> QED  BY <3>2, <3>4, <4>1 DEF Driven, Fine
    <3>5. CASE j # i
      <4>1. Shown(read, j)  BY <2>9, <3>5
      <4>2. Driven(set, j)  BY <2>6, <2>13, <3>1, <3>3, <3>5, LikeDriven DEF Fine
      <4>3. \A m \in 1 .. Len(read.screens) : Shows(set, m, j)
        BY <2>6, <2>13, <3>3, <3>5, <4>1, LikeDriven DEF Shown
      <4> QED  BY <2>13, <3>2, <4>2, <4>3 DEF Fine, Shown
    <3> QED  BY <3>4, <3>5
  <2>15. GoodBut(set, i)
    <3>1. Apart(set)  BY <2>6, <2>11, <2>13, LikeWhole
    <3> QED  BY <2>6, <2>13, <2>14, <3>1 DEF GoodBut
  <2>16. Tied(s, set, i)
    <3>1. \A m \in 1 .. Len(s.screens) :
            set.screens[m].scene = s.screens[m].scene /\ (HasCard(set, m, i) <=> HasCard(s, m, i))
      <4>1. \A m \in 1 .. Len(s.screens) : set.screens[m].scene = s.screens[m].scene
        BY <2>6, <2>13 DEF Like
      <4>2. \A m \in 1 .. Len(s.screens) : HasCard(read, m, i) <=> HasCard(s, m, i)
        BY <2>6 DEF HasCard
      <4> QED  BY <2>6, <2>13, <4>1, <4>2
    <3>2. \A j \in 1 .. Len(s.entries) :
            /\ set.entries[j].id = s.entries[j].id /\ set.entries[j].timeout = s.entries[j].timeout
            /\ set.entries[j].height = s.entries[j].height /\ set.entries[j].y = s.entries[j].y
            /\ set.entries[j].exiting = s.entries[j].exiting
            /\ set.entries[j].updated = s.entries[j].updated
      BY <2>3, <2>6, <2>13
    <3> QED  BY <2>6, <2>13, <3>1, <3>2 DEF Tied
  <2>17. CASE ~here
    <3>1. t = set  BY <1>2, <1>4, <2>17
    <3> QED  BY <2>15, <2>16, <3>1
  <2>18. CASE here
    <3>1. t = UpdateHover(aimed)  BY <1>2, <1>4, <2>18
    <3>2. /\ aimed \in State /\ Like(set, aimed, 0) /\ aimed.notes = set.notes
          /\ aimed.entries = set.entries /\ aimed.screens = set.screens /\ aimed.calls = set.calls
          /\ aimed.area = 0 \/ aimed.area = set.area
      <4>1. CASE s.area = s.entries[i].id
        <5>1. aimed = [set EXCEPT !.area = 0]  BY <4>1
        <5> HIDE DEF aimed
        <5>2. 0 \in Ids \cup {0}  OBVIOUS
        <5>3. set \in State  BY <2>13
        <5> HIDE DEF lasts, here, c
        <5>4. /\ aimed \in State /\ Like(set, aimed, 0) /\ aimed.notes = set.notes
              /\ aimed.entries = set.entries /\ aimed.screens = set.screens /\ aimed.area = 0
              /\ aimed.calls = set.calls
          BY <5>1, <5>2, <5>3, AreaSet
        <5> QED  BY <5>4
      <4>2. CASE s.area # s.entries[i].id
        <5>1. aimed = set  BY <4>2
        <5> HIDE DEF aimed
        <5> QED  BY <2>13, <5>1, LikeSelf
      <4> QED  BY <4>1, <4>2
    <3> HIDE DEF aimed
    <3>3. Sane(aimed)
      <4>1. Lined(set) /\ Points(set)  BY <2>13 DEF Sane
      <4>2. Lined(aimed)  BY <3>2, <4>1, LinedAlike
      <4>3. aimed.pointer = set.pointer  BY <3>2 DEF Like
      <4>4. Points(aimed)  BY <3>2, <4>1, <4>3 DEF Points, HasCard
      <4> QED  BY <4>2, <4>4 DEF Sane
    <3>4. Hovers(set, aimed, 0)
      <4>1. \A j \in 1 .. Len(set.entries) : Held(set, j) => Held(aimed, j)  BY <3>2, HeldSame
      <4> QED  BY <3>2, <4>1 DEF Hovers
    <3>5. t \in State /\ Hovers(aimed, t, 0) /\ Points(t)
      <4>1. Aims(aimed)  BY <3>3, SaneAims
      <4> QED  BY <3>1, <4>1, UpdateHoverHovers
    <3>6. Hovers(set, t, 0)  BY <2>13, <3>2, <3>4, <3>5, HoversTrans
    <3>7. /\ Sane(t) /\ (Apart(set) => Apart(t)) /\ Len(t.entries) = Len(set.entries)
          /\ \A j \in 1 .. Len(set.entries) :
               (Fine(set, j) => Fine(t, j)) /\ (Shown(set, j) => Shown(t, j))
      BY <2>13, <3>5, <3>6, HoversFine
    <3>8. GoodBut(t, i)  BY <2>15, <3>7 DEF GoodBut
    <3>9. Tied(set, t, i)
      <4>1. i \in 1 .. Len(set.entries) /\ Like(set, t, 0)  BY <2>12, <2>13, <3>6 DEF Hovers
      <4> QED  BY <2>13, <3>5, <4>1, LikeTied
    <3> QED  BY <2>16, <3>8, <3>9, TiedTrans
  <2> QED  BY <2>17, <2>18
<1> QED  BY <1>3, <1>4

\* All of them.
UpdateAll(s, i, timeout, again, hovered, n) ==
  LET update(t, m) == UpdateCard(t, m, i, timeout, again, hovered) IN Each(update, s, n)

LEMMA UpdateAllTied ==
  ASSUME NEW s, NEW i \in 1 .. Len(s.entries), GoodBut(s, i), ~s.entries[i].exiting,
         NEW again \in BOOLEAN, NEW hovered \in BOOLEAN,
         NEW timeout, timeout = s.entries[i].timeout, NEW N, N = Len(s.screens),
         NEW t, t = UpdateAll(s, i, timeout, again, hovered, N)
  PROVE  GoodBut(t, i) /\ Tied(s, t, i)
<1>s. s \in State  BY DEF GoodBut, Sane, Lined
<1> DEFINE n == N
           R(g) == g = [k \in 0 .. n |-> IF k = 0 THEN s ELSE UpdateCard(g[k - 1], k, i, timeout, again, hovered)]
           after == CHOOSE g : R(g)
           F == [x \in State \X (1 .. n) |-> UpdateCard(x[1], x[2], i, timeout, again, hovered)]
           Stage(k) == {u \in State : GoodBut(u, i) /\ Tied(s, u, i)}
           P == [k \in 0 .. n |-> Stage(k)]
<1>1. n \in Nat /\ P \in [0 .. n -> SUBSET State] /\ s \in P[0]
  <2>1. n \in Nat  BY <1>s, StateFields
  <2>2. Tied(s, s, i)
    <3>1. Like(s, s, 0)  BY <1>s, LikeSelf
    <3> QED  BY <1>s, <3>1, LikeTied
  <2>3. s \in Stage(0)  BY <1>s, <2>2
  <2> QED  BY <2>1, <2>3
<1>2. ASSUME NEW u \in State, NEW k \in 1 .. n
      PROVE  F[<<u, k>>] = UpdateCard(u, k, i, timeout, again, hovered)
  <2>1. <<u, k>> \in State \X (1 .. n)  OBVIOUS
  <2> QED  BY <2>1
<1>3. Leads(F, P, n)
  <2> SUFFICES ASSUME NEW k \in 1 .. n, NEW t1 \in Stage(k - 1)
               PROVE  UpdateCard(t1, k, i, timeout, again, hovered) \in Stage(k)
    BY <1>2 DEF Leads
  <2> DEFINE v == UpdateCard(t1, k, i, timeout, again, hovered)
  <2>1. t1 \in State /\ GoodBut(t1, i) /\ Tied(s, t1, i)  OBVIOUS
  <2>2. /\ i \in 1 .. Len(t1.entries) /\ ~t1.entries[i].exiting /\ timeout = t1.entries[i].timeout
        /\ k \in 1 .. Len(t1.screens)
    BY <2>1 DEF Tied
  <2>3. GoodBut(v, i) /\ Tied(t1, v, i)  BY <2>1, <2>2, UpdateCardTied
  <2> HIDE DEF v
  <2>4. Tied(s, v, i)  BY <2>1, <2>3, TiedTrans
  <2>5. v \in State  BY <2>3 DEF GoodBut, Sane, Lined
  <2> QED  BY <2>3, <2>4, <2>5 DEF v
<1> HIDE DEF F, P
<1>4. PICK h \in [0 .. n -> State] : Runs(h, F, s, n)  BY <1>1, <1>3, Steps
<1> HIDE DEF n
<1>5. R(h)
  <2>1. ASSUME NEW k \in 1 .. n PROVE h[k] = UpdateCard(h[k - 1], k, i, timeout, again, hovered)
    <3>1. k - 1 \in 0 .. n  BY <1>1
    <3>2. h[k - 1] \in State /\ h[k] = F[<<h[k - 1], k>>]  BY <1>4, <3>1 DEF Runs
    <3> QED  BY <1>2, <3>2
  <2>2. h[0] = s /\ \A k \in 0 .. n : k = 0 \/ k \in 1 .. n  BY <1>1, <1>4 DEF Runs
  <2>3. \A k \in 0 .. n : h[k] = IF k = 0 THEN s ELSE UpdateCard(h[k - 1], k, i, timeout, again, hovered)  BY <2>1, <2>2
  <2> QED  BY <2>3
<1>6. R(after)  BY <1>5, Zenon
<1>7. t = after[n]  BY DEF UpdateAll, Each, n
<1> HIDE DEF after
<1>8. RunsIn(after, State, F, s, n)
  <2>1. after[0] = s  BY <1>1, <1>6
  <2>2. ASSUME NEW k \in 1 .. n, after[k - 1] \in State PROVE after[k] = F[<<after[k - 1], k>>]
    <3>1. k \in 0 .. n /\ k # 0  BY <1>1
    <3>2. after[k] = UpdateCard(after[k - 1], k, i, timeout, again, hovered)  BY <1>6, <3>1
    <3> QED  BY <1>2, <2>2, <3>2
  <2> QED  BY <2>1, <2>2 DEF RunsIn
<1>9. after[n] \in P[n]  BY <1>1, <1>3, <1>8, Steps
<1>10. after[n] \in Stage(n)  BY <1>1, <1>9 DEF P
<1> QED  BY <1>7, <1>10 DEF n

\* All is in order but that the expiry time of id was set anew.
Renewed(s, id) ==
  /\ Sane(s) /\ Apart(s)
  /\ \A j \in 1 .. Len(s.entries) :
       /\ Lasts(s, j) /\ Driven(s, j) /\ Live(s, j) /\ Shown(s, j)
       /\ s.entries[j].id # id => Held(s, j)

\* The popup at i gets another timeout and another height, and keeps its place or is queued.
Placing(s, t, i, timeout, height) ==
  /\ GoodBut(t, i) /\ t.screens = s.screens /\ t.calls = s.calls /\ DOMAIN t.notes = DOMAIN s.notes
  /\ Len(t.entries) = Len(s.entries)
  /\ \A j \in 1 .. Len(s.entries) : j # i => t.entries[j] = s.entries[j]
  /\ t.entries[i].id = s.entries[i].id /\ t.entries[i].timeout = timeout
  /\ t.entries[i].height = height /\ t.entries[i].exiting = s.entries[i].exiting
  /\ s.entries[i].hovered => t.entries[i].updated
  /\ t.entries[i].y = s.entries[i].y \/ t.entries[i].y = Queued

LEMMA UpdatePlaceGood ==
  ASSUME NEW s, NEW i \in 1 .. Len(s.entries), Renewed(s, s.entries[i].id), ~s.entries[i].exiting,
         NEW timeout \in Timeouts, NEW height \in Heights,
         timeout = "timed" => s.notes[s.entries[i].id].counting,
         NEW t, t = UpdatePlace(s, i, timeout, height)
  PROVE  Placing(s, t, i, timeout, height)
<1> DEFINE old == s.entries[i]
           turns == old.hovered \/ old.lasts # (timeout = "never")
           e == [old EXCEPT !.height = height, !.timeout = timeout, !.updated = @ \/ turns]
           f == [e EXCEPT !.y = Queued]
           new == SetEntry(s, i, e)
           queued == SetEntry(s, i, f)
           stays == ~Placed(old) \/ CanKeep(new, i)
<1>1. s \in State /\ Sane(s) /\ Apart(s) /\ Distinct(s) /\ old \in Entry
  BY StateFields DEF Renewed, Sane, Lined
<1>2. t = IF stays THEN new ELSE IF timeout = "timed" THEN SetExpiry(queued, old.id, FALSE) ELSE queued
  BY DEF UpdatePlace
<1>3. /\ e \in Entry /\ e.id = old.id /\ e.timeout = timeout /\ e.height = height /\ e.y = old.y
      /\ e.lasts = old.lasts /\ e.exiting = old.exiting /\ e.updated = (old.updated \/ turns)
  <2> DEFINE updated == old.updated \/ turns
  <2>1. updated \in BOOLEAN  BY <1>1, EntryFields
  <2>2. e = [old EXCEPT !.height = height, !.timeout = timeout, !.updated = updated]  OBVIOUS
  <2> HIDE DEF updated, e
  <2>3. /\ e \in Entry /\ e.id = old.id /\ e.timeout = timeout /\ e.height = height /\ e.y = old.y
        /\ e.lasts = old.lasts /\ e.exiting = old.exiting /\ e.updated = updated
    BY <1>1, <2>1, <2>2 DEF Entry
  <2> QED  BY <2>3 DEF updated
<1> HIDE DEF e
<1>4. /\ f \in Entry /\ f.id = old.id /\ f.timeout = timeout /\ f.height = height /\ f.y = Queued
      /\ f.lasts = old.lasts /\ f.exiting = old.exiting /\ f.updated = e.updated
  BY <1>3, RoomFacts DEF Entry
<1> HIDE DEF f
<1>5. Lasts(s, i) /\ Live(s, i) /\ Shown(s, i)  BY DEF Renewed
<1>6. old.timeout = "never" \/ old.updated => e.timeout = "never" \/ e.updated
  BY <1>3, <1>5 DEF Lasts
<1>7. e.lasts # (e.timeout = "never") => e.updated  BY <1>3
<1>8. old.hovered => e.updated  BY <1>3
<1> HIDE DEF turns
<1>9. \A j \in 1 .. Len(s.entries) : j # i => Fine(s, j) /\ Shown(s, j)
  <2>1. \A j \in 1 .. Len(s.entries) : j # i => s.entries[j].id # old.id  BY <1>1 DEF Distinct
  <2> QED  BY <2>1 DEF Renewed, Fine
<1>10. /\ new \in State /\ new.notes = s.notes /\ new.screens = s.screens /\ new.calls = s.calls
       /\ Len(new.entries) = Len(s.entries) /\ new.entries[i] = e
       /\ \A j \in 1 .. Len(s.entries) : j # i => new.entries[j] = s.entries[j]
  BY <1>1, <1>3, EntrySet
<1>11. /\ queued \in State /\ queued.notes = s.notes /\ queued.screens = s.screens
       /\ queued.calls = s.calls /\ Len(queued.entries) = Len(s.entries) /\ queued.entries[i] = f
       /\ \A j \in 1 .. Len(s.entries) : j # i => queued.entries[j] = s.entries[j]
  BY <1>1, <1>4, EntrySet
<1>12. /\ Sane(new)
       /\ \A j \in 1 .. Len(s.entries) : j # i => Fine(new, j) /\ Shown(new, j)
  BY <1>1, <1>3, <1>6, <1>9, EntryChanged
<1>13. /\ Sane(queued)
       /\ \A j \in 1 .. Len(s.entries) : j # i => Fine(queued, j) /\ Shown(queued, j)
  BY <1>1, <1>3, <1>4, <1>6, <1>9, EntryChanged
<1> HIDE DEF new, queued
<1>14. CASE stays
  <2>1. t = new  BY <1>2, <1>14
  <2>2. Apart(new)
    <3> DEFINE R == Rows(e.y, e.height)
    <3>1. ASSUME Placed(e)
          PROVE  /\ R \subseteq 0 .. MaxRoom - 1
                 /\ \A j \in 1 .. Len(s.entries) : j # i /\ Placed(s.entries[j]) =>
                      R \cap Rows(s.entries[j].y, s.entries[j].height) = {}
      <4>1. Placed(old)  BY <1>3, <3>1 DEF Placed
      <4>2. CanKeep(new, i)  BY <1>14, <4>1
      <4>3. /\ e.y + e.height <= MaxRoom
            /\ \A j \in DOMAIN new.entries \ {i} : Placed(new.entries[j]) =>
                 R \cap Rows(new.entries[j].y, new.entries[j].height) = {}
        BY <1>10, <4>2 DEF CanKeep
      <4>4. R \subseteq 0 .. MaxRoom - 1  BY <1>3, <4>3, EntryFields, RoomFacts, SMTT(30) DEF Rows
      <4>5. DOMAIN new.entries = 1 .. Len(s.entries)  BY <1>10, StateFields
      <4> HIDE DEF R
      <4> QED  BY <1>10, <4>3, <4>4, <4>5
    <3>2. R = Rows(new.entries[i].y, new.entries[i].height)  BY <1>10
    <3> HIDE DEF R
    <3> QED  BY <1>1, <1>10, <3>1, <3>2, ApartChanged
  <2>3. Fine(new, i)
    <3>1. Lasts(new, i)  BY <1>7, <1>10 DEF Lasts
    <3>2. Driven(new, i) /\ Live(new, i)  BY <1>3, <1>5, <1>10 DEF Driven, Live
    <3>3. Held(new, i)  BY <1>3, <1>10 DEF Held, Stopped
    <3> QED  BY <3>1, <3>2, <3>3 DEF Fine
  <2>4. \A j \in 1 .. Len(new.entries) : Fine(new, j) /\ (j # i => Shown(new, j))
    BY <1>10, <1>12, <2>3
  <2>5. GoodBut(new, i)  BY <1>12, <2>2, <2>4 DEF GoodBut
  <2> QED  BY <1>3, <1>8, <1>10, <2>1, <2>5 DEF Placing
<1>15. CASE ~stays
  <2>1. ~Placed(f)  BY <1>4 DEF Placed
  <2>2. Apart(queued)
    <3> DEFINE R == Rows(f.y, f.height)
    <3>1. R = Rows(queued.entries[i].y, queued.entries[i].height) /\ ~Placed(queued.entries[i])
      BY <1>11, <2>1
    <3> HIDE DEF R
    <3> QED  BY <1>1, <1>11, <3>1, ApartChanged
  <2>3. Lasts(queued, i)  BY <1>3, <1>4, <1>7, <1>11 DEF Lasts
  <2>4. Driven(queued, i) /\ Live(queued, i)  BY <1>4, <1>5, <1>11 DEF Driven, Live
  <2>5. Held(queued, i)  BY <1>11, <2>1 DEF Held, Stopped
  <2>6. CASE timeout # "timed"
    <3>1. t = queued  BY <1>2, <1>15, <2>6
    <3>2. \A j \in 1 .. Len(queued.entries) : Fine(queued, j) /\ (j # i => Shown(queued, j))
      BY <1>11, <1>13, <2>3, <2>4, <2>5 DEF Fine
    <3>3. GoodBut(queued, i)  BY <1>13, <2>2, <3>2 DEF GoodBut
    <3> QED  BY <1>4, <1>8, <1>11, <3>1, <3>3 DEF Placing
  <2>7. CASE timeout = "timed"
    <3>1. t = SetExpiry(queued, old.id, FALSE) /\ FALSE \in BOOLEAN  BY <1>2, <1>15, <2>7
    <3>2. Retimed(queued, t, old.id, FALSE)  BY <1>13, <3>1, ExpiryChanged
    <3>3. /\ Sane(t) /\ t.entries = queued.entries /\ t.screens = queued.screens
          /\ t.calls = queued.calls /\ DOMAIN t.notes = DOMAIN queued.notes /\ Apart(t)
      BY <2>2, <3>2 DEF Retimed
    <3>4. ASSUME NEW j \in 1 .. Len(queued.entries) PROVE Fine(t, j) /\ (j # i => Shown(t, j))
      <4>1. /\ (Lasts(queued, j) => Lasts(t, j)) /\ (Driven(queued, j) => Driven(t, j))
            /\ (Live(queued, j) => Live(t, j)) /\ (Shown(queued, j) => Shown(t, j))
            /\ queued.entries[j].id # old.id => (Held(queued, j) => Held(t, j))
        BY <3>2 DEF Retimed
      <4>2. CASE j = i
        <5>1. Held(t, i)  BY <1>11, <2>1, <3>3 DEF Held, Stopped
        <5> QED  BY <2>3, <2>4, <4>1, <4>2, <5>1 DEF Fine
      <4>3. CASE j # i
        <5>1. Fine(queued, j) /\ Shown(queued, j)  BY <1>11, <1>13, <4>3
        <5>2. queued.entries[j].id # old.id  BY <1>1, <1>11, <4>3 DEF Distinct
        <5> QED  BY <4>1, <5>1, <5>2 DEF Fine
      <4> QED  BY <4>2, <4>3
    <3>5. GoodBut(t, i)  BY <3>3, <3>4 DEF GoodBut
    <3> QED  BY <1>4, <1>8, <1>11, <3>3, <3>5 DEF Placing
  <2> QED  BY <2>6, <2>7
<1> QED  BY <1>14, <1>15

LEMMA UpdatePopupGood ==
  ASSUME NEW s, NEW id, Renewed(s, id), NEW timeout \in Timeouts, NEW height \in Heights,
         NEW layout \in BOOLEAN, timeout = "timed" => s.notes[id].counting,
         NEW t, t = UpdatePopup(s, id, timeout, height, layout)
  PROVE  Good(t) /\ Keeps(s, t) /\ (Moves(s) => Moves(t))
<1> DEFINE i == Find(s, id)
           old == s.entries[i]
           hovered == old.hovered
           again == layout \/ height # old.height
           place == UpdatePlace(s, i, timeout, height)
           cards == UpdateAll(place, i, timeout, again, hovered, Len(s.screens))
           held == IF hovered THEN SetExpiry(cards, id, FALSE) ELSE cards
           synced == Sync(held, i)
<1>1. s \in State /\ Sane(s) /\ Distinct(s) /\ Apart(s)  BY DEF Renewed, Sane, Lined
<1>2. t = IF i = 0 \/ old.exiting THEN s
          ELSE IF ~Placed(held.entries[i]) \/ height # old.height THEN Reveal(synced) ELSE held
  BY DEF UpdatePopup, UpdateAll
<1>3. i # 0 => i \in 1 .. Len(s.entries) /\ s.entries[i].id = id  BY <1>1, FindFacts
<1>4. i = 0 => \A j \in 1 .. Len(s.entries) : s.entries[j].id # id  BY <1>1, FindFacts
<1> HIDE DEF i, place, cards, held, synced
<1>5. CASE i = 0 \/ old.exiting
  <2>1. t = s  BY <1>2, <1>5
  <2>2. ASSUME NEW j \in 1 .. Len(s.entries) PROVE Held(s, j)
    <3>1. CASE s.entries[j].id # id  BY <3>1 DEF Renewed
    <3>2. CASE s.entries[j].id = id
      <4>1. i # 0  BY <1>4, <3>2
      <4>2. j = i /\ s.entries[j].exiting  BY <1>1, <1>3, <1>5, <3>2, <4>1 DEF Distinct
      <4> QED  BY <4>2 DEF Held, Stopped, Placed
    <3> QED  BY <3>1, <3>2
  <2> QED  BY <2>1, <2>2 DEF Renewed, Good, Fine, Keeps
<1>6. CASE i # 0 /\ ~old.exiting
  <2>1. i \in 1 .. Len(s.entries) /\ old.id = id /\ old \in Entry  BY <1>1, <1>3, <1>6, StateFields
  <2>2. hovered \in BOOLEAN /\ again \in BOOLEAN  BY <2>1, EntryFields
  <2>3. Placing(s, place, i, timeout, height)
    BY <1>6, <2>1, UpdatePlaceGood DEF place
  <2>4. /\ GoodBut(place, i) /\ place.screens = s.screens /\ place.calls = s.calls
        /\ DOMAIN place.notes = DOMAIN s.notes /\ Len(place.entries) = Len(s.entries)
        /\ \A j \in 1 .. Len(s.entries) : j # i => place.entries[j] = s.entries[j]
        /\ place.entries[i].id = id /\ place.entries[i].timeout = timeout
        /\ place.entries[i].height = height /\ ~place.entries[i].exiting
        /\ hovered => place.entries[i].updated
        /\ place.entries[i].y = old.y \/ place.entries[i].y = Queued
    BY <1>6, <2>1, <2>3 DEF Placing
  <2>5. GoodBut(cards, i) /\ Tied(place, cards, i)
    <3>1. cards = UpdateAll(place, i, timeout, again, hovered, Len(s.screens))  BY DEF cards
    <3>2. /\ i \in 1 .. Len(place.entries) /\ timeout = place.entries[i].timeout
          /\ Len(s.screens) = Len(place.screens)
      BY <2>1, <2>4
    <3> HIDE DEF again, hovered
    <3> QED  BY <2>2, <2>4, <3>1, <3>2, UpdateAllTied
  <2>6. /\ Len(cards.entries) = Len(s.entries) /\ Len(cards.screens) = Len(s.screens)
        /\ DOMAIN cards.notes = DOMAIN s.notes /\ cards.entries[i].y = place.entries[i].y
        /\ cards.entries[i].id = id /\ cards.entries[i].height = height
        /\ ~cards.entries[i].exiting /\ (hovered => cards.entries[i].updated)
    BY <2>1, <2>4, <2>5 DEF Tied
  <2>7. /\ GoodBut(held, i) /\ held.entries = cards.entries /\ held.screens = cards.screens
        /\ held.calls = cards.calls /\ DOMAIN held.notes = DOMAIN cards.notes
    <3>1. CASE hovered
      <4>1. held = SetExpiry(cards, id, FALSE) /\ FALSE \in BOOLEAN  BY <3>1 DEF held
      <4>2. Sane(cards) /\ Apart(cards)  BY <2>5 DEF GoodBut
      <4>3. Retimed(cards, held, id, FALSE)  BY <4>1, <4>2, ExpiryChanged
      <4>4. /\ Sane(held) /\ held.entries = cards.entries /\ held.screens = cards.screens
            /\ held.calls = cards.calls /\ DOMAIN held.notes = DOMAIN cards.notes /\ Apart(held)
        BY <4>2, <4>3 DEF Retimed
      <4>5. ASSUME NEW j \in 1 .. Len(cards.entries) PROVE Fine(held, j) /\ (j # i => Shown(held, j))
        <5>1. Fine(cards, j) /\ (j # i => Shown(cards, j))  BY <2>5 DEF GoodBut
        <5>2. /\ (Lasts(cards, j) => Lasts(held, j)) /\ (Driven(cards, j) => Driven(held, j))
              /\ (Live(cards, j) => Live(held, j)) /\ (Shown(cards, j) => Shown(held, j))
              /\ cards.entries[j].id # id => (Held(cards, j) => Held(held, j))
          BY <4>3 DEF Retimed
        <5>3. Held(held, j)
          <6>1. CASE cards.entries[j].id # id  BY <5>1, <5>2, <6>1 DEF Fine
          <6>2. CASE cards.entries[j].id = id
            <7>1. Distinct(cards) /\ i \in 1 .. Len(cards.entries)
              BY <2>1, <2>6, <4>2 DEF Sane, Lined
            <7>2. j = i  BY <2>6, <6>2, <7>1 DEF Distinct
            <7> QED  BY <2>6, <3>1, <4>4, <7>2 DEF Held
          <6> QED  BY <6>1, <6>2
        <5> QED  BY <5>1, <5>2, <5>3 DEF Fine
      <4> QED  BY <4>4, <4>5 DEF GoodBut
    <3>2. CASE ~hovered
      <4>1. held = cards  BY <3>2 DEF held
      <4> QED  BY <2>5, <4>1
    <3> QED  BY <3>1, <3>2
  <2>8. Keeps(s, held)
    <3>1. \A j \in 1 .. Len(s.entries) : held.entries[j].id = s.entries[j].id
      BY <2>1, <2>4, <2>5, <2>7 DEF Tied
    <3> QED  BY <2>6, <2>7, <3>1 DEF Keeps
  <2>9. CASE ~Placed(held.entries[i]) \/ height # old.height
    <3>1. t = Reveal(synced)  BY <1>2, <1>6, <2>9
    <3>2. i \in 1 .. Len(held.entries) /\ ~held.entries[i].exiting  BY <2>1, <2>6, <2>7
    <3>3. synced \in State /\ Like(held, synced, i) /\ Good(synced)
      BY <2>7, <3>2, SyncGood DEF synced
    <3>4. Good(t) /\ Settles(synced, t) /\ \A j \in 1 .. Len(t.entries) : Waits(t, j)
      BY <3>1, <3>3, RevealGood
    <3>5. Keeps(s, t)
      <4>1. held \in State  BY <2>7 DEF GoodBut, Sane, Lined
      <4>2. Keeps(held, synced)  BY <3>3, <4>1, LikeKeeps
      <4>3. Keeps(synced, t)  BY <3>4, SettlesKeeps
      <4> QED  BY <2>8, <4>2, <4>3, KeepsTrans
    <3> QED  BY <3>4, <3>5 DEF Moves, Crowded
  <2>10. CASE Placed(held.entries[i]) /\ height = old.height
    <3>1. t = held  BY <1>2, <1>6, <2>10
    <3>2. held.entries[i].y = old.y  BY <2>4, <2>6, <2>7, <2>10 DEF Placed
    <3>3. Shown(held, i)
      <4>1. Shown(s, i)  BY <2>1 DEF Renewed
      <4>2. ASSUME NEW n \in 1 .. Len(held.screens) PROVE Shows(held, n, i)
        <5>1. n \in 1 .. Len(s.screens) /\ n \in 1 .. Len(place.screens)  BY <2>4, <2>6, <2>7
        <5>2. Shows(s, n, i)  BY <4>1, <5>1 DEF Shown
        <5>3. HasCard(held, n, i) <=> HasCard(s, n, i)
          <6>1. HasCard(held, n, i) <=> HasCard(cards, n, i)  BY <2>7 DEF HasCard
          <6>2. HasCard(cards, n, i) <=> HasCard(place, n, i)  BY <2>5, <5>1 DEF Tied
          <6>3. HasCard(place, n, i) <=> HasCard(s, n, i)  BY <2>4 DEF HasCard
          <6> QED  BY <6>1, <6>2, <6>3
        <5>4. held.screens[n].scene = s.screens[n].scene  BY <2>4, <2>5, <2>7, <5>1 DEF Tied
        <5>5. Fits(held.entries[i], n) <=> Fits(old, n)
          BY <1>6, <2>6, <2>7, <2>10, <3>2 DEF Fits, Placed
        <5> QED  BY <1>6, <5>2, <5>3, <5>4, <5>5 DEF Shows
      <4> QED  BY <4>2 DEF Shown
    <3>4. Good(t)  BY <2>7, <3>1, <3>3 DEF GoodBut, Good
    <3>5. Settles(s, t)
      <4>1. \A j \in 1 .. Len(s.entries) :
              /\ held.entries[j].id = s.entries[j].id /\ held.entries[j].height = s.entries[j].height
              /\ held.entries[j].y = s.entries[j].y /\ held.entries[j].exiting = s.entries[j].exiting
        <5>1. \A j \in 1 .. Len(s.entries) : j # i =>
                /\ held.entries[j].id = s.entries[j].id /\ held.entries[j].height = s.entries[j].height
                /\ held.entries[j].y = s.entries[j].y
                /\ held.entries[j].exiting = s.entries[j].exiting
          BY <2>4, <2>5, <2>7 DEF Tied
        <5>2. /\ held.entries[i].id = old.id /\ held.entries[i].height = old.height
              /\ held.entries[i].y = old.y /\ held.entries[i].exiting = old.exiting
          <6>1. held.entries[i].exiting = place.entries[i].exiting  BY <2>1, <2>4, <2>5, <2>7 DEF Tied
          <6>2. place.entries[i].exiting = old.exiting  BY <2>3 DEF Placing
          <6> QED  BY <2>1, <2>6, <2>7, <2>10, <3>2, <6>1, <6>2
        <5> QED  BY <5>1, <5>2
      <4>2. s.calls \subseteq held.calls  BY <2>4, <2>5, <2>7 DEF Tied
      <4> QED  BY <2>6, <2>7, <3>1, <4>1, <4>2 DEF Settles, Placed
    <3>6. t \in State  BY <3>4 DEF Good, Sane, Lined
    <3> QED  BY <1>1, <2>8, <3>1, <3>4, <3>5, <3>6, SettlesMoves
  <2> QED  BY <2>9, <2>10
<1> QED  BY <1>5, <1>6

-----------------------------------------------------------------------------
(* Scenes are built, and animations dropped. *)

\* The entries r are those of q, some of which lost the animation they leave with.
Loses(q, r) ==
  /\ Len(r) = Len(q)
  /\ \A i \in 1 .. Len(q) :
       /\ r[i].id = q[i].id /\ r[i].timeout = q[i].timeout /\ r[i].height = q[i].height
       /\ r[i].y = q[i].y /\ r[i].lasts = q[i].lasts /\ r[i].exiting = q[i].exiting
       /\ r[i].hovered = q[i].hovered /\ r[i].updated = q[i].updated

LEMMA LosesKeeps ==
  ASSUME NEW s, Distinct(s), Apart(s), NEW t, Loses(s.entries, t.entries), t.notes = s.notes,
         s.calls \subseteq t.calls, Len(t.screens) = Len(s.screens)
  PROVE  /\ Distinct(t) /\ Apart(t) /\ Settles(s, t)
         /\ \A j \in 1 .. Len(s.entries) :
              /\ (Lasts(s, j) => Lasts(t, j)) /\ (Live(s, j) => Live(t, j))
              /\ (Held(s, j) => Held(t, j))
              /\ \A n : Fits(t.entries[j], n) <=> Fits(s.entries[j], n)
<1>1. /\ Len(t.entries) = Len(s.entries)
      /\ \A i \in 1 .. Len(s.entries) :
           /\ t.entries[i].id = s.entries[i].id /\ t.entries[i].timeout = s.entries[i].timeout
           /\ t.entries[i].height = s.entries[i].height /\ t.entries[i].y = s.entries[i].y
           /\ t.entries[i].lasts = s.entries[i].lasts /\ t.entries[i].exiting = s.entries[i].exiting
           /\ t.entries[i].hovered = s.entries[i].hovered
           /\ t.entries[i].updated = s.entries[i].updated
  BY DEF Loses
<1>2. Distinct(t)  BY <1>1 DEF Distinct
<1>3. \A i \in 1 .. Len(s.entries) : Placed(t.entries[i]) <=> Placed(s.entries[i])
  BY <1>1 DEF Placed
<1>4. Apart(t)
  <2> DEFINE P(j) == Rows(s.entries[j].y, s.entries[j].height)
             Q(j) == Rows(t.entries[j].y, t.entries[j].height)
  <2>1. \A j \in 1 .. Len(s.entries) : Placed(s.entries[j]) =>
          /\ P(j) \subseteq 0 .. MaxRoom - 1
          /\ \A k \in 1 .. Len(s.entries) : k # j /\ Placed(s.entries[k]) => P(j) \cap P(k) = {}
    BY DEF Apart
  <2>2. \A j \in 1 .. Len(s.entries) : Q(j) = P(j)  BY <1>1
  <2> HIDE DEF P, Q, Placed
  <2>3. \A j \in 1 .. Len(s.entries) : Placed(t.entries[j]) =>
          /\ Q(j) \subseteq 0 .. MaxRoom - 1
          /\ \A k \in 1 .. Len(s.entries) : k # j /\ Placed(t.entries[k]) => Q(j) \cap Q(k) = {}
    BY <1>3, <2>1, <2>2
  <2> QED  BY <1>1, <2>3 DEF Apart, Q
<1>5. Settles(s, t)  BY <1>1, <1>3 DEF Settles
<1>6. ASSUME NEW j \in 1 .. Len(s.entries)
      PROVE  /\ (Lasts(s, j) => Lasts(t, j)) /\ (Live(s, j) => Live(t, j))
             /\ (Held(s, j) => Held(t, j))
             /\ \A n : Fits(t.entries[j], n) <=> Fits(s.entries[j], n)
  <2>1. Lasts(s, j) => Lasts(t, j)  BY <1>1 DEF Lasts
  <2>2. Live(s, j) => Live(t, j)  BY <1>1 DEF Live
  <2>3. Held(s, j) => Held(t, j)  BY <1>1, <1>3 DEF Held, Stopped
  <2>4. \A n : Fits(t.entries[j], n) <=> Fits(s.entries[j], n)  BY <1>1, <1>3 DEF Fits
  <2> QED  BY <2>1, <2>2, <2>3, <2>4
<1> QED  BY <1>2, <1>4, <1>5, <1>6

LEMMA LosesLost ==
  ASSUME NEW q \in Seq(Entry)
  PROVE  /\ Lost(q) \in Seq(Entry) /\ Loses(q, Lost(q))
         /\ \A i \in 1 .. Len(q) : Lost(q)[i].exiting => Lost(q)[i].lost
<1>1. /\ Lost(q) \in Seq(Entry) /\ Len(Lost(q)) = Len(q)
      /\ \A i \in 1 .. Len(q) :
           /\ Lost(q)[i].id = q[i].id /\ Lost(q)[i].timeout = q[i].timeout
           /\ Lost(q)[i].height = q[i].height /\ Lost(q)[i].y = q[i].y
           /\ Lost(q)[i].lasts = q[i].lasts
           /\ Lost(q)[i].exiting = q[i].exiting /\ Lost(q)[i].hovered = q[i].hovered
           /\ Lost(q)[i].updated = q[i].updated
           /\ q[i].exiting => Lost(q)[i].lost
  BY LostFacts
<1> QED  BY <1>1 DEF Loses

LEMMA NewCardFacts ==
  ASSUME NEW e \in Entry
  PROVE  /\ NewCard(e) \in Card /\ NewCard(e).id = e.id
         /\ NewCard(e).leave = "keep" => e.lasts
<1> DEFINE leave == IF e.lasts THEN "keep" ELSE "resume"
           countdown == IF e.lasts \/ ~e.left THEN "off" ELSE "runs"
           left == e.lasts \/ e.left
<1>1. NewCard(e) = [id |-> e.id, leave |-> leave, countdown |-> countdown, left |-> left, exit |-> FALSE]
  BY DEF NewCard
<1>2. /\ leave \in {"none", "keep", "resume"} /\ (leave = "keep" => e.lasts)
      /\ countdown \in {"off", "runs", "driven"} /\ left \in BOOLEAN /\ e.id \in Ids
  BY EntryFields
<1> HIDE DEF leave, countdown, left
<1> QED  BY <1>1, <1>2 DEF Card

\* t is u with another scene on screen n, where r are the cards of the entries.
Built(u, t, n, r) ==
  /\ t \in State /\ t.notes = u.notes /\ t.entries = u.entries /\ t.pointer = u.pointer
  /\ t.area = u.area /\ u.calls \subseteq t.calls /\ Len(t.screens) = Len(u.screens)
  /\ t.screens[n].scene = TRUE /\ t.screens[n].cards = r
  /\ \A m \in 1 .. Len(u.screens) : m # n => t.screens[m] = u.screens[m]

LEMMA SceneSet ==
  ASSUME NEW u \in State, NEW n \in 1 .. Len(u.screens), NEW r \in Seq(Cards),
         NEW calls, calls \in Calls, u.calls \subseteq calls,
         NEW t, t = [u EXCEPT !.screens[n] = [scene |-> TRUE, cards |-> r, rebuild |-> FALSE],
                              !.calls = calls]
  PROVE  Built(u, t, n, r)
<1> DEFINE x == [scene |-> TRUE, cards |-> r, rebuild |-> FALSE]
           p == [u.screens EXCEPT ![n] = x]
<1>1. x \in Screen /\ x.scene = TRUE /\ x.cards = r  BY DEF Screen
<1>2. u.screens \in Seq(Screen)  BY StateFields
<1>3. t = [u EXCEPT !.screens = p, !.calls = calls]  OBVIOUS
<1> HIDE DEF x
<1>4. /\ p \in Seq(Screen) /\ Len(p) = Len(u.screens)
      /\ \A m \in 1 .. Len(u.screens) : p[m] = IF m = n THEN x ELSE u.screens[m]
  BY <1>1, <1>2, ExceptSeq
<1> HIDE DEF p
<1>5. /\ t \in State /\ t.screens = p /\ t.notes = u.notes /\ t.entries = u.entries
      /\ t.pointer = u.pointer /\ t.area = u.area /\ t.calls = calls
  BY <1>3, <1>4 DEF State
<1>6. p[n] = x /\ \A m \in 1 .. Len(u.screens) : m # n => p[m] = u.screens[m]  BY <1>4
<1> QED  BY <1>1, <1>4, <1>5, <1>6 DEF Built

LEMMA BuildSceneGood ==
  ASSUME NEW s, Good(s), NEW n \in 1 .. Len(s.screens), NEW t, t = BuildScene(s, n)
  PROVE  Good(t) /\ Keeps(s, t) /\ (Moves(s) => Moves(t))
<1> DEFINE left == IF s.pointer[1] = n THEN LeaveArea(s) ELSE s
           u == IF n = 1 THEN LoseExits(left) ELSE left
           fit == {i \in DOMAIN u.entries : Fits(u.entries[i], n)}
           r == [i \in DOMAIN u.entries |-> IF i \in fit THEN NewCard(u.entries[i]) ELSE NoCard]
           due == {<<"remove", u.entries[i].id>> : i \in {j \in fit : EndsAtOnce(u.entries[j])}}
           calls == u.calls \cup due
<1>1. s \in State /\ Sane(s) /\ Aims(s) /\ Points(s) /\ Apart(s)  BY SaneAims DEF Good, Sane, Lined
<1>2. t = [u EXCEPT !.screens[n] = [scene |-> TRUE, cards |-> r, rebuild |-> FALSE], !.calls = calls]
  BY DEF BuildScene
<1>3. /\ left \in State /\ Good(left) /\ Settles(s, left) /\ Len(left.screens) = Len(s.screens)
      /\ left.area # 0 => left.pointer[1] # n
  <2>1. CASE s.pointer[1] = n
    <3>1. left = LeaveArea(s)  BY <2>1
    <3> HIDE DEF left
    <3>2. left \in State /\ Hovers(s, left, 0) /\ left.area = 0  BY <1>1, <3>1, LeaveHovers
    <3>3. Like(s, left, 0) /\ Len(left.screens) = Len(s.screens) /\ left.pointer = s.pointer
      BY <3>2 DEF Hovers, Like
    <3>4. Points(left)  BY <1>1, <3>2, <3>3 DEF Points
    <3>5. /\ Sane(left) /\ Apart(left) /\ Len(left.entries) = Len(s.entries)
          /\ \A j \in 1 .. Len(s.entries) :
               (Fine(s, j) => Fine(left, j)) /\ (Shown(s, j) => Shown(left, j))
      BY <1>1, <3>2, <3>4, HoversFine
    <3>6. Good(left)  BY <3>5 DEF Good
    <3>7. Settles(s, left)
      <4>1. \A j \in 1 .. Len(s.entries) : SameEntry(s.entries[j], left.entries[j])  BY <3>3 DEF Like
      <4>2. DOMAIN left.notes = DOMAIN s.notes /\ s.calls \subseteq left.calls  BY <3>3 DEF Like
      <4> QED  BY <3>3, <3>5, <4>1, <4>2 DEF Settles, SameEntry, Placed
    <3> QED  BY <3>2, <3>3, <3>6, <3>7
  <2>2. CASE s.pointer[1] # n
    <3>1. left = s  BY <2>2
    <3> HIDE DEF left
    <3>2. Settles(s, s)  BY DEF Settles
    <3> QED  BY <1>1, <2>2, <3>1, <3>2
  <2> QED  BY <2>1, <2>2
<1> HIDE DEF left
<1>4. /\ Sane(left) /\ Apart(left) /\ Distinct(left) /\ Points(left)
      /\ \A m \in 1 .. Len(left.screens) : Line(left, m)
      /\ \A j \in 1 .. Len(left.entries) : Fine(left, j) /\ Shown(left, j)
  BY <1>3 DEF Good, Sane, Lined
<1>5. /\ u \in State /\ u.notes = left.notes /\ u.screens = left.screens /\ u.pointer = left.pointer
      /\ u.area = left.area /\ u.calls = left.calls /\ Loses(left.entries, u.entries)
      /\ n = 1 => \A i \in 1 .. Len(left.entries) : u.entries[i].exiting => u.entries[i].lost
      /\ n # 1 => u.entries = left.entries
  <2>1. CASE n = 1
    <3> DEFINE lost == Lost(left.entries)
    <3>1. u = LoseExits(left)  BY <2>1
    <3> HIDE DEF u
    <3>2. u = [left EXCEPT !.entries = lost]  BY <3>1, Zenon DEF LoseExits, Lost
    <3>3. left.entries \in Seq(Entry)  BY <1>3, StateFields
    <3>4. /\ lost \in Seq(Entry) /\ Loses(left.entries, lost)
          /\ \A i \in 1 .. Len(left.entries) : lost[i].exiting => lost[i].lost
      BY <3>3, LosesLost
    <3> HIDE DEF lost
    <3>5. /\ u \in State /\ u.entries = lost /\ u.notes = left.notes /\ u.screens = left.screens
          /\ u.pointer = left.pointer /\ u.area = left.area /\ u.calls = left.calls
      BY <1>3, <3>2, <3>4 DEF State
    <3> QED  BY <2>1, <3>4, <3>5
  <2>2. CASE n # 1
    <3>1. u = left  BY <2>2
    <3> HIDE DEF u
    <3>2. Loses(left.entries, left.entries)  BY DEF Loses
    <3> QED  BY <1>3, <2>2, <3>1, <3>2
  <2> QED  BY <2>1, <2>2
<1> HIDE DEF u
<1>6. /\ DOMAIN u.entries = 1 .. Len(u.entries) /\ Len(u.entries) \in Nat
      /\ Len(u.entries) = Len(left.entries) /\ \A i \in 1 .. Len(u.entries) : u.entries[i] \in Entry
  BY <1>5, StateFields DEF Loses
<1>7. /\ r \in Seq(Cards) /\ Len(r) = Len(u.entries) /\ DOMAIN r = 1 .. Len(u.entries)
      /\ \A i \in 1 .. Len(u.entries) :
           r[i] = IF Fits(u.entries[i], n) THEN NewCard(u.entries[i]) ELSE NoCard
  <2> DEFINE c(i) == IF Fits(u.entries[i], n) THEN NewCard(u.entries[i]) ELSE NoCard
  <2>1. ASSUME NEW i \in 1 .. Len(u.entries) PROVE c(i) \in Cards
    <3>1. NewCard(u.entries[i]) \in Card  BY <1>6, NewCardFacts
    <3> QED  BY <3>1, CardFields
  <2>2. r = [i \in 1 .. Len(u.entries) |-> c(i)]  BY <1>6
  <2> HIDE DEF c, r
  <2>3. r \in Seq(Cards) /\ Len(r) = Len(u.entries)  BY <1>6, <2>1, <2>2, SeqDef, LenProperties
  <2>4. \A i \in 1 .. Len(u.entries) : r[i] = c(i)  BY <2>2
  <2> QED  BY <2>2, <2>3, <2>4 DEF c
<1>8. calls \in Calls /\ u.calls \subseteq calls
  <2>1. \A i \in 1 .. Len(u.entries) : u.entries[i].id \in Ids  BY <1>6, EntryFields
  <2>2. u.calls \in Calls  BY <1>5, StateFields
  <2>3. due \subseteq {"remove", "finish"} \X Ids  BY <1>6, <2>1
  <2> HIDE DEF due
  <2> QED  BY <2>2, <2>3 DEF Calls
<1> HIDE DEF r, calls, fit
<1>9. Built(u, t, n, r)
  <2>1. n \in 1 .. Len(u.screens)  BY <1>3, <1>5
  <2> QED  BY <1>2, <1>5, <1>7, <1>8, <2>1, SceneSet
<1>10. /\ t \in State /\ t.notes = left.notes /\ t.entries = u.entries /\ t.pointer = left.pointer
       /\ t.area = left.area /\ left.calls \subseteq t.calls /\ Len(t.screens) = Len(left.screens)
       /\ t.screens[n].scene = TRUE /\ t.screens[n].cards = r
       /\ \A m \in 1 .. Len(left.screens) : m # n => t.screens[m] = left.screens[m]
  BY <1>5, <1>9 DEF Built
<1>11. /\ Distinct(t) /\ Apart(t) /\ Settles(left, t)
       /\ \A j \in 1 .. Len(left.entries) :
            /\ (Lasts(left, j) => Lasts(t, j)) /\ (Live(left, j) => Live(t, j))
            /\ (Held(left, j) => Held(t, j))
            /\ \A m : Fits(t.entries[j], m) <=> Fits(left.entries[j], m)
  BY <1>4, <1>5, <1>10, LosesKeeps
<1>12. ASSUME NEW m \in 1 .. Len(left.screens), m # n
       PROVE  \A j : HasCard(t, m, j) <=> HasCard(left, m, j)
  BY <1>10, <1>12 DEF HasCard
<1>13. ASSUME NEW j \in 1 .. Len(u.entries)
       PROVE  /\ HasCard(t, n, j) <=> Fits(t.entries[j], n)
              /\ r[j] # NoCard => r[j] = NewCard(u.entries[j])
  <2>1. NewCard(u.entries[j]) # NoCard
    <3>1. NewCard(u.entries[j]) \in Card  BY <1>6, NewCardFacts
    <3> QED  BY <3>1, CardFields
  <2>2. r[j] = IF Fits(u.entries[j], n) THEN NewCard(u.entries[j]) ELSE NoCard  BY <1>7
  <2>3. HasCard(t, n, j) <=> r[j] # NoCard  BY <1>7, <1>10 DEF HasCard
  <2> QED  BY <1>10, <2>1, <2>2, <2>3
<1>14. ASSUME NEW m \in 1 .. Len(t.screens) PROVE Line(t, m)
  <2>1. CASE m = n
    <3>1. ASSUME NEW j \in 1 .. Len(t.screens[m].cards), t.screens[m].cards[j] # NoCard
          PROVE  /\ t.screens[m].cards[j].id = t.entries[j].id
                 /\ t.screens[m].cards[j].leave = "keep" =>
                      t.entries[j].timeout = "never" \/ t.entries[j].updated
      <4>1. j \in 1 .. Len(u.entries) /\ j \in 1 .. Len(left.entries)  BY <1>6, <1>7, <1>10, <2>1, <3>1
      <4>2. t.screens[m].cards[j] = NewCard(t.entries[j]) /\ t.entries[j] \in Entry
        BY <1>6, <1>10, <1>13, <2>1, <3>1, <4>1
      <4>3. Lasts(t, j)  BY <1>4, <1>11, <4>1 DEF Fine
      <4>4. t.entries[j].lasts => t.entries[j].timeout = "never" \/ t.entries[j].updated
        BY <4>2, <4>3, EntryFields DEF Lasts
      <4> QED  BY <4>2, <4>4, NewCardFacts
    <3> QED  BY <1>7, <1>10, <2>1, <3>1 DEF Line
  <2>2. CASE m # n
    <3>1. t.screens[m] = left.screens[m] /\ Line(left, m)  BY <1>4, <1>10, <2>2
    <3>2. \A j \in 1 .. Len(left.entries) :
            /\ t.entries[j].id = left.entries[j].id /\ t.entries[j].timeout = left.entries[j].timeout
            /\ t.entries[j].updated = left.entries[j].updated
      BY <1>5, <1>10 DEF Loses
    <3>3. /\ Len(left.screens[m].cards) = IF left.screens[m].scene THEN Len(left.entries) ELSE 0
          /\ \A i \in 1 .. Len(left.screens[m].cards) : left.screens[m].cards[i] # NoCard =>
               /\ left.screens[m].cards[i].id = left.entries[i].id
               /\ left.screens[m].cards[i].leave = "keep" =>
                    left.entries[i].timeout = "never" \/ left.entries[i].updated
      BY <3>1 DEF Line
    <3>4. Len(t.entries) = Len(left.entries)  BY <1>6, <1>10
    <3> QED  BY SMTT(30), <1>6, <3>1, <3>2, <3>3, <3>4 DEF Line
  <2> QED  BY <2>1, <2>2
<1>15. Points(t)
  <2>1. left.pointer = Outside => left.area = 0  BY <1>4 DEF Points
  <2>2. left.pointer # Outside => left.pointer[1] \in 1 .. Len(left.screens)  BY <1>4 DEF Points
  <2>3. ASSUME left.area # 0
        PROVE  \E i \in 1 .. Len(t.entries) : t.entries[i].id = t.area /\ HasCard(t, t.pointer[1], i)
    <3>1. PICK i \in 1 .. Len(left.entries) :
            left.entries[i].id = left.area /\ HasCard(left, left.pointer[1], i)
      BY <1>4, <2>3 DEF Points
    <3>2. HasCard(t, left.pointer[1], i)  BY <1>3, <1>12, <2>1, <2>2, <2>3, <3>1
    <3>3. t.entries[i].id = left.entries[i].id  BY <1>5, <1>10 DEF Loses
    <3> QED  BY <1>6, <1>10, <3>1, <3>2, <3>3
  <2> QED  BY <1>10, <2>1, <2>2, <2>3 DEF Points
<1>16. ASSUME NEW j \in 1 .. Len(left.entries) PROVE Fine(t, j) /\ Shown(t, j)
  <2>1. Fine(left, j) /\ Shown(left, j)  BY <1>4
  <2>2. Lasts(t, j) /\ Live(t, j) /\ Held(t, j)  BY <1>11, <2>1 DEF Fine
  <2>3. Driven(t, j)
    <3>1. CASE n = 1  BY <1>5, <1>10, <3>1 DEF Driven
    <3>2. CASE n # 1
      <4>1. 1 \in 1 .. Len(left.screens) =>
              t.screens[1] = left.screens[1] /\ (HasCard(t, 1, j) <=> HasCard(left, 1, j))
        BY <1>10, <1>12, <3>2
      <4>2. t.entries[j] = left.entries[j]  BY <1>5, <1>10, <3>2
      <4> QED  BY <1>10, <2>1, <4>1, <4>2 DEF Fine, Driven
    <3> QED  BY <3>1, <3>2
  <2>4. ASSUME NEW m \in 1 .. Len(t.screens) PROVE Shows(t, m, j)
    <3>1. CASE m = n
      <4>1. j \in 1 .. Len(u.entries)  BY <1>6
      <4> QED  BY <1>13, <3>1, <4>1 DEF Shows
    <3>2. CASE m # n
      <4>1. /\ Shows(left, m, j) /\ t.screens[m] = left.screens[m]
            /\ HasCard(t, m, j) <=> HasCard(left, m, j)
        BY <1>10, <1>12, <2>1, <3>2 DEF Shown
      <4>2. Fits(t.entries[j], m) <=> Fits(left.entries[j], m)  BY <1>11
      <4>3. t.entries[j].exiting = left.entries[j].exiting  BY <1>5, <1>10 DEF Loses
      <4> QED  BY <4>1, <4>2, <4>3 DEF Shows
    <3> QED  BY <3>1, <3>2
  <2> QED  BY <2>2, <2>3, <2>4 DEF Fine, Shown
<1>17. Good(t)  BY <1>6, <1>10, <1>11, <1>14, <1>15, <1>16 DEF Good, Sane, Lined
<1>18. Keeps(s, t)
  <2>1. Keeps(s, left) /\ Keeps(left, t)  BY <1>3, <1>11, SettlesKeeps
  <2> QED  BY <2>1, KeepsTrans
<1>19. Moves(s) => Moves(t)
  <2>1. Moves(s) => Moves(left)  BY <1>1, <1>3, SettlesMoves
  <2>2. Moves(left) => Moves(t)  BY <1>3, <1>10, <1>11, SettlesMoves
  <2> QED  BY <2>1, <2>2
<1> QED  BY <1>17, <1>18, <1>19

-----------------------------------------------------------------------------
(* The steps of the program. *)

\* No id was given that is not below nextId.
Below(s, n) ==
  /\ \A id \in DOMAIN s.notes : id < n
  /\ \A i \in 1 .. Len(s.entries) : s.entries[i].id < n

\* The inductive invariant: the state is in order, who waits for a place has
\* none, unless somebody leaves, and a new id is new.
IInv ==
  /\ toast = ToastOf(Now) /\ Good(Now) /\ Moves(Now) /\ Below(Now, nextId)
  /\ nextId \in 1 .. MaxIds + 1 /\ position \in Positions /\ events \in 0 .. MaxEvents

LEMMA NowFields ==
  /\ Now.notes = notes /\ Now.entries = toast.entries /\ Now.screens = toast.screens
  /\ Now.pointer = toast.pointer /\ Now.area = toast.area /\ Now.calls = toast.calls
  /\ Now.lastPosition = toast.lastPosition
BY DEF Now, StateOf

\* A step that leads to s leads to what is said of s.
LEMMA StepTo ==
  ASSUME NEW s, Good(s), Moves(s), Below(s, nextId'), Becomes(s),
         nextId' \in 1 .. MaxIds + 1, position' \in Positions, events' \in 0 .. MaxEvents
  PROVE  IInv'
<1>1. s \in State  BY DEF Good, Sane, Lined
<1>2. /\ toast'.entries = s.entries /\ toast'.screens = s.screens /\ toast'.pointer = s.pointer
      /\ toast'.area = s.area /\ toast'.calls = s.calls /\ toast'.lastPosition = s.lastPosition
      /\ notes' = s.notes /\ toast' = ToastOf(s)
  BY DEF Becomes, ToastOf
<1>3. Now' = s  BY <1>1, <1>2 DEF Now, StateOf, State
<1>4. toast' = ToastOf(Now')  BY <1>2, <1>3
<1> QED  BY <1>3, <1>4 DEF IInv

LEMMA EventsType ==
  ASSUME events \in 0 .. MaxEvents, Happens
  PROVE  events' \in 0 .. MaxEvents
BY ToastAssumption DEF Happens

LEMMA KeepsBelow ==
  ASSUME NEW s, NEW t, Keeps(s, t), NEW n, Below(s, n)
  PROVE  Below(t, n)
<1>1. \A id \in DOMAIN t.notes : id < n  BY DEF Keeps, Below
<1>2. ASSUME NEW j \in 1 .. Len(t.entries) PROVE t.entries[j].id < n
  <2>1. PICK i \in 1 .. Len(s.entries) : t.entries[j].id = s.entries[i].id  BY DEF Keeps
  <2> QED  BY <2>1 DEF Below
<1> QED  BY <1>1, <1>2 DEF Below

LEMMA SettlesSelf ==
  ASSUME NEW s
  PROVE  Settles(s, s) /\ Keeps(s, s)
BY DEF Settles, Keeps

\* What the handlers get from the events: another pointer, more or fewer calls.
LEMMA GoodSame ==
  ASSUME NEW s, Good(s), NEW t \in State, t.notes = s.notes, t.entries = s.entries,
         t.screens = s.screens, s.calls \subseteq t.calls, Points(t)
  PROVE  Good(t) /\ Settles(s, t)
<1>1. /\ Distinct(s) /\ Apart(s) /\ \A n \in 1 .. Len(s.screens) : Line(s, n)
      /\ \A j \in 1 .. Len(s.entries) : Fine(s, j) /\ Shown(s, j)
  BY DEF Good, Sane, Lined
<1>2. Distinct(t) /\ Apart(t)  BY <1>1 DEF Distinct, Apart
<1>3. \A n \in 1 .. Len(t.screens) : Line(t, n)  BY <1>1, LineSame
<1>4. ASSUME NEW j \in 1 .. Len(s.entries) PROVE Fine(t, j) /\ Shown(t, j)
  <2>1. Fine(s, j) /\ Shown(s, j)  BY <1>1
  <2>2. Lasts(t, j) /\ Live(t, j)  BY <2>1 DEF Fine, Lasts, Live
  <2>3. Held(t, j)  BY <2>1, HeldSame DEF Fine
  <2>4. Driven(t, j)  BY <2>1 DEF Fine, Driven, HasCard
  <2>5. Shown(t, j)  BY <2>1 DEF Shown, Shows, HasCard
  <2> QED  BY <2>2, <2>3, <2>4, <2>5 DEF Fine
<1>5. Settles(s, t)  BY DEF Settles
<1> QED  BY <1>2, <1>3, <1>4, <1>5 DEF Good, Sane, Lined

\* What is set off by the pointer.
LEMMA HoversGood ==
  ASSUME NEW s, Good(s), NEW t \in State, Hovers(s, t, 0), Points(t)
  PROVE  Good(t) /\ Settles(s, t)
<1>1. s \in State /\ Sane(s) /\ Apart(s) /\ Like(s, t, 0)  BY DEF Good, Sane, Lined, Hovers
<1>2. /\ Sane(t) /\ (Apart(s) => Apart(t)) /\ Len(t.entries) = Len(s.entries)
      /\ \A j \in 1 .. Len(s.entries) : (Fine(s, j) => Fine(t, j)) /\ (Shown(s, j) => Shown(t, j))
  BY <1>1, HoversFine
<1>3. Good(t)  BY <1>1, <1>2 DEF Good
<1>4. Settles(s, t)
  <2>1. \A j \in 1 .. Len(s.entries) : SameEntry(s.entries[j], t.entries[j])  BY <1>1 DEF Like
  <2>2. DOMAIN t.notes = DOMAIN s.notes /\ s.calls \subseteq t.calls /\ Len(t.screens) = Len(s.screens)
    BY <1>1 DEF Like
  <2> QED  BY <1>2, <2>1, <2>2 DEF Settles, SameEntry, Placed
<1> QED  BY <1>3, <1>4

\* A step to a state that settles, as an event or without one.
LEMMA SettlesStep ==
  ASSUME IInv, NEW s, Good(s), Settles(Now, s), Becomes(s), nextId' = nextId,
         position' \in Positions, events' = events \/ Happens
  PROVE  IInv'
<1>1. Now \in State /\ s \in State  BY DEF IInv, Good, Sane, Lined
<1>2. Moves(s)  BY <1>1, SettlesMoves DEF IInv
<1>3. Below(s, nextId')
  <2>1. Keeps(Now, s)  BY SettlesKeeps
  <2> QED  BY <2>1, KeepsBelow DEF IInv
<1>4. events' \in 0 .. MaxEvents  BY EventsType DEF IInv
<1>5. nextId' \in 1 .. MaxIds + 1  BY DEF IInv
<1> QED  BY <1>2, <1>3, <1>4, <1>5, StepTo

\* The same for what does not settle but keeps what there is.
LEMMA KeepsStep ==
  ASSUME IInv, NEW s, Good(s), Moves(s), NEW r, Keeps(r, s), Below(r, nextId), Becomes(s),
         nextId' = nextId, position' = position, events' = events \/ Happens
  PROVE  IInv'
<1>1. Below(s, nextId')  BY KeepsBelow
<1>2. events' \in 0 .. MaxEvents  BY EventsType DEF IInv
<1>3. nextId' \in 1 .. MaxIds + 1 /\ position' \in Positions  BY DEF IInv
<1> QED  BY <1>1, <1>2, <1>3, StepTo

\* Another map of notes.
LEMMA NotesSet ==
  ASSUME NEW s \in State, NEW map \in Notes, NEW t, t = [s EXCEPT !.notes = map]
  PROVE  /\ t \in State /\ t.notes = map /\ t.entries = s.entries /\ t.screens = s.screens
         /\ t.pointer = s.pointer /\ t.area = s.area /\ t.calls = s.calls /\ ToastOf(t) = ToastOf(s)
<1>1. /\ t \in State /\ t.notes = map /\ t.entries = s.entries /\ t.screens = s.screens
      /\ t.pointer = s.pointer /\ t.area = s.area /\ t.calls = s.calls
      /\ t.lastPosition = s.lastPosition
  BY DEF State
<1> QED  BY <1>1 DEF ToastOf

\* In a state that differs in its notes alone, what is not about them is as before.
LEMMA NotesApart ==
  ASSUME NEW s, Sane(s), Apart(s), NEW t \in State, t.entries = s.entries, t.screens = s.screens,
         t.pointer = s.pointer, t.area = s.area, t.calls = s.calls
  PROVE  /\ Sane(t) /\ Apart(t) /\ (Moves(s) => Moves(t))
         /\ \A j \in 1 .. Len(s.entries) :
              /\ (Lasts(s, j) => Lasts(t, j)) /\ (Driven(s, j) => Driven(t, j))
              /\ (Shown(s, j) => Shown(t, j))
<1>1. Distinct(t) /\ Apart(t)  BY DEF Distinct, Apart, Sane, Lined
<1>2. \A n \in 1 .. Len(t.screens) : Line(t, n)  BY LineSame DEF Sane, Lined
<1>3. Points(t)  BY DEF Points, HasCard, Sane
<1>4. Sane(t)  BY <1>1, <1>2, <1>3 DEF Sane, Lined
<1>5. Moves(s) => Moves(t)
  <2>1. \A h : Free(t, h) = Free(s, h)  BY DEF Free
  <2> QED  BY <2>1 DEF Moves, Crowded, Waits
<1>6. ASSUME NEW j \in 1 .. Len(s.entries)
      PROVE  /\ (Lasts(s, j) => Lasts(t, j)) /\ (Driven(s, j) => Driven(t, j))
             /\ (Shown(s, j) => Shown(t, j))
  <2>1. Lasts(s, j) => Lasts(t, j)  BY DEF Lasts
  <2>2. Driven(s, j) => Driven(t, j)  BY DEF Driven, HasCard
  <2>3. Shown(s, j) => Shown(t, j)  BY DEF Shown, Shows, HasCard
  <2> QED  BY <2>1, <2>2, <2>3
<1> QED  BY <1>1, <1>4, <1>5, <1>6

\* A new notification, which no popup is of yet.
Added(s, map, timeout) ==
  /\ s \in State /\ Good(s) /\ Moves(s) /\ s.notes = map /\ ToastOf(s) = ToastOf(Now)
  /\ s.entries = Now.entries /\ nextId \in Ids /\ DOMAIN map = DOMAIN notes \cup {nextId}
  /\ map[nextId] = Counting(timeout)
  /\ \A i \in 1 .. Len(s.entries) : s.entries[i].id # nextId
  /\ Below(s, nextId + 1) /\ nextId + 1 \in 1 .. MaxIds + 1

LEMMA NotesAdded ==
  ASSUME IInv, nextId <= MaxIds, NEW timeout \in Timeouts,
         NEW map, map = [i \in DOMAIN notes \cup {nextId} |->
                           IF i = nextId THEN Counting(timeout) ELSE notes[i]],
         NEW s, s = [Now EXCEPT !.notes = map]
  PROVE  Added(s, map, timeout)
<1>1. /\ Now \in State /\ Good(Now) /\ Moves(Now) /\ Below(Now, nextId) /\ Now.notes = notes
      /\ nextId \in 1 .. MaxIds + 1
  BY NowFields DEF IInv, Good, Sane, Lined
<1>2. nextId \in Ids /\ MaxIds \in Nat /\ nextId \in Nat /\ nextId + 1 \in 1 .. MaxIds + 1
  BY <1>1, ToastAssumption DEF Ids
<1>3. notes \in Notes  BY <1>1, StateFields
<1>4. DOMAIN notes \in SUBSET Ids /\ \A id \in DOMAIN notes : notes[id] \in Note  BY <1>3 DEF Notes
<1>5. Counting(timeout) \in Note  BY DEF Counting, Note
<1>6. map \in Notes /\ DOMAIN map = DOMAIN notes \cup {nextId}
  <2>1. map \in [DOMAIN notes \cup {nextId} -> Note]  BY <1>4, <1>5
  <2>2. DOMAIN notes \cup {nextId} \in SUBSET Ids  BY <1>2, <1>4
  <2> QED  BY <2>1, <2>2 DEF Notes
<1>7. \A id \in DOMAIN notes : id # nextId /\ id < nextId
  <2>1. \A id \in DOMAIN notes : id < nextId /\ id \in Nat  BY <1>1, <1>4 DEF Below, Ids
  <2> QED  BY <1>2, <2>1
<1>8. map[nextId] = Counting(timeout) /\ \A id \in DOMAIN notes : map[id] = notes[id]  BY <1>7
<1>9. /\ s \in State /\ s.notes = map /\ s.entries = Now.entries /\ s.screens = Now.screens
      /\ s.pointer = Now.pointer /\ s.area = Now.area /\ s.calls = Now.calls
      /\ ToastOf(s) = ToastOf(Now)
  BY <1>1, <1>6, NotesSet
<1>10. /\ Sane(s) /\ Apart(s) /\ (Moves(Now) => Moves(s))
       /\ \A j \in 1 .. Len(Now.entries) :
            /\ (Lasts(Now, j) => Lasts(s, j)) /\ (Driven(Now, j) => Driven(s, j))
            /\ (Shown(Now, j) => Shown(s, j))
  BY <1>1, <1>9, NotesApart DEF Good
<1>11. ASSUME NEW j \in 1 .. Len(s.entries) PROVE Fine(s, j) /\ Shown(s, j)
  <2>1. Fine(Now, j) /\ Shown(Now, j)  BY <1>1, <1>9 DEF Good
  <2>2. Live(s, j)  BY <1>1, <1>6, <1>9, <2>1 DEF Fine, Live
  <2>3. Held(s, j)
    <3>1. s.entries[j].id # nextId
      <4>1. s.entries[j].id < nextId  BY <1>1, <1>9 DEF Below
      <4> QED  BY <1>2, <4>1
    <3>2. s.entries[j].id \in DOMAIN map =>
            s.entries[j].id \in DOMAIN notes /\ map[s.entries[j].id] = notes[s.entries[j].id]
      BY <1>6, <1>8, <3>1
    <3> QED  BY <1>1, <1>9, <2>1, <3>2 DEF Fine, Held, Stopped
  <2> QED  BY <1>9, <1>10, <2>1, <2>2, <2>3 DEF Fine
<1>12. Good(s) /\ Moves(s)  BY <1>1, <1>10, <1>11 DEF Good
<1>13. \A i \in 1 .. Len(s.entries) : s.entries[i].id # nextId /\ s.entries[i].id < nextId
  <2> TAKE i \in 1 .. Len(s.entries)
  <2>1. s.entries[i].id < nextId  BY <1>1, <1>9 DEF Below
  <2>2. s.entries[i].id \in Nat
    <3>1. s.entries[i] \in Entry  BY <1>9, StateFields
    <3> QED  BY <3>1, EntryFields DEF Ids
  <2> QED  BY <1>2, <2>1, <2>2
<1>14. Below(s, nextId + 1)
  <2>1. \A id \in DOMAIN map : id < nextId + 1
    <3> TAKE id \in DOMAIN map
    <3>1. id = nextId \/ id < nextId  BY <1>6, <1>7
    <3>2. id \in Nat  BY <1>2, <1>4, <1>6 DEF Ids
    <3> QED  BY <1>2, <3>1, <3>2
  <2>2. \A i \in 1 .. Len(s.entries) : s.entries[i].id < nextId + 1
    <3> TAKE i \in 1 .. Len(s.entries)
    <3>1. s.entries[i] \in Entry  BY <1>9, StateFields
    <3>2. s.entries[i].id \in Nat  BY <3>1, EntryFields DEF Ids
    <3> QED  BY <1>2, <1>13, <3>2
  <2> QED  BY <1>9, <2>1, <2>2 DEF Below
<1> QED  BY <1>2, <1>6, <1>8, <1>9, <1>12, <1>13, <1>14 DEF Added

LEMMA NotifyNewStep ==
  ASSUME IInv, NEW timeout \in Timeouts, NEW height \in Heights, NotifyNew(timeout, height)
  PROVE  IInv'
<1> DEFINE map == [i \in DOMAIN notes \cup {nextId} |->
                     IF i = nextId THEN Counting(timeout) ELSE notes[i]]
           s == [Now EXCEPT !.notes = map]
           t == AddPopup(s, nextId, timeout, height)
<1>1. /\ nextId <= MaxIds /\ nextId' = nextId + 1 /\ Becomes(t)
      /\ position' = position /\ events' = events
  BY DEF NotifyNew
<1>a. /\ map = [i \in DOMAIN notes \cup {nextId} |-> IF i = nextId THEN Counting(timeout) ELSE notes[i]]
      /\ s = [Now EXCEPT !.notes = map]
  OBVIOUS
<1>3. t = AddPopup(s, nextId, timeout, height)  OBVIOUS
<1> HIDE DEF s, t, map
<1>2. /\ s \in State /\ Good(s) /\ Moves(s) /\ s.notes = map /\ nextId \in Ids
      /\ DOMAIN map = DOMAIN notes \cup {nextId} /\ map[nextId] = Counting(timeout)
      /\ \A i \in 1 .. Len(s.entries) : s.entries[i].id # nextId
      /\ Below(s, nextId + 1) /\ nextId + 1 \in 1 .. MaxIds + 1
  <2>1. Added(s, map, timeout)  BY <1>1, <1>a, NotesAdded
  <2> QED  BY <2>1 DEF Added
<1>4. nextId \in DOMAIN s.notes /\ (timeout = "timed" => s.notes[nextId].counting)
  <2>1. timeout = "timed" => Counting(timeout).counting  BY DEF Counting
  <2> QED  BY <1>2, <2>1
<1>5. position \in Positions  BY DEF IInv
<1>6. /\ Good(t) /\ Moves(t) /\ DOMAIN t.notes = DOMAIN s.notes
      /\ \A j \in 1 .. Len(t.entries) :
           t.entries[j].id = nextId \/ \E i \in 1 .. Len(s.entries) : t.entries[j].id = s.entries[i].id
  BY <1>2, <1>3, <1>4, <1>5, AddPopupGood
<1>7. Below(t, nextId + 1)
  <2>1. nextId \in Nat /\ nextId < nextId + 1  BY <1>2 DEF Ids
  <2>2. \A j \in 1 .. Len(t.entries) : t.entries[j].id < nextId + 1
    BY <1>2, <1>6, <2>1 DEF Below
  <2> QED  BY <1>2, <1>6, <2>2 DEF Below
<1>8. events' \in 0 .. MaxEvents /\ position' \in Positions  BY <1>1 DEF IInv
<1> QED  BY <1>1, <1>2, <1>6, <1>7, <1>8, StepTo

LEMMA NotifyQuietlyStep ==
  ASSUME IInv, NEW timeout \in Timeouts, NotifyQuietly(timeout)
  PROVE  IInv'
<1> DEFINE map == [i \in DOMAIN notes \cup {nextId} |->
                     IF i = nextId THEN Counting(timeout) ELSE notes[i]]
           s == [Now EXCEPT !.notes = map]
<1>1. /\ nextId <= MaxIds /\ nextId' = nextId + 1 /\ notes' = map /\ toast' = toast
      /\ position' = position /\ Happens
  BY DEF NotifyQuietly
<1>a. /\ map = [i \in DOMAIN notes \cup {nextId} |-> IF i = nextId THEN Counting(timeout) ELSE notes[i]]
      /\ s = [Now EXCEPT !.notes = map]
  OBVIOUS
<1> HIDE DEF s, map
<1>2. /\ Good(s) /\ Moves(s) /\ s.notes = map /\ ToastOf(s) = ToastOf(Now)
      /\ Below(s, nextId + 1) /\ nextId + 1 \in 1 .. MaxIds + 1
  <2>1. Added(s, map, timeout)  BY <1>1, <1>a, NotesAdded
  <2> QED  BY <2>1 DEF Added
<1>3. Becomes(s)  BY <1>1, <1>2 DEF Becomes, IInv
<1>4. events' \in 0 .. MaxEvents /\ position' \in Positions  BY <1>1, EventsType DEF IInv
<1> QED  BY <1>1, <1>2, <1>3, <1>4, StepTo

LEMMA NotifyReplaceStep ==
  ASSUME IInv, NEW id \in DOMAIN notes, NEW timeout \in Timeouts, NEW height \in Heights,
         NEW layout \in BOOLEAN, NotifyReplace(id, timeout, height, layout)
  PROVE  IInv'
<1> DEFINE map == [notes EXCEPT ![id] = Counting(timeout)]
           s == [Now EXCEPT !.notes = map]
           t == UpdatePopup(s, id, timeout, height, layout)
<1>1. /\ Now \in State /\ Good(Now) /\ Moves(Now) /\ Below(Now, nextId) /\ Now.notes = notes
      /\ Sane(Now) /\ Apart(Now)
  BY NowFields DEF IInv, Good, Sane, Lined
<1>2. /\ Becomes(t) /\ Happens /\ nextId' = nextId /\ position' = position
  <2>1. [Now EXCEPT !.notes[id] = Counting(timeout)] = s  BY <1>1
  <2> QED  BY <2>1, Zenon DEF NotifyReplace
<1>3. notes \in Notes  BY <1>1, StateFields
<1>4. Counting(timeout) \in Note /\ (timeout = "timed" => Counting(timeout).counting)
  BY DEF Counting, Note
<1>5. /\ map \in Notes /\ DOMAIN map = DOMAIN notes /\ map[id] = Counting(timeout)
      /\ \A j \in DOMAIN notes : j # id => map[j] = notes[j]
  BY <1>3, <1>4 DEF Notes
<1> HIDE DEF map
<1>6. /\ s \in State /\ s.notes = map /\ s.entries = Now.entries /\ s.screens = Now.screens
      /\ s.pointer = Now.pointer /\ s.area = Now.area /\ s.calls = Now.calls
  BY <1>1, <1>5, NotesSet
<1> HIDE DEF s
<1>7. /\ Sane(s) /\ Apart(s) /\ (Moves(Now) => Moves(s))
      /\ \A j \in 1 .. Len(Now.entries) :
           /\ (Lasts(Now, j) => Lasts(s, j)) /\ (Driven(Now, j) => Driven(s, j))
           /\ (Shown(Now, j) => Shown(s, j))
  BY <1>1, <1>6, NotesApart
<1>8. Renewed(s, id)
  <2>1. ASSUME NEW j \in 1 .. Len(s.entries)
        PROVE  /\ Lasts(s, j) /\ Driven(s, j) /\ Live(s, j) /\ Shown(s, j)
               /\ s.entries[j].id # id => Held(s, j)
    <3>1. Fine(Now, j) /\ Shown(Now, j) /\ j \in 1 .. Len(Now.entries)  BY <1>1, <1>6 DEF Good
    <3>2. Live(s, j)  BY <1>1, <1>5, <1>6, <3>1 DEF Fine, Live
    <3>3. s.entries[j].id # id => Held(s, j)
      BY <1>1, <1>5, <1>6, <3>1 DEF Fine, Held, Stopped
    <3> QED  BY <1>7, <3>1, <3>2, <3>3 DEF Fine
  <2> QED  BY <1>7, <2>1 DEF Renewed
<1>9. Good(t) /\ Keeps(s, t) /\ (Moves(s) => Moves(t))
  <2>1. timeout = "timed" => s.notes[id].counting  BY <1>4, <1>5, <1>6
  <2> QED  BY <1>8, <2>1, UpdatePopupGood
<1>10. Below(s, nextId)  BY <1>1, <1>5, <1>6 DEF Below
<1> HIDE DEF t
<1> QED  BY <1>1, <1>2, <1>7, <1>9, <1>10, KeepsStep

LEMMA NotifySameStep ==
  ASSUME IInv, NEW id \in DOMAIN notes, NotifySame(id)
  PROVE  IInv'
<1> DEFINE s == SetExpiry(Now, id, TRUE)
<1>1. Now \in State /\ Sane(Now) /\ Apart(Now) /\ Now.notes = notes /\ TRUE \in BOOLEAN
  BY NowFields DEF IInv, Good, Sane, Lined
<1>2. /\ Happens /\ notes' = [notes EXCEPT ![id].counting = TRUE] /\ nextId' = nextId
      /\ position' = position /\ toast' = toast
  BY DEF NotifySame
<1>3. s = [Now EXCEPT !.notes = notes']  BY <1>1, <1>2 DEF SetExpiry
<1>4. s.notes = notes' /\ ToastOf(s) = ToastOf(Now)
  BY <1>1, <1>3 DEF ToastOf, State
<1>5. s = SetExpiry(Now, id, TRUE)  OBVIOUS
<1> HIDE DEF s
<1>6. Retimed(Now, s, id, TRUE)  BY <1>1, <1>5, ExpiryChanged
<1>7. /\ Sane(s) /\ s.entries = Now.entries /\ s.screens = Now.screens /\ s.calls = Now.calls
      /\ DOMAIN s.notes = DOMAIN Now.notes /\ Apart(s)
  BY <1>1, <1>6 DEF Retimed
<1>8. ASSUME NEW j \in 1 .. Len(s.entries) PROVE Fine(s, j) /\ Shown(s, j)
  <2>1. Fine(Now, j) /\ Shown(Now, j)  BY <1>7 DEF IInv, Good
  <2>2. /\ (Lasts(Now, j) => Lasts(s, j)) /\ (Driven(Now, j) => Driven(s, j))
        /\ (Live(Now, j) => Live(s, j)) /\ (Shown(Now, j) => Shown(s, j))
        /\ Now.entries[j].id # id => (Held(Now, j) => Held(s, j))
        /\ Now.entries[j].id = id => Held(s, j)
    BY <1>6, <1>7 DEF Retimed
  <2> QED  BY <2>1, <2>2 DEF Fine
<1>9. Good(s)  BY <1>7, <1>8 DEF Good
<1>10. Settles(Now, s)  BY <1>7 DEF Settles
<1>11. Becomes(s)  BY <1>2, <1>4 DEF Becomes, IInv
<1>12. position' \in Positions  BY <1>2 DEF IInv
<1> QED  BY <1>2, <1>9, <1>10, <1>11, <1>12, SettlesStep

LEMMA CloseStep ==
  ASSUME IInv, NEW id \in DOMAIN notes, Close(id)
  PROVE  IInv'
<1> DEFINE map == [i \in DOMAIN notes \ {id} |-> notes[i]]
           s == [Now EXCEPT !.notes = map]
           t == RemovePopup(s, id)
<1>1. /\ Now \in State /\ Good(Now) /\ Moves(Now) /\ Below(Now, nextId) /\ Now.notes = notes
      /\ Sane(Now) /\ Apart(Now)
  BY NowFields DEF IInv, Good, Sane, Lined
<1>2. Becomes(t) /\ nextId' = nextId /\ position' = position /\ events' = events  BY DEF Close
<1>3. notes \in Notes  BY <1>1, StateFields
<1>4. /\ map \in Notes /\ DOMAIN map = DOMAIN notes \ {id}
      /\ \A j \in DOMAIN map : map[j] = notes[j]
  <2>1. DOMAIN notes \in SUBSET Ids /\ \A j \in DOMAIN notes : notes[j] \in Note  BY <1>3 DEF Notes
  <2>2. map \in [DOMAIN notes \ {id} -> Note] /\ DOMAIN notes \ {id} \in SUBSET Ids  BY <2>1
  <2> QED  BY <2>2 DEF Notes
<1> HIDE DEF map
<1>5. /\ s \in State /\ s.notes = map /\ s.entries = Now.entries /\ s.screens = Now.screens
      /\ s.pointer = Now.pointer /\ s.area = Now.area /\ s.calls = Now.calls
  BY <1>1, <1>4, NotesSet
<1> HIDE DEF s
<1>6. /\ Sane(s) /\ Apart(s) /\ (Moves(Now) => Moves(s))
      /\ \A j \in 1 .. Len(Now.entries) :
           /\ (Lasts(Now, j) => Lasts(s, j)) /\ (Driven(Now, j) => Driven(s, j))
           /\ (Shown(Now, j) => Shown(s, j))
  BY <1>1, <1>5, NotesApart
<1>7. Nearly(s, id)
  <2>1. ASSUME NEW j \in 1 .. Len(s.entries)
        PROVE  /\ Lasts(s, j) /\ Driven(s, j) /\ Held(s, j) /\ Shown(s, j)
               /\ s.entries[j].id # id => Live(s, j)
    <3>1. Fine(Now, j) /\ Shown(Now, j) /\ j \in 1 .. Len(Now.entries)  BY <1>1, <1>5 DEF Good
    <3>2. Held(s, j)  BY <1>1, <1>4, <1>5, <3>1 DEF Fine, Held, Stopped
    <3>3. s.entries[j].id # id => Live(s, j)  BY <1>1, <1>4, <1>5, <3>1 DEF Fine, Live
    <3> QED  BY <1>6, <3>1, <3>2, <3>3 DEF Fine
  <2> QED  BY <1>6, <2>1 DEF Nearly
<1>8. Good(t) /\ Keeps(s, t) /\ (Moves(s) => Moves(t))  BY <1>7, RemovePopupGood
<1>9. Below(s, nextId)  BY <1>1, <1>4, <1>5 DEF Below
<1> HIDE DEF t
<1> QED  BY <1>1, <1>2, <1>6, <1>8, <1>9, KeepsStep

LEMMA ConfigReloadStep ==
  ASSUME IInv, NEW new \in Positions, ConfigReload(new)
  PROVE  IInv'
<1>1. /\ Happens /\ position' = new /\ notes' = notes /\ nextId' = nextId /\ toast' = toast
  BY DEF ConfigReload
<1>2. Becomes(Now)  BY <1>1, NowFields DEF Becomes, IInv
<1>3. Settles(Now, Now)  BY SettlesSelf
<1>4. Good(Now)  BY DEF IInv
<1> QED  BY <1>1, <1>2, <1>3, <1>4, SettlesStep

LEMMA RequestLayoutStep ==
  ASSUME IInv, RequestLayout
  PROVE  IInv'
<1> DEFINE m == Len(Now.screens)
           r(n) == [Now.screens[n] EXCEPT !.rebuild = TRUE]
           p == [n \in 1 .. m |-> r(n)]
           entries == Now.entries
           s == [Now EXCEPT !.entries = entries, !.screens = p]
<1>1. /\ Happens /\ nextId' = nextId /\ position' = position /\ notes' = notes
      /\ toast' = [toast EXCEPT !.screens = [n \in DOMAIN @ |-> [@[n] EXCEPT !.rebuild = TRUE]]]
  BY DEF RequestLayout
<1>2. /\ Now \in State /\ Good(Now) /\ Sane(Now) /\ Points(Now) /\ toast = ToastOf(Now)
      /\ Now.screens = toast.screens /\ Now.notes = notes
  BY NowFields DEF IInv, Good, Sane, Lined
<1>3. m \in Nat /\ DOMAIN Now.screens = 1 .. m /\ entries \in Seq(Entry)  BY <1>2, StateFields
<1>4. ASSUME NEW n \in 1 .. m
      PROVE  /\ r(n) \in Screen /\ r(n).scene = Now.screens[n].scene
             /\ r(n).cards = Now.screens[n].cards
  <2>1. Now.screens[n] \in Screen  BY <1>2, ScreenFields
  <2> QED  BY <2>1 DEF Screen
<1>5. toast' = [toast EXCEPT !.screens = p]  BY <1>1, <1>2, <1>3
<1> HIDE DEF r, m, entries
<1>6. p \in Seq(Screen) /\ Len(p) = m /\ \A n \in 1 .. m : p[n] = r(n)
  BY <1>3, <1>4, SeqDef, LenProperties
<1>7. s = [Now EXCEPT !.entries = entries, !.screens = p]  OBVIOUS
<1> HIDE DEF p, s
<1>8. /\ s \in State /\ s.screens = p /\ s.notes = Now.notes /\ s.entries = entries
      /\ s.pointer = Now.pointer /\ s.area = Now.area /\ s.calls = Now.calls
      /\ s.lastPosition = Now.lastPosition
  <2>1. Now \in State /\ p \in Seq(Screen) /\ entries \in Seq(Entry)  BY <1>2, <1>3, <1>6
  <2> QED  BY <1>7, <2>1 DEF State
<1>9. Becomes(s)
  <2>1. toast' = ToastOf(s)  BY <1>2, <1>5, <1>8 DEF ToastOf, entries
  <2> QED  BY <1>1, <1>2, <1>8, <2>1 DEF Becomes
<1>10. /\ \A n \in 1 .. m : s.screens[n].scene = Now.screens[n].scene /\ s.screens[n].cards = Now.screens[n].cards
       /\ Len(s.screens) = Len(Now.screens) /\ s.entries = Now.entries
  BY <1>4, <1>6, <1>8 DEF m, entries
<1>11. Like(Now, s, 0)
  <2>1. Like(Now, Now, 0)  BY <1>2, LikeSelf
  <2> QED  BY <1>8, <1>10, <2>1 DEF Like, m
<1>12. Hovers(Now, s, 0)
  <2>1. \A j \in 1 .. Len(Now.entries) : Held(Now, j) => Held(s, j)  BY <1>8, <1>10, HeldSame
  <2> QED  BY <1>11, <2>1 DEF Hovers
<1>13. Points(s)
  <2>1. \A n \in 1 .. m : \A j : HasCard(s, n, j) <=> HasCard(Now, n, j)  BY <1>10 DEF HasCard
  <2>2. Now.area # 0 => Now.pointer[1] \in 1 .. m  BY <1>2 DEF Points, m
  <2> QED  BY <1>2, <1>8, <1>10, <2>1, <2>2 DEF Points
<1>14. Good(s) /\ Settles(Now, s)  BY <1>2, <1>8, <1>12, <1>13, HoversGood
<1>15. position' \in Positions  BY <1>1 DEF IInv
<1> QED  BY <1>1, <1>9, <1>14, <1>15, SettlesStep

LEMMA PrepareFrameStep ==
  ASSUME IInv, NEW n \in Screens, PrepareFrame(n)
  PROVE  IInv'
<1> DEFINE t == BuildScene(Now, n)
<1>1. /\ n \in DOMAIN toast.screens /\ Becomes(t) /\ nextId' = nextId /\ position' = position
      /\ events' = events
  BY DEF PrepareFrame
<1>2. /\ Now \in State /\ Good(Now) /\ Moves(Now) /\ Below(Now, nextId)
      /\ Now.screens = toast.screens
  BY NowFields DEF IInv, Good, Sane, Lined
<1>3. n \in 1 .. Len(Now.screens)  BY <1>1, <1>2, StateFields
<1>4. Good(t) /\ Keeps(Now, t) /\ (Moves(Now) => Moves(t))  BY <1>2, <1>3, BuildSceneGood
<1> HIDE DEF t
<1> QED  BY <1>1, <1>2, <1>4, KeepsStep

LEMMA CountdownEndsStep ==
  ASSUME IInv, NEW n \in Screens, NEW i \in DOMAIN toast.entries, CountdownEnds(n, i)
  PROVE  IInv'
<1> DEFINE c == Now.screens[n].cards[i]
           d == [c EXCEPT !.countdown = "off", !.left = FALSE]
           e == [Now.entries[i] EXCEPT !.left = FALSE]
           calls == IF c.countdown = "runs" \/ n = 1
                    THEN Now.calls \cup {<<"remove", c.id>>} ELSE Now.calls
           t == SetCard(Now, n, i, d)
           u == SetEntry(t, i, e)
           s == [u EXCEPT !.calls = calls]
<1>1. /\ Now \in State /\ Good(Now) /\ Sane(Now) /\ Points(Now) /\ toast = ToastOf(Now)
      /\ Now.screens = toast.screens /\ Now.entries = toast.entries /\ Now.notes = notes
      /\ Now.calls = toast.calls
  BY NowFields DEF IInv, Good, Sane, Lined
<1>2. /\ n \in DOMAIN toast.screens /\ HasCard(toast, n, i)
      /\ notes' = notes /\ nextId' = nextId /\ position' = position /\ events' = events
      /\ toast' = [toast EXCEPT !.screens[n].cards[i] = d, !.entries[i].left = FALSE, !.calls = calls]
  BY <1>1, Zenon DEF CountdownEnds
<1>3. /\ n \in 1 .. Len(Now.screens) /\ i \in 1 .. Len(Now.entries) /\ HasCard(Now, n, i)
      /\ Now.entries[i] \in Entry /\ Now.calls \in Calls
  BY <1>1, <1>2, StateFields DEF HasCard
<1>4. i \in 1 .. Len(Now.screens[n].cards) /\ c \in Card /\ c.id \in Ids
  BY <1>1, <1>3, HasCardFields, CardFields
<1>5. /\ d \in Card /\ d.id = c.id /\ d.leave = c.leave /\ d.exit = c.exit  BY <1>4 DEF Card
<1>6. d \in Cards /\ SameCard(c, d)  BY <1>4, <1>5, CardFields DEF SameCard
<1>7. e \in Entry /\ SameEntry(Now.entries[i], e) /\ e.hovered = Now.entries[i].hovered
  BY <1>3 DEF Entry, SameEntry
<1>8. calls \in Calls /\ Now.calls \subseteq calls  BY <1>3, <1>4 DEF Calls
<1>9. e = [Now.entries[i] EXCEPT !.left = FALSE]  OBVIOUS
<1> HIDE DEF d, e, calls
<1>10. t = SetCard(Now, n, i, d)  OBVIOUS
<1> HIDE DEF t
<1>11. u = SetEntry(t, i, e)  OBVIOUS
<1> HIDE DEF u
<1>12. s = [u EXCEPT !.calls = calls]  OBVIOUS
<1> HIDE DEF s
<1>13. /\ t \in State /\ t.notes = Now.notes /\ t.entries = Now.entries /\ t.area = Now.area
       /\ t.calls = Now.calls /\ Marks(Now, t) /\ t.pointer = Now.pointer
  <2>1. /\ Like(Now, t, i) /\ t.notes = Now.notes /\ t.entries = Now.entries /\ t.area = Now.area
        /\ t.calls = Now.calls /\ (SameCard(Now.screens[n].cards[i], d) => Marks(Now, t))
    BY <1>1, <1>3, <1>4, <1>6, <1>10, CardLike
  <2> QED  BY <1>6, <2>1 DEF Like
<1>14. /\ u \in State /\ u.notes = Now.notes /\ u.area = Now.area /\ u.calls = Now.calls
       /\ u.pointer = Now.pointer /\ u.screens = t.screens /\ Marks(t, u)
  <2>1. i \in 1 .. Len(t.entries) /\ SameEntry(t.entries[i], e)  BY <1>3, <1>7, <1>13
  <2>2. /\ Like(t, u, 0) /\ u.notes = t.notes /\ u.area = t.area /\ u.entries[i] = e
        /\ \A j \in 1 .. Len(t.entries) : j # i => u.entries[j] = t.entries[j]
    BY <1>7, <1>11, <1>13, <2>1, EntryLike
  <2>3. u.screens = t.screens /\ u.calls = t.calls /\ u.pointer = t.pointer
    BY <1>7, <1>11, <1>13, <2>1, EntrySet
  <2>4. \A j \in 1 .. Len(t.entries) : u.entries[j].hovered = t.entries[j].hovered
    BY <1>7, <1>13, <2>2
  <2>5. u \in State  BY <2>2 DEF Like
  <2> QED  BY <1>13, <2>2, <2>3, <2>4, <2>5 DEF Marks
<1>15. Marks(Now, u)  BY <1>1, <1>13, <1>14, MarksTrans
<1>16. /\ s \in State /\ s.notes = u.notes /\ s.entries = u.entries /\ s.screens = u.screens
       /\ s.pointer = u.pointer /\ s.area = u.area /\ s.calls = calls
  BY <1>8, <1>12, <1>14, CallsSet
<1>17. Like(Now, u, 0) /\ \A j \in 1 .. Len(Now.entries) : u.entries[j].hovered = Now.entries[j].hovered
  BY <1>15 DEF Marks
<1>18. Hovers(Now, u, 0) /\ Points(u)
  <2>1. \A j \in 1 .. Len(Now.entries) : Held(Now, j) => Held(u, j)
    BY <1>1, <1>14, <1>17, HeldAlike
  <2>2. ASSUME NEW m \in 1 .. Len(Now.screens)
        PROVE  \A j : j # 0 => (HasCard(u, m, j) <=> HasCard(Now, m, j))
    BY <1>1, <1>14, <1>17, LikeCards
  <2>3. Now.area # 0 => Now.pointer[1] \in 1 .. Len(Now.screens)  BY <1>1 DEF Points
  <2>4. /\ Len(u.entries) = Len(Now.entries) /\ Len(u.screens) = Len(Now.screens)
        /\ \A j \in 1 .. Len(Now.entries) : j # 0 /\ u.entries[j].id = Now.entries[j].id
    BY <1>17 DEF Like, SameEntry
  <2>5. Points(u)  BY <1>1, <1>14, <2>2, <2>3, <2>4 DEF Points
  <2> QED  BY <1>17, <2>1, <2>5 DEF Hovers
<1>19. Good(u) /\ Settles(Now, u)  BY <1>1, <1>14, <1>18, HoversGood
<1>20. Good(s) /\ Settles(Now, s)
  <2>1. Points(s) /\ u.calls \subseteq s.calls  BY <1>8, <1>14, <1>16, <1>18 DEF Points, HasCard
  <2>2. Good(s) /\ Settles(u, s)  BY <1>16, <1>19, <2>1, GoodSame
  <2> QED  BY <1>19, <2>2, SettlesTrans
<1>21. Becomes(s)
  <2>1. t.screens = [Now.screens EXCEPT ![n].cards[i] = d]  BY <1>1, <1>10 DEF SetCard, State
  <2>2. u.entries = [Now.entries EXCEPT ![i] = e]  BY <1>11, <1>13 DEF SetEntry, State
  <2>3. s.lastPosition = Now.lastPosition
    BY <1>1, <1>10, <1>11, <1>12 DEF SetCard, SetEntry, State
  <2>4. toast' = [toast EXCEPT !.screens = s.screens, !.entries = s.entries, !.calls = s.calls]
    BY <1>1, <1>2, <1>9, <1>14, <1>16, <2>1, <2>2
  <2>5. toast' = ToastOf(s)
    BY <1>1, <1>14, <1>16, <2>3, <2>4 DEF ToastOf
  <2> QED  BY <1>1, <1>2, <1>14, <1>16, <2>5 DEF Becomes
<1>22. position' \in Positions  BY <1>2 DEF IInv
<1> QED  BY <1>2, <1>20, <1>21, <1>22, SettlesStep

LEMMA ExitEndsStep ==
  ASSUME IInv, NEW n \in Screens, NEW i \in DOMAIN toast.entries, ExitEnds(n, i)
  PROVE  IInv'
<1> DEFINE c == Now.screens[n].cards[i]
           d == [c EXCEPT !.exit = FALSE]
           calls == IF n = 1 THEN Now.calls \cup {<<"finish", c.id>>} ELSE Now.calls
           t == SetCard(Now, n, i, d)
           s == [t EXCEPT !.calls = calls]
<1>1. /\ Now \in State /\ Good(Now) /\ Sane(Now) /\ Apart(Now) /\ toast = ToastOf(Now)
      /\ Now.screens = toast.screens /\ Now.entries = toast.entries /\ Now.notes = notes
      /\ Now.calls = toast.calls
  BY NowFields DEF IInv, Good, Sane, Lined
<1>2. /\ n \in DOMAIN toast.screens /\ HasCard(toast, n, i)
      /\ notes' = notes /\ nextId' = nextId /\ position' = position /\ events' = events
      /\ toast' = [toast EXCEPT !.screens[n].cards[i] = d, !.calls = calls]
  BY <1>1 DEF ExitEnds
<1>3. /\ n \in 1 .. Len(Now.screens) /\ i \in 1 .. Len(Now.entries) /\ HasCard(Now, n, i)
      /\ Now.calls \in Calls
  BY <1>1, <1>2, StateFields DEF HasCard
<1>4. /\ i \in 1 .. Len(Now.screens[n].cards) /\ c \in Card /\ c # NoCard /\ c.id \in Ids
  BY <1>1, <1>3, HasCardFields, CardFields
<1>5. /\ c.id = Now.entries[i].id
      /\ c.leave = "keep" => Now.entries[i].timeout = "never" \/ Now.entries[i].updated
  BY <1>1, <1>3, <1>4 DEF Sane, Lined, Line
<1>6. d \in Card /\ d.id = c.id /\ d.leave = c.leave  BY <1>4 DEF Card
<1>7. calls \in Calls /\ Now.calls \subseteq calls /\ (n = 1 => <<"finish", c.id>> \in calls)
  BY <1>3, <1>4 DEF Calls
<1> HIDE DEF d, calls
<1>8. t = SetCard(Now, n, i, d)  OBVIOUS
<1> HIDE DEF t
<1>9. s = [t EXCEPT !.calls = calls]  OBVIOUS
<1> HIDE DEF s
<1>10. /\ t \in State /\ Like(Now, t, i) /\ Sane(t) /\ t.notes = Now.notes /\ t.entries = Now.entries
       /\ t.pointer = Now.pointer /\ t.area = Now.area /\ t.calls = Now.calls
       /\ Len(t.screens) = Len(Now.screens)
       /\ \A m \in 1 .. Len(Now.screens) : \A j : HasCard(t, m, j) <=> HasCard(Now, m, j)
  BY <1>1, <1>3, <1>5, <1>6, <1>8, CardReplaced
<1>11. /\ s \in State /\ s.notes = Now.notes /\ s.entries = Now.entries /\ s.screens = t.screens
       /\ s.pointer = Now.pointer /\ s.area = Now.area /\ s.calls = calls
  BY <1>7, <1>9, <1>10, CallsSet
<1>12. /\ Apart(t) /\ Distinct(t) /\ Points(t) /\ \A m \in 1 .. Len(t.screens) : Line(t, m)
  BY <1>1, <1>10, LikeWhole DEF Sane, Lined
<1>13. Sane(s) /\ Apart(s)
  <2>1. Distinct(s) /\ Apart(s)  BY <1>10, <1>11, <1>12 DEF Distinct, Apart
  <2>2. \A m \in 1 .. Len(s.screens) : Line(s, m)  BY <1>10, <1>11, <1>12, LineSame
  <2>3. Points(s)  BY <1>10, <1>11, <1>12 DEF Points, HasCard
  <2> QED  BY <1>11, <2>1, <2>2, <2>3 DEF Sane, Lined
<1>14. \A m \in 1 .. Len(Now.screens) : \A j : HasCard(s, m, j) <=> HasCard(Now, m, j)
  BY <1>10, <1>11 DEF HasCard
<1>15. ASSUME NEW j \in 1 .. Len(Now.entries) PROVE Fine(s, j) /\ Shown(s, j)
  <2>1. Fine(Now, j) /\ Shown(Now, j)  BY <1>1 DEF Good
  <2>2. Lasts(s, j) /\ Held(s, j) /\ Live(s, j)
    BY <1>11, <2>1 DEF Fine, Lasts, Held, Stopped, Live
  <2>3. Driven(s, j)
    <3>1. CASE j = i /\ n = 1  BY <1>5, <1>7, <1>11, <3>1 DEF Driven
    <3>2. CASE ~(j = i /\ n = 1)
      <4>1. ASSUME 1 \in 1 .. Len(Now.screens), HasCard(Now, 1, j)
            PROVE  t.screens[1].cards[j] = Now.screens[1].cards[j]
        <5>1. j \in 1 .. Len(Now.screens[1].cards)  BY <1>1, <4>1, HasCardFields
        <5>2. Swapped(Now, t, n, i, d)
          <6>1. d \in Cards  BY <1>6, CardFields
          <6> QED  BY <1>1, <1>3, <1>4, <1>8, <6>1, CardSet
        <5> QED  BY <3>2, <4>1, <5>1, <5>2 DEF Swapped
      <4>2. 1 \in 1 .. Len(Now.screens) /\ HasCard(Now, 1, j) /\ Now.screens[1].cards[j].exit =>
              1 \in 1 .. Len(s.screens) /\ HasCard(s, 1, j) /\ s.screens[1].cards[j].exit
        BY <1>10, <1>11, <1>14, <4>1
      <4> QED  BY <1>7, <1>11, <2>1, <4>2 DEF Fine, Driven
    <3> QED  BY <3>1, <3>2
  <2>4. \A m \in 1 .. Len(Now.screens) : s.screens[m].scene = Now.screens[m].scene
    BY <1>10, <1>11 DEF Like
  <2>5. Shown(s, j)  BY <1>10, <1>11, <1>14, <2>1, <2>4 DEF Shown, Shows
  <2> QED  BY <2>2, <2>3, <2>5 DEF Fine
<1>16. Good(s)  BY <1>11, <1>13, <1>15 DEF Good
<1>17. Settles(Now, s)  BY <1>7, <1>10, <1>11 DEF Settles
<1>18. Becomes(s)
  <2>1. t.screens = [Now.screens EXCEPT ![n].cards[i] = d]  BY <1>1, <1>8 DEF SetCard, State
  <2>2. s.lastPosition = Now.lastPosition  BY <1>1, <1>8, <1>9 DEF SetCard, State
  <2>3. toast' = [toast EXCEPT !.screens = s.screens, !.calls = s.calls]
    BY <1>1, <1>2, <1>11, <2>1
  <2>4. toast' = ToastOf(s)  BY <1>1, <1>11, <2>2, <2>3 DEF ToastOf
  <2> QED  BY <1>1, <1>2, <1>11, <2>4 DEF Becomes
<1>19. position' \in Positions  BY <1>2 DEF IInv
<1> QED  BY <1>2, <1>16, <1>17, <1>18, <1>19, SettlesStep

LEMMA MotionOffStep ==
  ASSUME IInv, MotionOff
  PROVE  IInv'
<1> DEFINE m == Len(Now.screens)
           d(n, i) == [Now.screens[n].cards[i] EXCEPT !.countdown = "off", !.exit = FALSE]
           x(n, i) == IF HasCard(Now, n, i) THEN d(n, i) ELSE NoCard
           q(n) == [i \in DOMAIN Now.screens[n].cards |-> x(n, i)]
           r(n) == [Now.screens[n] EXCEPT !.cards = q(n)]
           p == [n \in 1 .. m |-> r(n)]
           lost == Lost(Now.entries)
           s == [Now EXCEPT !.entries = lost, !.screens = p]
<1>1. /\ Now \in State /\ Good(Now) /\ Sane(Now) /\ Apart(Now) /\ Distinct(Now) /\ Points(Now)
      /\ toast = ToastOf(Now) /\ Now.screens = toast.screens /\ Now.entries = toast.entries
      /\ Now.notes = notes /\ \A n \in 1 .. m : Line(Now, n)
  BY NowFields DEF IInv, Good, Sane, Lined
<1>2. m \in Nat /\ DOMAIN Now.screens = 1 .. m /\ Now.entries \in Seq(Entry)  BY <1>1, StateFields
<1>3. /\ Happens /\ notes' = notes /\ nextId' = nextId /\ position' = position
      /\ toast' = [toast EXCEPT !.entries = lost, !.screens = p]
  <2>1. /\ Happens /\ notes' = notes /\ nextId' = nextId /\ position' = position
        /\ toast' = [LoseExits(toast) EXCEPT
             !.screens = [n \in DOMAIN @ |->
                [@[n] EXCEPT !.cards = [i \in DOMAIN toast.screens[n].cards |->
                   IF HasCard(toast, n, i)
                   THEN [toast.screens[n].cards[i] EXCEPT !.countdown = "off", !.exit = FALSE]
                   ELSE NoCard]]]]
    BY DEF MotionOff
  <2>2. LoseExits(toast) = [toast EXCEPT !.entries = lost]  BY <1>1, Zenon DEF LoseExits, Lost
  <2>3. /\ LoseExits(toast).screens = toast.screens
        /\ \A P : [LoseExits(toast) EXCEPT !.screens = P] = [toast EXCEPT !.entries = lost, !.screens = P]
    BY <1>1, <2>2 DEF ToastOf
  <2>4. p = [n \in DOMAIN toast.screens |->
               [toast.screens[n] EXCEPT !.cards = [i \in DOMAIN toast.screens[n].cards |->
                  IF HasCard(toast, n, i)
                  THEN [toast.screens[n].cards[i] EXCEPT !.countdown = "off", !.exit = FALSE]
                  ELSE NoCard]]]
    BY <1>1, <1>2, Zenon DEF HasCard
  <2> HIDE DEF p, lost
  <2> QED  BY <2>1, <2>3, <2>4
<1>4. ASSUME NEW n \in 1 .. m, NEW i \in 1 .. Len(Now.screens[n].cards)
      PROVE  /\ x(n, i) \in Cards /\ (x(n, i) = NoCard <=> Now.screens[n].cards[i] = NoCard)
             /\ x(n, i).id = Now.screens[n].cards[i].id
             /\ x(n, i) # NoCard => x(n, i).leave = Now.screens[n].cards[i].leave
  <2>1. DOMAIN Now.screens[n].cards = 1 .. Len(Now.screens[n].cards)  BY <1>1, ScreenFields
  <2>2. CASE Now.screens[n].cards[i] = NoCard
    <3>1. x(n, i) = NoCard  BY <2>2 DEF HasCard
    <3> QED  BY <2>2, <3>1, CardFields
  <2>3. CASE Now.screens[n].cards[i] # NoCard
    <3>1. HasCard(Now, n, i)  BY <2>1, <2>3 DEF HasCard
    <3>2. x(n, i) = d(n, i) /\ Now.screens[n].cards[i] \in Card  BY <1>1, <3>1, HasCardFields
    <3>3. /\ d(n, i) \in Card /\ d(n, i).id = Now.screens[n].cards[i].id
          /\ d(n, i).leave = Now.screens[n].cards[i].leave
      BY <3>2 DEF Card
    <3> HIDE DEF x, d
    <3>4. d(n, i) \in Cards /\ d(n, i) # NoCard  BY <3>3, CardFields
    <3> QED  BY <2>3, <3>2, <3>3, <3>4
  <2> QED  BY <2>2, <2>3
<1> HIDE DEF x
<1>5. ASSUME NEW n \in 1 .. m
      PROVE  /\ q(n) \in Seq(Cards) /\ Len(q(n)) = Len(Now.screens[n].cards)
             /\ DOMAIN q(n) = 1 .. Len(Now.screens[n].cards)
             /\ DOMAIN Now.screens[n].cards = 1 .. Len(Now.screens[n].cards)
             /\ \A i \in 1 .. Len(Now.screens[n].cards) : q(n)[i] = x(n, i)
  <2>1. /\ DOMAIN Now.screens[n].cards = 1 .. Len(Now.screens[n].cards)
        /\ Len(Now.screens[n].cards) \in Nat
    BY <1>1, ScreenFields
  <2>2. q(n) = [i \in 1 .. Len(Now.screens[n].cards) |-> x(n, i)]  BY <2>1
  <2> HIDE DEF q
  <2>3. q(n) \in Seq(Cards) /\ Len(q(n)) = Len(Now.screens[n].cards)
    BY <1>4, <2>1, <2>2, SeqDef, LenProperties
  <2> QED  BY <2>1, <2>2, <2>3
<1> HIDE DEF q
<1>6. ASSUME NEW n \in 1 .. m
      PROVE  r(n) \in Screen /\ r(n).scene = Now.screens[n].scene /\ r(n).cards = q(n)
  <2>1. Now.screens[n] \in Screen  BY <1>1, ScreenFields
  <2> QED  BY <1>5, <2>1 DEF Screen
<1> HIDE DEF r
<1>7. p \in Seq(Screen) /\ Len(p) = m /\ \A n \in 1 .. m : p[n] = r(n)
  BY <1>2, <1>6, SeqDef, LenProperties
<1>8. /\ lost \in Seq(Entry) /\ Loses(Now.entries, lost)
      /\ \A i \in 1 .. Len(Now.entries) : lost[i].exiting => lost[i].lost
  BY <1>2, LosesLost
<1> HIDE DEF p, lost
<1>9. /\ s \in State /\ s.screens = p /\ s.notes = Now.notes /\ s.entries = lost
      /\ s.pointer = Now.pointer /\ s.area = Now.area /\ s.calls = Now.calls
      /\ s.lastPosition = Now.lastPosition
  BY <1>1, <1>7, <1>8 DEF State
<1> HIDE DEF s
<1>10. Becomes(s)
  <2>1. toast' = ToastOf(s)  BY <1>1, <1>3, <1>9 DEF ToastOf
  <2> QED  BY <1>1, <1>3, <1>9, <2>1 DEF Becomes
<1>11. /\ Distinct(s) /\ Apart(s) /\ Settles(Now, s)
       /\ \A j \in 1 .. Len(Now.entries) :
            /\ (Lasts(Now, j) => Lasts(s, j)) /\ (Live(Now, j) => Live(s, j))
            /\ (Held(Now, j) => Held(s, j))
            /\ \A n : Fits(s.entries[j], n) <=> Fits(Now.entries[j], n)
  <2>1. Loses(Now.entries, s.entries) /\ Now.calls \subseteq s.calls /\ Len(s.screens) = Len(Now.screens)
    BY <1>7, <1>8, <1>9 DEF m
  <2> QED  BY <1>1, <1>9, <2>1, LosesKeeps
<1>12. ASSUME NEW n \in 1 .. m
       PROVE  /\ s.screens[n].scene = Now.screens[n].scene
              /\ Len(s.screens[n].cards) = Len(Now.screens[n].cards)
              /\ \A i \in 1 .. Len(Now.screens[n].cards) : s.screens[n].cards[i] = x(n, i)
              /\ \A i : HasCard(s, n, i) <=> HasCard(Now, n, i)
  <2>1. s.screens[n].scene = Now.screens[n].scene /\ s.screens[n].cards = q(n)  BY <1>6, <1>7, <1>9
  <2>2. \A i : HasCard(s, n, i) <=> HasCard(Now, n, i)  BY SMTT(30), <1>4, <1>5, <2>1 DEF HasCard
  <2> QED  BY <1>5, <2>1, <2>2
<1>13. /\ Len(s.entries) = Len(Now.entries) /\ Len(s.screens) = m
       /\ \A j \in 1 .. Len(Now.entries) :
            /\ s.entries[j].id = Now.entries[j].id /\ s.entries[j].timeout = Now.entries[j].timeout
            /\ s.entries[j].updated = Now.entries[j].updated
            /\ s.entries[j].exiting = Now.entries[j].exiting
  BY <1>7, <1>8, <1>9 DEF Loses
<1>14. ASSUME NEW n \in 1 .. m PROVE Line(s, n)
  <2>1. /\ Len(Now.screens[n].cards) = IF Now.screens[n].scene THEN Len(Now.entries) ELSE 0
        /\ \A i \in 1 .. Len(Now.screens[n].cards) : Now.screens[n].cards[i] # NoCard =>
             /\ Now.screens[n].cards[i].id = Now.entries[i].id
             /\ Now.screens[n].cards[i].leave = "keep" =>
                  Now.entries[i].timeout = "never" \/ Now.entries[i].updated
    BY <1>1 DEF Line
  <2>2. ASSUME NEW i \in 1 .. Len(s.screens[n].cards), s.screens[n].cards[i] # NoCard
        PROVE  /\ s.screens[n].cards[i].id = s.entries[i].id
               /\ s.screens[n].cards[i].leave = "keep" =>
                    s.entries[i].timeout = "never" \/ s.entries[i].updated
    <3>1. i \in 1 .. Len(Now.screens[n].cards) /\ s.screens[n].cards[i] = x(n, i)  BY <1>12, <2>2
    <3>2. /\ x(n, i) # NoCard /\ Now.screens[n].cards[i] # NoCard
          /\ x(n, i).id = Now.screens[n].cards[i].id /\ x(n, i).leave = Now.screens[n].cards[i].leave
      BY <1>4, <2>2, <3>1
    <3>3. i \in 1 .. Len(Now.entries)
      <4>1. Len(Now.entries) \in Nat  BY <1>1, StateFields
      <4> QED  BY <2>1, <3>1, <4>1
    <3> QED  BY <1>13, <2>1, <3>1, <3>2, <3>3
  <2>3. Len(s.screens[n].cards) = IF s.screens[n].scene THEN Len(s.entries) ELSE 0
    BY <1>12, <1>13, <2>1
  <2> QED  BY <2>2, <2>3 DEF Line
<1>15. Points(s)
  <2>1. Now.area # 0 => Now.pointer[1] \in 1 .. m  BY <1>1 DEF Points
  <2>2. ASSUME Now.area # 0
        PROVE  \E i \in 1 .. Len(s.entries) : s.entries[i].id = s.area /\ HasCard(s, s.pointer[1], i)
    <3>1. PICK i \in 1 .. Len(Now.entries) :
            Now.entries[i].id = Now.area /\ HasCard(Now, Now.pointer[1], i)
      BY <1>1, <2>2 DEF Points
    <3>2. HasCard(s, Now.pointer[1], i)  BY <1>12, <2>1, <2>2, <3>1
    <3> QED  BY <1>9, <1>13, <3>1, <3>2
  <2>3. /\ Now.pointer = Outside => Now.area = 0
        /\ Now.pointer # Outside => Now.pointer[1] \in 1 .. m
    BY <1>1 DEF Points
  <2> QED  BY <1>9, <1>13, <2>2, <2>3 DEF Points
<1>16. ASSUME NEW j \in 1 .. Len(Now.entries) PROVE Fine(s, j) /\ Shown(s, j)
  <2>1. Fine(Now, j) /\ Shown(Now, j)  BY <1>1 DEF Good
  <2>2. Lasts(s, j) /\ Live(s, j) /\ Held(s, j)  BY <1>11, <2>1 DEF Fine
  <2>3. Driven(s, j)  BY <1>8, <1>9 DEF Driven
  <2>4. ASSUME NEW n \in 1 .. m PROVE Shows(s, n, j)
    <3>1. Shows(Now, n, j)  BY <2>1 DEF Shown, m
    <3>2. Fits(s.entries[j], n) <=> Fits(Now.entries[j], n)  BY <1>11
    <3> QED  BY <1>12, <1>13, <3>1, <3>2 DEF Shows
  <2> QED  BY <1>13, <2>2, <2>3, <2>4 DEF Fine, Shown
<1>17. Good(s)  BY <1>9, <1>11, <1>13, <1>14, <1>15, <1>16 DEF Good, Sane, Lined
<1>18. position' \in Positions  BY <1>3 DEF IInv
<1> QED  BY <1>3, <1>10, <1>11, <1>17, <1>18, SettlesStep

\* A deferred call is taken out; it may have been what drives an exit.
Taken(s, t, call) ==
  /\ t.entries = s.entries /\ Sane(t) /\ Apart(t) /\ Keeps(s, t) /\ (Moves(s) => Moves(t))
  /\ \A j \in 1 .. Len(s.entries) :
       /\ Lasts(t, j) /\ Held(t, j) /\ Live(t, j) /\ Shown(t, j)
       /\ call # <<"finish", s.entries[j].id>> => Driven(t, j)

LEMMA CallTaken ==
  ASSUME NEW s, Good(s), NEW call, NEW calls, calls = s.calls \ {call},
         NEW t, t = [s EXCEPT !.calls = calls]
  PROVE  Taken(s, t, call)
<1>1. /\ s \in State /\ Distinct(s) /\ Apart(s) /\ Points(s)
      /\ \A n \in 1 .. Len(s.screens) : Line(s, n)
      /\ \A j \in 1 .. Len(s.entries) : Fine(s, j) /\ Shown(s, j)
  BY DEF Good, Sane, Lined
<1>2. s \in State  BY <1>1
<1>3. s.calls \in Calls  BY <1>1, StateFields
<1>4. calls \in Calls  BY <1>3 DEF Calls
<1>5. \A c : c \in calls <=> c \in s.calls /\ c # call  OBVIOUS
<1>6. /\ t \in State /\ t.notes = s.notes /\ t.entries = s.entries /\ t.screens = s.screens
      /\ t.pointer = s.pointer /\ t.area = s.area /\ t.calls = calls
  BY <1>2, <1>4 DEF State
<1>7. Distinct(t) /\ Apart(t) /\ Points(t)
  <2>1. Distinct(t)  BY <1>1, <1>6 DEF Distinct
  <2>2. Apart(t)  BY <1>1, <1>6 DEF Apart
  <2>3. Points(t)  BY <1>1, <1>6 DEF Points, HasCard
  <2> QED  BY <2>1, <2>2, <2>3
<1>8. \A n \in 1 .. Len(t.screens) : Line(t, n)  BY <1>1, <1>6, LineSame
<1>9. Moves(s) => Moves(t)
  <2>1. \A h : Free(t, h) = Free(s, h)  BY <1>6 DEF Free
  <2> QED  BY <1>6, <2>1 DEF Moves, Crowded, Waits
<1>10. Keeps(s, t)  BY <1>6 DEF Keeps
<1>11. ASSUME NEW j \in 1 .. Len(s.entries)
      PROVE  /\ Lasts(t, j) /\ Held(t, j) /\ Live(t, j) /\ Shown(t, j)
             /\ call # <<"finish", s.entries[j].id>> => Driven(t, j)
  <2>1. Fine(s, j) /\ Shown(s, j)  BY <1>1
  <2>2. Lasts(t, j) /\ Live(t, j)  BY <1>6, <2>1 DEF Fine, Lasts, Live
  <2>3. Held(t, j)  BY <1>6, <2>1, HeldSame DEF Fine
  <2>4. Shown(t, j)  BY <1>6, <2>1 DEF Shown, Shows, HasCard
  <2>5. call # <<"finish", s.entries[j].id>> => Driven(t, j)
    BY <1>5, <1>6, <2>1 DEF Fine, Driven, HasCard
  <2> QED  BY <2>2, <2>3, <2>4, <2>5
<1> QED  BY <1>6, <1>7, <1>8, <1>9, <1>10, <1>11 DEF Taken, Sane, Lined

LEMMA RunCallStep ==
  ASSUME IInv, NEW call \in toast.calls, RunCall(call)
  PROVE  IInv'
<1> DEFINE calls == Now.calls \ {call}
           s == [Now EXCEPT !.calls = calls]
           id == call[2]
           t == IF call[1] = "remove" THEN RemovePopup(s, id) ELSE FinishRemoval(s, id)
<1>1. Now \in State /\ Good(Now) /\ Moves(Now) /\ Below(Now, nextId) /\ Now.calls = toast.calls
  BY NowFields DEF IInv, Good, Sane, Lined
<1>2. call \in {"remove", "finish"} \X Ids  BY <1>1, StateFields DEF Calls
<1>3. Becomes(t) /\ nextId' = nextId /\ position' = position /\ events' = events
  BY DEF RunCall
<1>4. calls = Now.calls \ {call}  OBVIOUS
<1> HIDE DEF calls
<1>5. s = [Now EXCEPT !.calls = calls]  OBVIOUS
<1> HIDE DEF s
<1>6. Taken(Now, s, call)  BY <1>4, <1>1, <1>5, CallTaken
<1>7. Good(t) /\ Keeps(s, t) /\ (Moves(s) => Moves(t))
  <2>1. CASE call[1] = "remove"
    <3>1. \A j \in 1 .. Len(Now.entries) : call # <<"finish", Now.entries[j].id>>  BY <2>1
    <3>2. Nearly(s, id)  BY <1>6, <3>1 DEF Taken, Nearly
    <3>3. t = RemovePopup(s, id)  BY <2>1
    <3> HIDE DEF t, id
    <3> QED  BY <3>2, <3>3, RemovePopupGood
  <2>2. CASE call[1] # "remove"
    <3>1. \A j \in 1 .. Len(Now.entries) : Now.entries[j].id # id => call # <<"finish", Now.entries[j].id>>
      OBVIOUS
    <3>2. Leaves(s, id)
      <4> HIDE DEF id
      <4> QED  BY <1>6, <3>1 DEF Taken, Leaves, Fine
    <3>3. t = FinishRemoval(s, id)  BY <2>2
    <3> HIDE DEF t, id
    <3> QED  BY <3>2, <3>3, FinishRemovalGood
  <2> QED  BY <2>1, <2>2
<1> HIDE DEF t
<1>8. Keeps(Now, s) /\ Moves(s)  BY <1>1, <1>6 DEF Taken
<1>9. Keeps(Now, t) /\ Moves(t)  BY <1>7, <1>8, KeepsTrans
<1> QED  BY <1>1, <1>3, <1>7, <1>9, KeepsStep

LEMMA PointerMovesStep ==
  ASSUME IInv, NEW place \in Places \cup {Outside}, PointerMoves(place)
  PROVE  IInv'
<1> DEFINE left == IF place[1] # Now.pointer[1] THEN LeaveArea(Now) ELSE Now
           s == [left EXCEPT !.pointer = place]
           t == UpdateHover(s)
<1>1. /\ Now \in State /\ Good(Now) /\ Sane(Now) /\ Points(Now)
      /\ Now.pointer = toast.pointer /\ Now.screens = toast.screens
  BY NowFields DEF IInv, Good, Sane, Lined
<1>2. /\ Happens /\ Becomes(t) /\ nextId' = nextId /\ position' = position
      /\ place = Outside \/ place[1] \in DOMAIN Now.screens
  BY <1>1 DEF PointerMoves
<1>3. left \in State /\ Good(left) /\ Settles(Now, left) /\ left.pointer = Now.pointer
      /\ (place[1] # Now.pointer[1] => left.area = 0)
  <2>1. CASE place[1] = Now.pointer[1]
    <3>1. left = Now  BY <2>1
    <3> QED  BY <1>1, <2>1, <3>1, SettlesSelf
  <2>2. CASE place[1] # Now.pointer[1]
    <3>1. left = LeaveArea(Now)  BY <2>2
    <3> HIDE DEF left
    <3>2. left \in State /\ Hovers(Now, left, 0) /\ left.area = 0  BY <1>1, <3>1, SaneAims, LeaveHovers
    <3>3. left.pointer = Now.pointer /\ Len(left.screens) = Len(Now.screens)
      BY <3>2 DEF Hovers, Like
    <3>4. Points(left)  BY <1>1, <3>2, <3>3 DEF Points
    <3> QED  BY <1>1, <2>2, <3>2, <3>3, <3>4, HoversGood
  <2> QED  BY <2>1, <2>2
<1>4. s = [left EXCEPT !.pointer = place]  OBVIOUS
<1> HIDE DEF left, s
<1>5. /\ s \in State /\ s.notes = left.notes /\ s.entries = left.entries /\ s.screens = left.screens
      /\ s.pointer = place /\ s.area = left.area /\ s.calls = left.calls
  BY <1>3, <1>4 DEF State
<1>6. Points(s)
  <2>1. Points(left) /\ Points(Now)  BY <1>1, <1>3 DEF Good, Sane
  <2>2. CASE place[1] # Now.pointer[1]
    <3>1. left.area = 0  BY <1>3, <2>2
    <3>2. DOMAIN Now.screens = 1 .. Len(left.screens)
      BY <1>1, <1>3, StateFields DEF Settles
    <3> QED  BY <1>2, <1>5, <3>1, <3>2 DEF Points
  <2>3. CASE place[1] = Now.pointer[1]
    <3>1. CASE place = Outside
      <4>1. Now.pointer \in Places \cup {Outside}  BY <1>1, StateFields
      <4>2. Now.pointer = Outside
        BY <2>3, <3>1, <4>1, RoomFacts DEF Places, Outside
      <4> QED  BY <1>3, <1>5, <2>1, <3>1, <4>2 DEF Points
    <3>2. CASE place # Outside
      <4>1. place[1] \in 1 .. Len(left.screens)
        BY <1>1, <1>2, <1>3, <3>2, StateFields DEF Settles
      <4>2. left.area # 0 =>
              \E i \in 1 .. Len(left.entries) : left.entries[i].id = left.area /\ HasCard(left, place[1], i)
        BY <1>3, <2>1, <2>3 DEF Points
      <4>3. \A i : HasCard(s, place[1], i) <=> HasCard(left, place[1], i)  BY <1>5 DEF HasCard
      <4> QED  BY <1>5, <3>2, <4>1, <4>2, <4>3 DEF Points
    <3> QED  BY <3>1, <3>2
  <2> QED  BY <2>2, <2>3
<1>7. Good(s) /\ Settles(left, s)  BY <1>3, <1>5, <1>6, GoodSame
<1>8. t = UpdateHover(s)  OBVIOUS
<1> HIDE DEF t
<1>9. t \in State /\ Hovers(s, t, 0) /\ Points(t)
  <2>1. Aims(s)  BY <1>7, SaneAims DEF Good
  <2> QED  BY <1>8, <2>1, UpdateHoverHovers
<1>10. Good(t) /\ Settles(s, t)  BY <1>7, <1>9, HoversGood
<1>11. Settles(Now, s)  BY <1>3, <1>7, SettlesTrans
<1>12. Settles(Now, t)  BY <1>10, <1>11, SettlesTrans
<1>13. position' \in Positions  BY <1>2 DEF IInv
<1> QED  BY <1>2, <1>10, <1>12, <1>13, SettlesStep

LEMMA DismissStep ==
  ASSUME IInv, Dismiss
  PROVE  IInv'
<1> DEFINE t == RemovePopup(Now, toast.area)
<1>1. Good(Now) /\ Moves(Now) /\ Below(Now, nextId)  BY DEF IInv
<1>2. Becomes(t) /\ nextId' = nextId /\ position' = position /\ events' = events  BY DEF Dismiss
<1>3. Nearly(Now, toast.area)  BY <1>1 DEF Good, Nearly, Fine
<1>4. t = RemovePopup(Now, toast.area)  OBVIOUS
<1> HIDE DEF t
<1>5. Good(t) /\ Keeps(Now, t) /\ (Moves(Now) => Moves(t))  BY <1>3, <1>4, RemovePopupGood
<1> QED  BY <1>1, <1>2, <1>5, KeepsStep

-----------------------------------------------------------------------------
(* The theorems. *)

LEMMA InitInv ==
  ASSUME Init
  PROVE  IInv
<1>1. /\ Now.notes = <<>> /\ Now.entries = <<>> /\ Now.screens = <<>> /\ Now.pointer = Outside
      /\ Now.area = 0 /\ Now.calls = {} /\ Now.lastPosition = position
      /\ toast = ToastOf(Now) /\ nextId = 1 /\ position \in Positions /\ events = 0
  BY DEF Init, Now, StateOf, ToastOf
<1>2. DOMAIN <<>> = {} /\ <<>> \in Notes
  <2>1. DOMAIN <<>> = {} /\ <<>> \in [{} -> Note]  OBVIOUS
  <2> QED  BY <2>1 DEF Notes
<1>3. Now \in State
  <2>1. position \in {"top", "bottom"}  BY <1>1, ToastAssumption
  <2>2. Now.calls \in Calls  BY <1>1 DEF Calls
  <2>3. <<>> \in Seq(Entry) /\ <<>> \in Seq(Screen)  OBVIOUS
  <2>4. Now = [notes |-> Now.notes, entries |-> Now.entries, screens |-> Now.screens,
               pointer |-> Now.pointer, area |-> Now.area, calls |-> Now.calls,
               lastPosition |-> Now.lastPosition]
    BY DEF Now, StateOf
  <2> QED  BY <1>1, <1>2, <2>1, <2>2, <2>3, <2>4 DEF State
<1>4. Len(Now.entries) = 0 /\ Len(Now.screens) = 0  BY <1>1
<1>5. Good(Now)
  <2>1. Lined(Now)  BY <1>3, <1>4 DEF Lined, Distinct
  <2>2. Points(Now)  BY <1>1 DEF Points
  <2> QED  BY <1>4, <2>1, <2>2 DEF Good, Sane, Apart
<1>6. Moves(Now) /\ Below(Now, nextId)  BY <1>1, <1>2, <1>4 DEF Moves, Crowded, Below
<1> QED  BY <1>1, <1>5, <1>6, ToastAssumption DEF IInv

LEMMA StutterInv ==
  ASSUME IInv, UNCHANGED vars
  PROVE  IInv'
<1>1. toast' = toast /\ notes' = notes /\ nextId' = nextId /\ position' = position /\ events' = events
  BY DEF vars
<1>2. Becomes(Now)  BY <1>1, NowFields DEF Becomes, IInv
<1> QED  BY <1>1, <1>2, SettlesSelf, SettlesStep DEF IInv

LEMMA NextInv == IInv /\ [Next]_vars => IInv'
<1> SUFFICES ASSUME IInv, [Next]_vars PROVE IInv'  OBVIOUS
<1>1. ASSUME NEW timeout \in Timeouts, NEW height \in Heights, NotifyNew(timeout, height) PROVE IInv'
  BY <1>1, NotifyNewStep
<1>2. ASSUME NEW timeout \in Timeouts, NotifyQuietly(timeout) PROVE IInv'  BY <1>2, NotifyQuietlyStep
<1>3. ASSUME NEW id \in DOMAIN notes, NEW timeout \in Timeouts, NEW height \in Heights,
             NEW layout \in BOOLEAN, NotifyReplace(id, timeout, height, layout)
      PROVE IInv'
  BY <1>3, NotifyReplaceStep
<1>4. ASSUME NEW id \in DOMAIN notes, NotifySame(id) PROVE IInv'  BY <1>4, NotifySameStep
<1>5. ASSUME NEW id \in DOMAIN notes, Close(id) PROVE IInv'  BY <1>5, CloseStep
<1>6. ASSUME NEW new \in Positions, ConfigReload(new) PROVE IInv'  BY <1>6, ConfigReloadStep
<1>7. CASE RequestLayout  BY <1>7, RequestLayoutStep
<1>8. ASSUME NEW n \in Screens, PrepareFrame(n) PROVE IInv'  BY <1>8, PrepareFrameStep
<1>9. ASSUME NEW n \in Screens, NEW i \in DOMAIN toast.entries, CountdownEnds(n, i) PROVE IInv'
  BY <1>9, CountdownEndsStep
<1>10. ASSUME NEW n \in Screens, NEW i \in DOMAIN toast.entries, ExitEnds(n, i) PROVE IInv'
  BY <1>10, ExitEndsStep
<1>11. CASE MotionOff  BY <1>11, MotionOffStep
<1>12. ASSUME NEW call \in toast.calls, RunCall(call) PROVE IInv'  BY <1>12, RunCallStep
<1>13. ASSUME NEW place \in Places \cup {Outside}, PointerMoves(place) PROVE IInv'
  BY <1>13, PointerMovesStep
<1>14. CASE Dismiss  BY <1>14, DismissStep
<1>15. CASE UNCHANGED vars  BY <1>15, StutterInv
<1> QED
  BY <1>1, <1>2, <1>3, <1>4, <1>5, <1>6, <1>7, <1>8, <1>9, <1>10, <1>11, <1>12, <1>13, <1>14, <1>15
     DEF Next

LEMMA IsInvariant == Spec => []IInv
<1>1. Init => IInv  BY InitInv
<1> QED  BY <1>1, NextInv, PTL DEF Spec

LEMMA InvFacts ==
  ASSUME IInv
  PROVE  /\ Now \in State /\ Good(Now)
         /\ Now.notes = notes /\ Now.entries = toast.entries /\ Now.screens = toast.screens
         /\ DOMAIN toast.entries = 1 .. Len(Now.entries)
         /\ DOMAIN toast.screens = 1 .. Len(Now.screens)
<1>1. Now \in State /\ Good(Now)  BY DEF IInv, Good, Sane, Lined
<1> QED  BY <1>1, NowFields, StateFields

LEMMA InvType ==
  ASSUME IInv
  PROVE  TypeOK
<1>1. Now \in State  BY InvFacts
<1>2. /\ notes \in Notes /\ toast.entries \in Seq(Entry) /\ toast.pointer \in Places \cup {Outside}
      /\ toast.area \in Ids \cup {0} /\ toast.calls \in Calls
  BY <1>1, NowFields, StateFields
<1>3. DOMAIN notes \subseteq Ids /\ \A id \in DOMAIN notes : notes[id] \in Note
  <2>1. PICK D \in SUBSET Ids : notes \in [D -> Note]  BY <1>2 DEF Notes
  <2> QED  BY <2>1
<1>4. toast.calls \subseteq {"remove", "finish"} \X Ids  BY <1>2 DEF Calls
<1>5. ASSUME NEW n \in DOMAIN toast.screens, NEW i \in DOMAIN toast.screens[n].cards
      PROVE  toast.screens[n].cards[i] \in Card \cup {NoCard}
  <2>1. n \in 1 .. Len(Now.screens) /\ Now.screens = toast.screens  BY InvFacts
  <2> QED  BY <1>1, <2>1, ScreenFields DEF Cards
<1> QED  BY <1>2, <1>3, <1>4, <1>5 DEF TypeOK, IInv

LEMMA InvMatch ==
  ASSUME IInv
  PROVE  CardsMatch
<1>1. Now \in State /\ Good(Now)  BY InvFacts
<1> SUFFICES ASSUME NEW n \in DOMAIN toast.screens
             PROVE  /\ toast.screens[n].scene => Len(toast.screens[n].cards) = Len(toast.entries)
                    /\ ~toast.screens[n].scene => toast.screens[n].cards = <<>>
                    /\ \A i \in DOMAIN toast.screens[n].cards :
                         /\ toast.screens[n].cards[i] # NoCard =>
                              toast.screens[n].cards[i].id = toast.entries[i].id
                         /\ ~toast.entries[i].exiting =>
                              (toast.screens[n].cards[i] # NoCard <=> Fits(toast.entries[i], n))
  BY DEF CardsMatch
<1>2. n \in 1 .. Len(Now.screens) /\ Now.entries = toast.entries /\ Now.screens = toast.screens
  BY InvFacts
<1>3. Line(Now, n)  BY <1>1, <1>2 DEF Good, Sane, Lined
<1>4. /\ Now.screens[n].cards \in Seq(Cards) /\ Len(Now.entries) \in Nat
      /\ DOMAIN Now.screens[n].cards = 1 .. Len(Now.screens[n].cards)
  BY <1>1, <1>2, ScreenFields, StateFields
<1>5. Len(Now.screens[n].cards) = IF Now.screens[n].scene THEN Len(Now.entries) ELSE 0
  BY <1>3 DEF Line
<1>6. ~Now.screens[n].scene => Now.screens[n].cards = <<>>  BY <1>4, <1>5, EmptySeq
<1>7. ASSUME NEW i \in DOMAIN toast.screens[n].cards
      PROVE  /\ Now.screens[n].cards[i] # NoCard => Now.screens[n].cards[i].id = Now.entries[i].id
             /\ ~Now.entries[i].exiting =>
                  (Now.screens[n].cards[i] # NoCard <=> Fits(Now.entries[i], n))
  <2>1. i \in 1 .. Len(Now.screens[n].cards)  BY <1>2, <1>4
  <2>2. Now.screens[n].scene /\ i \in 1 .. Len(Now.entries)  BY <1>4, <1>5, <2>1
  <2>3. Shows(Now, n, i)  BY <1>1, <1>2, <2>2 DEF Good, Shown
  <2>4. HasCard(Now, n, i) <=> Now.screens[n].cards[i] # NoCard  BY <1>4, <2>1 DEF HasCard
  <2>5. Now.screens[n].cards[i] # NoCard => Now.screens[n].cards[i].id = Now.entries[i].id
    BY <1>3, <2>1 DEF Line
  <2> QED  BY <2>2, <2>3, <2>4, <2>5 DEF Shows
<1> QED  BY <1>2, <1>5, <1>6, <1>7

LEMMA InvToast ==
  ASSUME IInv
  PROVE  ToastInv
<1>1. ShownIsLive  BY InvFacts DEF ShownIsLive, Good, Fine, Live
<1> QED  BY <1>1, InvType, InvMatch DEF ToastInv

LEMMA InvPlacement ==
  ASSUME IInv
  PROVE  PlacementInv
<1>1. PlacedApart  BY InvFacts DEF PlacedApart, Good, Apart
<1>2. QueueMoves  BY InvFacts DEF QueueMoves, IInv, Moves, Crowded, Waits
<1> QED  BY <1>1, <1>2 DEF PlacementInv

\* With any number of outputs and popups, whatever is sent, replaced, hovered,
\* rebuilt or dismissed: the card at a position of a surface is that of the entry
\* there, and what is not about to leave is live.
THEOREM ToastInvariant == Spec => []ToastInv
<1>1. IInv => ToastInv  BY InvToast
<1> QED  BY <1>1, IsInvariant, PTL

\* What stays on screen never overlaps nor reaches beyond the tallest output, and
\* no popup waits for a place there is unless another one is leaving.
THEOREM PlacementInvariant == Spec => []PlacementInv
<1>1. IInv => PlacementInv  BY InvPlacement
<1> QED  BY <1>1, IsInvariant, PTL

\* A popup that leaves has its removal due, or the first screen plays the
\* animation that brings it about, unless that animation was lost.
THEOREM ExitsAreDriven == Spec => []ExitIsDriven
<1>1. IInv => ExitIsDriven
  BY InvFacts, NowFields DEF ExitIsDriven, Good, Fine, Driven, HasCard
<1> QED  BY <1>1, IsInvariant, PTL

\* A popup that is shown with its expiry time stopped is hovered, or its
\* notification was replaced while it was.
THEOREM FrozenAreHeld == Spec => []FrozenIsHeld
<1>1. IInv => FrozenIsHeld
  BY InvFacts, Zenon DEF FrozenIsHeld, Good, Fine, Held, Stopped
<1> QED  BY <1>1, IsInvariant, PTL
=============================================================================
