-------------------------- MODULE NotificationToast --------------------------
(***************************************************************************)
(* shell/notification/notification_toast.cpp: the popups of the live       *)
(* notifications.  One entry per popup, placed on the screen or queued for *)
(* a place; on every output a surface with a card per entry.  With it come *)
(* what it drives and is driven by: the expiry times of the notification   *)
(* manager, the animations of a surface, its pointer dispatcher            *)
(* (render/scene/input_dispatcher.cpp) and the deferred calls.             *)
(*                                                                         *)
(* The manager is the map NotificationStore is shown to implement, reduced *)
(* to what a popup tells apart.  Durations are left out: an animation that *)
(* runs and an expiry time that is set may be reached at any moment, which *)
(* also covers motion switched off.  A place is a row of the screen and a  *)
(* height a number of rows.  A card that is revealed has no width yet, so  *)
(* the pointer reaches it by its next motion.  Action buttons are left out. *)
(*                                                                         *)
(* A definition D_Fault just before D is D with a fault put in; it is used *)
(* to show that a property can fail.                                       *)
(***************************************************************************)
EXTENDS Naturals, Sequences, FiniteSets, SequencesExt

CONSTANTS
  Heights,    (* the heights of cards                                       *)
  Timeouts,   (* the timeouts of notifications, among                       *)
              (* "never" (0), "default" (-1) and "timed" (more than 0)      *)
  Rooms,      (* the height of each output, in the order of the outputs     *)
  Positions,  (* values of notification.position, "top" or "bottom"         *)
  MaxIds,     (* bound on the notifications of a behavior                   *)
  MaxEvents   (* bound on what users, clients and settings do besides       *)
              (* sending, closing and dismissing them                       *)

ASSUME ToastAssumption ==
  /\ Heights \subseteq Nat \ {0}
  /\ Timeouts \subseteq {"never", "default", "timed"}
  /\ Rooms \in Seq(Nat \ {0}) /\ Rooms # <<>>
  /\ Positions \subseteq {"top", "bottom"} /\ Positions # {}
  /\ MaxIds \in Nat /\ MaxEvents \in Nat

VARIABLES
  notes,     (* the manager's live notifications, by id                     *)
  nextId,    (* m_nextId                                                    *)
  position,  (* notification.position of the configuration                  *)
  toast,     (* the NotificationToast                                       *)
  events     (* how many of the MaxEvents events there were                 *)

vars == <<notes, nextId, position, toast, events>>

Ids == 1 .. MaxIds
Screens == DOMAIN Rooms
MaxRoom == CHOOSE r \in Range(Rooms) : \A q \in Range(Rooms) : q <= r
Queued == MaxRoom        \* kQueuedY, a row that no entry has
Outside == <<0, 0>>      \* the pointer is on no surface
NoCard == [id |-> 0]

\* counting: expiryTime is set.
Note == [timeout : Timeouts, counting : BOOLEAN]

\* y: the first row or Queued; lasts: displayDurationMs is negative; left:
\* remainingProgress is not 0.  History: updated, the notification was replaced
\* while this was hovered, or began or ceased to last; lost, no exit animation
\* of the first screen will bring about the removal.
Entry == [id : Ids, timeout : Timeouts, height : Heights, y : 0 .. MaxRoom,
          lasts : BOOLEAN, left : BOOLEAN, exiting : BOOLEAN, hovered : BOOLEAN,
          updated : BOOLEAN, lost : BOOLEAN]

\* leave: what the leave handler does, "resume" or, for a popup that lasted when
\* the card was made, "keep"; "none" when the card has no handlers.  countdown:
\* "runs", "driven" (its end only counts on the first screen) or "off".  left:
\* the progress bar is not empty.  exit: the exit animation runs.
Card == [id : Ids, leave : {"none", "keep", "resume"},
         countdown : {"off", "runs", "driven"}, left : BOOLEAN, exit : BOOLEAN]

\* entries: m_entries; screens: m_instances, empty or one per output, with scene:
\* sceneRoot is set, cards, and rebuild: rebuildRequested; pointer: its screen and
\* row; area: the card the dispatcher there holds as hovered, 0 for none; calls:
\* the deferred calls (a second one for an id does nothing, so a set will do);
\* lastPosition: m_lastPosition.
Toast == [entries : Seq(Entry),
          screens : Seq([scene : BOOLEAN, cards : Seq(Card \cup {NoCard}), rebuild : BOOLEAN]),
          pointer : Screens \X (0 .. MaxRoom - 1) \cup {Outside},
          area : Ids \cup {0},
          calls : SUBSET ({"remove", "finish"} \X Ids),
          lastPosition : {"top", "bottom"}]

-----------------------------------------------------------------------------
(* The handlers, as functions of a state s: the notes and the toast.        *)

\* The results of f for the members of 1..n, one after the other.
Each(f(_, _), s, n) ==
  LET after[k \in 0 .. n] == IF k = 0 THEN s ELSE f(after[k - 1], k) IN after[n]

\* The state with another entry at i, or with another card for it on screen n.
SetEntry(s, i, entry) == [s EXCEPT !.entries[i] = entry]
SetCard(s, n, i, card) == [s EXCEPT !.screens[n].cards[i] = card]

\* pauseExpiry and resumeExpiry.
SetExpiry(s, id, counting) ==
  IF id \in DOMAIN s.notes THEN [s EXCEPT !.notes[id].counting = counting] ELSE s

\* findEntry, as a position; 0 for none.
Find(s, id) ==
  LET at == {i \in DOMAIN s.entries : s.entries[i].id = id}
  IN IF at = {} THEN 0 ELSE CHOOSE i \in at : TRUE

\* hasPlacement, and the rows an entry takes.
Placed(e) == ~e.exiting /\ e.y # Queued
Rows(y, height) == y .. (y + height - 1)

\* fitsOnSurface
Fits(e, n) == Placed(e) /\ e.y + e.height <= Rooms[n]

\* canKeepPlacement; what passes it overlaps nothing, so that
\* evictOverlappingEntries, which is called next, finds nothing to evict.
CanKeep_IfOnScreen(s, i) == s.entries[i].y + s.entries[i].height <= MaxRoom
CanKeep(s, i) ==
  LET e == s.entries[i] IN
  /\ e.y + e.height <= MaxRoom
  /\ \A j \in DOMAIN s.entries \ {i} :
       Placed(s.entries[j]) =>
         Rows(e.y, e.height) \cap Rows(s.entries[j].y, s.entries[j].height) = {}

\* findPlacementY: the free place nearest to the edge the popups start from.
Free(s, height) ==
  {y \in 0 .. MaxRoom - 1 :
     /\ y + height <= MaxRoom
     /\ \A i \in DOMAIN s.entries :
          Placed(s.entries[i]) =>
            Rows(y, height) \cap Rows(s.entries[i].y, s.entries[i].height) = {}}
Placement(s, height) ==
  LET free == Free(s, height) IN
  IF free = {} THEN Queued
  ELSE IF position = "top" THEN CHOOSE y \in free : \A z \in free : y <= z
  ELSE CHOOSE y \in free : \A z \in free : y >= z

HasCard(s, n, i) == i \in DOMAIN s.screens[n].cards /\ s.screens[n].cards[i] # NoCard

\* pauseCountdowns: the remaining time is read from the last bar there is.
PauseOn(s, n, i) ==
  LET card == s.screens[n].cards[i]
      read == SetEntry(s, i, [s.entries[i] EXCEPT !.left = card.left])
  IN IF HasCard(s, n, i) THEN SetCard(read, n, i, [card EXCEPT !.countdown = "off"]) ELSE s
PauseCountdowns(s, i) ==
  LET pause(t, n) == PauseOn(t, n, i) IN Each(pause, s, Len(s.screens))

\* resumeCountdowns
ResumeOn(s, n, i) ==
  LET card == s.screens[n].cards[i] IN
  IF HasCard(s, n, i)
  THEN SetCard(s, n, i, [card EXCEPT !.countdown = "driven", !.left = TRUE]) ELSE s
ResumeCountdowns(s, i) ==
  LET resume(t, n) == ResumeOn(t, n, i)
      e == s.entries[i]
  IN IF e.lasts \/ e.hovered \/ ~e.left THEN s ELSE Each(resume, s, Len(s.screens))

\* The enter and leave handlers of the card at i on screen n, and the
\* dispatcher that calls them.
Enter(s, n, i) ==
  LET card == s.screens[n].cards[i]
      over == [s EXCEPT !.area = card.id]
      held == SetEntry(over, i, [s.entries[i] EXCEPT !.hovered = TRUE, !.left = card.left])
  IN IF card.leave = "none" THEN over
     ELSE SetExpiry(PauseCountdowns(held, i), card.id, FALSE)
Left(s, n, i) ==
  LET card == s.screens[n].cards[i]
      off == [s EXCEPT !.area = 0]
      freed == SetEntry(off, i, [s.entries[i] EXCEPT !.hovered = FALSE, !.left = card.left])
      again == SetExpiry(freed, card.id, TRUE)
  IN IF card.leave = "none" THEN off
     ELSE IF card.leave = "keep" THEN freed
     ELSE IF card.left THEN ResumeCountdowns(again, i) ELSE again

\* dispatchLeave to whatever is hovered.
LeaveArea(s) == IF s.area = 0 THEN s ELSE Left(s, s.pointer[1], Find(s, s.area))

\* findInputAreaAt: the card below the pointer; one that stays lies above one
\* that leaves.  A card takes the rows of its entry.
Hit(s) ==
  LET n == s.pointer[1]
      below == {i \in DOMAIN s.entries :
                  /\ HasCard(s, n, i)
                  /\ s.pointer[2] \in Rows(s.entries[i].y, s.entries[i].height)}
      stay == {i \in below : ~s.entries[i].exiting}
  IN IF s.pointer = Outside \/ below = {} THEN 0
     ELSE CHOOSE i \in (IF stay # {} THEN stay ELSE below) : TRUE

\* InputDispatcher::updateHover
UpdateHover(s) ==
  LET i == Hit(s)
      id == IF i = 0 THEN 0 ELSE s.entries[i].id
      left == LeaveArea(s)
  IN IF id = s.area THEN s
     ELSE IF i = 0 THEN left ELSE Enter(left, s.pointer[1], i)

\* addCardToInstance: the countdown starts with what is left of it; an empty one
\* ends at once.
NewCard(e) ==
  [id |-> e.id, leave |-> IF e.lasts THEN "keep" ELSE "resume",
   countdown |-> IF e.lasts \/ ~e.left THEN "off" ELSE "runs",
   left |-> e.lasts \/ e.left, exit |-> FALSE]
EndsAtOnce(e) == ~e.lasts /\ ~e.left
AddCard(s, n, i) ==
  LET e == s.entries[i]
      added == SetCard(s, n, i, NewCard(e))
  IN IF ~Fits(e, n) THEN s
     ELSE IF EndsAtOnce(e) THEN [added EXCEPT !.calls = @ \cup {<<"remove", e.id>>}] ELSE added

\* removeCardFromInstance: the hovered card is left first, and what lies below
\* it is hovered then.
RemoveCard(s, n, i) ==
  LET here == s.pointer[1] = n
      left == IF here /\ s.area = s.entries[i].id THEN LeaveArea(s) ELSE s
      gone == SetCard(left, n, i, NoCard)
  IN IF ~HasCard(s, n, i) THEN s ELSE IF here THEN UpdateHover(gone) ELSE gone

\* syncEntryVisibility; a surface without a scene has no cards yet.
SyncOn(s, n, i) ==
  IF ~s.screens[n].scene THEN s
  ELSE IF Fits(s.entries[i], n)
  THEN IF HasCard(s, n, i) THEN s ELSE AddCard(s, n, i)
  ELSE RemoveCard(s, n, i)
Sync(s, i) ==
  LET sync(t, n) == SyncOn(t, n, i) IN Each(sync, s, Len(s.screens))

\* revealQueuedEntries; the second round of its loop finds no more places.
Reveal_StaysFrozen(s) ==
  LET place(t, i) ==
        LET e == t.entries[i]
            y == Placement(t, e.height)
        IN IF e.exiting \/ Placed(e) \/ y = Queued THEN t
           ELSE Sync(SetEntry(t, i, [e EXCEPT !.y = y]), i)
  IN Each(place, s, Len(s.entries))
Reveal(s) ==
  LET place(t, i) ==
        LET e == t.entries[i]
            y == Placement(t, e.height)
            placed == SetEntry(t, i, [e EXCEPT !.y = y])
        IN IF e.exiting \/ Placed(e) \/ y = Queued THEN t
           ELSE Sync(IF e.timeout = "timed" THEN SetExpiry(placed, e.id, TRUE) ELSE placed, i)
  IN Each(place, s, Len(s.entries))

\* The first screen drops the exit animations it runs.
LoseExits(s) ==
  [s EXCEPT !.entries = [i \in DOMAIN @ |->
     [@[i] EXCEPT !.lost = s.entries[i].lost \/ s.entries[i].exiting]]]

\* The surfaces go, in ensureSurfaces and destroySurfaces: the hovered card is
\* left, animations and cards go with them.
DropSurfaces(s) ==
  LET gone == LoseExits(LeaveArea(s))
  IN [gone EXCEPT !.screens = <<>>, !.pointer = Outside, !.area = 0]
DestroySurfaces(s) == [DropSurfaces(s) EXCEPT !.entries = <<>>]

\* ensureSurfaces: a new position, layer or set of monitors makes all of them
\* anew; their scenes come with their first frames.
EnsureSurfaces(s) ==
  LET kept == IF s.lastPosition = position THEN s ELSE DropSurfaces(s)
      new == [scene |-> FALSE, cards |-> <<>>, rebuild |-> FALSE]
  IN [kept EXCEPT !.lastPosition = position,
                  !.screens = IF @ = <<>> THEN [n \in Screens |-> new] ELSE @]

\* finishRemoval; calls that are left for it will find no entry.
FinishRemoval_KeepsCards(s, id) ==
  LET i == Find(s, id)
      remove(t, n) == RemoveCard(t, n, i)
      rest == [Each(remove, s, Len(s.screens)) EXCEPT
                 !.entries = RemoveAt(@, i), !.calls = @ \ {<<"remove", id>>, <<"finish", id>>}]
  IN IF i = 0 THEN s ELSE IF rest.entries = <<>> THEN DestroySurfaces(rest) ELSE Reveal(rest)
FinishRemoval(s, id) ==
  LET i == Find(s, id)
      remove(t, n) ==
        IF ~t.screens[n].scene THEN t
        ELSE [RemoveCard(t, n, i) EXCEPT !.screens[n].cards = RemoveAt(@, i)]
      rest == [Each(remove, s, Len(s.screens)) EXCEPT
                 !.entries = RemoveAt(@, i), !.calls = @ \ {<<"remove", id>>, <<"finish", id>>}]
  IN IF i = 0 THEN s
     ELSE IF rest.entries = <<>> THEN DestroySurfaces(rest)
     ELSE Reveal(rest)

\* removePopup with dismissPopup and dismissCardFromInstance: every card starts
\* to leave, and the first screen goes on with the removal; without any card the
\* entry is gone at once.
DismissOn(s, n, i) ==
  LET card == s.screens[n].cards[i] IN
  IF HasCard(s, n, i)
  THEN SetCard(s, n, i, [card EXCEPT !.countdown = "off", !.exit = TRUE]) ELSE s
RemovePopup_CardsOnly(s, id) ==
  LET i == Find(s, id)
      dismiss(t, n) == DismissOn(t, n, i)
      seen(n) == n \in DOMAIN s.screens /\ HasCard(s, n, i)
      leaving == SetEntry(s, i, [s.entries[i] EXCEPT !.exiting = TRUE, !.lost = ~seen(1)])
  IN IF i = 0 \/ s.entries[i].exiting THEN s
     ELSE IF \E n \in Screens : seen(n) THEN Each(dismiss, leaving, Len(s.screens))
     ELSE s
RemovePopup(s, id) ==
  LET i == Find(s, id)
      dismiss(t, n) == DismissOn(t, n, i)
      seen(n) == n \in DOMAIN s.screens /\ HasCard(s, n, i)
      leaving == SetEntry(s, i, [s.entries[i] EXCEPT !.exiting = TRUE, !.lost = ~seen(1)])
  IN IF i = 0 \/ s.entries[i].exiting THEN s
     ELSE IF \E n \in Screens : seen(n) THEN Each(dismiss, leaving, Len(s.screens))
     ELSE FinishRemoval(leaving, id)

\* addPopup
AddPopup(s, id, timeout, height) ==
  LET ready == EnsureSurfaces(s)
      y == Placement(ready, height)
      entry == [id |-> id, timeout |-> timeout, height |-> height, y |-> y,
                lasts |-> timeout = "never", left |-> TRUE, exiting |-> FALSE,
                hovered |-> FALSE, updated |-> FALSE, lost |-> FALSE]
      held == IF y = Queued /\ timeout = "timed" THEN SetExpiry(ready, id, FALSE) ELSE ready
      shown == [held EXCEPT !.entries = Append(@, entry),
                            !.screens = [n \in DOMAIN @ |->
                               IF @[n].scene
                               THEN [@[n] EXCEPT !.cards = Append(held.screens[n].cards, NoCard)]
                               ELSE @[n]]]
  IN Reveal(Sync(shown, Len(shown.entries)))

\* Updated, for an entry that stays: the card that is laid out again is built
\* anew on every screen, without handlers, and its countdown starts again unless
\* the popup is hovered.  A popup that does not fit its place any more is queued.
UpdatePlace(s, i, timeout, height) ==
  LET old == s.entries[i]
      turns == old.hovered \/ old.lasts # (timeout = "never")
      entry == [old EXCEPT !.height = height, !.timeout = timeout, !.updated = @ \/ turns]
      new == SetEntry(s, i, entry)
      queued == SetEntry(s, i, [entry EXCEPT !.y = Queued])
  IN IF ~Placed(old) \/ CanKeep(new, i) THEN new
     ELSE IF timeout = "timed" THEN SetExpiry(queued, old.id, FALSE) ELSE queued
UpdateCard(s, n, i, timeout, again, hovered) ==
  LET lasts == timeout = "never"
      here == again /\ s.pointer[1] = n
      card == [s.screens[n].cards[i] EXCEPT
                 !.leave = IF again THEN "none" ELSE @, !.exit = @ /\ ~again,
                 !.countdown = IF lasts \/ hovered THEN "off" ELSE "runs", !.left = TRUE]
      read == SetEntry(s, i, [s.entries[i] EXCEPT !.lasts = lasts, !.left = TRUE])
      set == SetCard(read, n, i, card)
  IN IF ~HasCard(s, n, i) THEN s
     ELSE IF ~here THEN set
     ELSE UpdateHover(IF s.area = s.entries[i].id THEN [set EXCEPT !.area = 0] ELSE set)
UpdatePopup_LeavesQueue(s, id, timeout, height, layout) ==
  LET i == Find(s, id)
      old == s.entries[i]
      hovered == old.hovered
      again == layout \/ height # old.height
      update(t, n) == UpdateCard(t, n, i, timeout, again, hovered)
      cards == Each(update, UpdatePlace(s, i, timeout, height), Len(s.screens))
      held == IF hovered THEN SetExpiry(cards, id, FALSE) ELSE cards
  IN IF i = 0 \/ old.exiting THEN s
     ELSE IF ~Placed(held.entries[i]) \/ height # old.height
     THEN Sync(held, i) ELSE held
UpdatePopup_WhileExiting(s, id, timeout, height, layout) ==
  LET i == Find(s, id)
      old == s.entries[i]
      hovered == old.hovered
      again == layout \/ height # old.height
      update(t, n) == UpdateCard(t, n, i, timeout, again, hovered)
      cards == Each(update, UpdatePlace(s, i, timeout, height), Len(s.screens))
      held == IF hovered THEN SetExpiry(cards, id, FALSE) ELSE cards
  IN IF i = 0 THEN s
     ELSE IF ~Placed(held.entries[i]) \/ height # old.height
     THEN Reveal(Sync(held, i)) ELSE held
UpdatePopup(s, id, timeout, height, layout) ==
  LET i == Find(s, id)
      old == s.entries[i]
      hovered == old.hovered
      again == layout \/ height # old.height
      update(t, n) == UpdateCard(t, n, i, timeout, again, hovered)
      cards == Each(update, UpdatePlace(s, i, timeout, height), Len(s.screens))
      held == IF hovered THEN SetExpiry(cards, id, FALSE) ELSE cards
  IN IF i = 0 \/ old.exiting THEN s
     ELSE IF ~Placed(held.entries[i]) \/ height # old.height
     THEN Reveal(Sync(held, i)) ELSE held

\* buildScene: the old scene goes with its cards and their animations, what
\* stays and is placed gets a new card.
BuildScene(s, n) ==
  LET left == IF s.pointer[1] = n THEN LeaveArea(s) ELSE s
      t == IF n = 1 THEN LoseExits(left) ELSE left
      fit == {i \in DOMAIN t.entries : Fits(t.entries[i], n)}
      cards == [i \in DOMAIN t.entries |-> IF i \in fit THEN NewCard(t.entries[i]) ELSE NoCard]
  IN [t EXCEPT !.screens[n] = [scene |-> TRUE, cards |-> cards, rebuild |-> FALSE],
               !.calls = @ \cup {<<"remove", t.entries[i].id>> :
                                    i \in {j \in fit : EndsAtOnce(t.entries[j])}}]

-----------------------------------------------------------------------------
(* The program: the manager's operations with the callbacks they make, the  *)
(* frames, animations, deferred calls and the pointer.                      *)

StateOf(n, t) ==
  [notes |-> n, entries |-> t.entries, screens |-> t.screens, pointer |-> t.pointer,
   area |-> t.area, calls |-> t.calls, lastPosition |-> t.lastPosition]
ToastOf(s) ==
  [entries |-> s.entries, screens |-> s.screens, pointer |-> s.pointer,
   area |-> s.area, calls |-> s.calls, lastPosition |-> s.lastPosition]
Now == StateOf(notes, toast)
Becomes(s) == notes' = s.notes /\ toast' = ToastOf(s)
Happens == events < MaxEvents /\ events' = events + 1

Init ==
  /\ notes = <<>> /\ nextId = 1 /\ position \in Positions /\ events = 0
  /\ toast = [entries |-> <<>>, screens |-> <<>>, pointer |-> Outside, area |-> 0,
              calls |-> {}, lastPosition |-> position]

Counting(timeout) == [timeout |-> timeout, counting |-> timeout = "timed"]

\* addOrReplace of a new id.
NotifyNew(timeout, height) ==
  LET s == [Now EXCEPT !.notes = [i \in DOMAIN notes \cup {nextId} |->
                                    IF i = nextId THEN Counting(timeout) ELSE notes[i]]]
  IN /\ nextId <= MaxIds
     /\ nextId' = nextId + 1
     /\ Becomes(AddPopup(s, nextId, timeout, height))
     /\ UNCHANGED <<position, events>>

\* The same while doNotDisturb is on: there is no popup.
NotifyQuietly(timeout) ==
  /\ Happens
  /\ nextId <= MaxIds
  /\ nextId' = nextId + 1
  /\ notes' = [i \in DOMAIN notes \cup {nextId} |->
                 IF i = nextId THEN Counting(timeout) ELSE notes[i]]
  /\ UNCHANGED <<position, toast>>

\* addOrReplace of a live id with something else in it; layout: its icon, image
\* or actions changed.
NotifyReplace(id, timeout, height, layout) ==
  /\ Happens
  /\ Becomes(UpdatePopup([Now EXCEPT !.notes[id] = Counting(timeout)], id, timeout, height, layout))
  /\ UNCHANGED <<nextId, position>>

\* addOrReplace of a live id with what it holds already makes no callback, but
\* starts the countdown again.
NotifySame(id) ==
  /\ Happens
  /\ notes[id].timeout = "timed"
  /\ notes' = [notes EXCEPT ![id].counting = TRUE]
  /\ UNCHANGED <<nextId, position, toast>>

\* close, because the notification has expired, or because its client, the
\* history tab or an action button closed it.
Close(id) ==
  LET s == [Now EXCEPT !.notes = [i \in DOMAIN notes \ {id} |-> notes[i]]] IN
  /\ Becomes(RemovePopup(s, id))
  /\ UNCHANGED <<nextId, position, events>>

\* A reload of the configuration with another position.
ConfigReload(new) ==
  /\ Happens
  /\ new # position
  /\ position' = new
  /\ UNCHANGED <<notes, nextId, toast>>

\* requestLayout: fonts, icon themes and downloaded icons.
RequestLayout ==
  /\ Happens
  /\ toast.screens # <<>>
  /\ toast' = [toast EXCEPT !.screens = [n \in DOMAIN @ |-> [@[n] EXCEPT !.rebuild = TRUE]]]
  /\ UNCHANGED <<notes, nextId, position>>

\* prepareFrame, when there is something to build.
PrepareFrame(n) ==
  /\ n \in DOMAIN toast.screens
  /\ ~toast.screens[n].scene \/ toast.screens[n].rebuild
  /\ Becomes(BuildScene(Now, n))
  /\ UNCHANGED <<nextId, position, events>>

\* A countdown has run out; one that was resumed counts on the first screen.
CountdownEnds(n, i) ==
  LET card == toast.screens[n].cards[i] IN
  /\ n \in DOMAIN toast.screens /\ HasCard(toast, n, i)
  /\ card.countdown # "off"
  /\ toast' = [toast EXCEPT
                 !.screens[n].cards[i] = [card EXCEPT !.countdown = "off", !.left = FALSE],
                 !.entries[i].left = FALSE,
                 !.calls = IF card.countdown = "runs" \/ n = 1
                           THEN @ \cup {<<"remove", card.id>>} ELSE @]
  /\ UNCHANGED <<notes, nextId, position, events>>

\* A card has left; only the first screen goes on with the removal.
ExitEnds(n, i) ==
  /\ n \in DOMAIN toast.screens /\ HasCard(toast, n, i)
  /\ toast.screens[n].cards[i].exit
  /\ toast' = [toast EXCEPT
                 !.screens[n].cards[i].exit = FALSE,
                 !.calls = IF n = 1 THEN @ \cup {<<"finish", toast.screens[n].cards[i].id>>} ELSE @]
  /\ UNCHANGED <<notes, nextId, position, events>>

\* MotionService::setEnabled(false) drops the animations of every surface.
MotionOff ==
  /\ Happens
  /\ toast.screens # <<>>
  /\ toast' = [LoseExits(toast) EXCEPT
        !.screens = [n \in DOMAIN @ |->
           [@[n] EXCEPT !.cards = [i \in DOMAIN toast.screens[n].cards |->
              IF HasCard(toast, n, i)
              THEN [toast.screens[n].cards[i] EXCEPT !.countdown = "off", !.exit = FALSE]
              ELSE NoCard]]]]
  /\ UNCHANGED <<notes, nextId, position>>

\* A deferred removePopup or finishRemoval.
RunCall(call) ==
  LET s == [Now EXCEPT !.calls = @ \ {call}] IN
  /\ Becomes(IF call[1] = "remove" THEN RemovePopup(s, call[2]) ELSE FinishRemoval(s, call[2]))
  /\ UNCHANGED <<nextId, position, events>>

\* The pointer moves on a surface, also within a row, to another one or away.
PointerMoves(place) ==
  LET left == IF place[1] # toast.pointer[1] THEN LeaveArea(Now) ELSE Now IN
  /\ Happens
  /\ place = Outside \/ place[1] \in DOMAIN toast.screens
  /\ Becomes(UpdateHover([left EXCEPT !.pointer = place]))
  /\ UNCHANGED <<nextId, position>>

\* The right button, or the left one on the X, of the card below the pointer.
Dismiss ==
  /\ toast.area # 0
  /\ Becomes(RemovePopup(Now, toast.area))
  /\ UNCHANGED <<nextId, position, events>>

Places == {p \in Screens \X (0 .. MaxRoom - 1) : p[2] < Rooms[p[1]]}

Next ==
  \/ \E timeout \in Timeouts, height \in Heights : NotifyNew(timeout, height)
  \/ \E timeout \in Timeouts : NotifyQuietly(timeout)
  \/ \E id \in DOMAIN notes, timeout \in Timeouts, height \in Heights, layout \in BOOLEAN :
       NotifyReplace(id, timeout, height, layout)
  \/ \E id \in DOMAIN notes : NotifySame(id)
  \/ \E id \in DOMAIN notes : Close(id)
  \/ \E new \in Positions : ConfigReload(new)
  \/ RequestLayout
  \/ \E n \in Screens : PrepareFrame(n)
  \/ \E n \in Screens, i \in DOMAIN toast.entries : CountdownEnds(n, i)
  \/ \E n \in Screens, i \in DOMAIN toast.entries : ExitEnds(n, i)
  \/ MotionOff
  \/ \E call \in toast.calls : RunCall(call)
  \/ \E place \in Places \cup {Outside} : PointerMoves(place)
  \/ Dismiss

Spec == Init /\ [][Next]_vars

-----------------------------------------------------------------------------
(* Properties. *)

TypeOK ==
  /\ DOMAIN notes \subseteq Ids /\ \A id \in DOMAIN notes : notes[id] \in Note
  /\ nextId \in 1 .. MaxIds + 1
  /\ position \in Positions /\ events \in 0 .. MaxEvents
  /\ toast.entries \in Seq(Entry)
  /\ toast.pointer \in Places \cup {Outside} /\ toast.area \in Ids \cup {0}
  /\ toast.calls \subseteq {"remove", "finish"} \X Ids
  /\ \A n \in DOMAIN toast.screens : \A i \in DOMAIN toast.screens[n].cards :
       toast.screens[n].cards[i] \in Card \cup {NoCard}

\* Whatever grows, moves up or leaves, the popups that stay never overlap and
\* never reach beyond the tallest output.
PlacedApart ==
  LET placed == {i \in DOMAIN toast.entries : Placed(toast.entries[i])}
      rows(i) == Rows(toast.entries[i].y, toast.entries[i].height)
  IN /\ \A i \in placed : rows(i) \subseteq 0 .. MaxRoom - 1
     /\ \A i, j \in placed : i # j => rows(i) \cap rows(j) = {}

\* m_entries and the cards of each surface are vectors that run in parallel: at
\* every position is the card of that entry, which has one exactly where it is
\* placed and fits.
CardsMatch ==
  \A n \in DOMAIN toast.screens : LET screen == toast.screens[n] IN
    /\ screen.scene => Len(screen.cards) = Len(toast.entries)
    /\ ~screen.scene => screen.cards = <<>>
    /\ \A i \in DOMAIN screen.cards : LET e == toast.entries[i] IN
         /\ screen.cards[i] # NoCard => screen.cards[i].id = e.id
         /\ ~e.exiting => (screen.cards[i] # NoCard <=> Fits(e, n))

\* A popup is not kept in the queue while there is a place for it, except while
\* another one leaves, after which the queue is looked at again.
QueueMoves ==
  (\E i \in DOMAIN toast.entries :
      LET e == toast.entries[i] IN ~e.exiting /\ ~Placed(e) /\ Free(Now, e.height) # {})
  => \E i \in DOMAIN toast.entries : toast.entries[i].exiting

\* However popups grow, are queued, come back and leave, the screen is used and
\* nothing is covered.
PlacementInv == PlacedApart /\ QueueMoves

\* What is shown or queued is live in the manager: no popup outlives its
\* notification but to leave.
ShownIsLive ==
  \A i \in DOMAIN toast.entries : ~toast.entries[i].exiting => toast.entries[i].id \in DOMAIN notes

ToastInv == TypeOK /\ CardsMatch /\ ShownIsLive

\* A popup that leaves is on its way out: the removal is due, or the exit
\* animation of the first screen that brings it about runs.  What that screen
\* never showed, and what loses its animation when the scene is built anew, the
\* surfaces go or motion is turned off, is left behind.
ExitIsDriven ==
  \A i \in DOMAIN toast.entries : LET e == toast.entries[i] IN
    e.exiting /\ ~e.lost =>
      \/ <<"finish", e.id>> \in toast.calls
      \/ 1 \in DOMAIN toast.screens /\ HasCard(toast, 1, i) /\ toast.screens[1].cards[i].exit

\* Pausing while hovered, queuing and revealing are always undone: a popup that
\* is shown with its expiry time stopped is hovered, or was replaced while it was.
FrozenIsHeld ==
  \A i \in DOMAIN toast.entries : LET e == toast.entries[i] IN
    Placed(e) /\ e.timeout = "timed" /\ e.id \in DOMAIN notes /\ ~notes[e.id].counting
      => e.hovered \/ e.updated

\* notification_toast.cpp, on hovering: "On leave, resume the countdown from the
\* remaining progress."  A popup that is shown and not below the pointer is
\* counting down.
LeaveResumes ==
  \A i \in DOMAIN toast.entries : LET e == toast.entries[i] IN
    Placed(e) /\ e.timeout = "timed" /\ e.id \in DOMAIN notes /\ toast.pointer = Outside
      => notes[e.id].counting

=============================================================================
