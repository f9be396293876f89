-------------------------- MODULE NotificationStore --------------------------
(***************************************************************************)
(* The live notifications of notification/notification_manager.cpp: the    *)
(* deque m_notifications, the map m_idToIndex from ids to positions in it, *)
(* the id counter and the expiry times.  Everything runs on the main       *)
(* thread, so each member function is one step.                            *)
(*                                                                         *)
(* The clock is relative: a notification knows how long ago it was         *)
(* received (age, as far as the duplicate window reaches) and how long it  *)
(* has to live (left).  (A definition named <name>_<fault> is a faulty      *)
(* variant of the definition that follows it, which the properties reject.) *)
(* NotificationHistory extends this module with the manager's clients;      *)
(* NotificationToast uses the plain map that the store is shown to be.      *)
(***************************************************************************)
EXTENDS Naturals, Sequences, FiniteSets, SequencesExt

CONSTANTS
  Texts,     (* application, summary and body: what makes two notifications *)
             (* duplicates of each other                                   *)
  Timeouts,  (* requested timeouts; 0 stands for 0 and -1, "persistent"     *)
  Lefts,     (* remaining times a client resumes a countdown with           *)
  Window,    (* kImplicitDuplicateWindow                                    *)
  Never      (* no expiryTime                                               *)

ASSUME TimeoutsAssumption == Timeouts \subseteq Nat
ASSUME LeftsAssumption == Lefts \subseteq Nat
ASSUME WindowAssumption == Window \in Nat
ASSUME NeverAssumption == Never \notin Nat

VARIABLES
  live,    (* m_notifications                                               *)
  index,   (* m_idToIndex                                                   *)
  nextId   (* m_nextId                                                      *)

storeVars == <<live, index, nextId>>

Ids == Nat \ {0}
Notification == [id : Ids, text : Texts, timeout : Timeouts,
                 age : Nat, left : Nat \cup {Never}]

StoreInit ==
  /\ live = <<>>
  /\ index = <<>>
  /\ nextId = 1

-----------------------------------------------------------------------------
\* schedule_expiry.
Deadline(timeout) == IF timeout > 0 THEN timeout ELSE Never

Fresh(id, text, timeout) ==
  [id |-> id, text |-> text, timeout |-> timeout, age |-> 0, left |-> Deadline(timeout)]

Known(id) == id \in DOMAIN index

\* addOrReplace of a live id: the notification keeps its place and its id, and
\* its countdown starts again.
ReplaceLive_KeepsCountdown(id, text, timeout) ==
  LET old == live[index[id]] IN
  /\ Known(id)
  /\ live' = ReplaceAt(live, index[id], [Fresh(old.id, text, timeout) EXCEPT !.left = old.left])
  /\ UNCHANGED <<index, nextId>>
ReplaceLive(id, text, timeout) ==
  /\ Known(id)
  /\ live' = ReplaceAt(live, index[id], Fresh(live[index[id]].id, text, timeout))
  /\ UNCHANGED <<index, nextId>>

\* Positions of the live notifications that make text an immediate duplicate.
Duplicates(text) ==
  {n \in DOMAIN live : live[n].text = text /\ live[n].age < Window}

\* addOrReplace of an id that is not live (0 included): a duplicate burst is
\* ignored,
IgnoreDuplicate(replaces, text) ==
  /\ ~Known(replaces)
  /\ Duplicates(text) # {}
  /\ UNCHANGED storeVars

\* anything else is appended under a new id, whatever id it asked for.
AddNew(replaces, text, timeout) ==
  /\ ~Known(replaces)
  /\ Duplicates(text) = {}
  /\ live' = Append(live, Fresh(nextId, text, timeout))
  /\ index' = [i \in DOMAIN index \cup {nextId} |->
                 IF i = nextId THEN Len(live) + 1 ELSE index[i]]
  /\ nextId' = nextId + 1

\* The positions close assigns again: those at and after the removed one.
Moved_SkipsFirst(rest, n, id) == {p \in (n + 1)..Len(rest) : rest[p].id = id}
Moved(rest, n, id) == {p \in n..Len(rest) : rest[p].id = id}

\* close: the notification leaves the deque and the map, the ones behind it
\* move up.  FALSE is returned for an id that is not live.
Close(id) ==
  LET n == index[id]
      rest == RemoveAt(live, n)
  IN /\ Known(id)
     /\ live' = rest
     /\ index' = [i \in DOMAIN index \ {id} |->
                    IF Moved(rest, n, i) = {} THEN index[i]
                    ELSE CHOOSE p \in Moved(rest, n, i) : TRUE]
     /\ UNCHANGED nextId

SetLeft(id, left) ==
  /\ Known(id)
  /\ live' = [live EXCEPT ![index[id]].left = left]
  /\ UNCHANGED <<index, nextId>>

\* pauseExpiry and resumeExpiry; a remaining time of 0 expires at once.
PauseExpiry(id) == SetLeft(id, Never)
ResumeExpiry(id, remaining) == SetLeft(id, remaining)

\* expiredIds, in the order of the deque.
IsExpired(n) == n.left = 0
ExpiredIds ==
  LET upTo[n \in 0 .. Len(live)] ==
        IF n = 0 THEN <<>>
        ELSE IF IsExpired(live[n]) THEN Append(upTo[n - 1], live[n].id) ELSE upTo[n - 1]
  IN upTo[Len(live)]

\* A unit of time passes.
Older(n) ==
  [n EXCEPT !.age = IF @ < Window THEN @ + 1 ELSE @,
            !.left = IF @ = Never \/ @ = 0 THEN @ ELSE @ - 1]
TimePasses ==
  /\ live' = [n \in DOMAIN live |-> Older(live[n])]
  /\ UNCHANGED <<index, nextId>>

-----------------------------------------------------------------------------
(* The store under any client.                                              *)

\* A new session; what was not saved of the counter is lost.
StoreRestart ==
  /\ live' = <<>>
  /\ index' = <<>>
  /\ nextId' \in Ids

StoreNext ==
  \/ \E text \in Texts, timeout \in Timeouts :
       \/ \E id \in DOMAIN index : ReplaceLive(id, text, timeout)
       \/ \E id \in Nat : AddNew(id, text, timeout)
  \/ \E id \in DOMAIN index :
       \/ Close(id)
       \/ PauseExpiry(id)
       \/ \E remaining \in Lefts : ResumeExpiry(id, remaining)
  \/ TimePasses
  \/ StoreRestart

StoreSpec == StoreInit /\ [][StoreNext]_storeVars

\* The map it implements.
NoteOf(n) == [text |-> n.text, timeout |-> n.timeout, age |-> n.age, left |-> n.left]
Notes == [id \in DOMAIN index |-> NoteOf(live[index[id]])]
Map == INSTANCE NotificationMap WITH notes <- Notes, next <- nextId
MapSpec == Map!Spec

-----------------------------------------------------------------------------
(* Properties of the store.                                                 *)

StoreTypeOK ==
  /\ live \in Seq(Notification)
  /\ DOMAIN index \subseteq Ids
  /\ \A id \in DOMAIN index : index[id] \in 1..Len(live)
  /\ nextId \in Ids

\* m_idToIndex names exactly the live notifications at their positions, also
\* after a removal in the middle has moved the ones behind it: what close,
\* replace, pause or resume finds under an id is the notification with that id.
IndexIsExact ==
  /\ \A n \in 1..Len(live) : live[n].id \in DOMAIN index /\ index[live[n].id] = n
  /\ \A id \in DOMAIN index : index[id] \in 1..Len(live) /\ live[index[id]].id = id

\* No id is given out that a live notification already has.
NextIdIsFresh == \A n \in 1..Len(live) : live[n].id < nextId
=============================================================================
