----------------------- MODULE NotificationHistory_proofs -----------------------
(***************************************************************************)
(* The store of live notifications keeps its index exact whatever its      *)
(* client does, and implements the plain map of NotificationMap.  Whatever  *)
(* the service, the tab, the IPC handlers, crashes and restarts do, they    *)
(* use the store as it allows, and they keep the history in step with it.   *)
(***************************************************************************)
EXTENDS NotificationHistory, SequenceTheorems, WellFoundedInduction, TLAPS

-----------------------------------------------------------------------------
(* Removal from a sequence.                                                 *)

\* What is left keeps its order: positions before n stay, the others move up.
LEMMA RemoveAtFacts ==
  ASSUME NEW S, NEW s \in Seq(S), NEW n \in 1..Len(s)
  PROVE  /\ RemoveAt(s, n) \in Seq(S)
         /\ Len(RemoveAt(s, n)) = Len(s) - 1
         /\ \A m \in 1..(Len(s) - 1) :
              RemoveAt(s, n)[m] = IF m < n THEN s[m] ELSE s[m + 1]
<1> DEFINE a == SubSeq(s, 1, n - 1)
           b == SubSeq(s, n + 1, Len(s))
<1>1. a \in Seq(S) /\ Len(a) = n - 1 /\ \A m \in 1..(n - 1) : a[m] = s[m]
  BY SubSeqProperties
<1>2. /\ b \in Seq(S) /\ Len(b) = Len(s) - n
      /\ \A m \in 1..(Len(s) - n) : b[m] = s[m + n]
  BY SubSeqProperties
<1>3. RemoveAt(s, n) = a \o b
  BY DEF RemoveAt
<1>4. /\ a \o b \in Seq(S) /\ Len(a \o b) = Len(a) + Len(b)
      /\ \A m \in 1..(Len(a) + Len(b)) :
           (a \o b)[m] = IF m <= Len(a) THEN a[m] ELSE b[m - Len(a)]
  BY <1>1, <1>2, ConcatProperties
<1> HIDE DEF a, b
<1>5. Len(s) \in Nat /\ n \in Nat
  BY LenProperties
<1>6. \A m \in 1..(Len(s) - 1) : (a \o b)[m] = IF m < n THEN s[m] ELSE s[m + 1]
  <2> SUFFICES ASSUME NEW m \in 1..(Len(s) - 1)
               PROVE  (a \o b)[m] = IF m < n THEN s[m] ELSE s[m + 1]
    OBVIOUS
  <2>1. /\ m \in 1..(Len(a) + Len(b)) /\ (m <= Len(a) <=> m < n)
        /\ m < n => m \in 1..(n - 1)
        /\ ~(m < n) => m - Len(a) \in 1..(Len(s) - n) /\ m - Len(a) + n = m + 1
    BY <1>1, <1>2, <1>5
  <2>2. CASE m < n
    BY <1>1, <1>4, <2>1, <2>2
  <2>3. CASE ~(m < n)
    BY <1>2, <1>4, <2>1, <2>3
  <2> QED
    BY <2>2, <2>3
<1> QED
  BY <1>1, <1>2, <1>3, <1>4, <1>5, <1>6

-----------------------------------------------------------------------------
(* The inductive invariant: types, the exact index and fresh ids support    *)
(* each other (removal needs that no id occurs twice, which the index says; *)
(* addition needs a fresh id).                                              *)

StoreInv == StoreTypeOK /\ IndexIsExact /\ NextIdIsFresh

LEMMA InitStore == StoreInit => StoreInv
<1> SUFFICES ASSUME StoreInit PROVE StoreInv
  OBVIOUS
<1>1. live \in Seq(Notification) /\ Len(live) = 0
  BY EmptySeq DEF StoreInit
<1>2. DOMAIN index = {}
  BY DEF StoreInit
<1>3. nextId \in Ids
  BY DEF StoreInit, Ids
<1> QED
  BY <1>1, <1>2, <1>3 DEF StoreInv, StoreTypeOK, IndexIsExact, NextIdIsFresh

\* A new notification is of the right type.
LEMMA FreshType ==
  ASSUME NEW id \in Ids, NEW text \in Texts, NEW timeout \in Timeouts
  PROVE  Fresh(id, text, timeout) \in Notification /\ Fresh(id, text, timeout).id = id
<1>1. Deadline(timeout) \in Nat \cup {Never}
  BY TimeoutsAssumption DEF Deadline
<1> QED
  BY <1>1 DEF Fresh, Notification

\* A step that changes no id, no length, no index and no counter.
LEMMA SameIds ==
  ASSUME StoreInv, live' \in Seq(Notification), Len(live') = Len(live),
         \A n \in 1..Len(live) : live'[n].id = live[n].id,
         UNCHANGED <<index, nextId>>
  PROVE  StoreInv'
BY DEF StoreInv, StoreTypeOK, IndexIsExact, NextIdIsFresh

LEMMA ReplaceStep ==
  ASSUME StoreInv, NEW id, NEW text \in Texts, NEW timeout \in Timeouts,
         ReplaceLive(id, text, timeout)
  PROVE  StoreInv'
<1> DEFINE new == Fresh(live[index[id]].id, text, timeout)
<1>1. index[id] \in 1..Len(live) /\ live \in Seq(Notification)
  BY DEF StoreInv, StoreTypeOK, ReplaceLive, Known
<1>2. live[index[id]] \in Notification
  BY <1>1, ElementOfSeq
<1>3. new \in Notification /\ new.id = live[index[id]].id
  BY <1>2, FreshType DEF Notification
<1> HIDE DEF new
<1>4. live' = [live EXCEPT ![index[id]] = new]
  BY DEF ReplaceLive, ReplaceAt, new
<1>5. /\ live' \in Seq(Notification) /\ Len(live') = Len(live)
      /\ \A n \in 1..Len(live) : live'[n] = IF n = index[id] THEN new ELSE live[n]
  BY <1>1, <1>3, <1>4, ExceptSeq
<1>6. \A n \in 1..Len(live) : live'[n].id = live[n].id
  BY <1>3, <1>5
<1> QED
  BY <1>5, <1>6, SameIds DEF ReplaceLive

LEMMA SetLeftStep ==
  ASSUME StoreInv, NEW id, NEW left \in Nat \cup {Never}, SetLeft(id, left)
  PROVE  StoreInv'
<1> DEFINE new == [live[index[id]] EXCEPT !.left = left]
<1>1. index[id] \in 1..Len(live) /\ live \in Seq(Notification)
  BY DEF StoreInv, StoreTypeOK, SetLeft, Known
<1>2. live[index[id]] \in Notification
  BY <1>1, ElementOfSeq
<1>3. new \in Notification /\ new.id = live[index[id]].id
  BY <1>2 DEF Notification
<1>4. live' = [live EXCEPT ![index[id]] = new]
  BY DEF SetLeft
<1> HIDE DEF new
<1>5. /\ live' \in Seq(Notification) /\ Len(live') = Len(live)
      /\ \A n \in 1..Len(live) : live'[n] = IF n = index[id] THEN new ELSE live[n]
  BY <1>1, <1>3, <1>4, ExceptSeq
<1>6. \A n \in 1..Len(live) : live'[n].id = live[n].id
  BY <1>3, <1>5
<1> QED
  BY <1>5, <1>6, SameIds DEF SetLeft

\* The passing of time changes no id.
LEMMA OlderType ==
  ASSUME NEW n \in Notification
  PROVE  Older(n) \in Notification /\ Older(n).id = n.id
<1>1. n.age \in Nat /\ n.left \in Nat \cup {Never}
  BY DEF Notification
<1>2. (IF n.age < Window THEN n.age + 1 ELSE n.age) \in Nat
  BY <1>1, WindowAssumption
<1>3. (IF n.left = Never \/ n.left = 0 THEN n.left ELSE n.left - 1) \in Nat \cup {Never}
  BY <1>1
<1> QED
  BY <1>2, <1>3 DEF Older, Notification

LEMMA TimeStep == StoreInv /\ TimePasses => StoreInv'
<1> SUFFICES ASSUME StoreInv, TimePasses PROVE StoreInv'
  OBVIOUS
<1>1. live \in Seq(Notification)
  BY DEF StoreInv, StoreTypeOK
<1>2. DOMAIN live = 1..Len(live) /\ Len(live) \in Nat
  BY <1>1, LenProperties
<1>3. \A n \in 1..Len(live) : live[n] \in Notification
  BY <1>1, ElementOfSeq
<1>4. live' = [n \in 1..Len(live) |-> Older(live[n])]
  BY <1>2 DEF TimePasses
<1>5. \A n \in 1..Len(live) : live'[n] \in Notification /\ live'[n].id = live[n].id
  BY <1>3, <1>4, OlderType
<1>6. live' \in Seq(Notification)
  BY <1>2, <1>4, <1>5, IsASeq
<1>7. Len(live') = Len(live)
  BY <1>2, <1>4, <1>6, LenProperties
<1> QED
  BY <1>5, <1>6, <1>7, SameIds DEF TimePasses

LEMMA AddStep ==
  ASSUME StoreInv, NEW id, NEW text \in Texts, NEW timeout \in Timeouts,
         AddNew(id, text, timeout)
  PROVE  StoreInv'
<1> DEFINE new == Fresh(nextId, text, timeout)
<1>1. live \in Seq(Notification) /\ Len(live) \in Nat /\ nextId \in Nat /\ nextId > 0
  BY LenProperties DEF StoreInv, StoreTypeOK, Ids
<1>2. new \in Notification /\ new.id = nextId
  BY FreshType DEF StoreInv, StoreTypeOK
<1> HIDE DEF new
<1>3. live' = Append(live, new) /\ nextId' = nextId + 1
  BY DEF AddNew, new
<1>4. /\ live' \in Seq(Notification) /\ Len(live') = Len(live) + 1
      /\ \A n \in 1..Len(live) : live'[n] = live[n]
      /\ live'[Len(live) + 1] = new
  BY <1>1, <1>2, <1>3, AppendProperties
<1>5. \A n \in 1..Len(live') : n \in 1..Len(live) \/ n = Len(live) + 1
  BY <1>1, <1>4
<1>6. /\ DOMAIN index' = DOMAIN index \cup {nextId}
      /\ \A i \in DOMAIN index' : index'[i] = IF i = nextId THEN Len(live) + 1 ELSE index[i]
  BY DEF AddNew
<1>7. nextId \notin DOMAIN index
  BY SMTT(30), <1>1 DEF StoreInv, StoreTypeOK, IndexIsExact, NextIdIsFresh
<1>8. StoreTypeOK'
  BY <1>1, <1>3, <1>4, <1>6, <1>7 DEF StoreInv, StoreTypeOK, Ids
<1>9. IndexIsExact'
  <2>1. \A n \in 1..Len(live') : live'[n].id \in DOMAIN index' /\ index'[live'[n].id] = n
    <3>1. \A n \in 1..Len(live) : live[n].id \in DOMAIN index /\ index[live[n].id] = n
      BY DEF StoreInv, IndexIsExact
    <3>2. \A n \in 1..Len(live) : live'[n].id = live[n].id /\ live[n].id # nextId
      BY <1>4, <1>7, <3>1
    <3>3. \A n \in 1..Len(live) : live'[n].id \in DOMAIN index' /\ index'[live'[n].id] = n
      BY <1>6, <3>1, <3>2
    <3>4. live'[Len(live) + 1].id = nextId /\ index'[nextId] = Len(live) + 1 /\ nextId \in DOMAIN index'
      BY <1>2, <1>4, <1>6
    <3> QED
      BY <1>5, <3>3, <3>4
  <2>2. ASSUME NEW i \in DOMAIN index'
        PROVE  index'[i] \in 1..Len(live') /\ live'[index'[i]].id = i
    <3>1. CASE i = nextId
      BY <1>1, <1>2, <1>4, <1>6, <3>1
    <3>2. CASE i # nextId
      <4>1. index'[i] = index[i] /\ i \in DOMAIN index
        BY <1>6, <3>2
      <4>2. index[i] \in 1..Len(live) /\ live[index[i]].id = i
        BY <4>1 DEF StoreInv, IndexIsExact
      <4> QED
        BY <1>1, <1>4, <4>1, <4>2
    <3> QED
      BY <3>1, <3>2
  <2> QED
    BY <2>1, <2>2 DEF IndexIsExact
<1>10. NextIdIsFresh'
  <2>1. \A n \in 1..Len(live) : live[n].id \in Nat
    <3>1. \A n \in 1..Len(live) : live[n] \in Notification
      BY <1>1, ElementOfSeq
    <3> QED
      BY <3>1 DEF Notification, Ids
  <2> QED
    BY <1>1, <1>2, <1>3, <1>4, <1>5, <2>1 DEF StoreInv, NextIdIsFresh
<1> QED
  BY <1>8, <1>9, <1>10 DEF StoreInv

\* After a removal the positions of the others are corrected one by one.
LEMMA CloseStep ==
  ASSUME StoreInv, NEW id, Close(id)
  PROVE  StoreInv'
<1> DEFINE rest == RemoveAt(live, index[id])
<1>1. id \in DOMAIN index /\ live \in Seq(Notification)
  BY DEF StoreInv, StoreTypeOK, Close, Known
<1>n. PICK n \in 1..Len(live) : n = index[id]
  BY <1>1 DEF StoreInv, StoreTypeOK
<1>2. Len(live) \in Nat /\ n \in Nat /\ live[n].id = id
  BY <1>1, <1>n, LenProperties DEF StoreInv, IndexIsExact
<1>3. /\ live' \in Seq(Notification) /\ Len(live') = Len(live) - 1
      /\ \A m \in 1..Len(live') : live'[m] = IF m < n THEN live[m] ELSE live[m + 1]
  BY <1>1, <1>n, RemoveAtFacts DEF Close
<1>4. /\ DOMAIN index' = DOMAIN index \ {id}
      /\ \A i \in DOMAIN index' :
           index'[i] = IF Moved(live', n, i) = {} THEN index[i]
                       ELSE CHOOSE p \in Moved(live', n, i) : TRUE
  BY <1>n DEF Close
\* Where the notification with id i is now.
<1>5. ASSUME NEW i \in DOMAIN index'
      PROVE  /\ index'[i] = IF index[i] < n THEN index[i] ELSE index[i] - 1
             /\ index'[i] \in 1..Len(live')
             /\ live'[index'[i]].id = i
  <2>1. i \in DOMAIN index /\ i # id
    BY <1>4
  <2>k. PICK k \in 1..Len(live) : k = index[i]
    BY <2>1 DEF StoreInv, StoreTypeOK
  <2>2. k \in Nat /\ live[k].id = i /\ k # n
    BY SMTT(30), <1>2, <2>1, <2>k DEF StoreInv, IndexIsExact
  <2>3. \A m \in 1..Len(live) : live[m].id = i => m = k
    BY <2>k DEF StoreInv, IndexIsExact
  <2>4. CASE k < n
    <3>1. \A m \in n..Len(live') : live'[m].id # i
      BY SMTT(30), <1>2, <1>3, <2>2, <2>3, <2>4
    <3>2. Moved(live', n, i) = {}
      BY <3>1 DEF Moved
    <3>3. index'[i] = k
      BY <1>4, <2>k, <3>2
    <3>4. k \in 1..Len(live') /\ live'[k].id = i
      BY <1>2, <1>3, <2>2, <2>4
    <3> QED
      BY <2>4, <2>k, <3>3, <3>4
  <2>5. CASE k > n
    <3>1. k - 1 \in n..Len(live') /\ live'[k - 1].id = i
      BY <1>2, <1>3, <2>2, <2>5
    <3>2. \A m \in n..Len(live') : live'[m].id = i => m = k - 1
      BY SMTT(30), <1>2, <1>3, <2>2, <2>3, <2>5
    <3>3. Moved(live', n, i) = {k - 1}
      BY <3>1, <3>2 DEF Moved
    <3>4. index'[i] = k - 1
      BY <1>4, <3>3
    <3> QED
      BY <1>2, <2>2, <2>5, <2>k, <3>1, <3>4
  <2> QED
    BY <1>2, <2>2, <2>4, <2>5
<1>6. StoreTypeOK'
  BY <1>3, <1>4, <1>5 DEF StoreInv, StoreTypeOK, Close
<1>7. IndexIsExact'
  <2>1. ASSUME NEW m \in 1..Len(live')
        PROVE  live'[m].id \in DOMAIN index' /\ index'[live'[m].id] = m
    <3>k. PICK k \in 1..Len(live) : k = IF m < n THEN m ELSE m + 1
      BY <1>2, <1>3
    <3>1. live'[m] = live[k] /\ k # n
      BY <1>2, <1>3, <3>k
    <3>2. live[k].id \in DOMAIN index /\ index[live[k].id] = k /\ live[k].id # id
      BY <1>2, <1>n, <3>1 DEF StoreInv, IndexIsExact
    <3>3. live[k].id \in DOMAIN index'
      BY <1>4, <3>2
    <3>4. index'[live[k].id] = IF k < n THEN k ELSE k - 1
      BY <1>5, <3>2, <3>3
    <3> QED
      BY <1>2, <3>1, <3>3, <3>4, <3>k
  <2> QED
    BY <1>5, <2>1 DEF IndexIsExact
<1>8. NextIdIsFresh'
  <2>1. nextId' = nextId
    BY DEF Close
  <2>2. \A m \in 1..Len(live') : \E k \in 1..Len(live) : live'[m] = live[k]
    BY <1>2, <1>3
  <2> QED
    BY <2>1, <2>2 DEF StoreInv, NextIdIsFresh
<1> QED
  BY <1>6, <1>7, <1>8 DEF StoreInv

LEMMA RestartStep == StoreRestart => StoreInv'
<1> SUFFICES ASSUME StoreRestart PROVE StoreInv'
  OBVIOUS
<1>1. live' \in Seq(Notification) /\ Len(live') = 0 /\ DOMAIN index' = {}
  BY EmptySeq DEF StoreRestart
<1> QED
  BY <1>1 DEF StoreInv, StoreTypeOK, IndexIsExact, NextIdIsFresh, StoreRestart

LEMMA NextStore == StoreInv /\ [StoreNext]_storeVars => StoreInv'
<1> SUFFICES ASSUME StoreInv, [StoreNext]_storeVars PROVE StoreInv'
  OBVIOUS
<1>1. ASSUME NEW text \in Texts, NEW timeout \in Timeouts, NEW id \in DOMAIN index,
             ReplaceLive(id, text, timeout)
      PROVE  StoreInv'
  BY <1>1, ReplaceStep
<1>2. ASSUME NEW text \in Texts, NEW timeout \in Timeouts, NEW id \in Nat,
             AddNew(id, text, timeout)
      PROVE  StoreInv'
  BY <1>2, AddStep
<1>3. ASSUME NEW id \in DOMAIN index, Close(id) PROVE StoreInv'
  BY <1>3, CloseStep
<1>4. ASSUME NEW id \in DOMAIN index, PauseExpiry(id) PROVE StoreInv'
  BY <1>4, SetLeftStep DEF PauseExpiry
<1>5. ASSUME NEW id \in DOMAIN index, NEW remaining \in Lefts, ResumeExpiry(id, remaining)
      PROVE  StoreInv'
  BY <1>5, SetLeftStep, LeftsAssumption DEF ResumeExpiry
<1>6. CASE TimePasses
  BY <1>6, TimeStep
<1>7. CASE StoreRestart
  BY <1>7, RestartStep
<1>8. CASE UNCHANGED storeVars
  BY <1>8 DEF StoreInv, StoreTypeOK, IndexIsExact, NextIdIsFresh, storeVars
<1> QED
  BY <1>1, <1>2, <1>3, <1>4, <1>5, <1>6, <1>7, <1>8 DEF StoreNext

-----------------------------------------------------------------------------
(* Theorems.                                                                *)

THEOREM StoreInvariant == StoreSpec => []StoreInv
<1>1. StoreInit => StoreInv
  BY InitStore
<1>2. StoreInv /\ [StoreNext]_storeVars => StoreInv'
  BY NextStore
<1> QED
  BY <1>1, <1>2, PTL DEF StoreSpec

\* The deque, the map and the counter keep their types under any client.
THEOREM StoreTypeCorrect == StoreSpec => []StoreTypeOK
<1>1. StoreInv => StoreTypeOK
  BY DEF StoreInv
<1> QED
  BY <1>1, StoreInvariant, PTL

\* m_idToIndex finds every live notification at its position, and nothing else,
\* after any sequence of additions, replacements and removals.
THEOREM StoreIndexIsExact == StoreSpec => []IndexIsExact
<1>1. StoreInv => IndexIsExact
  BY DEF StoreInv
<1> QED
  BY <1>1, StoreInvariant, PTL

\* A new notification never gets the id of a live one.
THEOREM StoreIdsAreFresh == StoreSpec => []NextIdIsFresh
<1>1. StoreInv => NextIdIsFresh
  BY DEF StoreInv
<1> QED
  BY <1>1, StoreInvariant, PTL

-----------------------------------------------------------------------------
(* The store implements the map.                                            *)

LEMMA MapInit == StoreInit => Map!Init
<1> SUFFICES ASSUME StoreInit PROVE Notes = <<>> /\ nextId = 1
  BY DEF Map!Init
<1>1. DOMAIN index = {}
  BY DEF StoreInit
<1>2. Notes = [id \in {} |-> NoteOf(live[index[id]])]
  BY <1>1 DEF Notes
<1> QED
  BY <1>2 DEF StoreInit

LEMMA MapAdd ==
  ASSUME StoreInv, NEW id, NEW text \in Texts, NEW timeout \in Timeouts,
         AddNew(id, text, timeout)
  PROVE  Map!New(text, timeout)
<1> DEFINE new == Fresh(nextId, text, timeout)
<1>1. live \in Seq(Notification) /\ Len(live) \in Nat /\ nextId \in Nat
  BY LenProperties DEF StoreInv, StoreTypeOK, Ids
<1>2. new \in Notification
  BY FreshType DEF StoreInv, StoreTypeOK
<1>3. NoteOf(new) = Map!Body(text, timeout)
  BY DEF new, NoteOf, Fresh, Deadline, Map!Body
<1> HIDE DEF new
<1>4. /\ \A n \in 1..Len(live) : live'[n] = live[n]
      /\ live'[Len(live) + 1] = new
  BY <1>1, <1>2, AppendProperties DEF AddNew, new
<1>5. nextId \notin DOMAIN index
  BY <1>1 DEF StoreInv, StoreTypeOK, IndexIsExact, NextIdIsFresh
<1>6. /\ DOMAIN index' = DOMAIN index \cup {nextId}
      /\ \A i \in DOMAIN index' : index'[i] = IF i = nextId THEN Len(live) + 1 ELSE index[i]
  BY DEF AddNew
<1>7. \A i \in DOMAIN index' :
        NoteOf(live'[index'[i]]) =
          IF i = nextId THEN Map!Body(text, timeout) ELSE NoteOf(live[index[i]])
  <2> SUFFICES ASSUME NEW i \in DOMAIN index'
               PROVE  NoteOf(live'[index'[i]]) =
                        IF i = nextId THEN Map!Body(text, timeout) ELSE NoteOf(live[index[i]])
    OBVIOUS
  <2>1. CASE i = nextId
    BY <1>3, <1>4, <1>6, <2>1
  <2>2. CASE i # nextId
    <3>1. i \in DOMAIN index /\ index'[i] = index[i]
      BY <1>6, <2>2
    <3>2. index[i] \in 1..Len(live)
      BY <3>1 DEF StoreInv, StoreTypeOK
    <3>3. live'[index[i]] = live[index[i]]
      BY <1>4, <3>2
    <3> QED
      BY <2>2, <3>1, <3>3
  <2> QED
    BY <2>1, <2>2
<1>8. Notes' = [i \in DOMAIN index' |-> NoteOf(live'[index'[i]])]
  BY DEF Notes
<1>9. DOMAIN Notes = DOMAIN index /\ \A i \in DOMAIN index : Notes[i] = NoteOf(live[index[i]])
  BY DEF Notes
<1> HIDE DEF Notes
<1>10. Notes' = [i \in DOMAIN Notes \cup {nextId} |->
                   IF i = nextId THEN Map!Body(text, timeout) ELSE Notes[i]]
  <2>1. \A i \in DOMAIN index' :
          NoteOf(live'[index'[i]]) =
            IF i = nextId THEN Map!Body(text, timeout) ELSE Notes[i]
    BY <1>6, <1>7, <1>9
  <2> QED
    BY <1>6, <1>8, <1>9, <2>1
<1> QED
  BY <1>5, <1>9, <1>10 DEF Map!New, AddNew

\* A change of one notification in the deque changes one note in the map.
LEMMA MapChange ==
  ASSUME StoreInv, NEW id \in DOMAIN index, NEW new \in Notification,
         live' = [live EXCEPT ![index[id]] = new], UNCHANGED index
  PROVE  Notes' = [Notes EXCEPT ![id] = NoteOf(new)]
<1>1. live \in Seq(Notification) /\ index[id] \in 1..Len(live)
  BY DEF StoreInv, StoreTypeOK
<1>2. \A n \in 1..Len(live) : live'[n] = IF n = index[id] THEN new ELSE live[n]
  BY <1>1, ExceptSeq
<1>3. \A i \in DOMAIN index : index[i] \in 1..Len(live) /\ (index[i] = index[id] => i = id)
  BY DEF StoreInv, IndexIsExact
<1>4. \A i \in DOMAIN index :
        NoteOf(live'[index[i]]) = IF i = id THEN NoteOf(new) ELSE NoteOf(live[index[i]])
  BY <1>2, <1>3
<1>5. Notes' = [i \in DOMAIN index |-> NoteOf(live'[index[i]])]
  BY DEF Notes
<1>6. DOMAIN Notes = DOMAIN index /\ \A i \in DOMAIN index : Notes[i] = NoteOf(live[index[i]])
  BY DEF Notes
<1>7. [Notes EXCEPT ![id] = NoteOf(new)] =
        [i \in DOMAIN index |-> IF i = id THEN NoteOf(new) ELSE Notes[i]]
  BY <1>6
<1> QED
  BY <1>4, <1>5, <1>6, <1>7

LEMMA MapReplace ==
  ASSUME StoreInv, NEW id \in DOMAIN index, NEW text \in Texts, NEW timeout \in Timeouts,
         ReplaceLive(id, text, timeout)
  PROVE  Map!Renew(id, text, timeout)
<1> DEFINE new == Fresh(live[index[id]].id, text, timeout)
<1>1. live \in Seq(Notification) /\ index[id] \in 1..Len(live)
  BY DEF StoreInv, StoreTypeOK
<1>2. live[index[id]].id \in Ids
  <2>1. live[index[id]] \in Notification
    BY <1>1, ElementOfSeq
  <2> QED
    BY <2>1 DEF Notification
<1>3. new \in Notification
  BY <1>2, FreshType
<1>4. NoteOf(new) = Map!Body(text, timeout)
  BY DEF NoteOf, Fresh, Deadline, Map!Body
<1>5. live' = [live EXCEPT ![index[id]] = new] /\ UNCHANGED <<index, nextId>>
  BY DEF ReplaceLive, ReplaceAt
<1> HIDE DEF new
<1> QED
  BY <1>3, <1>4, <1>5, MapChange DEF Map!Renew

LEMMA MapRearm ==
  ASSUME StoreInv, NEW id \in DOMAIN index, NEW left \in Nat \cup {Never}, SetLeft(id, left)
  PROVE  Map!Rearm(id, left)
<1> DEFINE new == [live[index[id]] EXCEPT !.left = left]
<1>1. live \in Seq(Notification) /\ index[id] \in 1..Len(live)
  BY DEF StoreInv, StoreTypeOK
<1>2. live[index[id]] \in Notification
  BY <1>1, ElementOfSeq
<1>3. new \in Notification
  BY <1>2 DEF Notification
<1>4. NoteOf(new) = [NoteOf(live[index[id]]) EXCEPT !.left = left]
  BY <1>2 DEF NoteOf, Notification
<1>5. live' = [live EXCEPT ![index[id]] = new] /\ UNCHANGED <<index, nextId>>
  BY DEF SetLeft
<1>6. Notes[id] = NoteOf(live[index[id]])
  BY DEF Notes
<1> HIDE DEF new
<1>7. Notes' = [Notes EXCEPT ![id] = NoteOf(new)]
  BY <1>3, <1>5, MapChange
<1> QED
  BY <1>4, <1>5, <1>6, <1>7 DEF Map!Rearm

LEMMA MapClose ==
  ASSUME StoreInv, NEW id \in DOMAIN index, Close(id)
  PROVE  Map!Drop(id)
<1>1. live \in Seq(Notification) /\ StoreInv'
  BY CloseStep DEF StoreInv, StoreTypeOK
<1>n. PICK n \in 1..Len(live) : n = index[id]
  BY DEF StoreInv, StoreTypeOK
<1>2. Len(live) \in Nat /\ n \in Nat
  BY <1>1, LenProperties
<1>3. /\ Len(live') = Len(live) - 1
      /\ \A m \in 1..Len(live') : live'[m] = IF m < n THEN live[m] ELSE live[m + 1]
  BY <1>1, <1>n, RemoveAtFacts DEF Close
<1>4. DOMAIN index' = DOMAIN index \ {id}
  BY DEF Close
\* What stands at the new position of i is what stood at its old one.
<1>5. ASSUME NEW i \in DOMAIN index' PROVE live'[index'[i]] = live[index[i]]
  <2>m. PICK m \in 1..Len(live') : m = index'[i]
    BY <1>1 DEF StoreInv, IndexIsExact
  <2>1. live'[m].id = i
    BY <1>1, <2>m DEF StoreInv, IndexIsExact
  <2>k. PICK k \in 1..Len(live) : live'[m] = live[k]
    BY <1>2, <1>3
  <2>2. index[live[k].id] = k
    BY DEF StoreInv, IndexIsExact
  <2> QED
    BY <2>1, <2>2, <2>k, <2>m
<1>6. Notes' = [i \in DOMAIN index' |-> NoteOf(live'[index'[i]])]
  BY DEF Notes
<1>7. DOMAIN Notes = DOMAIN index /\ \A i \in DOMAIN index : Notes[i] = NoteOf(live[index[i]])
  BY DEF Notes
<1> HIDE DEF Notes
<1>8. Notes' = [i \in DOMAIN Notes \ {id} |-> Notes[i]]
  BY <1>4, <1>5, <1>6, <1>7
<1> QED
  BY <1>8 DEF Map!Drop, Close

LEMMA MapTime == StoreInv /\ TimePasses => Map!TimePasses
<1> SUFFICES ASSUME StoreInv, TimePasses PROVE Map!TimePasses
  OBVIOUS
<1>1. live \in Seq(Notification) /\ \A i \in DOMAIN index : index[i] \in 1..Len(live)
  BY DEF StoreInv, StoreTypeOK
<1>2. DOMAIN live = 1..Len(live) /\ \A n \in 1..Len(live) : live[n] \in Notification
  BY <1>1, LenProperties, ElementOfSeq
<1>3. \A n \in 1..Len(live) : live'[n] = Older(live[n])
  BY <1>2 DEF TimePasses
<1>4. ASSUME NEW n \in Notification PROVE NoteOf(Older(n)) = Map!Aged(NoteOf(n))
  <2>1. /\ Older(n).text = n.text /\ Older(n).timeout = n.timeout
        /\ Older(n).age = IF n.age < Window THEN n.age + 1 ELSE n.age
        /\ Older(n).left = IF n.left = Never \/ n.left = 0 THEN n.left ELSE n.left - 1
    BY DEF Older, Notification
  <2> QED
    BY <2>1 DEF NoteOf, Map!Aged
<1>5. \A i \in DOMAIN index : NoteOf(live'[index[i]]) = Map!Aged(NoteOf(live[index[i]]))
  BY <1>1, <1>2, <1>3, <1>4
<1>6. Notes' = [i \in DOMAIN index |-> NoteOf(live'[index[i]])]
  BY DEF Notes, TimePasses
<1>7. DOMAIN Notes = DOMAIN index /\ \A i \in DOMAIN index : Notes[i] = NoteOf(live[index[i]])
  BY DEF Notes
<1> HIDE DEF Notes
<1>8. Notes' = [i \in DOMAIN Notes |-> Map!Aged(Notes[i])]
  BY <1>5, <1>6, <1>7
<1> QED
  BY <1>8 DEF Map!TimePasses, TimePasses

LEMMA MapStartOver == StoreRestart => Map!StartOver
<1> SUFFICES ASSUME StoreRestart PROVE Notes' = <<>> /\ nextId' \in Nat \ {0}
  BY DEF Map!StartOver
<1>1. DOMAIN index' = {}
  BY DEF StoreRestart
<1>2. Notes' = [id \in {} |-> NoteOf(live'[index'[id]])]
  BY <1>1 DEF Notes
<1> QED
  BY <1>2 DEF StoreRestart, Ids

LEMMA MapStep == StoreInv /\ [StoreNext]_storeVars => [Map!Next]_(Map!vars)
<1> SUFFICES ASSUME StoreInv, [StoreNext]_storeVars PROVE [Map!Next]_(Map!vars)
  OBVIOUS
<1>0. DOMAIN Notes = DOMAIN index
  BY DEF Notes
<1>1. ASSUME NEW text \in Texts, NEW timeout \in Timeouts, NEW id \in DOMAIN index,
             ReplaceLive(id, text, timeout)
      PROVE  Map!Next
  BY <1>0, <1>1, MapReplace DEF Map!Next
<1>2. ASSUME NEW text \in Texts, NEW timeout \in Timeouts, NEW id \in Nat,
             AddNew(id, text, timeout)
      PROVE  Map!Next
  BY <1>2, MapAdd DEF Map!Next
<1>3. ASSUME NEW id \in DOMAIN index, Close(id) PROVE Map!Next
  BY <1>0, <1>3, MapClose DEF Map!Next
<1>4. ASSUME NEW id \in DOMAIN index, PauseExpiry(id) PROVE Map!Next
  BY <1>0, <1>4, MapRearm DEF Map!Next, PauseExpiry
<1>5. ASSUME NEW id \in DOMAIN index, NEW remaining \in Lefts, ResumeExpiry(id, remaining)
      PROVE  Map!Next
  BY <1>0, <1>5, MapRearm, LeftsAssumption DEF Map!Next, ResumeExpiry
<1>6. CASE TimePasses
  BY <1>6, MapTime DEF Map!Next
<1>7. CASE StoreRestart
  BY <1>7, MapStartOver DEF Map!Next
<1>8. CASE UNCHANGED storeVars
  BY <1>8 DEF storeVars, Map!vars, Notes
<1> QED
  BY <1>1, <1>2, <1>3, <1>4, <1>5, <1>6, <1>7, <1>8 DEF StoreNext

\* The deque with its index behaves as a map from ids to notifications: every
\* operation changes the notification it names and no other.
THEOREM StoreImplementsMap == StoreSpec => MapSpec
<1>1. StoreInit => Map!Init
  BY MapInit
<1>2. StoreInv /\ [StoreNext]_storeVars => [Map!Next]_(Map!vars)
  BY MapStep
<1> QED
  BY <1>1, <1>2, StoreInvariant, PTL DEF StoreSpec, MapSpec, Map!Spec

-----------------------------------------------------------------------------
(* The manager is a client of the store.                                    *)

\* After the end of a session nothing is live.
DownIsEmpty == phase = "down" => live = <<>> /\ index = <<>>

\* A step of any handler is a step of the store or leaves it alone.
LEMMA ManagerStep ==
  ASSUME StoreInv, DownIsEmpty, phase \in {"running", "down"}, [Next]_vars,
         Restart => nextId' \in Ids
  PROVE  [StoreNext]_storeVars
<1> USE DEF storeVars
<1>1. CASE Notify
  <2>1. PICK replaces \in 0..MaxId, text \in Texts, timeout \in Timeouts :
          \/ NotifyReplace(replaces, text, timeout)
          \/ NotifyDuplicate(replaces, text)
          \/ NotifyNew(replaces, text, timeout)
    BY <1>1 DEF Notify
  <2>2. CASE NotifyReplace(replaces, text, timeout)
    BY <2>2 DEF NotifyReplace, StoreNext, ReplaceLive, Known
  <2>3. CASE NotifyDuplicate(replaces, text)
    BY <2>3 DEF NotifyDuplicate, IgnoreDuplicate
  <2>4. CASE NotifyNew(replaces, text, timeout)
    BY <2>4, BoundsAssumption DEF NotifyNew, StoreNext
  <2> QED
    BY <2>1, <2>2, <2>3, <2>4
<1>2. ASSUME NEW id, Close(id) PROVE StoreNext
  BY <1>2 DEF Close, Known, StoreNext
<1>3. ASSUME NEW id \in 1..MaxId, OnCloseNotification(id) \/ Dismiss(id) PROVE StoreNext
  BY <1>2, <1>3 DEF OnCloseNotification, Dismiss, CloseLive
<1>4. ASSUME NEW id \in 1..MaxId, Hover(id) PROVE StoreNext
  BY <1>4 DEF Hover, PauseExpiry, ResumeExpiry, SetLeft, Known, StoreNext
<1>5. CASE SweepOne
  BY <1>2, <1>5 DEF SweepOne, CloseLive
<1>6. CASE ProcessExpired \/ DismissAll
  BY <1>6 DEF ProcessExpired, DismissAll
<1>7. CASE SweepClear \/ ClearHistory \/ PersistLater \/ SyncDaemon
  BY <1>7 DEF SweepClear, ClearHistory, PersistLater, SyncDaemon, Idle
<1>8. ASSUME NEW n \in DOMAIN history, RemoveEntry(n) PROVE [StoreNext]_storeVars
  BY <1>2, <1>8 DEF RemoveEntry
<1>9. CASE Shutdown \/ Crash
  BY <1>9 DEF Shutdown, Crash, Exit, StoreNext, StoreRestart, StoreInv, StoreTypeOK
<1>10. CASE Restart
  BY <1>10 DEF Restart, DownIsEmpty, StoreNext, StoreRestart
<1>11. CASE Tick
  BY <1>11 DEF Tick, StoreNext
<1>12. CASE UNCHANGED vars
  BY <1>12 DEF vars
<1> QED
  BY <1>1, <1>3, <1>4, <1>5, <1>6, <1>7, <1>8, <1>9, <1>10, <1>11, <1>12 DEF Next, Sweeping

-----------------------------------------------------------------------------
(* Histories without repeated ids.                                          *)

Distinct(h) == \A i, j \in 1..Len(h) : h[i].id = h[j].id => i = j

LEMMA EntryFacts ==
  ASSUME NEW h \in Seq(HistoryEntry)
  PROVE  /\ Len(h) \in Nat /\ DOMAIN h = 1..Len(h)
         /\ \A n \in 1..Len(h) : h[n] \in HistoryEntry /\ h[n].id \in Ids /\ h[n].id \in Nat
<1>1. \A n \in 1..Len(h) : h[n] \in HistoryEntry
  BY ElementOfSeq
<1> QED
  BY <1>1, LenProperties DEF HistoryEntry, Ids

LEMMA IndexOfFacts ==
  ASSUME NEW h \in Seq(HistoryEntry), Distinct(h)
  PROVE  /\ DOMAIN IndexOf(h) \subseteq Ids
         /\ \A n \in 1..Len(h) : h[n].id \in DOMAIN IndexOf(h) /\ IndexOf(h)[h[n].id] = n
         /\ \A id \in DOMAIN IndexOf(h) : IndexOf(h)[id] \in 1..Len(h) /\ h[IndexOf(h)[id]].id = id
<1> DEFINE D == {h[n].id : n \in DOMAIN h}
           f == IndexOf(h)
<1>1. DOMAIN h = 1..Len(h) /\ \A n \in 1..Len(h) : h[n].id \in Ids
  BY EntryFacts
<1>2. DOMAIN f = D /\ \A id \in D : f[id] = CHOOSE n \in DOMAIN h : h[n].id = id
  BY DEF IndexOf
<1>3. \A id \in D : \E n \in DOMAIN h : h[n].id = id
  OBVIOUS
<1>4. \A n \in DOMAIN h : h[n].id \in D
  OBVIOUS
<1>5. D \subseteq Ids
  BY <1>1
<1> HIDE DEF D, f
<1>6. \A id \in D : f[id] \in DOMAIN h /\ h[f[id]].id = id
  BY <1>2, <1>3
<1>7. \A n \in DOMAIN h : f[h[n].id] = n
  BY <1>1, <1>4, <1>6 DEF Distinct
<1> QED
  BY <1>1, <1>2, <1>4, <1>5, <1>6, <1>7 DEF f

LEMMA RemoveDistinct ==
  ASSUME NEW h \in Seq(HistoryEntry), Distinct(h), NEW n \in 1..Len(h)
  PROVE  /\ RemoveAt(h, n) \in Seq(HistoryEntry) /\ Distinct(RemoveAt(h, n))
         /\ Len(RemoveAt(h, n)) = Len(h) - 1
         /\ \A m \in 1..Len(RemoveAt(h, n)) :
              /\ RemoveAt(h, n)[m].id # h[n].id
              /\ \E k \in 1..Len(h) : RemoveAt(h, n)[m] = h[k]
<1> DEFINE r == RemoveAt(h, n)
<1>1. /\ r \in Seq(HistoryEntry) /\ Len(r) = Len(h) - 1 /\ Len(h) \in Nat
      /\ \A m \in 1..(Len(h) - 1) : r[m] = IF m < n THEN h[m] ELSE h[m + 1]
  BY RemoveAtFacts, EntryFacts
<1> HIDE DEF r
<1>2. \A m \in 1..Len(r) : \E k \in 1..Len(h) : r[m] = h[k] /\ k # n /\ k = (IF m < n THEN m ELSE m + 1)
  BY <1>1
<1>3. \A i, j \in 1..Len(r) : r[i].id = r[j].id => i = j
  <2> SUFFICES ASSUME NEW i \in 1..Len(r), NEW j \in 1..Len(r), r[i].id = r[j].id PROVE i = j
    OBVIOUS
  <2>1. PICK k \in 1..Len(h) : r[i] = h[k] /\ k = (IF i < n THEN i ELSE i + 1)
    BY <1>2
  <2>2. PICK l \in 1..Len(h) : r[j] = h[l] /\ l = (IF j < n THEN j ELSE j + 1)
    BY <1>2
  <2>3. k = l
    BY <2>1, <2>2 DEF Distinct
  <2> QED
    BY <1>1, <2>1, <2>2, <2>3
<1>4. \A m \in 1..Len(r) : r[m].id # h[n].id
  BY <1>2 DEF Distinct
<1> QED
  BY <1>1, <1>2, <1>3, <1>4 DEF Distinct, r

LEMMA AppendDistinct ==
  ASSUME NEW h \in Seq(HistoryEntry), Distinct(h), NEW e \in HistoryEntry,
         \A n \in 1..Len(h) : h[n].id # e.id
  PROVE  /\ Append(h, e) \in Seq(HistoryEntry) /\ Distinct(Append(h, e))
         /\ Len(Append(h, e)) = Len(h) + 1
         /\ \A m \in 1..Len(Append(h, e)) :
              Append(h, e)[m] = e \/ \E k \in 1..Len(h) : Append(h, e)[m] = h[k]
<1> DEFINE r == Append(h, e)
<1>1. /\ r \in Seq(HistoryEntry) /\ Len(r) = Len(h) + 1 /\ Len(h) \in Nat
      /\ r[Len(h) + 1] = e /\ \A m \in 1..Len(h) : r[m] = h[m]
  BY AppendProperties, EntryFacts
<1> HIDE DEF r
<1>2. \A m \in 1..Len(r) : (m = Len(h) + 1 /\ r[m] = e) \/ (m \in 1..Len(h) /\ r[m] = h[m])
  BY <1>1
<1>3. Distinct(r)
  <2> SUFFICES ASSUME NEW i \in 1..Len(r), NEW j \in 1..Len(r), r[i].id = r[j].id PROVE i = j
    BY DEF Distinct
  <2> QED
    BY <1>2 DEF Distinct
<1> QED
  BY <1>1, <1>2, <1>3 DEF r

LEMMA NewestFacts ==
  ASSUME NEW h \in Seq(HistoryEntry), Distinct(h), NEW max \in Nat
  PROVE  /\ Newest(h, max) \in Seq(HistoryEntry) /\ Distinct(Newest(h, max))
         /\ Len(Newest(h, max)) <= max
         /\ Len(h) <= max => Newest(h, max) = h
         /\ \A m \in 1..Len(Newest(h, max)) : \E k \in 1..Len(h) : Newest(h, max)[m] = h[k]
<1>1. Len(h) \in Nat /\ \A n \in 1..Len(h) : h[n] \in HistoryEntry
  BY EntryFacts
<1>2. CASE Len(h) <= max
  BY <1>1, <1>2 DEF Newest
<1>3. CASE ~(Len(h) <= max)
  <2> DEFINE d == Len(h) - max
             r == Newest(h, max)
             c == Len(h)
  <2>1. r = SubSeq(h, d + 1, c)
    BY <1>3 DEF Newest
  <2>2. d \in Nat /\ d + 1 \in 1..Len(h) + 1 /\ c = d + max /\ c - (d + 1) + 1 = max
    BY <1>1, <1>3
  <2> HIDE DEF d, c
  <2>3. \A i \in (d + 1)..c : h[i] \in HistoryEntry
    BY <1>1, <2>2 DEF c
  <2>4. c \in Int /\ d + 1 \in Int
    BY <1>1, <2>2 DEF c
  <2>5. /\ SubSeq(h, d + 1, c) \in Seq(HistoryEntry)
        /\ Len(SubSeq(h, d + 1, c)) = IF d + 1 <= c THEN c - (d + 1) + 1 ELSE 0
        /\ \A i \in 1 .. c - (d + 1) + 1 : SubSeq(h, d + 1, c)[i] = h[(d + 1) + i - 1]
    BY <2>3, <2>4, SubSeqProperties
  <2> HIDE DEF r
  <2>6. r \in Seq(HistoryEntry) /\ Len(r) = max
    BY <2>1, <2>2, <2>5
  <2>7. \A i \in 1..max : r[i] = h[d + i] /\ d + i \in 1..Len(h)
    <3> TAKE i \in 1..max
    <3>1. i \in 1 .. c - (d + 1) + 1 /\ (d + 1) + i - 1 = d + i
      BY <2>2
    <3>2. d + i \in 1..Len(h)
      BY <2>2 DEF c
    <3> QED
      BY <2>1, <2>5, <3>1, <3>2
  <2>8. Distinct(r)
    <3> SUFFICES ASSUME NEW i \in 1..max, NEW j \in 1..max, r[i].id = r[j].id PROVE i = j
      BY <2>6 DEF Distinct
    <3>1. d + i = d + j
      BY <2>7 DEF Distinct
    <3> QED
      BY <2>2, <3>1
  <2> QED
    BY <1>3, <2>6, <2>7, <2>8 DEF r
<1> QED
  BY <1>2, <1>3

-----------------------------------------------------------------------------
(* The greatest id in a file, and the ids of a sweep.  A set of naturals    *)
(* that is not empty has a least member, which is the induction that what   *)
(* goes through a sequence asks for.                                        *)

LEMMA LeastMember ==
  ASSUME NEW T \in SUBSET Nat, T # {}
  PROVE  \E m \in T : \A k \in T : m <= k
<1> DEFINE R == {r \in Nat \X Nat : r[1] < r[2]}
<1>1. IsWellFoundedOn(R, Nat)
  BY NatLessThanWellFounded DEF OpToRel
<1>2. \A x, y \in Nat : y < x => <<y, x>> \in R
  <2> SUFFICES ASSUME NEW x \in Nat, NEW y \in Nat, y < x PROVE <<y, x>> \in R
    OBVIOUS
  <2>1. <<y, x>> \in Nat \X Nat
    OBVIOUS
  <2> QED
    BY <2>1
<1> HIDE DEF R
<1>3. PICK m \in T : \A k \in T : <<k, m>> \notin R
  BY <1>1, WFMin, Zenon
<1>4. \A k \in T : ~(k < m)
  BY <1>2, <1>3
<1> QED
  BY <1>4

\* One of the first m entries has the greatest id of them.
Tops(h, n, m) == n \in 1..m /\ \A k \in 1..m : h[k].id <= h[n].id

LEMMA GreatestId ==
  ASSUME NEW h \in Seq(HistoryEntry), h # <<>>
  PROVE  \E n : Tops(h, n, Len(h))
<1> DEFINE Bad == {m \in 1..Len(h) : ~ \E n : Tops(h, n, m)}
<1>1. Len(h) \in Nat /\ Len(h) >= 1 /\ \A n \in 1..Len(h) : h[n].id \in Nat
  BY EntryFacts
<1> SUFFICES ASSUME Bad # {} PROVE FALSE
  BY <1>1
<1>2. Bad \in SUBSET Nat
  BY <1>1
<1>3. PICK m \in Bad : \A k \in Bad : m <= k
  <2> HIDE DEF Bad
  <2> QED
    BY <1>2, LeastMember, Zenon
<1>4. m \in 1..Len(h) /\ ~ \E n : Tops(h, n, m)
  BY <1>3
<1>5. m # 1
  <2>1. Tops(h, 1, 1)
    BY <1>1 DEF Tops
  <2> QED
    BY <1>4, <2>1
<1>6. m - 1 \in 1..Len(h) /\ m - 1 \notin Bad
  BY <1>1, <1>3, <1>4, <1>5
<1>7. PICK n : Tops(h, n, m - 1)
  BY <1>6
<1>8. Tops(h, IF h[n].id <= h[m].id THEN m ELSE n, m)
  <2>1. n \in 1..m - 1 /\ \A k \in 1..m - 1 : h[k].id <= h[n].id
    BY <1>7 DEF Tops
  <2>2. \A k \in 1..m : k = m \/ k \in 1..m - 1
    BY <1>4
  <2>3. \A k \in 1..m : h[k].id \in Nat
    BY <1>1, <1>4
  <2>4. n \in 1..m /\ m \in 1..m
    BY <1>4, <2>1
  <2>5. CASE h[n].id <= h[m].id
    BY SMTT(30), <2>1, <2>2, <2>3, <2>4, <2>5 DEF Tops
  <2>6. CASE ~(h[n].id <= h[m].id)
    BY <2>1, <2>2, <2>3, <2>4, <2>6 DEF Tops
  <2> QED
    BY <2>5, <2>6
<1> QED
  BY <1>4, <1>8

LEMMA MaxIsTop ==
  ASSUME NEW S \in SUBSET Nat, NEW m \in S, \A k \in S : k <= m
  PROVE  Max(S) = m
<1>1. \A y \in S : m >= y
  OBVIOUS
<1>2. \A x \in S : (\A y \in S : x >= y) => x = m
  OBVIOUS
<1> QED
  BY <1>1, <1>2 DEF Max

LEMMA LoadedNextIdFacts ==
  ASSUME NEW h \in Seq(HistoryEntry), NEW next \in Ids
  PROVE  LET loaded == LoadedNextId([history |-> h, nextId |-> next]) IN
         /\ loaded \in Ids
         /\ \A n \in 1..Len(h) : h[n].id < loaded
         /\ (\A n \in 1..Len(h) : h[n].id < next) => loaded = next
<1> DEFINE file == [history |-> h, nextId |-> next]
           top == MaxEntryId(h)
<1>1. /\ top \in Nat /\ \A n \in 1..Len(h) : h[n].id <= top
      /\ (\A n \in 1..Len(h) : h[n].id < next) => top < next
  <2>1. CASE h = <<>>
    BY <2>1 DEF MaxEntryId, Ids
  <2>2. CASE h # <<>>
    <3> DEFINE S == {h[n].id : n \in DOMAIN h}
    <3>1. Len(h) \in Nat /\ DOMAIN h = 1..Len(h) /\ \A n \in 1..Len(h) : h[n].id \in Nat
      BY EntryFacts
    <3>2. PICK n : Tops(h, n, Len(h))
      BY <2>2, GreatestId
    <3>3. n \in 1..Len(h) /\ \A k \in 1..Len(h) : h[k].id <= h[n].id
      BY <3>2 DEF Tops
    <3>4. S \in SUBSET Nat /\ h[n].id \in S /\ \A k \in S : k <= h[n].id
      BY <3>1, <3>3
    <3> HIDE DEF S
    <3>5. Max(S) = h[n].id
      BY <3>4, MaxIsTop
    <3>6. top = h[n].id
      BY <2>2, <3>5 DEF MaxEntryId, S
    <3> QED
      BY <3>1, <3>3, <3>6
  <2> QED
    BY <2>1, <2>2
<1>2. LoadedNextId(file) = Max({next, top + 1})
  BY DEF LoadedNextId
<1> HIDE DEF top
<1>3. Max({next, top + 1}) = IF next <= top + 1 THEN top + 1 ELSE next
  <2>1. next \in Nat /\ top + 1 \in Nat
    BY <1>1 DEF Ids
  <2>2. CASE next <= top + 1
    BY <2>1, <2>2, MaxIsTop
  <2>3. CASE ~(next <= top + 1)
    BY <2>1, <2>3, MaxIsTop
  <2> QED
    BY <2>2, <2>3
<1> DEFINE m == Max({next, top + 1})
<1>4. m = IF next <= top + 1 THEN top + 1 ELSE next
  BY <1>3
<1>5. LoadedNextId(file) = m
  BY <1>2
<1> HIDE DEF m
<1>6. m \in Ids
  BY <1>1, <1>4 DEF Ids
<1>7. \A n \in 1..Len(h) : h[n].id < m
  <2> TAKE n \in 1..Len(h)
  <2>1. h[n].id \in Nat /\ h[n].id <= top
    BY <1>1, EntryFacts
  <2> QED
    BY <1>1, <1>4, <2>1 DEF Ids
<1>8. (\A n \in 1..Len(h) : h[n].id < next) => m = next
  BY <1>1, <1>4 DEF Ids
<1> QED
  BY <1>5, <1>6, <1>7, <1>8

\* A step of expiredIds over the deque, and all of them.
Gather(g, n) == IF IsExpired(live[n]) THEN Append(g[n - 1], live[n].id) ELSE g[n - 1]
Gathers(g, m) == g = [n \in 0..m |-> IF n = 0 THEN <<>> ELSE Gather(g, n)]

LEMMA GathersExists ==
  ASSUME NEW m \in Nat
  PROVE  \E g : Gathers(g, m)
<1> DEFINE Bad == {k \in Nat : ~ \E g : Gathers(g, k)}
<1> SUFFICES ASSUME Bad # {} PROVE FALSE
  OBVIOUS
<1>1. PICK k \in Bad : \A l \in Bad : k <= l
  BY LeastMember
<1>2. k # 0
  <2>1. Gathers([n \in 0..0 |-> <<>>], 0)
    BY DEF Gathers
  <2> QED
    BY <1>1, <2>1
<1>3. k - 1 \in Nat /\ k - 1 \notin Bad
  BY <1>1, <1>2
<1>4. PICK g : Gathers(g, k - 1)
  BY <1>3
<1> DEFINE h == [n \in 0..k |-> IF n = k THEN Gather(g, k) ELSE g[n]]
<1>5. \A n \in 0..k : h[n] = IF n = 0 THEN <<>> ELSE Gather(h, n)
  <2> TAKE n \in 0..k
  <2>1. CASE n = 0
    BY <2>1, <1>2, <1>3, <1>4 DEF Gathers
  <2>2. CASE n = k
    <3>1. h[n - 1] = g[n - 1]
      BY <2>2, <1>2
    <3> QED
      BY <2>2, <1>2, <3>1 DEF Gather
  <2>3. CASE n # 0 /\ n # k
    <3>1. h[n] = g[n] /\ h[n - 1] = g[n - 1]
      BY <2>3
    <3>2. g[n] = Gather(g, n)
      BY <2>3, <1>4 DEF Gathers
    <3> QED
      BY <2>3, <3>1, <3>2 DEF Gather
  <2> QED
    BY <2>1, <2>2, <2>3
<1>6. Gathers(h, k)
  <2> HIDE DEF Bad
  <2>1. h = [n \in 0..k |-> h[n]]
    OBVIOUS
  <2> HIDE DEF h
  <2> QED
    BY <1>5, <2>1 DEF Gathers
<1> QED
  BY <1>1, <1>6

LEMMA ExpiredIdsType == live \in Seq(Notification) => ExpiredIds \in Seq(Ids)
<1> SUFFICES ASSUME live \in Seq(Notification) PROVE ExpiredIds \in Seq(Ids)
  OBVIOUS
<1>0. Len(live) \in Nat /\ \A n \in 1..Len(live) : live[n].id \in Ids
  <2>1. \A n \in 1..Len(live) : live[n] \in Notification
    BY ElementOfSeq
  <2> QED
    BY <2>1, LenProperties DEF Notification
<1> DEFINE g == CHOOSE g : Gathers(g, Len(live))
<1>1. Gathers(g, Len(live))
  BY <1>0, GathersExists
<1>2. ExpiredIds = g[Len(live)]
  BY DEF ExpiredIds, Gathers, Gather
<1> HIDE DEF g
<1> DEFINE Bad == {n \in 0..Len(live) : g[n] \notin Seq(Ids)}
<1>3. Bad \in SUBSET Nat
  BY <1>0
<1>4. Bad = {}
  <2> SUFFICES ASSUME Bad # {} PROVE FALSE
    OBVIOUS
  <2>1. PICK n \in Bad : \A k \in Bad : n <= k
    <3> HIDE DEF Bad
    <3> QED
      BY <1>3, LeastMember, Zenon
  <2>2. n \in 0..Len(live) /\ g[n] \notin Seq(Ids)
    BY <2>1
  <2>3. n # 0
    BY <1>0, <1>1, <2>2, EmptySeq DEF Gathers
  <2>4. n - 1 \in 0..Len(live) /\ n \in 1..Len(live)
    BY <1>0, <2>2, <2>3
  <2>5. g[n - 1] \in Seq(Ids)
    BY <1>0, <2>1, <2>2, <2>4
  <2>6. g[n] = Gather(g, n)
    BY <1>0, <1>1, <2>2, <2>3 DEF Gathers
  <2>7. Append(g[n - 1], live[n].id) \in Seq(Ids)
    BY <1>0, <2>4, <2>5, AppendProperties
  <2> QED
    BY <2>2, <2>5, <2>6, <2>7 DEF Gather
<1> QED
  BY <1>0, <1>2, <1>4

LEMMA LiveIdsType == live \in Seq(Notification) => LiveIds \in Seq(Ids)
<1> SUFFICES ASSUME live \in Seq(Notification) PROVE LiveIds \in Seq(Ids)
  OBVIOUS
<1>1. Len(live) \in Nat /\ DOMAIN live = 1..Len(live)
  BY LenProperties
<1>2. \A n \in 1..Len(live) : live[n].id \in Ids
  <2>1. \A n \in 1..Len(live) : live[n] \in Notification
    BY ElementOfSeq
  <2> QED
    BY <2>1 DEF Notification
<1>3. LiveIds = [n \in 1..Len(live) |-> live[n].id]
  BY <1>1 DEF LiveIds
<1> QED
  BY <1>1, <1>2, <1>3, IsASeq

-----------------------------------------------------------------------------
(* The inductive invariant of the manager.  That a loaded file is indexed   *)
(* exactly needs that no file repeats an id; that a session that follows a  *)
(* clean end starts where the last one ended, that the file then says what  *)
(* was left in memory.                                                      *)

HistoryIsIndexed ==
  /\ history \in Seq(HistoryEntry) /\ Len(history) <= MaxHistory /\ Distinct(history)
  /\ DOMAIN hIndex \subseteq Ids
  /\ \A n \in 1..Len(history) : history[n].id \in DOMAIN hIndex /\ hIndex[history[n].id] = n
  /\ \A id \in DOMAIN hIndex : hIndex[id] \in 1..Len(history) /\ history[hIndex[id]].id = id

FileIsSound ==
  /\ disk \in [history : Seq(HistoryEntry), nextId : Ids] /\ Distinct(disk.history)
  /\ phase = "down" /\ ~saveFailed => disk = [history |-> history, nextId |-> nextId]

LifeTypes ==
  /\ scheduled \in BOOLEAN /\ saveFailed \in BOOLEAN /\ daemon \in BOOLEAN
  /\ phase \in {"running", "down"} /\ firstId \in Ids
  /\ sweep \in [ids : Seq(Ids), clear : BOOLEAN]

ManagerInv ==
  /\ StoreInv /\ HistoryIsIndexed /\ ActiveIsLive /\ HistoryIdsAreOld
  /\ DownIsEmpty /\ FileIsSound /\ LifeTypes

\* A session that finds no file starts from a sound one.
LEMMA NoFileIsSound ==
  NoFile \in [history : Seq(HistoryEntry), nextId : Ids] /\ Distinct(NoFile.history)
<1>1. <<>> \in Seq(HistoryEntry) /\ 1 \in Ids
  BY EmptySeq DEF Ids
<1> QED
  BY <1>1 DEF NoFile, Distinct

LEMMA InitManager == Init => ManagerInv
<1> SUFFICES ASSUME Init PROVE ManagerInv
  OBVIOUS
<1>1. /\ StoreInit /\ history = <<>> /\ hIndex = <<>> /\ scheduled = FALSE /\ saveFailed = FALSE
      /\ disk = [history |-> <<>>, nextId |-> 1] /\ sweep = [ids |-> <<>>, clear |-> FALSE]
      /\ daemon = TRUE /\ phase = "running" /\ firstId = 1
  BY DEF Init, NoSweep, NoFile
<1>2. StoreInv
  BY <1>1, InitStore
<1>3. <<>> \in Seq(HistoryEntry) /\ Len(<<>>) = 0 /\ DOMAIN <<>> = {} /\ <<>> \in Seq(Ids) /\ 1 \in Ids
  BY DEF Ids
<1>4. HistoryIsIndexed
  BY <1>1, <1>3, MaxHistoryAssumption DEF HistoryIsIndexed, Distinct
<1>5. ActiveIsLive /\ HistoryIdsAreOld
  BY <1>1, <1>3 DEF ActiveIsLive, HistoryIdsAreOld
<1>6. DownIsEmpty
  BY <1>1 DEF DownIsEmpty
<1>7. FileIsSound
  BY <1>1, <1>3 DEF FileIsSound, Distinct
<1>8. LifeTypes
  BY <1>1, <1>3 DEF LifeTypes
<1> QED
  BY <1>2, <1>4, <1>5, <1>6, <1>7, <1>8 DEF ManagerInv

\* The entry of an id is the last one, once, and the others are old ones.
LEMMA UpsertFacts ==
  ASSUME HistoryIsIndexed, NEW id \in Ids, NEW active \in BOOLEAN, UpsertHistory(id, active)
  PROVE  /\ HistoryIsIndexed' /\ scheduled' = TRUE
         /\ \A n \in 1..Len(history') :
              \/ history'[n] = [id |-> id, active |-> active]
              \/ history'[n].id # id /\ \E k \in 1..Len(history) : history'[n] = history[k]
<1> DEFINE kept == IF id \in DOMAIN hIndex THEN RemoveAt(history, hIndex[id]) ELSE history
           entry == [id |-> id, active |-> active]
           longer == Append(kept, entry)
<1>1. history \in Seq(HistoryEntry) /\ Distinct(history) /\ entry \in HistoryEntry
  BY DEF HistoryIsIndexed, HistoryEntry
<1>2. /\ history' = Newest(longer, MaxHistory) /\ hIndex' = IndexOf(history') /\ scheduled' = TRUE
  BY DEF UpsertHistory, SchedulePersist
<1>3. /\ kept \in Seq(HistoryEntry) /\ Distinct(kept)
      /\ \A m \in 1..Len(kept) : kept[m].id # id /\ \E k \in 1..Len(history) : kept[m] = history[k]
  <2>1. CASE id \in DOMAIN hIndex
    <3>1. hIndex[id] \in 1..Len(history) /\ history[hIndex[id]].id = id
      BY <2>1 DEF HistoryIsIndexed
    <3>2. kept = RemoveAt(history, hIndex[id])
      BY <2>1
    <3>n. PICK n \in 1..Len(history) : n = hIndex[id]
      BY <3>1
    <3>3. /\ RemoveAt(history, n) \in Seq(HistoryEntry) /\ Distinct(RemoveAt(history, n))
          /\ \A m \in 1..Len(RemoveAt(history, n)) :
               /\ RemoveAt(history, n)[m].id # history[n].id
               /\ \E k \in 1..Len(history) : RemoveAt(history, n)[m] = history[k]
      BY <1>1, RemoveDistinct
    <3>4. kept = RemoveAt(history, n) /\ history[n].id = id
      BY <3>n, <3>1, <3>2
    <3> HIDE DEF kept
    <3> QED
      BY <3>3, <3>4
  <2>2. CASE id \notin DOMAIN hIndex
    <3>1. kept = history
      BY <2>2
    <3> QED
      BY <1>1, <2>2, <3>1 DEF HistoryIsIndexed
  <2> QED
    BY <2>1, <2>2
<1>4. entry.id = id
  OBVIOUS
<1> HIDE DEF kept, entry
<1>5. /\ longer \in Seq(HistoryEntry) /\ Distinct(longer)
      /\ \A m \in 1..Len(longer) : longer[m] = entry \/ \E k \in 1..Len(kept) : longer[m] = kept[k]
  BY <1>1, <1>3, <1>4, AppendDistinct
<1> HIDE DEF longer
<1>6. MaxHistory \in Nat
  BY MaxHistoryAssumption
<1>7. /\ history' \in Seq(HistoryEntry) /\ Distinct(history') /\ Len(history') <= MaxHistory
      /\ \A m \in 1..Len(history') : \E k \in 1..Len(longer) : history'[m] = longer[k]
  <2> DEFINE new == Newest(longer, MaxHistory)
  <2>1. /\ new \in Seq(HistoryEntry) /\ Distinct(new) /\ Len(new) <= MaxHistory
        /\ \A m \in 1..Len(new) : \E k \in 1..Len(longer) : new[m] = longer[k]
    BY <1>5, <1>6, NewestFacts
  <2>2. history' = new
    BY <1>2
  <2> HIDE DEF new
  <2> QED
    BY <2>1, <2>2
<1>8. /\ DOMAIN hIndex' \subseteq Ids
      /\ \A n \in 1..Len(history') : history'[n].id \in DOMAIN hIndex' /\ hIndex'[history'[n].id] = n
      /\ \A i \in DOMAIN hIndex' : hIndex'[i] \in 1..Len(history') /\ history'[hIndex'[i]].id = i
  BY <1>2, <1>7, IndexOfFacts
<1>9. HistoryIsIndexed'
  BY <1>7, <1>8 DEF HistoryIsIndexed, Distinct
<1>10. ASSUME NEW n \in 1..Len(history')
       PROVE  \/ history'[n] = entry
              \/ history'[n].id # id /\ \E k \in 1..Len(history) : history'[n] = history[k]
  <2>1. PICK l \in 1..Len(longer) : history'[n] = longer[l]
    BY <1>7
  <2>2. longer[l] = entry \/ \E k \in 1..Len(kept) : longer[l] = kept[k]
    BY <1>5
  <2> QED
    BY <1>3, <2>1, <2>2
<1> QED
  BY <1>2, <1>9, <1>10 DEF entry

\* One notification, if any, begins or ends or is removed from the history.
LEMMA HistoryGoesOn ==
  ASSUME ManagerInv, HistoryIsIndexed', NEW id, phase' = phase, firstId' = firstId,
         nextId \in Ids, nextId' \in Ids, nextId <= nextId',
         \A i : i # id => (i \in DOMAIN index' <=> i \in DOMAIN index),
         \A n \in 1..Len(history') :
           \/ /\ history'[n].id = id /\ id < nextId'
              /\ history'[n].active <=> id \in DOMAIN index'
           \/ history'[n].id # id /\ \E k \in 1..Len(history) : history'[n] = history[k]
  PROVE  ActiveIsLive' /\ HistoryIdsAreOld'
<1>1. /\ history \in Seq(HistoryEntry) /\ history' \in Seq(HistoryEntry)
  BY DEF ManagerInv, HistoryIsIndexed
<1>2. /\ DOMAIN history = 1..Len(history) /\ DOMAIN history' = 1..Len(history')
      /\ \A n \in 1..Len(history) : history[n].id \in Nat
  BY <1>1, EntryFacts
<1>3. ActiveIsLive'
  <2> SUFFICES ASSUME phase = "running", NEW n \in 1..Len(history'), history'[n].id >= firstId
               PROVE  history'[n].active <=> history'[n].id \in DOMAIN index'
    BY <1>2 DEF ActiveIsLive, Known
  <2>1. CASE history'[n].id = id /\ (history'[n].active <=> id \in DOMAIN index')
    BY <2>1
  <2>2. CASE history'[n].id # id /\ \E k \in 1..Len(history) : history'[n] = history[k]
    <3>1. PICK k \in 1..Len(history) : history'[n] = history[k]
      BY <2>2
    <3>2. history[k].active <=> history[k].id \in DOMAIN index
      BY <1>2, <3>1 DEF ManagerInv, ActiveIsLive, Known
    <3> QED
      BY <2>2, <3>1, <3>2
  <2> QED
    BY <2>1, <2>2
<1>4. HistoryIdsAreOld'
  <2> SUFFICES ASSUME NEW n \in 1..Len(history') PROVE history'[n].id < nextId'
    BY <1>2 DEF HistoryIdsAreOld
  <2>1. CASE history'[n].id = id /\ id < nextId'
    BY <2>1
  <2>2. CASE \E k \in 1..Len(history) : history'[n] = history[k]
    <3>1. PICK k \in 1..Len(history) : history'[n] = history[k]
      BY <2>2
    <3>2. history[k].id < nextId /\ history[k].id \in Nat
      BY <1>2, <3>1 DEF ManagerInv, HistoryIdsAreOld
    <3> QED
      BY <3>1, <3>2 DEF Ids
  <2> QED
    BY <2>1, <2>2
<1> QED
  BY <1>3, <1>4

\* The history as far as it concerns the invariant.
HistoryPart == HistoryIsIndexed /\ ActiveIsLive /\ HistoryIdsAreOld

LEMMA SameHistory ==
  ASSUME ManagerInv, UNCHANGED <<history, hIndex, nextId, firstId>>,
         (phase' = phase /\ DOMAIN index' = DOMAIN index) \/ phase' = "down"
  PROVE  HistoryPart'
<1>1. HistoryIsIndexed' /\ HistoryIdsAreOld'
  BY DEF ManagerInv, HistoryIsIndexed, HistoryIdsAreOld, Distinct
<1>2. ActiveIsLive'
  BY DEF ManagerInv, ActiveIsLive, Known
<1> QED
  BY <1>1, <1>2 DEF HistoryPart

LEMMA UpsertStep ==
  ASSUME ManagerInv, NEW id \in Ids, NEW active \in BOOLEAN, UpsertHistory(id, active),
         phase' = phase, firstId' = firstId, nextId' \in Ids, nextId <= nextId', id < nextId',
         \A i : i # id => (i \in DOMAIN index' <=> i \in DOMAIN index),
         active <=> id \in DOMAIN index'
  PROVE  HistoryPart'
<1>1. /\ HistoryIsIndexed'
      /\ \A n \in 1..Len(history') :
              \/ history'[n] = [id |-> id, active |-> active]
              \/ history'[n].id # id /\ \E k \in 1..Len(history) : history'[n] = history[k]
  BY UpsertFacts DEF ManagerInv
<1>2. nextId \in Ids
  BY DEF ManagerInv, StoreInv, StoreTypeOK
<1>3. ActiveIsLive' /\ HistoryIdsAreOld'
  BY <1>1, <1>2, HistoryGoesOn
<1> QED
  BY <1>1, <1>3 DEF HistoryPart

LEMMA KnownIsOld ==
  ASSUME StoreInv, NEW id \in DOMAIN index
  PROVE  id \in Ids /\ id < nextId /\ live[index[id]].id = id
BY DEF StoreInv, StoreTypeOK, IndexIsExact, NextIdIsFresh

LEMMA CloseLiveStep ==
  ASSUME ManagerInv, NEW id, CloseLive(id), phase' = phase, firstId' = firstId
  PROVE  HistoryPart' /\ scheduled' = TRUE
<1>1. /\ UpsertHistory(id, FALSE) /\ id \in DOMAIN index /\ DOMAIN index' = DOMAIN index \ {id}
      /\ nextId' = nextId
  BY DEF CloseLive, Close, Known
<1>2. StoreInv /\ nextId \in Ids
  BY DEF ManagerInv, StoreInv, StoreTypeOK
<1>3. id \in Ids /\ id < nextId
  BY <1>1, <1>2, KnownIsOld
<1>4. /\ nextId' \in Ids /\ nextId <= nextId' /\ id < nextId' /\ FALSE \in BOOLEAN
      /\ \A i : i # id => (i \in DOMAIN index' <=> i \in DOMAIN index)
      /\ FALSE <=> id \in DOMAIN index'
  BY <1>1, <1>2, <1>3 DEF Ids
<1>5. HistoryPart'
  BY <1>1, <1>3, <1>4, UpsertStep
<1> QED
  BY <1>1, <1>5 DEF UpsertHistory, SchedulePersist

LEMMA NotifyStep == ManagerInv /\ Notify => HistoryPart'
<1> SUFFICES ASSUME ManagerInv, Notify PROVE HistoryPart'
  OBVIOUS
<1>1. PICK replaces \in 0..MaxId, text \in Texts, timeout \in Timeouts :
        \/ NotifyReplace(replaces, text, timeout)
        \/ NotifyDuplicate(replaces, text)
        \/ NotifyNew(replaces, text, timeout)
  BY DEF Notify
<1>2. phase' = phase /\ firstId' = firstId
  BY DEF Notify, lifeVars
<1>3. StoreInv /\ nextId \in Ids
  BY DEF ManagerInv, StoreInv, StoreTypeOK
<1>4. CASE NotifyReplace(replaces, text, timeout)
  <2>1. replaces \in DOMAIN index /\ index' = index /\ nextId' = nextId
    BY <1>4 DEF NotifyReplace, ReplaceLive, Known
  <2>2. replaces \in Ids /\ replaces < nextId /\ live[index[replaces]].id = replaces
    BY <1>3, <2>1, KnownIsOld
  <2>3. UpsertHistory(replaces, TRUE)
    BY <1>4, <2>2 DEF NotifyReplace
  <2>4. /\ nextId' \in Ids /\ nextId <= nextId' /\ replaces < nextId' /\ TRUE \in BOOLEAN
        /\ \A i : i # replaces => (i \in DOMAIN index' <=> i \in DOMAIN index)
        /\ TRUE <=> replaces \in DOMAIN index'
    BY <1>3, <2>1, <2>2 DEF Ids
  <2> QED
    BY <1>2, <2>2, <2>3, <2>4, UpsertStep
<1>5. CASE NotifyDuplicate(replaces, text)
  BY <1>2, <1>5, SameHistory DEF NotifyDuplicate, IgnoreDuplicate, storeVars
<1>6. CASE NotifyNew(replaces, text, timeout)
  <2>1. /\ DOMAIN index' = DOMAIN index \cup {nextId} /\ nextId' = nextId + 1
        /\ UpsertHistory(nextId, TRUE)
    BY <1>6 DEF NotifyNew, AddNew
  <2>2. /\ nextId' \in Ids /\ nextId <= nextId' /\ nextId < nextId' /\ TRUE \in BOOLEAN
        /\ \A i : i # nextId => (i \in DOMAIN index' <=> i \in DOMAIN index)
        /\ TRUE <=> nextId \in DOMAIN index'
    BY <1>3, <2>1 DEF Ids
  <2> QED
    BY <1>2, <1>3, <2>1, <2>2, UpsertStep
<1> QED
  BY <1>1, <1>4, <1>5, <1>6

LEMMA RemoveStep ==
  ASSUME ManagerInv, NEW n \in DOMAIN history, RemoveEntry(n)
  PROVE  HistoryPart'
<1> DEFINE id == history[n].id
<1>1. /\ history' = RemoveAt(history, n) /\ hIndex' = IndexOf(history')
      /\ phase' = phase /\ firstId' = firstId
  BY DEF RemoveEntry, lifeVars
<1>2. /\ nextId' = nextId
      /\ \A i : i # id => (i \in DOMAIN index' <=> i \in DOMAIN index)
  BY DEF RemoveEntry, Close, storeVars
<1>3. history \in Seq(HistoryEntry) /\ Distinct(history) /\ Len(history) <= MaxHistory
  BY DEF ManagerInv, HistoryIsIndexed
<1>4. n \in 1..Len(history) /\ Len(history) \in Nat /\ MaxHistory \in Nat
  BY <1>3, EntryFacts, MaxHistoryAssumption
<1>5. /\ history' \in Seq(HistoryEntry) /\ Distinct(history') /\ Len(history') = Len(history) - 1
      /\ \A m \in 1..Len(history') :
           history'[m].id # id /\ \E k \in 1..Len(history) : history'[m] = history[k]
  <2> DEFINE r == RemoveAt(history, n)
  <2>1. /\ r \in Seq(HistoryEntry) /\ Distinct(r) /\ Len(r) = Len(history) - 1
        /\ \A m \in 1..Len(r) : r[m].id # history[n].id /\ \E k \in 1..Len(history) : r[m] = history[k]
    BY ZenonT(60), <1>3, <1>4, RemoveDistinct
  <2>2. history' = r
    BY <1>1
  <2> HIDE DEF r
  <2> QED
    BY <2>1, <2>2
<1>6. /\ DOMAIN hIndex' \subseteq Ids
      /\ \A m \in 1..Len(history') : history'[m].id \in DOMAIN hIndex' /\ hIndex'[history'[m].id] = m
      /\ \A i \in DOMAIN hIndex' : hIndex'[i] \in 1..Len(history') /\ history'[hIndex'[i]].id = i
  BY <1>1, <1>5, IndexOfFacts
<1>7. HistoryIsIndexed'
  BY <1>3, <1>4, <1>5, <1>6 DEF HistoryIsIndexed, Distinct
<1>8. nextId \in Ids
  BY DEF ManagerInv, StoreInv, StoreTypeOK
<1>9. nextId' \in Ids /\ nextId <= nextId'
  BY <1>2, <1>8 DEF Ids
<1> HIDE DEF id
<1>10. ActiveIsLive' /\ HistoryIdsAreOld'
  BY <1>1, <1>2, <1>5, <1>7, <1>8, <1>9, HistoryGoesOn
<1> QED
  BY <1>7, <1>10 DEF HistoryPart

LEMMA EmptyStep ==
  ASSUME ManagerInv, EmptyHistory, UNCHANGED <<storeVars, phase, firstId>>
  PROVE  HistoryPart'
<1>1. CASE UNCHANGED <<history, hIndex>>
  BY <1>1, SameHistory DEF storeVars
<1>2. CASE history' = <<>> /\ hIndex' = <<>>
  <2>1. <<>> \in Seq(HistoryEntry) /\ Len(<<>>) = 0 /\ DOMAIN <<>> = {}
    OBVIOUS
  <2>2. HistoryIsIndexed'
    BY <1>2, <2>1, MaxHistoryAssumption DEF HistoryIsIndexed, Distinct
  <2>3. ActiveIsLive' /\ HistoryIdsAreOld'
    BY <1>2, <2>1 DEF ActiveIsLive, HistoryIdsAreOld
  <2> QED
    BY <2>2, <2>3 DEF HistoryPart
<1> QED
  BY <1>1, <1>2 DEF EmptyHistory

LEMMA RestartLoads ==
  ASSUME ManagerInv, Restart
  PROVE  /\ HistoryPart' /\ nextId' \in Ids
         /\ ~saveFailed => history' = history /\ nextId' = nextId
<1> DEFINE h == disk.history
           next == disk.nextId
<1>1. /\ history' = Newest(h, MaxHistory) /\ hIndex' = IndexOf(history') /\ phase = "down"
      /\ nextId' = LoadedNextId(disk) /\ firstId' = nextId' /\ phase' = "running"
  BY DEF Restart
<1>2. /\ h \in Seq(HistoryEntry) /\ Distinct(h) /\ next \in Ids
      /\ disk = [history |-> h, nextId |-> next]
  BY DEF ManagerInv, FileIsSound
<1>3. ~saveFailed => h = history /\ next = nextId
  BY <1>1 DEF ManagerInv, FileIsSound
<1> DEFINE new == Newest(h, MaxHistory)
           loaded == LoadedNextId(disk)
<1> HIDE DEF h, next
<1>4. MaxHistory \in Nat
  BY MaxHistoryAssumption
<1>5. /\ new \in Seq(HistoryEntry) /\ Distinct(new) /\ Len(new) <= MaxHistory
      /\ Len(h) <= MaxHistory => new = h
      /\ \A m \in 1..Len(new) : \E k \in 1..Len(h) : new[m] = h[k]
  BY <1>2, <1>4, NewestFacts
<1>6. /\ loaded \in Ids /\ \A n \in 1..Len(h) : h[n].id < loaded
      /\ (\A n \in 1..Len(h) : h[n].id < next) => loaded = next
  BY <1>2, LoadedNextIdFacts
<1>7. history' = new /\ nextId' = loaded
  BY <1>1
<1> HIDE DEF new, loaded
<1>8. /\ DOMAIN hIndex' \subseteq Ids
      /\ \A n \in 1..Len(new) : new[n].id \in DOMAIN hIndex' /\ hIndex'[new[n].id] = n
      /\ \A id \in DOMAIN hIndex' : hIndex'[id] \in 1..Len(new) /\ new[hIndex'[id]].id = id
  BY <1>1, <1>5, <1>7, IndexOfFacts
<1>9. HistoryIsIndexed'
  BY <1>5, <1>7, <1>8 DEF HistoryIsIndexed, Distinct
<1>10. \A m \in 1..Len(new) : new[m].id < loaded /\ new[m].id \in Nat
  BY <1>5, <1>6, EntryFacts
<1>11. DOMAIN new = 1..Len(new) /\ loaded \in Nat
  BY <1>5, <1>6, EntryFacts DEF Ids
<1>12. ActiveIsLive' /\ HistoryIdsAreOld'
  BY <1>1, <1>7, <1>10, <1>11 DEF ActiveIsLive, HistoryIdsAreOld
<1>13. ASSUME ~saveFailed PROVE history' = history /\ nextId' = nextId
  <2>1. h = history /\ next = nextId
    BY <1>3, <1>13
  <2>2. history \in Seq(HistoryEntry) /\ Len(history) <= MaxHistory
    BY DEF ManagerInv, HistoryIsIndexed
  <2>3. \A n \in 1..Len(history) : history[n].id < nextId
    BY <2>2, EntryFacts DEF ManagerInv, HistoryIdsAreOld
  <2> QED
    BY <1>5, <1>6, <1>7, <2>1, <2>2, <2>3
<1> QED
  BY <1>6, <1>7, <1>9, <1>12, <1>13 DEF HistoryPart

LEMMA HistoryStep == ManagerInv /\ [Next]_vars => HistoryPart'
<1> SUFFICES ASSUME ManagerInv, [Next]_vars PROVE HistoryPart'
  OBVIOUS
<1>1. CASE Notify
  BY <1>1, NotifyStep
<1>2. ASSUME NEW id, OnCloseNotification(id) \/ Dismiss(id) PROVE HistoryPart'
  BY <1>2, CloseLiveStep DEF OnCloseNotification, Dismiss, lifeVars
<1>3. ASSUME NEW id, Hover(id) PROVE HistoryPart'
  <2>1. UNCHANGED <<history, hIndex, nextId, firstId, phase, index>>
    BY <1>3 DEF Hover, PauseExpiry, ResumeExpiry, SetLeft, lifeVars
  <2> QED
    BY <2>1, SameHistory
<1>4. CASE SweepOne
  <2>1. phase' = phase /\ firstId' = firstId
    BY <1>4 DEF SweepOne, lifeVars
  <2>2. CloseLive(Head(sweep.ids)) \/ UNCHANGED <<storeVars, history, hIndex, scheduled>>
    BY <1>4 DEF SweepOne
  <2> QED
    BY <2>1, <2>2, CloseLiveStep, SameHistory DEF storeVars
<1>5. CASE ProcessExpired \/ DismissAll \/ PersistLater \/ SyncDaemon \/ Tick
  <2>1. UNCHANGED <<history, hIndex, nextId, firstId, phase, index>>
    BY <1>5 DEF ProcessExpired, DismissAll, PersistLater, SyncDaemon, Tick, TimePasses, storeVars, lifeVars
  <2> QED
    BY <2>1, SameHistory
<1>6. CASE SweepClear \/ ClearHistory
  BY <1>6, EmptyStep DEF SweepClear, ClearHistory, lifeVars
<1>7. ASSUME NEW n \in DOMAIN history, RemoveEntry(n) PROVE HistoryPart'
  BY <1>7, RemoveStep
<1>8. CASE Shutdown \/ Crash
  <2>1. UNCHANGED <<history, hIndex, nextId, firstId>> /\ phase' = "down"
    BY <1>8 DEF Shutdown, Crash, Exit
  <2> QED
    BY <2>1, SameHistory
<1>9. CASE Restart
  BY <1>9, RestartLoads
<1>10. CASE UNCHANGED vars
  BY <1>10, SameHistory DEF vars, storeVars, lifeVars
<1> QED
  BY <1>1, <1>2, <1>3, <1>4, <1>5, <1>6, <1>7, <1>8, <1>9, <1>10 DEF Next, Sweeping

\* A sweep goes through ids; a mark to save is set or cleared.
LEMMA TypesStep == ManagerInv /\ [Next]_vars => LifeTypes'
<1> SUFFICES ASSUME ManagerInv, [Next]_vars PROVE LifeTypes'
  OBVIOUS
<1>1. /\ scheduled \in BOOLEAN /\ saveFailed \in BOOLEAN /\ daemon \in BOOLEAN
      /\ phase \in {"running", "down"} /\ firstId \in Ids
      /\ sweep \in [ids : Seq(Ids), clear : BOOLEAN]
  BY DEF ManagerInv, LifeTypes
<1>2. NoSweep \in [ids : Seq(Ids), clear : BOOLEAN]
  BY EmptySeq DEF NoSweep
<1>3. live \in Seq(Notification)
  BY DEF ManagerInv, StoreInv, StoreTypeOK
<1>4. Unsaved \in BOOLEAN
  BY DEF Unsaved
<1>5. CASE Notify
  <2>1. scheduled' \in BOOLEAN
    BY <1>1, <1>5 DEF Notify, NotifyReplace, NotifyDuplicate, NotifyNew, UpsertHistory, SchedulePersist
  <2> QED
    BY <1>1, <1>5, <2>1 DEF LifeTypes, Notify, lifeVars
<1>6. ASSUME NEW id, OnCloseNotification(id) \/ Dismiss(id) \/ Hover(id) PROVE LifeTypes'
  BY <1>1, <1>6 DEF LifeTypes, OnCloseNotification, Dismiss, Hover, CloseLive, UpsertHistory, SchedulePersist,
     lifeVars, fileVars
<1>7. CASE SweepOne
  <2>1. scheduled' \in BOOLEAN
    BY <1>1, <1>7 DEF SweepOne, CloseLive, UpsertHistory, SchedulePersist
  <2>2. sweep' \in [ids : Seq(Ids), clear : BOOLEAN]
    <3>1. sweep.ids \in Seq(Ids) /\ sweep.ids # <<>>
      BY <1>1, <1>7 DEF SweepOne
    <3>2. Tail(sweep.ids) \in Seq(Ids)
      BY <3>1, HeadTailProperties
    <3>3. sweep' = NoSweep \/ sweep' = [sweep EXCEPT !.ids = Tail(sweep.ids)]
      BY <1>7 DEF SweepOne
    <3> QED
      BY <1>1, <1>2, <3>2, <3>3
  <2> QED
    BY <1>1, <1>7, <2>1, <2>2 DEF LifeTypes, SweepOne, lifeVars
<1>8. CASE ProcessExpired
  <2>1. sweep' \in [ids : Seq(Ids), clear : BOOLEAN]
    BY <1>3, <1>8, ExpiredIdsType DEF ProcessExpired
  <2> QED
    BY <1>1, <1>8, <2>1 DEF LifeTypes, ProcessExpired, lifeVars, fileVars
<1>9. CASE DismissAll
  <2>1. sweep' \in [ids : Seq(Ids), clear : BOOLEAN]
    BY <1>3, <1>9, LiveIdsType DEF DismissAll
  <2> QED
    BY <1>1, <1>9, <2>1 DEF LifeTypes, DismissAll, lifeVars, fileVars
<1>10. CASE SweepClear \/ ClearHistory
  <2>1. scheduled' \in BOOLEAN /\ sweep' \in {sweep, NoSweep}
    BY <1>1, <1>10 DEF SweepClear, ClearHistory, EmptyHistory, SchedulePersist
  <2> QED
    BY <1>1, <1>2, <1>10, <2>1 DEF LifeTypes, SweepClear, ClearHistory, lifeVars
<1>11. ASSUME NEW n \in DOMAIN history, RemoveEntry(n) PROVE LifeTypes'
  BY <1>1, <1>11 DEF LifeTypes, RemoveEntry, SchedulePersist, lifeVars
<1>12. CASE PersistLater \/ SyncDaemon \/ Tick
  BY <1>1, <1>12 DEF LifeTypes, PersistLater, Persist, SyncDaemon, Tick, lifeVars, fileVars
<1>13. CASE Shutdown \/ Crash
  BY <1>1, <1>2, <1>4, <1>13 DEF LifeTypes, Shutdown, Crash, Persist, Exit
<1>14. CASE Restart
  <2>1. nextId' \in Ids
    BY <1>14, RestartLoads
  <2> QED
    BY <1>1, <1>14, <2>1 DEF LifeTypes, Restart
<1>15. CASE UNCHANGED vars
  BY <1>1, <1>15 DEF LifeTypes, vars, lifeVars, fileVars
<1> QED
  BY <1>5, <1>6, <1>7, <1>8, <1>9, <1>10, <1>11, <1>12, <1>13, <1>14, <1>15 DEF Next, Sweeping

\* The file and the end of a session.
LEMMA FileStep == ManagerInv /\ [Next]_vars => DownIsEmpty' /\ FileIsSound'
<1> SUFFICES ASSUME ManagerInv, [Next]_vars PROVE DownIsEmpty' /\ FileIsSound'
  OBVIOUS
<1>1. /\ disk \in [history : Seq(HistoryEntry), nextId : Ids] /\ Distinct(disk.history)
      /\ phase = "down" /\ ~saveFailed => disk = [history |-> history, nextId |-> nextId]
      /\ phase = "down" => live = <<>> /\ index = <<>>
  BY DEF ManagerInv, FileIsSound, DownIsEmpty
<1>2. /\ history \in Seq(HistoryEntry) /\ Distinct(history) /\ nextId \in Ids
      /\ phase \in {"running", "down"}
  BY DEF ManagerInv, HistoryIsIndexed, StoreInv, StoreTypeOK, LifeTypes
<1> DEFINE now == [history |-> history, nextId |-> nextId]
<1>3. now \in [history : Seq(HistoryEntry), nextId : Ids] /\ Distinct(now.history)
  BY <1>2
<1>4. disk' \in {disk, now, NoFile}
        => disk' \in [history : Seq(HistoryEntry), nextId : Ids] /\ Distinct(disk'.history)
  BY <1>1, <1>3, NoFileIsSound
<1>5. CASE Shutdown
  <2>1. /\ phase' = "down" /\ live' = <<>> /\ index' = <<>> /\ nextId' = nextId /\ history' = history
        /\ (disk' = now /\ saveFailed' = FALSE) \/ (disk' \in {disk, NoFile} /\ saveFailed' = TRUE)
    BY <1>5 DEF Shutdown, Exit, Persist
  <2> HIDE DEF now
  <2>2. now' = now
    BY <2>1 DEF now
  <2>3. DownIsEmpty'
    BY <2>1 DEF DownIsEmpty
  <2>4. ~saveFailed' => disk' = now'
    BY <2>1, <2>2
  <2>5. disk' \in [history : Seq(HistoryEntry), nextId : Ids] /\ Distinct(disk'.history)
    BY <1>4, <2>1
  <2> QED
    BY <2>3, <2>4, <2>5 DEF FileIsSound, Distinct, now
<1>6. CASE Crash
  <2>1. /\ phase' = "down" /\ live' = <<>> /\ index' = <<>> /\ nextId' = nextId /\ history' = history
        /\ disk' = disk /\ (saveFailed' <=> disk # now)
    BY <1>6 DEF Crash, Exit, Unsaved
  <2> QED
    BY <1>1, <2>1 DEF DownIsEmpty, FileIsSound, Distinct
<1>7. CASE Restart
  <2>1. phase' = "running" /\ disk' = disk
    BY <1>7 DEF Restart
  <2> QED
    BY <1>1, <2>1 DEF DownIsEmpty, FileIsSound, Distinct
<1>8. CASE UNCHANGED vars
  BY <1>1, <1>8 DEF DownIsEmpty, FileIsSound, Distinct, vars, storeVars, lifeVars, fileVars
<1>9. CASE Next /\ ~Shutdown /\ ~Crash /\ ~Restart
  <2>1. phase = "running" /\ phase' = phase /\ disk' \in {disk, now, NoFile}
    <3>1. CASE Notify \/ \E id \in 1..MaxId : OnCloseNotification(id) \/ Dismiss(id) \/ Hover(id)
      BY <3>1 DEF Notify, OnCloseNotification, Dismiss, Hover, Idle, lifeVars, fileVars
    <3>2. CASE Sweeping \/ DismissAll \/ ClearHistory \/ \E n \in DOMAIN history : RemoveEntry(n)
      BY <3>2 DEF Sweeping, ProcessExpired, SweepOne, SweepClear, DismissAll, ClearHistory, RemoveEntry, Idle,
         lifeVars, fileVars
    <3>3. CASE PersistLater \/ SyncDaemon \/ Tick
      BY <3>3 DEF PersistLater, Persist, SyncDaemon, Tick, Idle, lifeVars, fileVars
    <3> QED
      BY <1>9, <3>1, <3>2, <3>3 DEF Next
  <2>2. disk' \in [history : Seq(HistoryEntry), nextId : Ids] /\ Distinct(disk'.history)
    BY <1>4, <2>1
  <2> QED
    BY <2>1, <2>2 DEF DownIsEmpty, FileIsSound, Distinct
<1> QED
  BY <1>5, <1>6, <1>7, <1>8, <1>9

LEMMA NextManager == ManagerInv /\ [Next]_vars => ManagerInv' /\ [StoreNext]_storeVars
<1> SUFFICES ASSUME ManagerInv, [Next]_vars PROVE ManagerInv' /\ [StoreNext]_storeVars
  OBVIOUS
<1>1. [StoreNext]_storeVars
  BY ManagerStep, RestartLoads DEF ManagerInv, LifeTypes
<1>2. StoreInv'
  BY <1>1, NextStore DEF ManagerInv
<1> QED
  BY <1>1, <1>2, HistoryStep, TypesStep, FileStep DEF ManagerInv, HistoryPart

LEMMA ManagerAlways == Spec => []ManagerInv
<1>1. ManagerInv /\ [Next]_vars => ManagerInv'
  BY NextManager
<1> QED
  BY <1>1, InitManager, PTL DEF Spec

\* NotificationManager: the history, its index and what it shows as active agree
\* with what is live, for any limits, and new ids stay above all that can still
\* be seen, across duplicates, sweeps, crashes and restarts.
THEOREM HistoryIsSound == Spec => []HistoryInv
<1>1. ManagerInv => HistoryInv
  <2> SUFFICES ASSUME ManagerInv PROVE HistoryInv
    OBVIOUS
  <2>1. TypeOK
    <3>1. disk.history \in Seq(HistoryEntry) /\ disk.nextId \in Ids
      BY DEF ManagerInv, FileIsSound
    <3>2. sweep.ids \in Seq(Ids) /\ sweep.clear \in BOOLEAN
      BY DEF ManagerInv, LifeTypes
    <3> QED
      BY <3>1, <3>2 DEF ManagerInv, StoreInv, HistoryIsIndexed, LifeTypes, TypeOK
  <2>2. HistoryIndexIsExact
    BY DEF ManagerInv, HistoryIsIndexed, HistoryIndexIsExact
  <2> QED
    BY <2>1, <2>2 DEF ManagerInv, StoreInv, HistoryInv
<1> QED
  BY <1>1, ManagerAlways, PTL

\* loadNotificationHistoryFromFile: a session after a clean end starts with the
\* history and the id counter the last one ended with, whatever both are.
THEOREM HistorySurvives == Spec => RestartKeepsHistory
<1>1. ManagerInv /\ [Next]_vars =>
        [phase = "down" /\ phase' = "running" /\ ~saveFailed
           => history' = history /\ nextId' = nextId]_vars
  <2> SUFFICES ASSUME ManagerInv, Next, phase = "down", phase' = "running", ~saveFailed
               PROVE  history' = history /\ nextId' = nextId
    BY DEF vars
  <2>1. Restart
    BY DEF Next, Notify, OnCloseNotification, Dismiss, Hover, Sweeping, ProcessExpired, SweepOne, SweepClear,
           DismissAll, ClearHistory, RemoveEntry, PersistLater, SyncDaemon, Shutdown, Crash, Exit, Tick, Idle
  <2> QED
    BY <2>1, RestartLoads
<1> QED
  BY <1>1, ManagerAlways, PTL DEF RestartKeepsHistory, Spec

\* The manager: its deque with the index behaves as a map from ids to
\* notifications in the hands of the service, the tab, toasts and IPC handlers.
THEOREM ManagerImplementsMap == Spec => MapSpec
<1>1. Init => Map!Init
  BY MapInit DEF Init
<1>2. ManagerInv /\ [Next]_vars => [Map!Next]_(Map!vars)
  <2> SUFFICES ASSUME ManagerInv, [Next]_vars PROVE [Map!Next]_(Map!vars)
    OBVIOUS
  <2>1. StoreInv /\ [StoreNext]_storeVars
    BY NextManager DEF ManagerInv
  <2> QED
    BY <2>1, MapStep
<1> QED
  BY <1>1, <1>2, ManagerAlways, PTL DEF Spec, MapSpec, Map!Spec
=============================================================================
