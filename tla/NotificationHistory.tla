------------------------- MODULE NotificationHistory -------------------------
(***************************************************************************)
(* The rest of notification/notification_manager.cpp around the store: the *)
(* bounded history and its file, the poll source that expires notifications *)
(* and the D-Bus service, the IPC handlers and the control center tab that *)
(* act on it.                                                              *)
(*                                                                         *)
(* A handler of the main thread is one step, except that a sweep (expiry,  *)
(* "clear active", "clear all") takes its snapshot of ids in one step and  *)
(* closes them in one step each; nothing else runs until it is over.  The  *)
(* process may be shut down or killed at any time and started again.       *)
(***************************************************************************)
EXTENDS NotificationStore

CONSTANTS
  MaxHistory,  (* kMaxHistoryEntries                                        *)
  MaxId,       (* bound: ids given out                                      *)
  MaxLive      (* bound: notifications live at once                         *)

ASSUME MaxHistoryAssumption == MaxHistory \in Nat \ {0}
ASSUME BoundsAssumption == MaxId \in Nat /\ MaxLive \in Nat

VARIABLES
  history,     (* m_history, oldest event first                             *)
  hIndex,      (* m_historyIndex                                            *)
  scheduled,   (* m_persistScheduled: a deferred save is queued             *)
  disk,        (* notification_history.json: [history, nextId]              *)
  sweep,       (* the ids a running sweep has still to close                *)
  daemon,      (* the D-Bus service exists (enableDaemon)                   *)
  phase,       (* running or down                                           *)
  firstId,     (* nextId when this session started                          *)
  saveFailed   (* the last save was not written, or not in full             *)

fileVars == <<disk, scheduled, saveFailed>>
lifeVars == <<phase, firstId>>
vars == <<storeVars, history, hIndex, fileVars, daemon, lifeVars, sweep>>

HistoryEntry == [id : Ids, active : BOOLEAN]
\* What is loaded where there is no file, or none that can be parsed.
NoFile == [history |-> <<>>, nextId |-> 1]
NoSweep == [ids |-> <<>>, clear |-> FALSE]

Init ==
  /\ StoreInit
  /\ history = <<>> /\ hIndex = <<>>
  /\ scheduled = FALSE /\ saveFailed = FALSE
  /\ disk = NoFile
  /\ sweep = NoSweep
  /\ daemon = TRUE
  /\ phase = "running" /\ firstId = 1

Idle == phase = "running" /\ sweep = NoSweep

-----------------------------------------------------------------------------
(* History.                                                                 *)

\* rebuildHistoryIndex of the history h.
IndexOf(h) ==
  [id \in {h[n].id : n \in DOMAIN h} |-> CHOOSE n \in DOMAIN h : h[n].id = id]

\* The last max entries of h.
Newest(h, max) == IF Len(h) <= max THEN h ELSE SubSeq(h, Len(h) - max + 1, Len(h))

SchedulePersist_OnlyNew == scheduled' = (Len(history') > Len(history) \/ scheduled)
SchedulePersist == scheduled' = TRUE

\* upsertHistory: the entry of the id, if any, is replaced by a new last one,
\* and the oldest ones beyond the limit go.
UpsertHistory(id, active) ==
  LET kept == IF id \in DOMAIN hIndex THEN RemoveAt(history, hIndex[id]) ELSE history
      entry == [id |-> id, active |-> active]
  IN /\ history' = Newest(Append(kept, entry), MaxHistory)
     /\ hIndex' = IndexOf(history')
     /\ SchedulePersist

-----------------------------------------------------------------------------
(* Adding and closing.                                                      *)

NotifyReplace(replaces, text, timeout) ==
  /\ ReplaceLive(replaces, text, timeout)
  /\ UpsertHistory(live[index[replaces]].id, TRUE)

NotifyNew(replaces, text, timeout) ==
  /\ nextId <= MaxId /\ Len(live) < MaxLive
  /\ AddNew(replaces, text, timeout)
  /\ UpsertHistory(nextId, TRUE)

NotifyDuplicate(replaces, text) ==
  /\ IgnoreDuplicate(replaces, text)
  /\ UNCHANGED <<history, hIndex, scheduled>>

\* onNotify and addInternal: replaces is 0, a live id or any other id.
Notify ==
  /\ Idle
  /\ \E replaces \in 0..MaxId, text \in Texts, timeout \in Timeouts :
       \/ NotifyReplace(replaces, text, timeout)
       \/ NotifyDuplicate(replaces, text)
       \/ NotifyNew(replaces, text, timeout)
  /\ UNCHANGED <<disk, saveFailed, daemon, lifeVars, sweep>>

\* NotificationManager::close of a live id.
CloseLive_StaysActive(id) ==
  /\ Close(id)
  /\ UpsertHistory(id, TRUE)
CloseLive(id) ==
  /\ Close(id)
  /\ UpsertHistory(id, FALSE)

\* CloseNotification over D-Bus: an id that is not live is answered with an error.
OnCloseNotification(id) ==
  /\ Idle /\ daemon
  /\ CloseLive(id)
  /\ UNCHANGED <<disk, saveFailed, daemon, lifeVars, sweep>>

\* A click on a toast, or an action invoked there: dismissed, without a signal.
Dismiss(id) ==
  /\ Idle
  /\ CloseLive(id)
  /\ UNCHANGED <<disk, saveFailed, daemon, lifeVars, sweep>>

\* Toast hover: the countdown stops, and goes on with what was left or less.
Hover(id) ==
  /\ Idle
  /\ \/ PauseExpiry(id)
     \/ /\ Known(id)
        /\ live[index[id]].left = Never
        /\ \E remaining \in Lefts : ResumeExpiry(id, remaining)
  /\ UNCHANGED <<history, hIndex, fileVars, daemon, lifeVars, sweep>>

-----------------------------------------------------------------------------
(* Sweeps.                                                                  *)

ProcessExpired_OnlyOverBus ==
  /\ Idle /\ daemon
  /\ ExpiredIds # <<>>
  /\ sweep' = [ids |-> ExpiredIds, clear |-> FALSE]
  /\ UNCHANGED <<storeVars, history, hIndex, fileVars, daemon, lifeVars>>
\* NotificationPollSource::dispatch: processExpired of the service, or of the
\* manager when there is no daemon.
ProcessExpired ==
  /\ Idle
  /\ ExpiredIds # <<>>
  /\ sweep' = [ids |-> ExpiredIds, clear |-> FALSE]
  /\ UNCHANGED <<storeVars, history, hIndex, fileVars, daemon, lifeVars>>

LiveIds == [n \in DOMAIN live |-> live[n].id]

\* "notification-clear-active" over IPC, and "clear all" in the tab, which then
\* clears the history too.
DismissAll ==
  /\ Idle
  /\ \E clears \in BOOLEAN :
       /\ live # <<>> \/ clears
       /\ sweep' = [ids |-> LiveIds, clear |-> clears]
  /\ UNCHANGED <<storeVars, history, hIndex, fileVars, daemon, lifeVars>>

\* One id of a sweep.
SweepOne ==
  /\ phase = "running" /\ sweep.ids # <<>>
  /\ LET id == Head(sweep.ids) IN
     /\ IF Known(id) THEN CloseLive(id)
        ELSE UNCHANGED <<storeVars, history, hIndex, scheduled>>
  /\ sweep' = IF Len(sweep.ids) = 1 /\ ~sweep.clear THEN NoSweep
              ELSE [sweep EXCEPT !.ids = Tail(@)]
  /\ UNCHANGED <<disk, saveFailed, daemon, lifeVars>>

-----------------------------------------------------------------------------
(* The history as the user sees and edits it.                               *)

\* clearHistory.
EmptyHistory ==
  IF history = <<>> THEN UNCHANGED <<history, hIndex, scheduled>>
  ELSE /\ history' = <<>> /\ hIndex' = <<>>
       /\ SchedulePersist

\* The end of "clear all".
SweepClear ==
  /\ phase = "running" /\ sweep.ids = <<>> /\ sweep.clear
  /\ EmptyHistory
  /\ sweep' = NoSweep
  /\ UNCHANGED <<storeVars, disk, saveFailed, daemon, lifeVars>>

\* "notification-clear-history" over IPC.
ClearHistory ==
  /\ Idle
  /\ EmptyHistory
  /\ UNCHANGED <<storeVars, disk, saveFailed, daemon, lifeVars, sweep>>

\* removeNotificationEntry of the tab: an entry shown as active is dismissed
\* first; the close puts the entry last again, and then it is removed.
RemoveEntry(n) ==
  LET entry == history[n]
      closes == entry.active /\ Known(entry.id)
  IN /\ Idle
     /\ IF closes THEN Close(entry.id) ELSE UNCHANGED storeVars
     /\ history' = RemoveAt(history, n)
     /\ hIndex' = IndexOf(history')
     /\ SchedulePersist
     /\ UNCHANGED <<disk, saveFailed, daemon, lifeVars, sweep>>

-----------------------------------------------------------------------------
(* The file, the daemon and the life of the process.                        *)

\* The file does not say what the manager knows.
Unsaved == disk # [history |-> history, nextId |-> nextId]

\* persistHistoryToDisk: the file is replaced by a rename.  It stays as it was when
\* the new one cannot be opened or renamed; a write that is cut short goes
\* unnoticed, and what is put in the place of the file cannot be parsed.
Persist ==
  \/ /\ disk' = [history |-> history, nextId |-> nextId]
     /\ saveFailed' = FALSE
  \/ /\ disk' \in {disk, NoFile}
     /\ saveFailed' = TRUE

\* The deferred save.
PersistLater ==
  /\ Idle /\ scheduled
  /\ scheduled' = FALSE
  /\ Persist
  /\ UNCHANGED <<storeVars, history, hIndex, daemon, lifeVars, sweep>>

\* syncNotificationDaemon after a configuration change.
SyncDaemon ==
  /\ Idle
  /\ daemon' = ~daemon
  /\ UNCHANGED <<storeVars, history, hIndex, fileVars, lifeVars, sweep>>

\* The end of the process: of its memory only what the next session is compared
\* with is kept, the history and the counter.
Exit ==
  /\ phase' = "down"
  /\ live' = <<>> /\ index' = <<>>
  /\ scheduled' = FALSE
  /\ sweep' = NoSweep
  /\ UNCHANGED <<nextId, history, hIndex, daemon, firstId>>

\* ~Application flushes the history, whatever is scheduled.
Shutdown_WithoutFlush == Idle /\ Exit /\ UNCHANGED <<disk, saveFailed>>
Shutdown == Idle /\ Exit /\ Persist

\* The process is killed: what was not written is lost.
Crash ==
  /\ phase = "running"
  /\ Exit
  /\ saveFailed' = Unsaved
  /\ UNCHANGED disk

MaxEntryId(h) == IF h = <<>> THEN 0 ELSE Max({h[n].id : n \in DOMAIN h})
\* loadNotificationHistoryFromFile: ids go on after every id in the file.
LoadedNextId(file) == Max({file.nextId, MaxEntryId(file.history) + 1})

\* The next session: nothing is live, the history and the counter are loaded.
Restart ==
  /\ phase = "down"
  /\ phase' = "running"
  /\ history' = Newest(disk.history, MaxHistory)
  /\ hIndex' = IndexOf(history')
  /\ nextId' = LoadedNextId(disk)
  /\ firstId' = nextId'
  /\ saveFailed' = FALSE
  /\ UNCHANGED <<live, index, disk, scheduled, daemon, sweep>>

Tick ==
  /\ phase = "running"
  /\ TimePasses
  /\ UNCHANGED <<history, hIndex, fileVars, daemon, lifeVars, sweep>>

-----------------------------------------------------------------------------
Sweeping == ProcessExpired \/ SweepOne \/ SweepClear

Next ==
  \/ Notify
  \/ \E id \in 1..MaxId : OnCloseNotification(id) \/ Dismiss(id) \/ Hover(id)
  \/ Sweeping
  \/ DismissAll
  \/ ClearHistory
  \/ \E n \in DOMAIN history : RemoveEntry(n)
  \/ PersistLater
  \/ SyncDaemon
  \/ Shutdown \/ Crash \/ Restart
  \/ Tick

\* A sweep that has begun ends, and the main loop, which wakes up after
\* nextExpiryTimeoutMs, dispatches the poll source and runs what was deferred on
\* every iteration, whatever other handlers it runs in between.
Fairness ==
  /\ WF_vars(SweepOne \/ SweepClear)
  /\ SF_vars(ProcessExpired)
  /\ SF_vars(PersistLater)

Spec == Init /\ [][Next]_vars /\ Fairness

-----------------------------------------------------------------------------
(* Properties.                                                              *)

TypeOK ==
  /\ StoreTypeOK
  /\ history \in Seq(HistoryEntry) /\ Len(history) <= MaxHistory
  /\ DOMAIN hIndex \subseteq Ids
  /\ \A id \in DOMAIN hIndex : hIndex[id] \in 1..Len(history)
  /\ scheduled \in BOOLEAN /\ saveFailed \in BOOLEAN
  /\ disk.history \in Seq(HistoryEntry) /\ disk.nextId \in Ids
  /\ sweep.ids \in Seq(Ids) /\ sweep.clear \in BOOLEAN
  /\ daemon \in BOOLEAN
  /\ phase \in {"running", "down"}
  /\ firstId \in Ids

\* A notification has one entry in the history, and removal by id removes it.
HistoryIndexIsExact ==
  /\ \A n \in 1..Len(history) : history[n].id \in DOMAIN hIndex /\ hIndex[history[n].id] = n
  /\ \A id \in DOMAIN hIndex : history[hIndex[id]].id = id

\* Of the notifications of this session the history shows as active exactly
\* the live ones (entries loaded from the file keep whatever they said).
ActiveIsLive ==
  phase = "running" => \A n \in DOMAIN history :
    history[n].id >= firstId => (history[n].active <=> Known(history[n].id))

\* An id is never given out twice within what the user can still see: new ids
\* are above every id in the history, before and after restarts and crashes.
HistoryIdsAreOld == \A n \in DOMAIN history : history[n].id < nextId

\* What is live and what the history says, in one invariant: no id leads to the
\* wrong notification, and the tab never removes the wrong entry, shows a
\* notification that is gone as active, or sees two notifications under one id.
HistoryInv == TypeOK /\ IndexIsExact /\ HistoryIndexIsExact /\ ActiveIsLive /\ HistoryIdsAreOld

\* A session that follows a clean shutdown, or a crash with nothing unsaved,
\* starts with the history and the id counter the last one ended with.
RestartKeepsHistory ==
  [][phase = "down" /\ phase' = "running" /\ ~saveFailed
       => history' = history /\ nextId' = nextId]_vars

\* A countdown that has run out leads to the end of the notification, unless it
\* is replaced or its countdown is stopped or extended in time.
ExpiredIsClosed ==
  \A id \in 1..MaxId :
    (Known(id) /\ live[index[id]].left = 0)
      ~> (~Known(id) \/ live[index[id]].left # 0 \/ phase = "down")

\* Every change reaches the file, unless the file cannot be written in full or the
\* process ends first.
ChangeIsSaved ==
  Unsaved ~> (~Unsaved \/ saveFailed \/ phase = "down")
=============================================================================
