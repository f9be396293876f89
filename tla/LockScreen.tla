------------------------------ MODULE LockScreen ------------------------------
(***************************************************************************)
(* shell/lockscreen/lock_screen.cpp and the part of lock_surface.cpp it    *)
(* relies on, with the other end of the ext-session-lock protocol.  The    *)
(* shell and the compositor talk through two queues, so the compositor may *)
(* have locked the session, or given the lock up, before the shell hears   *)
(* of it; events for a lock object the shell has destroyed are dropped by  *)
(* libwayland.  One surface per output shows the prompt; its input field   *)
(* gets the password of the prompt when the surface prepares its next      *)
(* frame, which waits for the compositor while one is under way.           *)
(*                                                                         *)
(* PAM is asked on the main thread, so nothing else of the shell happens   *)
(* during an attempt.  Surfaces that cannot be created are left out.  The  *)
(* shell may be stopped at any time; that it is killed, or started again,  *)
(* is left out.                                                            *)
(*                                                                         *)
(* A definition D_Fault just before D is D with a fault put in; it is used *)
(* to show that a property can fail.                                       *)
(***************************************************************************)
EXTENDS Naturals, Sequences, SequencesExt

CONSTANTS
  Outputs,     (* the outputs that come and go                              *)
  Keys,        (* the characters that are typed                             *)
  Secret,      (* the user's password, a sequence of keys                   *)
  None,        (* no surface                                                *)
  MaxText,     (* bound on the length of what is typed                      *)
  MaxLocks     (* bound on the lock objects of a behavior                   *)

ASSUME LockAssumption ==
  /\ Secret \in Seq(Keys) /\ Secret # <<>>
  /\ None \notin Outputs
  /\ {MaxText, MaxLocks} \subseteq Nat

VARIABLES
  outputs,    (* WaylandConnection's outputs, in the order they appeared    *)
  made,       (* the lock objects the shell has asked for so far            *)
  lock,       (* m_lock, as the number of the object, 0 for none            *)
  pending,    (* m_lockPending                                              *)
  locked,     (* m_locked                                                   *)
  ended,      (* "no", or "locked" or "idle", as the shell was when stopped *)
  instances,  (* m_instances                                                *)
  password,   (* m_password                                                 *)
  status,     (* m_status                                                   *)
  pointer,    (* m_pointerSurface, by its output                            *)
  typed,      (* history: the keys pressed since the password was cleared   *)
  lagged,     (* history: one of them went to a field of an older prompt    *)
  requests,   (* what the shell has sent and the compositor not yet read    *)
  happened,   (* what the compositor has sent and the shell not yet read    *)
  objects,    (* the compositor's state of every lock object                *)
  session,    (* the lock object that holds the session locked, 0 for none  *)
  error,      (* the lock object the protocol was broken for, 0 for none    *)
  granted,    (* history: the lock objects given up for a correct password  *)
  hasty       (* history: those given up before the answer was heard        *)

lockVars == <<made, lock, pending, locked, ended>>
promptVars == <<password, status, typed, lagged>>
historyVars == <<granted, hasty>>
shellVars == <<outputs, lockVars, instances, promptVars, pointer, historyVars>>
serverVars == <<objects, session, error>>
vars == <<shellVars, requests, happened, serverVars>>

Statuses == {"", "waiting", "ready", "cleared", "required", "failed"}
Ends == {"no", "idle", "locked"}

\* A lock surface: the state it was told, the prompt it was given, and the
\* text in its input field.
Instance(output) ==
  [output |-> output, locked |-> locked, password |-> password, status |-> status, field |-> <<>>]

IsActive == pending \/ locked

\* The members of the sequence s that are in S, in their order (std::erase_if).
Only(s, S) ==
  LET taken[n \in 0 .. Len(s)] ==
        IF n = 0 THEN <<>>
        ELSE IF s[n] \in S THEN Append(taken[n - 1], s[n]) ELSE taken[n - 1]
  IN taken[Len(s)]

Init ==
  /\ outputs \in {<<o>> : o \in Outputs}
  /\ made = 0 /\ lock = 0 /\ pending = FALSE /\ locked = FALSE
  /\ ended = "no" /\ instances = <<>>
  /\ password = <<>> /\ status = "" /\ typed = <<>> /\ lagged = FALSE /\ pointer = None
  /\ requests = <<>> /\ happened = <<>>
  /\ objects = <<>> /\ session = 0 /\ error = 0 /\ granted = {} /\ hasty = {}

-----------------------------------------------------------------------------
(* The shell. *)

Sends(name, id) == requests' = Append(requests, [name |-> name, id |-> id])

\* The password is cleared.
Cleared == password' = <<>> /\ typed' = <<>> /\ lagged' = FALSE

HasInstance(output) == \E i \in DOMAIN instances : instances[i].output = output

\* lock(): a new object, a cleared prompt, a surface on every output.  Without
\* outputs resetLockState takes the request back.
Lock_IfNotLocked ==
  LET id == made + 1
      Made(output) == [output |-> output, locked |-> FALSE, password |-> <<>>,
                       status |-> "waiting", field |-> <<>>] IN
  /\ ended = "no" /\ ~locked /\ id <= MaxLocks
  /\ Cleared /\ status' = "waiting"
  /\ made' = id /\ locked' = FALSE
  /\ IF outputs # <<>>
     THEN /\ lock' = id /\ pending' = TRUE
          /\ instances' = [i \in DOMAIN outputs |-> Made(outputs[i])]
          /\ hasty' = hasty
          /\ Sends("lock", id)
     ELSE /\ UNCHANGED <<lock, pending, instances>>
          /\ hasty' = hasty \cup {id}
          /\ requests' = requests \o <<[name |-> "lock", id |-> id], [name |-> "destroy", id |-> id]>>
  /\ UNCHANGED <<outputs, ended, pointer, granted, happened, serverVars>>
Lock ==
  LET id == made + 1
      Made(output) == [output |-> output, locked |-> FALSE, password |-> <<>>,
                       status |-> "waiting", field |-> <<>>] IN
  /\ ended = "no" /\ ~IsActive /\ id <= MaxLocks
  /\ Cleared /\ status' = "waiting"
  /\ made' = id /\ locked' = FALSE
  /\ IF outputs # <<>>
     THEN /\ lock' = id /\ pending' = TRUE
          /\ instances' = [i \in DOMAIN outputs |-> Made(outputs[i])]
          /\ hasty' = hasty
          /\ Sends("lock", id)
     ELSE /\ UNCHANGED <<lock, pending, instances>>
          /\ hasty' = hasty \cup {id}
          /\ requests' = requests \o <<[name |-> "lock", id |-> id], [name |-> "destroy", id |-> id]>>
  /\ UNCHANGED <<outputs, ended, pointer, granted, happened, serverVars>>

\* What unlock(), handleFinished() and the end of the shell leave behind.
LetGo ==
  /\ lock' = 0 /\ pending' = FALSE /\ locked' = FALSE /\ made' = made
  /\ Cleared /\ status' = ""
  /\ instances' = <<>> /\ pointer' = None

\* The lock object is destroyed in the way its state asks for.
Destroy_AlwaysUnlocks == Sends("unlock", lock)
Destroy == Sends(IF locked THEN "unlock" ELSE "destroy", lock)

\* updatePromptOnSurfaces, from a password and a status.
Prompted(text, note) ==
  [i \in DOMAIN instances |-> [instances[i] EXCEPT !.password = text, !.status = note]]

\* handlePasswordEdited, called by the input field of instance i.
Edited(i, text) ==
  /\ password' = text /\ status' = ""
  /\ instances' = [Prompted(text, "") EXCEPT ![i].field = text]

\* The surface a key goes to: the one under the pointer, or the first.
KeyTarget(i) ==
  /\ i \in DOMAIN instances
  /\ IF HasInstance(pointer) THEN instances[i].output = pointer ELSE i = 1

\* onKeyboardEvent of a character: the field of the target takes it.
KeyChar(key) ==
  /\ locked
  /\ \E i \in DOMAIN instances :
       /\ KeyTarget(i) /\ Len(instances[i].field) < MaxText /\ Len(typed) < MaxText
       /\ Edited(i, Append(instances[i].field, key))
       /\ lagged' = (lagged \/ instances[i].field # password)
  /\ typed' = Append(typed, key)
  /\ UNCHANGED <<outputs, lockVars, pointer, historyVars, requests, happened, serverVars>>

\* onKeyboardEvent of Escape.
KeyEscape ==
  /\ locked
  /\ Cleared /\ status' = "cleared"
  /\ instances' = Prompted(<<>>, "cleared")
  /\ UNCHANGED <<outputs, lockVars, pointer, historyVars, requests, happened, serverVars>>

\* tryAuthenticate with an empty password.
Required ==
  /\ password = <<>>
  /\ status' = "required"
  /\ instances' = Prompted(<<>>, "required")
  /\ UNCHANGED <<lockVars, password, typed, lagged, pointer, historyVars, requests>>

\* tryAuthenticate when PAM says no, which it may also do for other reasons.
Refused_FallsThrough ==
  /\ password # <<>>
  /\ Destroy
  /\ LetGo
  /\ UNCHANGED <<ended, historyVars>>
Refused_KeepsText ==
  /\ password # <<>>
  /\ typed' = <<>> /\ lagged' = FALSE /\ status' = "failed"
  /\ instances' = Prompted(password, "failed")
  /\ UNCHANGED <<lockVars, password, pointer, historyVars, requests>>
Refused ==
  /\ password # <<>>
  /\ Cleared /\ status' = "failed"
  /\ instances' = Prompted(<<>>, "failed")
  /\ UNCHANGED <<lockVars, pointer, historyVars, requests>>

\* tryAuthenticate when PAM says yes, and unlock().
Unlocked ==
  /\ password = Secret
  /\ granted' = granted \cup {lock}
  /\ Destroy
  /\ LetGo
  /\ UNCHANGED <<ended, hasty>>

TryAuthenticate == Required \/ Refused \/ Unlocked

\* onKeyboardEvent of Return.
KeyReturn ==
  /\ locked
  /\ TryAuthenticate
  /\ UNCHANGED <<outputs, happened, serverVars>>

\* The login button of a surface, which the pointer is over, works as soon as
\* the surface is there.
LoginClick ==
  /\ IsActive /\ HasInstance(pointer)
  /\ TryAuthenticate
  /\ UNCHANGED <<outputs, happened, serverVars>>

\* onPointerEvent: the pointer enters a surface, or leaves the one it was on.
PointerMoves(output) ==
  /\ IsActive /\ output # pointer
  /\ output = None \/ HasInstance(output)
  /\ pointer' = output
  /\ UNCHANGED <<outputs, lockVars, instances, promptVars, historyVars,
                 requests, happened, serverVars>>

\* The next frame of a surface copies the prompt into its field.
Frame(i) ==
  /\ i \in DOMAIN instances /\ instances[i].field # instances[i].password
  /\ instances' = [instances EXCEPT ![i].field = instances[i].password]
  /\ UNCHANGED <<outputs, lockVars, promptVars, pointer, historyVars,
                 requests, happened, serverVars>>

\* onOutputChange, once the outputs are new: syncInstances.
SyncInstances_WhenLocked ==
  LET kept == Only(instances, {r \in Range(instances) : Contains(outputs', r.output)})
      new == Only(outputs', {o \in Outputs : ~HasInstance(o)}) IN
  instances' = IF locked THEN kept \o [n \in DOMAIN new |-> Instance(new[n])] ELSE instances
SyncInstances ==
  LET kept == Only(instances, {r \in Range(instances) : Contains(outputs', r.output)})
      new == Only(outputs', {o \in Outputs : ~HasInstance(o)}) IN
  instances' = IF IsActive THEN kept \o [n \in DOMAIN new |-> Instance(new[n])] ELSE instances

OutputAppears(output) ==
  /\ ended = "no" /\ ~Contains(outputs, output)
  /\ outputs' = Append(outputs, output)
  /\ SyncInstances
  /\ UNCHANGED <<lockVars, promptVars, pointer, historyVars, requests, happened, serverVars>>

\* m_pointerSurface may be left dangling: the surface of an output that appears
\* later may come to lie at that address.
OutputGoes(output) ==
  /\ ended = "no" /\ Contains(outputs, output)
  /\ outputs' = Only(outputs, Outputs \ {output})
  /\ SyncInstances
  /\ IF pointer = output THEN pointer' \in {None} \cup (Outputs \ Range(outputs')) ELSE UNCHANGED pointer
  /\ UNCHANGED <<lockVars, promptVars, historyVars, requests, happened, serverVars>>

IsNext(name) == happened # <<>> /\ Head(happened).name = name

\* handleLocked
HandleLocked ==
  /\ IsNext("locked") /\ Head(happened).id = lock
  /\ pending' = FALSE /\ locked' = TRUE /\ status' = "ready"
  /\ instances' = [i \in DOMAIN instances |-> [Prompted(password, "ready")[i] EXCEPT !.locked = TRUE]]
  /\ happened' = Tail(happened)
  /\ UNCHANGED <<outputs, made, lock, ended, password, typed, lagged, pointer, historyVars,
                 requests, serverVars>>

\* handleFinished
HandleFinished_WhileLocked ==
  /\ locked
  /\ IsNext("finished") /\ Head(happened).id = lock
  /\ Destroy
  /\ LetGo
  /\ happened' = Tail(happened)
  /\ UNCHANGED <<outputs, ended, historyVars, serverVars>>
HandleFinished ==
  /\ IsNext("finished") /\ Head(happened).id = lock
  /\ Destroy
  /\ LetGo
  /\ happened' = Tail(happened)
  /\ UNCHANGED <<outputs, ended, historyVars, serverVars>>

\* An event for an object that has been destroyed.
DropEvent ==
  /\ happened # <<>> /\ Head(happened).id # lock
  /\ happened' = Tail(happened)
  /\ UNCHANGED <<shellVars, requests, serverVars>>

Deliver == ended = "no" /\ (HandleLocked \/ HandleFinished \/ DropEvent)

\* SIGTERM, SIGINT or an exception ends run(), and ~LockScreen calls resetLockState,
\* which unlocks a locked session without a password.  Nothing sees to it that the
\* request is sent before the connection is closed.
Stop_AlwaysUnlocks ==
  /\ ended = "no"
  /\ ended' = IF locked THEN "locked" ELSE "idle"
  /\ hasty' = IF pending THEN hasty \cup {lock} ELSE hasty
  /\ \/ lock # 0 /\ Sends("unlock", lock)
     \/ UNCHANGED requests
  /\ LetGo
  /\ UNCHANGED <<outputs, granted, happened, serverVars>>
Stop ==
  /\ ended = "no"
  /\ ended' = IF locked THEN "locked" ELSE "idle"
  /\ hasty' = IF pending THEN hasty \cup {lock} ELSE hasty
  /\ \/ lock # 0 /\ Destroy
     \/ UNCHANGED requests
  /\ LetGo
  /\ UNCHANGED <<outputs, granted, happened, serverVars>>

-----------------------------------------------------------------------------
(* The compositor, as the protocol describes it.  An object is "new" until the *)
(* compositor has answered it, "locked" or "denied" then, "over" when a lock   *)
(* was given up by the compositor, and "gone" once it is destroyed.            *)

Tells(name, id) == happened' = Append(happened, [name |-> name, id |-> id])

ReadRequest ==
  LET request == Head(requests)
      id == request.id IN
  /\ requests # <<>> /\ error = 0
  /\ requests' = Tail(requests)
  /\ \/ /\ request.name = "lock"
        /\ objects' = Append(objects, "new")
        /\ UNCHANGED <<session, error>>
     \/ /\ request.name = "destroy"
        /\ objects' = [objects EXCEPT ![id] = "gone"]
        /\ error' = IF objects[id] \in {"locked", "over"} THEN id ELSE 0
        /\ UNCHANGED session
     \/ /\ request.name = "unlock"
        /\ objects' = [objects EXCEPT ![id] = "gone"]
        /\ error' = IF objects[id] \in {"new", "denied"} THEN id ELSE 0
        /\ session' = IF session = id THEN 0 ELSE session
  /\ UNCHANGED <<shellVars, happened>>

\* The session is locked for an object when no other holds it.
Grant(id) ==
  /\ objects[id] = "new" /\ session = 0 /\ error = 0
  /\ objects' = [objects EXCEPT ![id] = "locked"]
  /\ session' = id
  /\ Tells("locked", id)
  /\ UNCHANGED <<shellVars, requests, error>>

Deny(id) ==
  /\ objects[id] = "new" /\ error = 0
  /\ objects' = [objects EXCEPT ![id] = "denied"]
  /\ Tells("finished", id)
  /\ UNCHANGED <<shellVars, requests, session, error>>

\* The compositor unlocks the session in a way of its own.
GiveUp(id) ==
  /\ objects[id] = "locked" /\ error = 0
  /\ objects' = [objects EXCEPT ![id] = "over"]
  /\ session' = 0
  /\ Tells("finished", id)
  /\ UNCHANGED <<shellVars, requests, error>>

Answer == \E id \in DOMAIN objects : Grant(id) \/ Deny(id)

-----------------------------------------------------------------------------
User ==
  \/ Lock \/ KeyEscape \/ KeyReturn \/ LoginClick
  \/ \E key \in Keys : KeyChar(key)
  \/ \E output \in Outputs \cup {None} : PointerMoves(output)

Next ==
  \/ User
  \/ \E output \in Outputs : OutputAppears(output) \/ OutputGoes(output)
  \/ \E i \in DOMAIN instances : Frame(i)
  \/ Deliver
  \/ Stop
  \/ ReadRequest \/ Answer
  \/ \E id \in DOMAIN objects : GiveUp(id)

\* After an error the connection is dead, and the main loop throws.
ConnectionFails == error # 0 /\ Stop

\* While it runs, the main loop dispatches what it receives and notices a dead
\* connection; the compositor reads what it is sent and answers every lock object,
\* and surfaces get their frames.
Fairness ==
  /\ WF_vars(Deliver) /\ WF_vars(ConnectionFails) /\ WF_vars(ReadRequest) /\ WF_vars(Answer)
  /\ WF_vars(\E i \in DOMAIN instances : Frame(i))

Spec == Init /\ [][Next]_vars /\ Fairness

-----------------------------------------------------------------------------
(* Properties. *)

Texts == UNION {[1 .. n -> Keys] : n \in 0 .. MaxText}
Prompts == {r.password : r \in Range(instances)} \cup {r.field : r \in Range(instances)}

TypeOK ==
  /\ IsInjective(outputs) /\ Range(outputs) \subseteq Outputs
  /\ made \in 0 .. MaxLocks /\ lock \in {0, made} /\ {pending, locked, lagged} \subseteq BOOLEAN
  /\ ended \in Ends
  /\ Prompts \cup {password} \subseteq Texts
  /\ {r.status : r \in Range(instances)} \cup {status} \subseteq Statuses
  /\ pointer \in Outputs \cup {None}
  /\ Range(objects) \subseteq {"new", "locked", "denied", "over", "gone"}
  /\ {session, error} \subseteq 0 .. Len(objects)
  /\ ~(pending /\ locked) /\ (lock # 0 <=> IsActive)

\* Whatever crosses on the wire, the shell destroys a lock object in the way the
\* protocol asks for, unlocking it exactly if the compositor has locked it, unless
\* it did not wait for the answer: lock() without outputs, and a shell that is
\* stopped while a lock is pending, destroy what may have been locked meanwhile.
NoProtocolError == error # 0 => error \in hasty

\* A session is unlocked for a correct password, or by the compositor on its own, or
\* because the shell was stopped while it had locked it (resetLockState), and for no
\* other request: neither a refused password, nor an event that crosses a request,
\* nor a shell that is stopped before it has heard of the lock unlocks it.
UnlockNeedsPassword ==
  [][session # 0 /\ session' = 0 =>
       \/ session \in granted
       \/ objects'[session] = "over"
       \/ ended = "locked"]_vars

\* Nobody is locked out while the shell and its connection live: a locked session with
\* nothing under way has a shell that holds its lock and takes the password.
LockedHasPrompt ==
  ended = "no" /\ error = 0 /\ session # 0 /\ requests = <<>> /\ happened = <<>> =>
    lock = session /\ locked

\* Every output is covered while the lock screen is active, however outputs come
\* and go, and no surface is left when it is not.
OutputsAreCovered ==
  IF IsActive
  THEN /\ {r.output : r \in Range(instances)} = Range(outputs)
       /\ \A i, j \in DOMAIN instances : instances[i].output = instances[j].output => i = j
  ELSE instances = <<>>

\* All surfaces agree on the prompt and on whether it takes input, whenever they
\* were created.
SurfacesAgree ==
  \A r \in Range(instances) : r.locked = locked /\ r.password = password /\ r.status = status

\* lockscreen.password-cleared, "Password cleared": after Escape, or a failed
\* attempt, the password is what has been typed since, as long as every key found
\* a field that had already been given the prompt.
PasswordIsTyped == locked /\ ~lagged => password = typed

\* However outputs, events and keys interleave, every covered output shows the
\* same prompt, takes input exactly when the session is locked, and what was typed
\* on any of them is the password.
LockInv ==
  /\ TypeOK /\ NoProtocolError /\ OutputsAreCovered /\ SurfacesAgree
  /\ PasswordIsTyped /\ LockedHasPrompt

\* A lock that was asked for is granted or refused, unless the shell is stopped.
LockIsAnswered == pending ~> ~pending

=============================================================================
