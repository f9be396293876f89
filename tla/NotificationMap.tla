--------------------------- MODULE NotificationMap ---------------------------
(***************************************************************************)
(* What a client of the notification manager may rely on, without deques,  *)
(* positions or indexes: a map from ids to notifications.  A new id is     *)
(* never one in use, every operation touches the notification it names and *)
(* no other, and a countdown only moves while time passes.                 *)
(* NotificationStore implements it.                                        *)
(***************************************************************************)
EXTENDS Naturals

CONSTANTS Texts, Timeouts, Lefts, Window, Never

VARIABLES
  notes,  (* the live notifications by id                                   *)
  next    (* the next id                                                    *)

vars == <<notes, next>>

Body(text, timeout) ==
  [text |-> text, timeout |-> timeout, age |-> 0,
   left |-> IF timeout > 0 THEN timeout ELSE Never]

Init == notes = <<>> /\ next = 1

New(text, timeout) ==
  /\ next \notin DOMAIN notes
  /\ notes' = [i \in DOMAIN notes \cup {next} |->
                 IF i = next THEN Body(text, timeout) ELSE notes[i]]
  /\ next' = next + 1

Renew(id, text, timeout) ==
  /\ notes' = [notes EXCEPT ![id] = Body(text, timeout)]
  /\ UNCHANGED next

Drop(id) ==
  /\ notes' = [i \in DOMAIN notes \ {id} |-> notes[i]]
  /\ UNCHANGED next

Rearm(id, left) ==
  /\ notes' = [notes EXCEPT ![id].left = left]
  /\ UNCHANGED next

Aged(note) ==
  [text |-> note.text, timeout |-> note.timeout,
   age |-> IF note.age < Window THEN note.age + 1 ELSE note.age,
   left |-> IF note.left = Never \/ note.left = 0 THEN note.left ELSE note.left - 1]

TimePasses ==
  /\ notes' = [i \in DOMAIN notes |-> Aged(notes[i])]
  /\ UNCHANGED next

\* A new session of the program; what was not saved of the counter is lost.
StartOver ==
  /\ notes' = <<>>
  /\ next' \in Nat \ {0}

Next ==
  \/ \E text \in Texts, timeout \in Timeouts :
       New(text, timeout) \/ \E id \in DOMAIN notes : Renew(id, text, timeout)
  \/ \E id \in DOMAIN notes :
       Drop(id) \/ \E left \in Lefts \cup {Never} : Rearm(id, left)
  \/ TimePasses
  \/ StartOver

Spec == Init /\ [][Next]_vars
=============================================================================
