-------------------------------- MODULE Alarms --------------------------------
(***************************************************************************)
(* What a caller of core/timer_manager.h may rely on: an alarm rings when  *)
(* it is due and never before, only while it is set, one at a time; one    *)
(* that is set again, stopped or replaced does not ring for its old        *)
(* setting, even when both were due together.  A repeating alarm counts    *)
(* from the end of its last ring.                                          *)
(***************************************************************************)
EXTENDS Integers

CONSTANTS
  Timers,  (* the alarms                                                    *)
  Delays,  (* the delays they are set with                                  *)
  Ids,     (* the names of their settings                                   *)
  Off      (* an alarm that is not set                                      *)

VARIABLES
  now,      (* the time                                                     *)
  alarms,   (* the setting of every alarm                                   *)
  ringing   (* the setting that is ringing, 0 for none                      *)

alarmVars == <<now, alarms, ringing>>

Used == {alarms[t].id : t \in {u \in Timers : alarms[u] # Off}} \cup {ringing}

AlarmsInit == now = 0 /\ alarms = [t \in Timers |-> Off] /\ ringing = 0

Set(t, id, delay, repeating) ==
  /\ id \notin Used
  /\ alarms' = [alarms EXCEPT ![t] =
                  [id |-> id, due |-> now + delay, interval |-> delay, repeating |-> repeating]]
  /\ UNCHANGED <<now, ringing>>

Clear(t) ==
  /\ alarms' = [alarms EXCEPT ![t] = Off]
  /\ UNCHANGED <<now, ringing>>

Hand(t, u) ==
  /\ t # u
  /\ alarms' = [alarms EXCEPT ![u] = alarms[t], ![t] = Off]
  /\ UNCHANGED <<now, ringing>>

Ring(t) ==
  /\ ringing = 0 /\ alarms[t] # Off /\ alarms[t].due <= now
  /\ ringing' = alarms[t].id
  /\ UNCHANGED <<now, alarms>>

Rung ==
  /\ ringing # 0 /\ ringing' = 0
  /\ alarms' = [t \in Timers |->
       IF alarms[t] = Off \/ alarms[t].id # ringing THEN alarms[t]
       ELSE IF alarms[t].repeating THEN [alarms[t] EXCEPT !.due = now + alarms[t].interval]
       ELSE Off]
  /\ UNCHANGED now

TimePasses == now' > now /\ UNCHANGED <<alarms, ringing>>

AlarmsNext ==
  \/ \E t \in Timers :
       \/ \E id \in Ids, delay \in Delays, repeating \in BOOLEAN : Set(t, id, delay, repeating)
       \/ Clear(t) \/ Ring(t)
       \/ \E u \in Timers : Hand(t, u)
  \/ Rung
  \/ TimePasses

AlarmsSpec == AlarmsInit /\ [][AlarmsNext]_alarmVars

=============================================================================
