----------------------------- MODULE LatestWins -----------------------------
(***************************************************************************)
(* What the rest of the shell may rely on when it asks for its theme to be *)
(* applied to the outputs of templates: requests are numbered, an output   *)
(* only ever moves forward through them, and never past the last one made. *)
(* TemplateApplyService implements it.                                     *)
(***************************************************************************)
EXTENDS Naturals

CONSTANT Outputs

VARIABLES
  wanted,  (* the number of the last request                                *)
  applied  (* the request each output was last brought up to date with      *)

vars == <<wanted, applied>>

Init == wanted = 0 /\ applied = [o \in Outputs |-> 0]

Request == wanted' = wanted + 1 /\ UNCHANGED applied

Advance(o) ==
  \E g \in applied[o] + 1 .. wanted :
    /\ applied' = [applied EXCEPT ![o] = g]
    /\ UNCHANGED wanted

Next == Request \/ \E o \in Outputs : Advance(o)

Spec == Init /\ [][Next]_vars

=============================================================================
