---------------------------- MODULE MCLockScreen ----------------------------
(* LockScreen on a small instance: two outputs, two keys.                   *)
EXTENDS LockScreen

CONSTANTS a, b

MCSecret == <<a>>

=============================================================================
