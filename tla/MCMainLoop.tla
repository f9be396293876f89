------------------------------ MODULE MCMainLoop ------------------------------
(* MainLoop with one timer and one surface.                                   *)
EXTENDS MainLoop

=============================================================================
