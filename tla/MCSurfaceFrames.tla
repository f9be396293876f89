--------------------------- MODULE MCSurfaceFrames ---------------------------
(* SurfaceFrames on two surfaces.                                            *)
EXTENDS SurfaceFrames

=============================================================================
