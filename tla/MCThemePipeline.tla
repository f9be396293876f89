--------------------------- MODULE MCThemePipeline ---------------------------
(* ThemePipeline on a small instance: the dark theme has two variants with   *)
(* one palette, two community themes need a download, and motion may be      *)
(* switched at any reload.                                                   *)
EXTENDS ThemePipeline

CONSTANTS dark, dim, sea, sky

MCPalettes == [t \in {dark, dim, sea, sky} |-> IF t = dim THEN dark ELSE t]

=============================================================================
