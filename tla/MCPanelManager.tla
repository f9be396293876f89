--------------------------- MODULE MCPanelManager ---------------------------
(* The panel manager with one panel besides the prompt.                     *)
EXTENDS PanelManager, TLC

\* Requests for authentication and nothing else: nobody toggles a panel, motion
\* stays on, and the output stays.  A request begins when no prompt is open, or
\* while the one of an earlier request plays its close animation.
PromptNext ==
  \/ Frames \/ RunCall
  \/ /\ IsOpen(shell) => shell.anim = "close"
     /\ \E outcome \in {"starts", "fails", "refused"} : Initiate(outcome)
  \/ \E asks \in BOOLEAN : SessionSpeaks(asks, TRUE)
  \/ Submit
  \/ \E gained, again \in BOOLEAN : Completes(gained, again)
PromptInit == Init /\ motion
PromptSpec == PromptInit /\ [][PromptNext]_vars

=============================================================================
