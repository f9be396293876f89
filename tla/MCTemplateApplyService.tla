----------------------- MODULE MCTemplateApplyService -----------------------
(* TemplateApplyService on a small instance.                                *)
EXTENDS TemplateApplyService

=============================================================================
