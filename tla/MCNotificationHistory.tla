----------------------- MODULE MCNotificationHistory -----------------------
(* NotificationHistory on a small instance.                                 *)
EXTENDS NotificationHistory

=============================================================================
