------------------------- MODULE MCNotificationToast -------------------------
(* NotificationToast on a small instance: the first output is the shorter one *)
(* in one of the runs.                                                        *)
EXTENDS NotificationToast

MCRooms == <<1, 2>>

=============================================================================
