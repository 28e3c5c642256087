----------------------- MODULE MCNotificationOutbox -----------------------
(***************************************************************************)
(* A small instance of NotificationOutbox.                                 *)
(***************************************************************************)
EXTENDS NotificationOutbox
CONSTANTS k1, k2, w1, w2, w3
=============================================================================
