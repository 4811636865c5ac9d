----------------------- MODULE MCNotificationConsumer -----------------------
(* An instance of NotificationConsumer for TLC.                            *)
EXTENDS NotificationConsumer

CONSTANTS t1, t2
=============================================================================
