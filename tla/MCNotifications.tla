--------------------------- MODULE MCNotifications ---------------------------
EXTENDS Notifications

CONSTANTS a, b
=============================================================================
