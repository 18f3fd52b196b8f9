--------------------------- MODULE MCAlertFanOut ----------------------------
EXTENDS AlertFanOut
=============================================================================
