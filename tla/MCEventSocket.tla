--------------------------- MODULE MCEventSocket ----------------------------
EXTENDS EventSocket
=============================================================================
