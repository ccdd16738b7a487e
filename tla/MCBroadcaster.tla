--------------------------- MODULE MCBroadcaster ---------------------------
EXTENDS Broadcaster
=============================================================================
