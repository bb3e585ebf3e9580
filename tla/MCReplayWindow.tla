--------------------------- MODULE MCReplayWindow ---------------------------
EXTENDS ReplayWindow
=============================================================================
