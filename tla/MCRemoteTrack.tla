--------------------------- MODULE MCRemoteTrack ---------------------------
EXTENDS RemoteTrack
============================================================================
