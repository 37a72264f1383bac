---------------------------- MODULE MCFrameInbox ----------------------------
EXTENDS FrameInbox
=============================================================================
