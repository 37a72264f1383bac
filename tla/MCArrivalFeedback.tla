------------------------- MODULE MCArrivalFeedback -------------------------
EXTENDS ArrivalFeedback
============================================================================
