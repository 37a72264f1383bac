------------------------------ MODULE MCSendPath ------------------------------
EXTENDS SendPath
===============================================================================
