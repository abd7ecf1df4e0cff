--------------------------- MODULE MCHandleMutex ---------------------------
(* Model values for HandleMutex.  A counter of two bits is wide enough for *)
(* two acquires and narrow enough to wrap around.                          *)
EXTENDS HandleMutex
=============================================================================
