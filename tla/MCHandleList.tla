---------------------------- MODULE MCHandleList ----------------------------
(* Model values for HandleList.  MaxHandles = 5 is not a power of two, so  *)
(* that doubling meets the clamp and halving meets odd capacities; there   *)
(* is one handle more than fits, so that the full list is tried.           *)
EXTENDS HandleList
=============================================================================
