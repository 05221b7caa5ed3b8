------------------------- MODULE MC_SubscriptionClient -------------------------
(* The instance of MC_SubscriptionClient_ShutdownHang.cfg: two devices and *)
(* an array with room for one, so that the second subscription makes     *)
(* realloc grow it (in place, by moving it, or failing) while the first   *)
(* poll thread runs.  In the code the array starts with room for eight.  *)
EXTENDS SubscriptionClient
=============================================================================
