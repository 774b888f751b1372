---------------------------- MODULE MCXskWakeup -----------------------------
(* Model checking of XskWakeup. *)
EXTENDS XskWakeup
=============================================================================
