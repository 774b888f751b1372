---------------------------- MODULE MCXskPlanes -----------------------------
(* Model checking of XskPlanes. *)
EXTENDS XskPlanes
=============================================================================
