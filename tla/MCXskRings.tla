----------------------------- MODULE MCXskRings -----------------------------
(* Model checking of XskRings: a small UMEM whose indices wrap often. *)
EXTENDS XskRings
=============================================================================
