----------------------------- MODULE MCTcpPlane -----------------------------
(* Model checking of TcpPlane. *)
EXTENDS TcpPlane
=============================================================================
