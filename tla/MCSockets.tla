----------------------------- MODULE MCSockets ------------------------------
(* Model checking of Sockets. *)
EXTENDS Sockets, TLC

Symmetry ==
  Permutations(Sock) \cup Permutations(Port)
    \cup Permutations(Unaddressable) \cup Permutations(Remote \ Unaddressable)
=============================================================================
