------------------------------- MODULE MCBench -------------------------------
(* Every command line.                                                      *)
EXTENDS Bench

MCArgs == [stack : {"kernel", "xskip"}, proto : {"udp", "tcp"},
           mode : {"consume", "echo", "chunk"}]

=============================================================================
