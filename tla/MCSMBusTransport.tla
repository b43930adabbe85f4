-------------------------- MODULE MCSMBusTransport --------------------------
(* A small instance of SMBusTransport: see the README for the bounds.      *)
EXTENDS SMBusTransport, TLC

CONSTANTS c1, c2

MCClient == {c1, c2}

(* Accesses of less than one chunk and (a read) of two: with two slots     *)
(* hits, misses and evictions all occur, and the second chunk of the long  *)
(* read finds the entry that the write of the same register installed.     *)
MCRequest == {[op |-> "read",  addr |-> 0, len |-> 1],
              [op |-> "read",  addr |-> 0, len |-> 3],
              [op |-> "write", addr |-> 2, len |-> 1]}

=============================================================================
