---------------------------- MODULE MCI2CTransport ----------------------------
(* A small instance of I2CTransport: see the README for the bounds.        *)
EXTENDS I2CTransport

(* Two pages of four registers: accesses to both, a read that is cut.      *)
MCRequest == {[op |-> "read",  addr |-> 1, len |-> 2],
              [op |-> "read",  addr |-> 4, len |-> 3],
              [op |-> "write", addr |-> 0, len |-> 3],
              [op |-> "write", addr |-> 6, len |-> 1]}
=============================================================================
