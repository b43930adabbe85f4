-------------------------- MODULE MCF03PassThrough --------------------------
(* A small instance of F03PassThrough: see the README for the bounds.      *)
EXTENDS F03PassThrough

(* Two of initPS2's commands: power-on reset and ENABLE.                   *)
MCScript == <<[send |-> 1, receive |-> 2, param |-> <<"move", "zero">>],
              [send |-> 0, receive |-> 0, param |-> <<>>]>>
=============================================================================
