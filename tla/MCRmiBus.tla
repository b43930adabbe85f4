------------------------------ MODULE MCRmiBus ------------------------------
(* Touchpads for RmiBus: each tells one case of the scan from the others.  *)
EXTENDS RmiBus

Fn(k, n) == [kind |-> k, bits |-> n]

Pages(p0, p1, p2, p4) ==
    [p \in 0 .. 4 |-> CASE p = 0 -> p0 [] p = 1 -> p1 [] p = 2 -> p2 [] p = 3 -> <<>> [] OTHER -> p4]

F01 == Fn("F01", 1)
Pad == Fn("trackpad", 1)

(* Two pages in use, and an entry without a class that has a bit.          *)
TwoPages == Pages(<<F01>>, <<Fn("other", 1), Fn("trackpoint", 1)>>, <<>>, <<>>)

(* Blank pages that do not follow each other do not end the scan.          *)
OneBlank == Pages(<<F01>>, <<>>, <<Pad>>, <<Fn("gpio", 0)>>)

(* Two blank pages in a row do.                                            *)
TwoBlank == Pages(<<F01, Fn("gpio", 0)>>, <<>>, <<>>, <<Pad>>)

(* More bits than the mask can hold; no F01.                               *)
TooMany == Pages(<<F01, Fn("gpio", 2)>>, <<Pad>>, <<>>, <<>>)
NoF01   == Pages(<<Pad>>, <<>>, <<>>, <<>>)

MCDevice == {[table |-> TwoPages, has |-> {"doze", "lts", "holdoff"}],
             [table |-> OneBlank, has |-> {"lts"}],
             [table |-> TwoBlank, has |-> {"doze"}],
             [table |-> TooMany, has |-> {}],
             [table |-> NoF01, has |-> {}]}
=============================================================================
