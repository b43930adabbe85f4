----------------------------- MODULE MCFunctionRegisters -----------------------------
(* The touchpads that TLC checks.  With F12: those with and without each   *)
(* register that F12 looks at, sizes of all three forms, bitmaps of one    *)
(* and of two bytes, and one, three or ten fingers.                        *)
EXTENDS FunctionRegisters

Reg(size, subpackets) == [size |-> size, subpackets |-> subpackets]

Data(regs, fingers) ==
    [r \in regs |-> CASE r = 0 -> Reg(2, {0})
                      [] r = 1 -> Reg(BYTES_PER_OBJ * fingers, 0 .. fingers - 1)
                      [] r = 3 -> Reg(65537, {6, 7})
                      [] r = 9 -> Reg(300, {})]

Control(regs, tuning) ==
    [r \in regs |-> CASE r = 2  -> Reg(256, {13, 20})
                      [] r = 8  -> Reg(Len(Tuning(tuning)), tuning)
                      [] r = 20 -> Reg(3, {0, 1, 2})]

Touchpad(control, data, long, dribble, described) ==
    [query |-> (3 :> Reg(1, {0})), control |-> control, data |-> data,
     long |-> long, dribble |-> dribble, described |-> described]

(* Control and data registers do not interact: those of one kind vary      *)
(* while the others are all there.                                         *)
MCDevice ==
    {Touchpad(Control(c, t), Data({0, 1, 3, 9}, 3), l, b, TRUE) :
        c \in SUBSET {2, 8, 20} \ {{}}, t \in {{0, 1, 3}, {0, 1, 2, 3}, {0, 1, 3, 4}, {0, 1, 2}},
        l \in BOOLEAN, b \in BOOLEAN}
    \cup
    {Touchpad(Control({2, 8, 20}, {0, 1, 2, 3}), Data(d, f), l, TRUE, TRUE) :
        d \in SUBSET {0, 1, 3, 9} \ {{}}, f \in {1, 3, 10}, l \in BOOLEAN}
    \cup
    {Touchpad(Control({8}, {0, 1, 3}), Data({1}, 1), FALSE, FALSE, FALSE)}

(* Names of F11's and F30's, in instances that do not depend on their      *)
(* touchpads.                                                              *)
R == INSTANCE F11Registers WITH Device <- {}, device <- device11, life <- life11,
                                pkt_size <- pkt_size11

Buttons0 == INSTANCE ButtonRegisters WITH
    Device <- {}, device <- deviceButtons, devControls <- devControlsButtons, life <- lifeButtons

(* With F11: which registers they have is told by a set of flags, all of   *)
(* them but up to three or only up to two; a register without flags holds  *)
(* its own number, so that it differs from every other.                    *)
Flag == {R!HAS_QUERY9, R!HAS_QUERY11, R!HAS_QUERY12, R!HAS_QUERY27, R!HAS_QUERY28,
         R!HAS_REL, R!HAS_GESTURES, R!HAS_JITTER_FILTER, R!HAS_TOUCH_SHAPES,
         R!HAS_INFO2, R!HAS_PHYSICAL, R!HAS_QUERY36}

(* The registers that hold a number: of fingers, of touch shapes, or none. *)
Base(nr, r) == CASE r = 1 -> Bits(nr)
                 [] r = 10 -> Bits(12)
                 [] r \in {0, 5, 7, 8, 12, 28, 36} -> {}
                 [] OTHER -> Bits(r)

Touchpad11(nr, flags) ==
    [qryAddr |-> 40, control |-> {R!DRIBBLE, R!PALM_DET, <<0, 0>>, <<11, 3>>},
     query |-> [r \in R!QueryReg |-> Base(nr, r) \cup {b \in R!Bit : <<r, b>> \in flags}]]

Layouts == {L \in SUBSET Flag : Cardinality(Flag \ L) <= 3 \/ Cardinality(L) <= 2}

(* Those that do not change the layout of the queries.                     *)
Others == {R!HAS_ABS, R!HAS_DRIBBLE, R!HAS_FLICK, R!HAS_PALM_DET, R!HAS_ROTATE}

MCDevice11 ==
    {Touchpad11(2, L \cup (Others \ {R!HAS_ROTATE})) : L \in Layouts}
    \cup
    {Touchpad11(nr, Flag \cup {R!HAS_ACM} \cup S) : nr \in {0, 4, 5}, S \in SUBSET Others}

(* With F30: every set of what it may have, up to three or more than eight *)
(* pins; a pin that is an input, one that is not, one that is not there;   *)
(* with F3A: these pins.  Reads of any length, or cut.                     *)
MCDeviceButtons ==
    [function : {"F30"}, has : SUBSET Buttons0!Flag, count : {9}, present : {{0, 1, 3, 8}},
     inputs : {{0, 2, 3, 8}}, maxInput : {0, 17}]
    \cup
    UNION {[function : {"F30"}, has : {Buttons0!Flag, {"gpio"}}, count : {n}, present : SUBSET (0 .. n - 1),
            inputs : SUBSET (0 .. n - 1), maxInput : {0}] : n \in 0 .. 3}
    \cup
    [function : {"F30"}, has : {Buttons0!Flag, {"gpio"}}, count : {8, 31}, present : {{0, 1, 3}},
     inputs : {{0, 2, 3}}, maxInput : {0, 64}]
    \cup
    [function : {"F3A"}, has : {{"gpio"}}, count : {3, 8, 9, 127}, present : {{0, 1}},
     inputs : {{0, 2}}, maxInput : {0, 17}]
=============================================================================
