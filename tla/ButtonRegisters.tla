--------------------------- MODULE ButtonRegisters ---------------------------
(***************************************************************************)
(* The registers of the button functions of VoodooRMI: what F30 has tells  *)
(* which of its eleven blocks of control registers there are, one after    *)
(* another; attach() reads them all, finds in two of them which pins are   *)
(* buttons, and config() writes them back (Functions/F30.cpp).  F3A has    *)
(* fewer (Functions/F3A.cpp).  What the buttons do is GpioButtons's.       *)
(*                                                                         *)
(* A register is named by its block and its place in it; what it holds is  *)
(* named alike, as no register is written but with what one has held, or   *)
(* with nothing.  Addresses count from that of the control registers.      *)
(***************************************************************************)
EXTENDS Integers, FiniteSets

CONSTANTS
    Device        \* the touchpads: which function they have, what it has, how
                  \* many pins and which of these are there and are inputs, and
                  \* the length of the longest read, 0 for any

RangeEnd == 6     \* TRACKPOINT_RANGE_END

Flag == {"extended_pattern", "mappable_buttons", "led", "gpio", "haptic",
         "gpio_driver_control", "mech_mouse_btns"}

(* A touchpad's longest read holds the blocks that tell which pins are     *)
(* buttons.                                                                *)
DeviceOK ==
    \A d \in Device :
        /\ d.function \in {"F30", "F3A"}
        /\ d.has \subseteq Flag /\ (d.function = "F3A" => d.has = {"gpio"})
        /\ d.count \in 0 .. (IF d.function = "F30" THEN 31 ELSE 127)
        /\ d.present \subseteq 0 .. d.count - 1 /\ d.inputs \subseteq 0 .. d.count - 1
        /\ d.maxInput \in Nat \ 1 .. 16

VARIABLES
    device,
    devControls,     \* what its control registers hold, by address
    life,            \* how far attach() is
    has, gpioled_count, register_count,   \* the fields has_led ... and these
    ctrl_regs,       \* what was read of the control registers
    buttons          \* the pins that is_valid_button

fieldVars == <<has, gpioled_count, register_count>>
vars == <<device, devControls, life, fieldVars, ctrl_regs, buttons>>

-----------------------------------------------------------------------------
(* The touchpad's control registers: a block has a register, a register    *)
(* for each pin or one for every eight, a bit each.                        *)
Block  == 0 .. 10
Pins   == 0 .. device.count - 1
Groups == {i \div 8 : i \in Pins}

RegistersOf(b) ==
    LET If(flags, S) == IF flags \subseteq device.has THEN S ELSE {}
    IN  IF device.function = "F3A" THEN CASE b = 0 -> {0} [] b = 1 -> Groups [] OTHER -> {}
        ELSE CASE b = 0  -> If({"led", "gpio"}, Groups)
               [] b = 1  -> {0}
               [] b = 2  -> If({"gpio"}, Groups)
               [] b = 3  -> If({"gpio"}, Groups)
               [] b = 4  -> If({"led"}, Groups)
               [] b = 5  -> If({"led"}, 0 .. 1) \cup If({"led", "extended_pattern"}, 2 .. 5)
               [] b = 6  -> If({"led"}, Pins) \cup If({"gpio_driver_control"}, Pins)
               [] b = 7  -> If({"mappable_buttons"}, Pins)
               [] b = 8  -> If({"haptic"}, Groups)
               [] b = 9  -> If({"haptic"}, {0})
               [] b = 10 -> If({"mech_mouse_btns"}, {0})

Own == UNION {{<<b, k>> : k \in RegistersOf(b)} : b \in Block}

Foreign == <<-1, 0>>
Zero    == <<-2, 0>>

(* They follow one another, block after block; the ones after its last are *)
(* some other function's.                                                  *)
Address == 0 .. 99
Reset ==
    LET own     == Own
        address == [r \in own |-> Cardinality({s \in own : s[1] < r[1]}) + r[2]]
    IN  [a \in Address |-> IF a >= Cardinality(own) THEN Foreign
                          ELSE CHOOSE r \in own : address[r] = a]

(* Which bits are set in what a register holds.  F30 has the direction of  *)
(* pins, set for outputs, in block 2 and whether they are buttons in 3;    *)
(* F3A has the direction in 1, and the pins that there are in its queries. *)
(* In every other register all bits are set.                               *)
IsSet(value, bit) ==
    LET direction == IF device.function = "F30" THEN 2 ELSE 1
        data      == IF device.function = "F30" THEN 3 ELSE -1
    IN  CASE value = Zero -> FALSE
          [] value \in Own /\ value[1] = direction -> 8 * value[2] + bit \notin device.inputs
          [] value \in Own /\ value[1] = data      -> 8 * value[2] + bit \in device.present
          [] OTHER -> TRUE

-----------------------------------------------------------------------------
Init ==
    /\ device \in Device
    /\ devControls = Reset
    /\ life = "query"
    /\ has = {"gpio"} /\ gpioled_count = 0 /\ register_count = 0
    /\ ctrl_regs = <<>> /\ buttons = {}

DIV_ROUND_UP(n, d) == (n + d - 1) \div d

(* initialize(): the queries of F30 and of F3A, which are read in two.     *)
ReadQueries ==
    /\ life = "query"
    /\ has' = device.has
    /\ gpioled_count' = device.count
    /\ register_count' = DIV_ROUND_UP(gpioled_count', 8)
    /\ life' = "control"
    /\ UNCHANGED <<device, devControls, ctrl_regs, buttons>>

(* Memory, in mapGpios() too, or a read fails, and attach() with it.       *)
AttachError ==
    /\ life \in {"query", "control", "map"}
    /\ life' = "failed"
    /\ UNCHANGED <<device, devControls, fieldVars, ctrl_regs, buttons>>

If(condition, n) == IF condition THEN n ELSE 0

(* Mutant of LedLength: it does not ask for LEDs.                          *)
LedLengthAlways == If("gpio" \in has, register_count)

(* ctrl[0], for the LEDs among the pins.                                   *)
LedLength == If({"gpio", "led"} \subseteq has, register_count)

(* rmi_f30_calc_ctrl_data: the lengths of ctrl[0] to ctrl[10].  F3A has a  *)
(* register, and the pins' directions.                                     *)
ctrl ==
    LET led  == "led" \in has
        gpio == "gpio" \in has
    IN  [b \in Block |->
            IF device.function = "F3A"
            THEN CASE b = 0 -> 1 [] b = 1 -> register_count [] OTHER -> 0
            ELSE CASE b = 0  -> LedLength
                   [] b = 1  -> 1
                   [] b \in {2, 3} -> If(gpio, register_count)
                   [] b = 4  -> If(led, register_count)
                   [] b = 5  -> If(led, IF "extended_pattern" \in has THEN 6 ELSE 2)
                   [] b = 6  -> If(led \/ "gpio_driver_control" \in has, gpioled_count)
                   [] b = 7  -> If("mappable_buttons" \in has, gpioled_count)
                   [] b = 8  -> If("haptic" \in has, register_count)
                   [] b = 9  -> If("haptic" \in has, 1)
                   [] b = 10 -> If("mech_mouse_btns" \in has, 1)]

(* Where a block begins: after all the ones before it.                     *)
Offset(block) ==
    LET Before(b) == IF b < block THEN ctrl[b] ELSE 0
    IN  Before(0) + Before(1) + Before(2) + Before(3) + Before(4) + Before(5) + Before(6)
          + Before(7) + Before(8) + Before(9) + Before(10)

ctrl_regs_size == Offset(11)

(* The control registers are read into memory that was zeroed; RMII2C      *)
(* reads no more than an input report holds.                               *)
ReadControls ==
    /\ life = "control"
    /\ ctrl_regs' = [a \in 0 .. ctrl_regs_size - 1 |->
                        IF device.maxInput = 0 \/ a < device.maxInput THEN devControls[a] ELSE Zero]
    /\ life' = "map"
    /\ UNCHANGED <<device, devControls, fieldVars, buttons>>

(* The bit of a pin in a block of what was read.                           *)
PinBit(block, i) == IsSet(ctrl_regs[Offset(block) + i \div 8], i % 8)

(* "ctrl2 -> dir == 0 -> input mode, ctrl3 -> data == 1 -> actual button", *)
(* and "gpio exist && direction input".                                    *)
is_valid_button(i) ==
    IF device.function = "F30" THEN ~PinBit(2, i) /\ PinBit(3, i)
                               ELSE ~PinBit(1, i) /\ i \in device.present

(* mapGpios(): without GPIOs attach() fails.                               *)
MapGpios ==
    /\ life = "map"
    /\ IF "gpio" \in has
       THEN /\ buttons' = {i \in 0 .. gpioled_count - 1 : i < RangeEnd /\ is_valid_button(i)}
            /\ life' = "ready"
       ELSE life' = "failed" /\ UNCHANGED buttons
    /\ UNCHANGED <<device, devControls, fieldVars, ctrl_regs>>

(* Mutant of Written: one register too far.                                *)
WrittenShifted == [a \in Address |-> IF a - 1 \in DOMAIN ctrl_regs THEN ctrl_regs[a - 1] ELSE devControls[a]]

Written == [a \in Address |-> IF a \in DOMAIN ctrl_regs THEN ctrl_regs[a] ELSE devControls[a]]

(* config(): "Write Control Register values back to device"; an error.     *)
Config ==
    /\ life = "ready"
    /\ devControls' \in {Written, devControls}
    /\ UNCHANGED <<device, life, fieldVars, ctrl_regs, buttons>>

(* The touchpad is reset or loses its power.                               *)
DeviceReset ==
    /\ life = "ready"
    /\ devControls' = Reset
    /\ UNCHANGED <<device, life, fieldVars, ctrl_regs, buttons>>

Next ==
    \/ ReadQueries
    \/ AttachError
    \/ ReadControls
    \/ MapGpios
    \/ Config
    \/ DeviceReset

Spec == Init /\ [][Next]_vars

-----------------------------------------------------------------------------
(* Every variable has its type.                                            *)
TypeOK ==
    /\ DOMAIN devControls = Address
    /\ life \in {"query", "control", "map", "ready", "failed"}
    /\ has \subseteq Flag /\ gpioled_count \in 0 .. 127 /\ register_count \in 0 .. 16
    /\ buttons \subseteq 0 .. RangeEnd - 1

(* The pins taken for buttons are the touchpad's inputs among those that   *)
(* it has, below TRACKPOINT_RANGE_END: whatever else it has, no other      *)
(* block is taken for the one that tells.                                  *)
PinsExact ==
    life = "ready" => buttons = device.present \cap device.inputs \cap 0 .. RangeEnd - 1

(* config() leaves every control register with what the touchpad has in it *)
(* after a reset, and those of other functions alone; but the ones that a  *)
(* cut read did not reach it clears.                                       *)
ControlsKept ==
    LET reset == Reset
    IN  \A a \in Address : devControls[a] # reset[a] =>
            /\ device.maxInput # 0 /\ a >= device.maxInput /\ a < Cardinality(Own)
            /\ devControls[a] = Zero
=============================================================================
