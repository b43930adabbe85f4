----------------------------- MODULE GpioButtons -----------------------------
(***************************************************************************)
(* The buttons of VoodooRMI: functions F30 and F3A (RMIGPIOFunction) read  *)
(* pins and sort them into the click of a clickpad, which the trackpad     *)
(* function keeps, the buttons of a trackpad without a clickpad, and those *)
(* of a trackpoint, which the trackpoint function adds to every report of  *)
(* its own.                                                                *)
(*                                                                         *)
(* All of it runs on the thread that delivers notifications, so a handler  *)
(* is one step; what interleaves are pins, errors and the trackpoint.      *)
(***************************************************************************)
EXTENDS Integers, FiniteSets, FiniteSetsExt

CONSTANTS
    MaxPins,      \* most pins a touchpad has: 31 for F30, 127 for F3A
    RangeStart,   \* TRACKPOINT_RANGE_START, 3
    RangeEnd      \* TRACKPOINT_RANGE_END, 6

ASSUME RangeAssumption ==
    /\ MaxPins \in 0 .. 127
    /\ RangeStart \in Nat /\ RangeEnd \in Nat /\ RangeStart <= RangeEnd

Reserved == 0     \* KEY_RESERVED
BtnLeft  == 1     \* BTN_LEFT

VARIABLES
    life,
    gpioled_count, has_gpio, present, inputs,   \* the device: F30 and F3A tell
                      \* alike which pins exist and which of them are inputs
    trackpointButtons,    \* of the configuration
    down,             \* pins that are pulled low
    data_regs,        \* the pins that the driver last found low
    attended,         \* history: attention() has been called since attach()
    gpioled_key_map, numButtons, clickpadIndex, hasTrackpointButtons, clickpadState,
    padClick,         \* clickpadState of the trackpad function
    overwrite_buttons,    \* of the trackpoint function
    ps2,              \* the buttons of the trackpoint itself
    relative, point   \* the buttons that VoodooInput was last told of, in a
                      \* RelativePointer and in a Trackpoint message

device  == <<gpioled_count, has_gpio, present, inputs, trackpointButtons>>
keyMap  == <<gpioled_key_map, numButtons, clickpadIndex, hasTrackpointButtons>>
outputs == <<clickpadState, padClick, overwrite_buttons, relative, point>>
vars == <<life, device, down, data_regs, attended, keyMap, ps2, outputs>>

-----------------------------------------------------------------------------
Pins == 0 .. gpioled_count - 1

(* is_valid_button: F30 looks into ctrl2 and ctrl3, F3A into ctrl1 and     *)
(* query1.                                                                 *)
is_valid_button(i) == i \in inputs /\ i \in present

(* Mutant of buttonArr: every pin that the device has.                     *)
buttonArrAll == Pins

(* The pins looked at: i < min(gpioled_count, TRACKPOINT_RANGE_END).       *)
buttonArr == {i \in Pins : i < RangeEnd}

InRange(i) == i >= RangeStart /\ i < RangeEnd

Valid == {i \in buttonArr : is_valid_button(i)}

(* The valid pins that the configuration leaves to the trackpoint.         *)
OfTrackpoint == {i \in Valid : trackpointButtons /\ InRange(i)}

(* Mutant of KeyMap: the trackpoint's buttons count on from the others.    *)
KeyMapOneCount ==
    [i \in buttonArr |->
        IF i \notin Valid THEN Reserved ELSE BtnLeft + Cardinality({j \in Valid : j < i})]

(* Buttons are numbered in the order of their pins, the trackpoint's apart. *)
KeyMap ==
    [i \in buttonArr |->
        IF i \notin Valid THEN Reserved
        ELSE BtnLeft + Cardinality({j \in Valid : j < i /\ (j \in OfTrackpoint <=> i \in OfTrackpoint)})]

Init ==
    /\ life = "new"
    /\ gpioled_count \in 0 .. MaxPins
    /\ has_gpio \in BOOLEAN /\ trackpointButtons \in BOOLEAN
    /\ present \in SUBSET Pins /\ inputs \in SUBSET Pins
    /\ down = {} /\ data_regs = {} /\ attended = FALSE /\ ps2 = {}
    /\ gpioled_key_map = [i \in {} |-> Reserved] /\ numButtons = 0 /\ clickpadIndex = 0
    /\ hasTrackpointButtons = FALSE
    /\ clickpadState = FALSE /\ padClick = FALSE /\ overwrite_buttons = {}
    /\ relative = {} /\ point = {}

(* attach(): initialize() fails on an error, and mapGpios() without GPIOs. *)
(* data_regs is zeroed, which reads as all pins low.                       *)
Attach ==
    /\ life = "new"
    /\ has_gpio
    /\ life' = "up"
    /\ data_regs' = Pins
    /\ gpioled_key_map' = KeyMap
    /\ numButtons' = Cardinality(Valid \ OfTrackpoint)
    /\ clickpadIndex' = IF Valid \ OfTrackpoint = {} THEN 0 ELSE Max(Valid \ OfTrackpoint)
    /\ hasTrackpointButtons' = (OfTrackpoint # {})
    /\ UNCHANGED <<device, down, attended, ps2, outputs>>

AttachError ==
    /\ life = "new"
    /\ life' = "failed"
    /\ UNCHANGED <<device, down, data_regs, attended, keyMap, ps2, outputs>>

-----------------------------------------------------------------------------
IsClickpad(i) == numButtons = 1 /\ i = clickpadIndex

Bit(i) == gpioled_key_map[i] - 1

(* The bits of the pins of S that are low, the clickpad's apart.           *)
Buttons(S) ==
    {Bit(i) : i \in {j \in S \cap data_regs' \cap DOMAIN gpioled_key_map :
                        gpioled_key_map[j] # Reserved /\ ~IsClickpad(j)}}

(* Mutant of Click: a click is forwarded but not remembered.               *)
ClickForget ==
    LET key_down == clickpadIndex \in data_regs'
    IN  IF numButtons = 1 /\ clickpadState # key_down
          THEN padClick' = key_down /\ UNCHANGED clickpadState
          ELSE UNCHANGED <<clickpadState, padClick>>

(* kHandleRMIClickpadSet is sent when the state has changed.               *)
Click ==
    LET key_down == clickpadIndex \in data_regs'
    IN  IF numButtons = 1 /\ clickpadState # key_down
          THEN clickpadState' = key_down /\ padClick' = key_down
          ELSE UNCHANGED <<clickpadState, padClick>>

(* RMITrackpointFunction::handleReport.                                    *)
handleReport(buttons) == point' = buttons \cup overwrite_buttons'

(* Mutant of reportButton: released buttons of the trackpoint stay.        *)
reportButtonSticky ==
    /\ Click
    /\ relative' = IF numButtons > 1 THEN Buttons({i \in buttonArr : ~InRange(i)}) ELSE relative
    /\ IF hasTrackpointButtons
         THEN overwrite_buttons' = overwrite_buttons \cup Buttons({i \in buttonArr : InRange(i)})
              /\ handleReport({})
         ELSE UNCHANGED <<overwrite_buttons, point>>

(* reportButton: kHandleRMITrackpointButton makes the trackpoint function  *)
(* report the buttons, at rest.                                            *)
reportButton ==
    /\ Click
    /\ relative' = IF numButtons > 1 THEN Buttons({i \in buttonArr : ~InRange(i)}) ELSE relative
    /\ IF hasTrackpointButtons
         THEN overwrite_buttons' = Buttons({i \in buttonArr : InRange(i)}) /\ handleReport({})
         ELSE UNCHANGED <<overwrite_buttons, point>>

(* attention(): the pins are read.                                         *)
Attention ==
    /\ life = "up"
    /\ data_regs' = down /\ attended' = TRUE
    /\ reportButton
    /\ UNCHANGED <<life, device, down, keyMap, ps2>>

(* A read that fails leaves data_regs as they were, or zeroed by RMII2C's  *)
(* readBlock: attention() logs that and reports all the same.              *)
AttentionError ==
    /\ life = "up"
    /\ data_regs' \in {data_regs, Pins} /\ attended' = TRUE
    /\ reportButton
    /\ UNCHANGED <<life, device, down, keyMap, ps2>>

(* The trackpoint reports a movement, or a button of its own (F03).        *)
Report ==
    /\ life = "up"
    /\ UNCHANGED overwrite_buttons
    /\ handleReport(ps2)
    /\ UNCHANGED <<life, device, down, data_regs, attended, keyMap, ps2, clickpadState, padClick,
                   relative>>

(* Somebody presses or releases a button.                                  *)
Press(i) ==
    /\ life = "up"
    /\ down' = IF i \in down THEN down \ {i} ELSE down \cup {i}
    /\ UNCHANGED <<life, device, data_regs, attended, keyMap, ps2, outputs>>

PressPS2 ==
    /\ life = "up"
    /\ ps2' = IF ps2 = {} THEN {0} ELSE {}
    /\ UNCHANGED <<life, device, down, data_regs, attended, keyMap, outputs>>

Next ==
    \/ Attach
    \/ AttachError
    \/ Attention
    \/ AttentionError
    \/ Report
    \/ \E i \in Pins : Press(i)
    \/ PressPS2

Spec == Init /\ [][Next]_vars

-----------------------------------------------------------------------------
(* Every variable has its type; the map holds no more pins than those below *)
(* TRACKPOINT_RANGE_END, and no key that a button message has no bit for.  *)
TypeOK ==
    /\ life \in {"new", "up", "failed"}
    /\ gpioled_count \in 0 .. MaxPins
    /\ has_gpio \in BOOLEAN /\ trackpointButtons \in BOOLEAN
    /\ {present, inputs, down, data_regs} \subseteq SUBSET Pins
    /\ DOMAIN gpioled_key_map \subseteq Pins \cap 0 .. RangeEnd - 1
    /\ gpioled_key_map \in [DOMAIN gpioled_key_map -> Reserved .. RangeEnd]
    /\ numButtons \in 0 .. MaxPins /\ clickpadIndex \in 0 .. MaxPins
    /\ hasTrackpointButtons \in BOOLEAN /\ attended \in BOOLEAN
    /\ {clickpadState, padClick} \subseteq BOOLEAN
    /\ {overwrite_buttons, ps2, relative, point} \subseteq SUBSET Nat

(* The buttons of each pointer are numbered from the left one on without a *)
(* gap, so no two of them share a bit, whichever pins exist, are inputs or *)
(* lie in the range that the configuration may give to the trackpoint.     *)
ButtonsDense ==
    life = "up" =>
        \A S \in {OfTrackpoint, Valid \ OfTrackpoint} :
            {gpioled_key_map[i] : i \in S} = BtnLeft .. BtnLeft + Cardinality(S) - 1

(* Once attention() has been called, the trackpad function takes the        *)
(* clickpad to be pressed exactly when data_regs has its pin low: a click  *)
(* is neither lost nor left pressed by the filter on changes.  (Before, no *)
(* pin was reported.  An I2C read that failed has data_regs zeroed, all    *)
(* pins low: that the click it makes is none the pad had is not said here.) *)
ClickFollowsPin ==
    life = "up" /\ attended /\ numButtons = 1 => padClick = (clickpadIndex \in data_regs)

(* Once attention() has been called, VoodooInput has been told of each of a *)
(* trackpad's buttons, pin by pin, that it is down exactly when data_regs  *)
(* has its pin low; except that it is never told of those in the range of  *)
(* the trackpoint when the configuration does not give them to that:       *)
(* mapGpios counts these as the trackpad's, reportButton files them under  *)
(* the trackpoint's, and nobody is notified.  What it was told of the      *)
(* trackpoint's shows every GPIO button that is low there, however         *)
(* movements of the trackpoint and its own buttons come in between, and    *)
(* none that is not but for the trackpoint's own.                          *)
ReportsFollowPins ==
    life = "up" /\ attended =>
        /\ numButtons > 1 =>
              \A i \in Valid \ OfTrackpoint :
                  Bit(i) \in relative <=> i \in data_regs /\ ~InRange(i)
        /\ \A i \in OfTrackpoint : i \in data_regs => Bit(i) \in point
        /\ \A b \in point \ {0} : \E i \in OfTrackpoint : i \in data_regs /\ Bit(i) = b
=============================================================================
