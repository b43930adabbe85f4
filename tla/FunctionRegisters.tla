-------------------------- MODULE FunctionRegisters --------------------------
(***************************************************************************)
(* The functions of a touchpad whose registers depend on what it has: the  *)
(* bus makes an F11 or an F12, its 2D sensor, or an F30 or an F3A, its     *)
(* buttons, of an entry of the page description table that names it.  F11  *)
(* and F12 are RMITrackpadFunctions, which keep trackpadEnable.            *)
(***************************************************************************)
EXTENDS F12Registers

CONSTANTS
    Device11,     \* the touchpads with F11, as in F11Registers
    DeviceButtons \* and those with F30 or F3A, as in ButtonRegisters

VARIABLES
    function,     \* of the entry: "F11", "F12" or "buttons"
    device11, devControls, life11, query_size, sens_query, asked, nbr_fingers,
    pkt_size11, dev_controls, objects,                       \* F11Registers
    deviceButtons, devControlsButtons, lifeButtons, has, gpioled_count,
    register_count, ctrl_regs, buttons                       \* ButtonRegisters

f11Vars == <<device11, devControls, life11, query_size, sens_query, asked, nbr_fingers,
             pkt_size11, dev_controls, objects>>
f12Vars == <<device, life, fieldVars, report, written>>
buttonVars == <<deviceButtons, devControlsButtons, lifeButtons, has, gpioled_count,
                register_count, ctrl_regs, buttons>>
functionVars == <<function, f11Vars, f12Vars, trackpadEnable, buttonVars>>

F11 == INSTANCE F11Registers WITH Device <- Device11, device <- device11, life <- life11,
                                  pkt_size <- pkt_size11
Buttons == INSTANCE ButtonRegisters WITH
    Device <- DeviceButtons, device <- deviceButtons, devControls <- devControlsButtons,
    life <- lifeButtons

ASSUME Device11Assumption == F11!DeviceOK
ASSUME DeviceButtonsAssumption == Buttons!DeviceOK

(* A function that the touchpad does not have is left alone.               *)
FunctionInit ==
    /\ function \in {"F11", "F12", "buttons"}
    /\ function # "F11" => device11 = CHOOSE d \in Device11 : TRUE
    /\ function # "F12" => device = CHOOSE d \in Device : TRUE
    /\ function # "buttons" => deviceButtons = CHOOSE d \in DeviceButtons : TRUE
    /\ Init /\ F11!Init /\ Buttons!Init

F12Step ==
    /\ function = "F12"
    /\ Next
    /\ UNCHANGED <<function, f11Vars, buttonVars>>

F11Step ==
    /\ function = "F11"
    /\ F11!Next
    /\ UNCHANGED <<function, f12Vars, buttonVars>>

ButtonStep ==
    /\ function = "buttons"
    /\ Buttons!Next
    /\ UNCHANGED <<function, f11Vars, f12Vars, trackpadEnable>>

FunctionNext ==
    \/ F11Step
    \/ F12Step
    \/ ButtonStep

FunctionSpec == FunctionInit /\ [][FunctionNext]_functionVars

-----------------------------------------------------------------------------
(* Every variable has its type; no report has more objects than its array  *)
(* holds, F12's not more than five.                                        *)
FunctionTypeOK ==
    /\ function \in {"F11", "F12", "buttons"}
    /\ TypeOK
    /\ F11!TypeOK
    /\ Buttons!TypeOK

(* F11 takes no register for another one: F11!QueriesExact.                *)
F11QueriesExact == F11!QueriesExact

(* What a sensor reports lies within its packets and is where the touchpad *)
(* put it: F12's ObjectsWhole and F11's.                                   *)
ReportsWhole == ObjectsWhole /\ F11!ObjectsWhole

(* F30 and F3A take no pin for a button that is none: Buttons!PinsExact.   *)
PinsExact == Buttons!PinsExact

(* F11 and the buttons' functions, which write to all of their control     *)
(* registers, change in them what they mean to and nothing else:           *)
(* F11!ControlsKept and Buttons!ControlsKept.                              *)
ControlsKept == F11!ControlsKept /\ Buttons!ControlsKept
=============================================================================
