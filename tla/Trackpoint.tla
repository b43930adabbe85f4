----------------------------- MODULE Trackpoint -----------------------------
(***************************************************************************)
(* The trackpoint of a touchpad together with the GPIO buttons.  It is     *)
(* function F03, whose packets GpioButtons has as Report, or F17, a        *)
(* trackstick: attach() finds its sticks, and where the data of each are,  *)
(* by going through query registers, and attention() reads stick after     *)
(* stick and reports every movement (Functions/F17.cpp).                   *)
(*                                                                         *)
(* Movements themselves, and what the manufacturer's and the gestures'     *)
(* registers say, are left out.  Addresses count from the function's own.  *)
(***************************************************************************)
EXTENDS GpioButtons, Sequences

CONSTANTS
    Stick         \* the touchpads' sticks: sequences of the kinds of data of each

Kind == {"abs", "rel", "gestures"}

ASSUME StickAssumption ==
    \A s \in Stick : s \in Seq(SUBSET Kind) /\ Len(s) \in 1 .. 8

VARIABLES
    function,     \* of the trackpoint: 3, or 17 (0x17)
    stick,        \* the sticks that the touchpad has
    life17,       \* how far F17's attach() is
    number_of_sticks,
    sticks,       \* what F17 takes them to be, and the addresses of their data
    next_query_reg, next_data_reg

f17Vars == <<life17, number_of_sticks, sticks, next_query_reg, next_data_reg>>
stickVars == <<function, stick, f17Vars>>
trackpointVars == <<vars, stickVars>>

-----------------------------------------------------------------------------
(* The bytes of each kind of data; they come in this order.                *)
Size(k) == CASE k = "abs" -> 4 [] k = "rel" -> 2 [] k = "gestures" -> 1

Before(k) == CASE k = "abs" -> {} [] k = "rel" -> {"abs"} [] k = "gestures" -> {"abs", "rel"}

(* The bytes of some data.                                                 *)
DataSize(kinds) ==
    LET Bytes(k) == IF k \in kinds THEN Size(k) ELSE 0
    IN  Bytes("abs") + Bytes("rel") + Bytes("gestures")

(* The sticks before one that have some kind of data.                      *)
Having(k, i) == {j \in 1 .. i - 1 : k \in stick[j]}

(* Where the queries and the data of a stick are in the touchpad: a stick  *)
(* has two registers of its general query and, if it has gestures, one of  *)
(* its query for these.                                                    *)
QueryAddr(i) == 1 + 2 * (i - 1) + Cardinality(Having("gestures", i))
StickAddr(i) ==
    LET Bytes(k) == Size(k) * Cardinality(Having(k, i))
    IN  Bytes("abs") + Bytes("rel") + Bytes("gestures")
DataAddr(i, k) == StickAddr(i) + DataSize(stick[i] \cap Before(k))

(* What a general query read at an address tells; other registers than the *)
(* right ones tell of nothing.                                             *)
GeneralQuery(address) ==
    UNION {stick[i] : i \in {j \in DOMAIN stick : QueryAddr(j) = address}}

-----------------------------------------------------------------------------
TrackpointInit ==
    /\ Init
    /\ stick \in Stick
    /\ \/ function = 3 /\ stick = CHOOSE s \in Stick : TRUE
       \/ function = 17
    /\ life17 = "query" /\ number_of_sticks = 0 /\ sticks = <<>>
    /\ next_query_reg = 0 /\ next_data_reg = 0

(* attach(): the device query, memory, commands and controls.              *)
ReadDeviceQuery ==
    /\ life17 = "query"
    /\ number_of_sticks' = Len(stick) - 1
    /\ next_query_reg' = 1
    /\ life17' = "sticks"
    /\ UNCHANGED <<sticks, next_data_reg>>

(* Mutant of Advance: the queries of gestures are not gone past.           *)
AdvanceGeneral(general) == 2

(* By how much rmi_f17_init_stick advances next_query_reg.                 *)
Advance(general) == IF "gestures" \in general THEN 3 ELSE 2

(* rmi_f17_init_stick.                                                     *)
InitStick ==
    /\ life17 = "sticks"
    /\ LET general == GeneralQuery(next_query_reg)
       IN  /\ sticks' = Append(sticks,
                            [general |-> general,
                             address |-> [k \in general |->
                                            next_data_reg + DataSize(general \cap Before(k))]])
           /\ next_query_reg' = next_query_reg + Advance(general)
           /\ next_data_reg' = next_data_reg + DataSize(general)
    /\ life17' = IF Len(sticks') = number_of_sticks + 1 THEN "up" ELSE "sticks"
    /\ UNCHANGED number_of_sticks

(* An error makes attach() fail.                                           *)
InitError ==
    /\ life17 \in {"query", "sticks"}
    /\ life17' = "failed"
    /\ UNCHANGED <<number_of_sticks, sticks, next_query_reg, next_data_reg>>

(* attention(): the first n sticks are read, and the next one, if there is *)
(* one, in part: its movement may be reported before an error of its       *)
(* gestures, which ends the loop.                                          *)
Moved(n, partly) ==
    {i \in 1 .. n : "rel" \in sticks[i].general}
      \cup {i \in {n + 1} \cap DOMAIN sticks : partly /\ {"rel", "gestures"} \subseteq sticks[i].general}

(* Mutant of ReportMoves: the trackpoint's buttons are its own alone.      *)
ReportMovesAlone(moved) == IF moved # {} THEN point' = {} ELSE UNCHANGED point

(* rmi_f17_process_stick reports movements without buttons of their own.   *)
ReportMoves(moved) == IF moved # {} THEN handleReport({}) ELSE UNCHANGED point

StickAttention ==
    /\ life17 = "up"
    /\ UNCHANGED overwrite_buttons
    /\ \E n \in 0 .. Len(sticks), partly \in BOOLEAN : ReportMoves(Moved(n, partly))
    /\ UNCHANGED <<life, device, down, data_regs, attended, keyMap, ps2, clickpadState, padClick,
                   relative>>
    /\ UNCHANGED f17Vars

(* Functions are attached one after the other, F17 first, and have their   *)
(* attention() called afterwards.                                          *)
F17Step ==
    /\ function = 17
    /\ \/ (ReadDeviceQuery \/ InitStick \/ InitError) /\ UNCHANGED vars
       \/ life = "up" /\ StickAttention
    /\ UNCHANGED <<function, stick>>

(* The pins, read and reported as GpioButtons has it.  (An F17 that failed *)
(* is gone, and nobody is told of the trackpoint's buttons.)               *)
PinStep ==
    /\ function = 17
    /\ life17 = "up"
    /\ Attach \/ AttachError \/ Attention \/ AttentionError \/ \E i \in Pins : Press(i)
    /\ UNCHANGED stickVars

F03Step ==
    /\ function = 3
    /\ Next
    /\ UNCHANGED stickVars

TrackpointNext == F03Step \/ PinStep \/ F17Step

TrackpointSpec == TrackpointInit /\ [][TrackpointNext]_trackpointVars

-----------------------------------------------------------------------------
(* Every variable has its type; data have addresses that F17 went past.    *)
TrackpointTypeOK ==
    /\ TypeOK
    /\ function \in {3, 17} /\ stick \in Stick
    /\ life17 \in {"query", "sticks", "up", "failed"}
    /\ number_of_sticks \in 0 .. 7
    /\ \A i \in DOMAIN sticks :
          sticks[i].general \subseteq Kind /\ sticks[i].address \in [sticks[i].general -> 0 .. next_data_reg - 1]
    /\ next_query_reg \in Nat /\ next_data_reg \in Nat

(* Every stick is taken for what it is and its data are read from where    *)
(* they are, whatever the sticks before it have; once attach() succeeds    *)
(* none is missing.                                                        *)
SticksExact ==
    /\ \A i \in DOMAIN sticks :
          /\ i \in DOMAIN stick /\ sticks[i].general = stick[i]
          /\ \A k \in stick[i] : sticks[i].address[k] = DataAddr(i, k)
    /\ life17 = "up" => DOMAIN sticks = DOMAIN stick

(* With either function the buttons are those of GpioButtons: a trackstick *)
(* does to them what a trackpoint without buttons of its own does, however *)
(* many sticks it reports and whichever of them it cannot read.            *)
ImplementsButtons == Spec
=============================================================================
