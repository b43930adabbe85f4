---------------------------- MODULE F11Registers ----------------------------
(***************************************************************************)
(* Function F11 of VoodooRMI, the sensor of older touchpads: attach() goes *)
(* through query registers, of which those read tell which ones follow;    *)
(* what it learns gives the layout of a packet and the control bits to     *)
(* turn off (Functions/F11.cpp).  What becomes of a report is              *)
(* FingerTracking's.                                                       *)
(*                                                                         *)
(* A register is the set of its bits.  The fields of sens_query and the    *)
(* has_query... of F11 are bits of the registers they come from, so they   *)
(* are kept as these registers; coordinates are left out.                  *)
(***************************************************************************)
EXTENDS Integers, FiniteSets

CONSTANTS
    Device        \* the touchpads: where their query registers begin, what is
                  \* in those, and the control bits that are set after a reset

QueryReg == 0 .. 36
Bit      == 0 .. 7

RMI_F11_QUERY_SIZE         == 4
RMI_F11_QUERY_GESTURE_SIZE == 2
RMI_F11_ABS_BYTES          == 5
RMI_F11_CTRL_REG_COUNT     == 12
MAX_FINGERS                == 10

CtrlBit == (0 .. RMI_F11_CTRL_REG_COUNT - 1) \X Bit

(* What the queries say: the register and the bit of each.                 *)
HAS_QUERY9        == <<0, 3>>
HAS_QUERY11       == <<0, 4>>
HAS_QUERY12       == <<0, 5>>
HAS_QUERY27       == <<0, 6>>
HAS_QUERY28       == <<0, 7>>
HAS_REL           == <<1, 3>>
HAS_ABS           == <<1, 4>>
HAS_GESTURES      == <<1, 5>>
HAS_DRIBBLE       == <<5, 4>>
HAS_JITTER_FILTER == <<5, 7>>
HAS_FLICK         == <<7, 4>>
HAS_PINCH         == <<7, 6>>
HAS_PALM_DET      == <<8, 0>>
HAS_ROTATE        == <<8, 1>>
HAS_TOUCH_SHAPES  == <<8, 2>>
HAS_INFO2         == <<12, 4>>
HAS_PHYSICAL      == <<12, 5>>
HAS_QUERY36       == <<28, 6>>
HAS_ACM           == <<36, 5>>

(* And the control bits that attach() turns off.                           *)
DRIBBLE  == <<0, 6>>
PALM_DET == <<11, 0>>

VARIABLES
    device,
    devControls,     \* the bits set in its control registers
    life,            \* how far attach() is, named for what it does next
    query_size,      \* in rmi_f11_get_query_parameters
    sens_query,      \* the query registers as the driver has read them
    asked,           \* and which of them it has read
    nbr_fingers, pkt_size,
    dev_controls,    \* ctrl0_11
    trackpadEnable,
    objects          \* fingers in the last report

queryVars  == <<query_size, sens_query, asked>>
packetVars == <<nbr_fingers, pkt_size>>
vars == <<device, devControls, life, queryVars, packetVars, dev_controls, trackpadEnable, objects>>

-----------------------------------------------------------------------------
Has(query, f) == f[2] \in query[f[1]]

DIV_ROUND_UP(n, d) == (n + d - 1) \div d

(* A number in the low bits of a register, five of them at most.           *)
Number(bits, width) ==
    LET Value(b, v) == IF b \in bits /\ b < width THEN v ELSE 0
    IN  Value(0, 1) + Value(1, 2) + Value(2, 4) + Value(3, 8) + Value(4, 16)

(* The touchpad: it has the query registers that the ones before announce, *)
(* one after another.  Of 29 to 35, which are not looked at, one is there. *)
Present(q) ==
    0 .. 4
      \cup (IF Has(q, HAS_ABS) THEN {5} ELSE {})
      \cup (IF Has(q, HAS_REL) THEN {6} ELSE {})
      \cup (IF Has(q, HAS_GESTURES) THEN {7, 8} ELSE {})
      \cup (IF Has(q, HAS_QUERY9) THEN {9} ELSE {})
      \cup (IF Has(q, HAS_GESTURES) /\ Has(q, HAS_TOUCH_SHAPES) THEN {10} ELSE {})
      \cup (IF Has(q, HAS_QUERY11) THEN {11} ELSE {})
      \cup (IF Has(q, HAS_QUERY12) THEN {12} ELSE {})
      \cup (IF Has(q, HAS_ABS) /\ Has(q, HAS_JITTER_FILTER) THEN {13} ELSE {})
      \cup (IF Has(q, HAS_QUERY12) /\ Has(q, HAS_INFO2) THEN {14} ELSE {})
      \cup (IF Has(q, HAS_QUERY12) /\ Has(q, HAS_PHYSICAL) THEN 15 .. 26 ELSE {})
      \cup (IF Has(q, HAS_QUERY27) THEN {27} ELSE {})
      \cup (IF Has(q, HAS_QUERY28) THEN {28} ELSE {})
      \cup (IF Has(q, HAS_QUERY28) /\ Has(q, HAS_QUERY36) THEN {29, 36} ELSE {})

(* What is assumed of a touchpad: its query registers are all on page 0,   *)
(* since query_offset is a UInt8 and loses the page.                       *)
DeviceOK ==
    /\ Device \subseteq [qryAddr : 0 .. 255, query : [QueryReg -> SUBSET Bit],
                         control : SUBSET CtrlBit]
    /\ \A d \in Device : d.qryAddr + Cardinality(Present(d.query)) <= 256

(* What is read at an address: a query register, or nothing.               *)
Register(address) ==
    UNION {device.query[r] : r \in {r \in Present(device.query) :
        device.qryAddr + Cardinality({p \in Present(device.query) : p < r}) = address}}

-----------------------------------------------------------------------------
Init ==
    /\ device \in Device
    /\ devControls = device.control
    /\ life = "device" /\ query_size = 0
    /\ sens_query = [q \in QueryReg |-> {}] /\ asked = {}
    /\ nbr_fingers = 0 /\ pkt_size = 0 /\ dev_controls = {}
    /\ trackpadEnable = TRUE /\ objects = 0

rest == <<device, devControls, packetVars, dev_controls, trackpadEnable, objects>>

(* Query 0, of the function and not of the sensor.                         *)
ReadDeviceQuery ==
    /\ life = "device"
    /\ \/ /\ sens_query' = [sens_query EXCEPT ![0] = Register(device.qryAddr)]
          /\ asked' = {0}
          /\ life' = "sensor"
       \/ life' = "failed" /\ UNCHANGED <<sens_query, asked>>
    /\ UNCHANGED <<query_size, rest>>

(* Where the sensor's queries begin: query_offset is a UInt8.              *)
query_base_addr == (device.qryAddr + 1) % 256

(* One of the reads of rmi_f11_get_query_parameters, if it is wanted: of n *)
(* registers from the cursor on, which are taken to be first, first+1 ...; *)
(* the cursor then goes on by "advance".                                   *)
Query(here, next, wanted, first, n, advance) ==
    /\ life = here
    /\ \/ /\ wanted
          /\ sens_query' = [q \in QueryReg |->
                               IF q \in first .. first + n - 1
                               THEN Register(query_base_addr + query_size + q - first)
                               ELSE sens_query[q]]
          /\ asked' = asked \cup (first .. first + n - 1)
          /\ query_size' = query_size + advance
          /\ life' = next
       \/ /\ wanted
          /\ life' = "failed"
          /\ UNCHANGED queryVars
       \/ /\ ~wanted
          /\ life' = next
          /\ UNCHANGED queryVars
    /\ UNCHANGED rest

(* The boolean fields of f11_2d_sensor_queries, and has_query9 ... of F11.  *)
Told(f) == Has(sens_query, f)

ReadSensorQuery == Query("sensor", "abs", TRUE, 1, RMI_F11_QUERY_SIZE, RMI_F11_QUERY_SIZE)
ReadAbs      == Query("abs", "rel", Told(HAS_ABS), 5, 1, 1)
ReadRel      == Query("rel", "gestures", Told(HAS_REL), 6, 1, 1)
ReadGestures == Query("gestures", "pen", Told(HAS_GESTURES), 7, RMI_F11_QUERY_GESTURE_SIZE, 2)
ReadPen      == Query("pen", "shapes", Told(HAS_QUERY9), 9, 1, 1)
ReadShapes   == Query("shapes", "tuning", Told(HAS_TOUCH_SHAPES), 10, 1, 1)
ReadTuning   == Query("tuning", "tuning2", Told(HAS_QUERY11), 11, 1, 1)
ReadTuning2  == Query("tuning2", "jitter", Told(HAS_QUERY12), 12, 1, 1)
ReadJitter   == Query("jitter", "misc", Told(HAS_JITTER_FILTER), 13, 1, 1)
ReadMisc     == Query("misc", "size", Told(HAS_INFO2), 14, 1, 1)

(* Mutant of ReadSize: what is not read is not skipped.                    *)
ReadSizeNoSkip == Query("size", "query27", Told(HAS_PHYSICAL), 15, 4, 4)

(* The size of the sensor; the bezel, 19 to 26, is skipped.                *)
ReadSize == Query("size", "query27", Told(HAS_PHYSICAL), 15, 4, 12)

SkipQuery27 ==
    /\ life = "query27"
    /\ query_size' = query_size + IF Told(HAS_QUERY27) THEN 1 ELSE 0
    /\ life' = "query28"
    /\ UNCHANGED <<sens_query, asked, rest>>

(* query_size += 2 goes past this register and the one after it.           *)
ReadQuery28 ==
    Query("query28", "query36", Told(HAS_QUERY28), 28, 1,
          IF Has([sens_query EXCEPT ![28] = Register(query_base_addr + query_size)], HAS_QUERY36)
          THEN 2 ELSE 0)

ReadQuery36 == Query("query36", "limits", Told(HAS_QUERY36), 36, 1, 0)

(* "No size data from Device", "No absolute reporting support!"; then the  *)
(* largest coordinates are read.                                           *)
ReadLimits ==
    /\ life = "limits"
    /\ \/ Told(HAS_PHYSICAL) /\ Told(HAS_ABS) /\ life' = "construct"
       \/ life' = "failed"
    /\ UNCHANGED <<queryVars, rest>>

-----------------------------------------------------------------------------
(* The fingers the touchpad can tell apart: there is a special value.      *)
Fingers(query) == IF Number(query[1], 3) = 5 THEN 10 ELSE Number(query[1], 3) + 1

SizeIf(condition, n) == IF condition THEN n ELSE 0

(* The parts of a packet after the fingers' states and positions.          *)
Trailing(query) ==
    SizeIf(Has(query, HAS_REL), 2 * Fingers(query))
      + SizeIf(query[7] # {}, 1)
      + SizeIf(query[7] # {} \/ query[8] # {}, 1)
      + (IF Has(query, HAS_PINCH) \/ Has(query, HAS_FLICK) \/ Has(query, HAS_ROTATE)
         THEN 1 + SizeIf(Has(query, HAS_FLICK), 1) + SizeIf(Has(query, HAS_ROTATE), 1)
         ELSE 0)
      + SizeIf(Has(query, HAS_TOUCH_SHAPES), DIV_ROUND_UP(Number(query[10], 5) + 1, 8))

(* f11_2d_construct_data: the layout of a packet, and its memory.          *)
ConstructData ==
    /\ life = "construct"
    /\ nbr_fingers' = Fingers(sens_query)
    /\ pkt_size' = DIV_ROUND_UP(nbr_fingers', 4)
                     + SizeIf(Told(HAS_ABS), RMI_F11_ABS_BYTES * nbr_fingers')
                     + Trailing(sens_query)
    /\ life' \in {"control", "failed"}
    /\ UNCHANGED <<device, devControls, queryVars, dev_controls, trackpadEnable, objects>>

(* "RMI_REG_STATE_OFF": the control bits that are turned off.              *)
Off(query) ==
    (IF Has(query, HAS_DRIBBLE) THEN {DRIBBLE} ELSE {})
      \cup (IF Has(query, HAS_PALM_DET) THEN {PALM_DET} ELSE {})

(* f11_read_control_regs, and the bits in the driver's copy.               *)
ReadControls ==
    /\ life = "control"
    /\ \/ dev_controls' = devControls \ Off(sens_query) /\ life' = "write"
       \/ life' = "failed" /\ UNCHANGED dev_controls
    /\ UNCHANGED <<device, devControls, queryVars, packetVars, trackpadEnable, objects>>

(* f11_write_control_regs; an error is only logged.                        *)
WriteControls ==
    /\ life = "write"
    /\ devControls' \in {dev_controls, devControls}
    /\ life' = "ready"
    /\ UNCHANGED <<device, queryVars, packetVars, dev_controls, trackpadEnable, objects>>

-----------------------------------------------------------------------------
(* config(): the copy is written again, but to the address of the query    *)
(* registers, which cannot be written.                                     *)
Config ==
    /\ life = "ready"
    /\ life' = "configured"
    /\ UNCHANGED <<device, devControls, queryVars, packetVars, dev_controls, trackpadEnable, objects>>

(* attention(): the packet is read, and what it says of the fingers is     *)
(* reported.  (abs_size, nbr_fingers & 5, is never above pkt_size.)        *)
Attention ==
    /\ life \in {"ready", "configured"}
    /\ trackpadEnable
    /\ objects' = nbr_fingers
    /\ UNCHANGED <<device, devControls, life, queryVars, packetVars, dev_controls, trackpadEnable>>

(* message(kKeyboardSetTouchStatus).                                       *)
SetTouchStatus ==
    /\ life \in {"ready", "configured"}
    /\ trackpadEnable' = ~trackpadEnable
    /\ UNCHANGED <<device, devControls, life, queryVars, packetVars, dev_controls, objects>>

(* The touchpad is reset, or has its power cut while the system sleeps:    *)
(* the bus will call config().                                             *)
DeviceReset ==
    /\ life \in {"ready", "configured"}
    /\ devControls' = device.control
    /\ life' = "ready"
    /\ UNCHANGED <<device, queryVars, packetVars, dev_controls, trackpadEnable, objects>>

ReadQueries ==
    \/ ReadDeviceQuery
    \/ ReadSensorQuery
    \/ ReadAbs
    \/ ReadRel
    \/ ReadGestures
    \/ ReadPen
    \/ ReadShapes
    \/ ReadTuning
    \/ ReadTuning2
    \/ ReadJitter
    \/ ReadMisc
    \/ ReadSize
    \/ SkipQuery27
    \/ ReadQuery28
    \/ ReadQuery36

Next ==
    \/ ReadQueries
    \/ ReadLimits
    \/ ConstructData
    \/ ReadControls
    \/ WriteControls
    \/ Config
    \/ Attention
    \/ SetTouchStatus
    \/ DeviceReset

Spec == Init /\ [][Next]_vars

-----------------------------------------------------------------------------
(* Every variable has its type; a report has no more objects than its      *)
(* array holds.                                                            *)
TypeOK ==
    /\ devControls \subseteq CtrlBit /\ dev_controls \subseteq CtrlBit
    /\ life \in {"device", "sensor", "abs", "rel", "gestures", "pen", "shapes", "tuning",
                 "tuning2", "jitter", "misc", "size", "query27", "query28", "query36",
                 "limits", "construct", "control", "write", "ready", "configured", "failed"}
    /\ query_size \in 0 .. 36
    /\ sens_query \in [QueryReg -> SUBSET Bit] /\ asked \subseteq QueryReg
    /\ nbr_fingers \in Nat /\ pkt_size \in Nat
    /\ trackpadEnable \in BOOLEAN
    /\ objects \in 0 .. MAX_FINGERS

(* Every register the driver takes for some query is that query, and it    *)
(* reads one that the touchpad has: whichever are announced, the cursor is *)
(* never one off.                                                          *)
QueriesExact ==
    \A q \in asked : q \in Present(device.query) /\ sens_query[q] = device.query[q]

(* A report is of as many fingers as the touchpad can tell apart, whose    *)
(* states and positions all lie within what is read of its packet, and no  *)
(* more is read than it sends.                                             *)
ObjectsWhole ==
    objects # 0 =>
        LET n     == Fingers(device.query)
            whole == DIV_ROUND_UP(n, 4) + RMI_F11_ABS_BYTES * n
        IN  /\ objects = (IF Number(device.query[1], 3) = 5 THEN 10 ELSE Number(device.query[1], 3) + 1)
            /\ whole <= pkt_size
            /\ pkt_size = whole + Trailing([q \in QueryReg |->
                             IF q \in Present(device.query) THEN device.query[q] ELSE {}])

(* Of the touchpad's control bits the driver changes dribble and palm      *)
(* detection and no other, and those only if the touchpad has told that it *)
(* knows them, whatever else it has and after whichever error.             *)
ControlsKept ==
    /\ devControls \subseteq device.control
    /\ device.control \ devControls \subseteq
         {c \in {DRIBBLE, PALM_DET} :
            /\ c = DRIBBLE  => 5 \in Present(device.query) /\ Has(device.query, HAS_DRIBBLE)
            /\ c = PALM_DET => 8 \in Present(device.query) /\ Has(device.query, HAS_PALM_DET)}
=============================================================================
