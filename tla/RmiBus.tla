------------------------------- MODULE RmiBus -------------------------------
(***************************************************************************)
(* The bus driver between a transport and the functions of a touchpad      *)
(* (RMIBus.cpp, RMIBusPDT.cpp) with the control function F01 it relies on  *)
(* (Functions/F01.cpp): the scan of the page description table, which      *)
(* gives every function its interrupt bits; enabling and disabling the     *)
(* interrupts at start, sleep and resume; dispatch of a notification to    *)
(* the functions; and the end of the driver.                               *)
(*                                                                         *)
(* Threads: start() and the messages of the transport's power management,  *)
(* which never overlap, as the transport knows the bus only once start()   *)
(* has opened it (pc); the notification thread (irqPc); F01's own power    *)
(* management (f01Pc); and the thread that terminates the driver.          *)
(*                                                                         *)
(* A register of interrupt bits is the set of the numbers of its bits.     *)
(***************************************************************************)
EXTENDS Integers, Sequences

CONSTANTS
    Device,        \* touchpads: [table, has], table[p] the entries of page p,
                   \* has the control registers of F01's that not all have
    LastPage,      \* RMI_MAX_PAGE, 255
    MaxIrqs,       \* RMI_MAX_IRQS, 32: the width of irqMask
    RegBits,       \* bits of a register, 8
    ForwardsOpen   \* the transport's handleOpen calls RMITransport's

(* What a function is to the bus; "other" is one the driver has no class for. *)
Kind == {"F01", "trackpad", "trackpoint", "gpio", "other"}

ASSUME SizeAssumption ==
    /\ LastPage \in Nat
    /\ MaxIrqs \in Nat \ {0}
    /\ RegBits \in Nat \ {0}
    /\ ForwardsOpen \in BOOLEAN
ASSUME DeviceAssumption ==
    Device \subseteq [table : [0 .. LastPage -> Seq([kind : Kind, bits : Nat])],
                      has : SUBSET {"doze", "lts", "holdoff"}]

VARIABLES
    device,                   \* the touchpad at hand
    devEnabled, devPending,   \* its interrupt enable and status registers
    devMode,                  \* its sleep mode
    pc, caller,               \* start() or a power message; who called rmiEnableSensor
    page, slot, blankPages,   \* rmiScanPdt
    irqCount, irqMask, functions, controlFunction,   \* fields of RMIBus
    numIrqRegs, f01Mask, dozeAddr, ctrl0,            \* fields of F01; dozeAddr is
                              \* the control register after the interrupt enables
    current,                  \* currentEnabledIRQs in clearIRQs
    irqsOk,                   \* the last setIRQs or clearIRQs succeeded
    bus, isOpen, life,        \* transport->bus is set, its isOpen(); this driver
    irqPc, irqStatus, todo,   \* handleHostNotify
    f01Pc, f01State           \* F01::setPowerState

devVars  == <<device, devEnabled, devPending, devMode>>
scanVars == <<page, slot, blankPages, irqCount, irqMask, functions, controlFunction>>
maskVars == <<numIrqRegs, f01Mask, dozeAddr>>
workVars == <<caller, current, irqsOk>>
lifeVars == <<bus, isOpen, life>>
irqVars  == <<irqPc, irqStatus, todo>>
f01Vars  == <<ctrl0, f01Pc, f01State>>
vars == <<devVars, pc, scanVars, maskVars, workVars, lifeVars, irqVars, f01Vars>>

Bit == 0 .. MaxIrqs - 1

(* The bits of the registers that readIRQ and setIRQs transfer.            *)
RegisterBits == 0 .. RegBits * numIrqRegs - 1

Entries == device.table[page]

Init ==
    /\ device \in Device
    /\ devEnabled = {} /\ devPending = {} /\ devMode = "normal"
    /\ pc = "scan" /\ caller = "start"
    /\ page = 0 /\ slot = 1 /\ blankPages = 0
    /\ irqCount = 0 /\ irqMask = {} /\ functions = {} /\ controlFunction = FALSE
    /\ numIrqRegs = 0 /\ f01Mask = {} /\ dozeAddr = 0 /\ ctrl0 = "normal"
    /\ current = {} /\ irqsOk = FALSE
    /\ bus = FALSE /\ isOpen = FALSE /\ life = "alive"
    /\ irqPc = "idle" /\ irqStatus = {} /\ todo = {}
    /\ f01Pc = "idle" /\ f01State = "on"

-----------------------------------------------------------------------------
(* start() goes to err: the functions found so far are stopped and dropped. *)
Fail ==
    /\ pc' = "failed"
    /\ functions' = {}

(* Mutant of EntryMask: the mask is not shifted by irqCount.               *)
EntryMaskUnshifted(e) == (0 .. e.bits - 1) \cap Bit

(* rmiReadPdtEntry: ((1 << interruptBits) - 1) << irqCount.                *)
EntryMask(e) == (irqCount .. irqCount + e.bits - 1) \cap Bit

(* Every entry claims its bits, also those of functions that have no       *)
(* class, before anything else is done with it.                            *)
ClaimBits(e) ==
    /\ irqMask' = irqMask \cup EntryMask(e)
    /\ irqCount' = irqCount + e.bits

(* Reading an entry fails.                                                 *)
ReadEntryError ==
    /\ pc = "scan"
    /\ Fail
    /\ UNCHANGED <<devVars, page, slot, blankPages, irqCount, irqMask, controlFunction,
                   maskVars, workVars, lifeVars, irqVars, f01Vars>>

(* rmiHandlePdtEntry: more bits than the mask can hold; or the function    *)
(* cannot be attached and started.                                         *)
HandleEntryError ==
    /\ pc = "scan"
    /\ slot <= Len(Entries)
    /\ LET e == Entries[slot]
       IN  /\ irqCount + e.bits > MaxIrqs \/ e.kind # "other"
           /\ ClaimBits(e)
    /\ Fail
    /\ UNCHANGED <<devVars, page, slot, blankPages, controlFunction, maskVars, workVars,
                   lifeVars, irqVars, f01Vars>>

(* rmiHandlePdtEntry: the function is attached, unless it has no class.    *)
(* F01::attach writes its control register, clears the interrupts, and     *)
(* works out where the doze registers are from numIrqRegs.                 *)
HandleEntry ==
    /\ pc = "scan"
    /\ slot <= Len(Entries)
    /\ LET e == Entries[slot]
           f == [kind |-> e.kind, page |-> page, slot |-> slot, mask |-> EntryMask(e)]
       IN  /\ irqCount + e.bits <= MaxIrqs
           /\ ClaimBits(e)
           /\ functions' = IF e.kind = "other" THEN functions ELSE functions \cup {f}
           /\ IF e.kind = "F01"
              THEN /\ controlFunction' = TRUE
                   /\ dozeAddr' = 1 + numIrqRegs
                   /\ devPending' = {}
              ELSE UNCHANGED <<controlFunction, dozeAddr, devPending>>
    /\ slot' = slot + 1
    /\ UNCHANGED <<device, devEnabled, devMode, pc, page, blankPages, numIrqRegs, f01Mask,
                   workVars, lifeVars, irqVars, f01Vars>>

(* Mutant of BlankPages: the count is of all blank pages.                  *)
BlankPagesNoReset == IF slot = 1 THEN blankPages + 1 ELSE blankPages

(* The count of blank pages in a row, when the scan of a page ends.        *)
BlankPages == IF slot = 1 THEN blankPages + 1 ELSE 0

(* Mutant of LastToScan: the page number is not bounded.                   *)
TwoBlankPages == BlankPages >= 2

LastToScan == page = LastPage \/ BlankPages >= 2

(* The entry has function number 0 or 0xFF: the next page.                 *)
NextPage ==
    /\ pc = "scan"
    /\ slot > Len(Entries)
    /\ ~LastToScan
    /\ page' = page + 1 /\ slot' = 1 /\ blankPages' = BlankPages
    /\ UNCHANGED <<devVars, pc, irqCount, irqMask, functions, controlFunction, maskVars,
                   workVars, lifeVars, irqVars, f01Vars>>

(* Mutant of RegistersFor: a last register that is not full is forgotten.  *)
RegistersForFull(bits) == bits \div RegBits

(* setIRQMask: the number of registers that hold so many bits.             *)
RegistersFor(bits) == (bits + RegBits - 1) \div RegBits

(* The scan ends: without F01 start() fails, else F01 learns the mask.     *)
ScanDone ==
    /\ pc = "scan"
    /\ slot > Len(Entries)
    /\ LastToScan
    /\ IF controlFunction
       THEN /\ numIrqRegs' = RegistersFor(irqCount)
            /\ f01Mask' = irqMask
            /\ pc' = "config"
            /\ UNCHANGED functions
       ELSE Fail /\ UNCHANGED <<numIrqRegs, f01Mask>>
    /\ UNCHANGED <<devVars, page, slot, blankPages, irqCount, irqMask, controlFunction,
                   dozeAddr, workVars, lifeVars, irqVars, f01Vars>>

-----------------------------------------------------------------------------
(* The registers of the doze interval and the wakeup threshold, and of the *)
(* doze holdoff, which come in this order with that for LTS in between.    *)
DozeRegisters ==
    LET doze == IF "doze" \in device.has THEN 2 ELSE 0
        lts  == IF "lts" \in device.has THEN 1 ELSE 0
    IN  (dozeAddr .. dozeAddr + doze - 1)
          \cup (IF "holdoff" \in device.has THEN {dozeAddr + doze + lts} ELSE {})

(* rmiEnableSensor, the config() of every function.  Of F01's: the control *)
(* register is written as the driver has it at that moment.  An error,     *)
(* which like that of any write here does not tell whether the touchpad    *)
(* took the value, is only logged.                                         *)
ConfigControl ==
    /\ pc = "config"
    /\ \/ devMode' = ctrl0 /\ pc' = IF DozeRegisters = {} THEN "status" ELSE "doze"
       \/ devMode' \in {devMode, ctrl0} /\ pc' = "status"
    /\ UNCHANGED <<device, devEnabled, devPending, scanVars, maskVars, workVars, lifeVars,
                   irqVars, f01Vars>>

(* ... and the doze registers, up to or with a write that fails.  Addresses *)
(* are counted as the control registers are: 0, then the interrupt enables. *)
ConfigDoze ==
    /\ pc = "doze"
    /\ pc' = "status"
    /\ \E written \in SUBSET DozeRegisters :
          /\ \A a \in written, b \in DozeRegisters : b < a => b \in written
          /\ LET hit == (UNION {RegBits * (a - 1) .. RegBits * a - 1 : a \in written}) \cap RegisterBits
             IN  \E bits \in SUBSET hit : devEnabled' = (devEnabled \ hit) \cup bits
    /\ UNCHANGED <<device, devPending, devMode, scanVars, maskVars, workVars, lifeVars,
                   irqVars, f01Vars>>

(* setIRQs: "Dummy read in order to clear irqs", which may fail.           *)
ReadStatus ==
    /\ pc = "status"
    /\ pc' = "write"
    /\ devPending' \in {devPending, {}}
    /\ UNCHANGED <<device, devEnabled, devMode, scanVars, maskVars, workVars, lifeVars,
                   irqVars, f01Vars>>

(* setIRQs: the mask is written; an error is the result of                 *)
(* rmiEnableSensor, and start() fails with it.                             *)
WriteMask ==
    /\ pc = "write"
    /\ \/ /\ devEnabled' = f01Mask
          /\ irqsOk' = TRUE
          /\ pc' = IF caller = "start" THEN "open" ELSE "up"
          /\ UNCHANGED functions
       \/ /\ devEnabled' \in {devEnabled, f01Mask}
          /\ irqsOk' = FALSE
          /\ IF caller = "start" THEN Fail ELSE pc' = "up" /\ UNCHANGED functions
    /\ UNCHANGED <<device, devPending, devMode, page, slot, blankPages, irqCount, irqMask,
                   controlFunction, maskVars, caller, current, lifeVars, irqVars, f01Vars>>

(* transport->open(this), and the end of start().                          *)
Open ==
    /\ pc = "open"
    /\ \/ /\ pc' = "up"
          /\ bus' = TRUE
          /\ isOpen' = ForwardsOpen
          /\ UNCHANGED functions
       \/ /\ Fail
          /\ UNCHANGED <<bus, isOpen>>
    /\ UNCHANGED <<devVars, page, slot, blankPages, irqCount, irqMask, controlFunction,
                   maskVars, workVars, life, irqVars, f01Vars>>

-----------------------------------------------------------------------------
(* message(kIOMessageRMI4Sleep): clearIRQs.                                *)
Sleep ==
    /\ pc = "up"
    /\ bus
    /\ pc' = "clear"
    /\ UNCHANGED <<devVars, scanVars, maskVars, workVars, lifeVars, irqVars, f01Vars>>

(* clearIRQs: the status is read, whether or not that succeeds, and the    *)
(* enable registers; an error of the latter ends it.                       *)
ReadEnabled ==
    /\ pc = "clear"
    /\ devPending' \in {devPending, {}}
    /\ \/ pc' = "disable" /\ current' = devEnabled /\ UNCHANGED irqsOk
       \/ pc' = "asleep" /\ irqsOk' = FALSE /\ UNCHANGED current
    /\ UNCHANGED <<device, devEnabled, devMode, scanVars, maskVars, caller, lifeVars,
                   irqVars, f01Vars>>

(* Mutant of Disabled: the known interrupts are the ones that stay.        *)
DisabledOthers == current \cap f01Mask

(* clearIRQs: "Disable all known IRQs".                                    *)
Disabled == current \ f01Mask

DisableIrqs ==
    /\ pc = "disable"
    /\ pc' = "asleep"
    /\ \/ devEnabled' = Disabled /\ irqsOk' = TRUE
       \/ devEnabled' \in {devEnabled, Disabled} /\ irqsOk' = FALSE
    /\ current' = {}
    /\ UNCHANGED <<device, devPending, devMode, scanVars, maskVars, caller, lifeVars,
                   irqVars, f01Vars>>

(* The system sleeps and the touchpad loses its power.                     *)
DevicePowerLoss ==
    /\ pc = "asleep"
    /\ devEnabled' = {} /\ devPending' = {} /\ devMode' = "normal"
    /\ UNCHANGED <<device, pc, scanVars, maskVars, workVars, lifeVars, irqVars, f01Vars>>

(* message(kIOMessageRMI4Resume) or (kIOMessageRMI4ResetHandler):          *)
(* rmiEnableSensor.                                                        *)
Resume ==
    /\ pc \in {"up", "asleep"}
    /\ bus
    /\ pc' = "config" /\ caller' = "resume"
    /\ UNCHANGED <<devVars, scanVars, maskVars, current, irqsOk, lifeVars, irqVars, f01Vars>>

(* The transport could not wake the touchpad and sends no message.         *)
ResumeError ==
    /\ pc = "asleep"
    /\ pc' = "up"
    /\ irqsOk' = FALSE
    /\ UNCHANGED <<devVars, scanVars, maskVars, caller, current, lifeVars, irqVars, f01Vars>>

-----------------------------------------------------------------------------
(* A function of the touchpad has something to report.                     *)
DeviceEvent(b) ==
    /\ devMode = "normal"
    /\ b \notin devPending
    /\ devPending' = devPending \cup {b}
    /\ UNCHANGED <<device, devEnabled, devMode, pc, scanVars, maskVars, workVars, lifeVars,
                   irqVars, f01Vars>>

(* The transport delivers a notification; one that polls does it at any    *)
(* time, whatever the touchpad reports.                                    *)
HostNotify ==
    /\ irqPc = "idle"
    /\ bus
    /\ irqPc' = "read"
    /\ UNCHANGED <<devVars, pc, scanVars, maskVars, workVars, lifeVars, irqStatus, todo,
                   f01Vars>>

(* handleHostNotify: readIRQ fills the bytes of irqStatus that there are   *)
(* registers for; the others are not initialised.                          *)
ReadIrq ==
    /\ irqPc = "read"
    /\ \E garbage \in SUBSET (Bit \ RegisterBits) :
          irqStatus' = (devPending \cap RegisterBits) \cup garbage
    /\ devPending' = devPending \ RegisterBits
    /\ irqPc' = "dispatch"
    /\ todo' = functions
    /\ UNCHANGED <<device, devEnabled, devMode, pc, scanVars, maskVars, workVars, lifeVars,
                   f01Vars>>

(* "Unable to read IRQ": whether or not the touchpad saw the read.         *)
ReadIrqError ==
    /\ irqPc = "read"
    /\ irqPc' = "idle"
    /\ devPending' \in {devPending, devPending \ RegisterBits}
    /\ UNCHANGED <<device, devEnabled, devMode, pc, scanVars, maskVars, workVars, lifeVars,
                   irqStatus, todo, f01Vars>>

hasAttnSig(f) == f.mask \cap irqStatus # {}

(* func->attention() for one of the functions.                             *)
Attend(f) ==
    /\ irqPc = "dispatch"
    /\ f \in todo
    /\ hasAttnSig(f)
    /\ todo' = todo \ {f}
    /\ UNCHANGED <<devVars, pc, scanVars, maskVars, workVars, lifeVars, irqPc, irqStatus,
                   f01Vars>>

(* handleHostNotifyLegacy, for a transport that delivers reports without   *)
(* the status registers: every function has its turn.  (A transport sends  *)
(* either this or the other message; here it may be any.)                  *)
HostNotifyLegacy ==
    /\ irqPc = "idle"
    /\ bus
    /\ irqPc' = "legacy"
    /\ todo' = functions
    /\ UNCHANGED <<devVars, pc, scanVars, maskVars, workVars, lifeVars, irqStatus, f01Vars>>

AttendLegacy(f) ==
    /\ irqPc = "legacy"
    /\ f \in todo
    /\ todo' = todo \ {f}
    /\ UNCHANGED <<devVars, pc, scanVars, maskVars, workVars, lifeVars, irqPc, irqStatus,
                   f01Vars>>

(* The iterator has no further function, or stop() has changed the set and *)
(* it is no longer valid.                                                  *)
EndDispatch ==
    /\ \/ irqPc \in {"dispatch", "legacy"} /\ functions = {}
       \/ irqPc = "dispatch" /\ \A f \in todo : ~hasAttnSig(f)
       \/ irqPc = "legacy" /\ todo = {}
    /\ irqPc' = "idle" /\ irqStatus' = {} /\ todo' = {}
    /\ UNCHANGED <<devVars, pc, scanVars, maskVars, workVars, lifeVars, f01Vars>>

-----------------------------------------------------------------------------
(* F01::setPowerState(RMI_POWER_OFF): rmi_f01_suspend changes the field ... *)
F01Suspend ==
    /\ f01Pc = "idle"
    /\ controlFunction /\ functions # {}
    /\ ctrl0' = "sleep"
    /\ f01Pc' = "suspend"
    /\ UNCHANGED <<devVars, pc, scanVars, maskVars, workVars, lifeVars, irqVars, f01State>>

(* ... and writes it; if that fails the field gets its value back.         *)
F01SuspendWrite ==
    /\ f01Pc = "suspend"
    /\ f01Pc' = "idle"
    /\ \/ devMode' = ctrl0 /\ f01State' = "off" /\ UNCHANGED ctrl0
       \/ devMode' \in {devMode, ctrl0} /\ f01State' = "unknown" /\ ctrl0' = "normal"
    /\ UNCHANGED <<device, devEnabled, devPending, pc, scanVars, maskVars, workVars,
                   lifeVars, irqVars>>

(* F01::setPowerState(RMI_POWER_ON): rmi_f01_resume changes the field ...  *)
F01Resume ==
    /\ f01Pc = "idle"
    /\ controlFunction /\ functions # {}
    /\ ctrl0' = "normal"
    /\ f01Pc' = "resume"
    /\ UNCHANGED <<devVars, pc, scanVars, maskVars, workVars, lifeVars, irqVars, f01State>>

(* Mutant of F01ResumeWrite: the byte written is that of before the change. *)
F01ResumeWriteStale ==
    /\ f01Pc = "resume"
    /\ f01Pc' = "idle"
    /\ f01State' = "on"
    /\ UNCHANGED <<devVars, ctrl0, pc, scanVars, maskVars, workVars, lifeVars, irqVars>>

(* ... and writes it.                                                      *)
F01ResumeWrite ==
    /\ f01Pc = "resume"
    /\ f01Pc' = "idle"
    /\ \/ devMode' = ctrl0 /\ f01State' = "on"
       \/ devMode' \in {devMode, ctrl0} /\ f01State' = "unknown"
    /\ UNCHANGED <<device, devEnabled, devPending, ctrl0, pc, scanVars, maskVars, workVars,
                   lifeVars, irqVars>>

-----------------------------------------------------------------------------
(* Mutant of WillTerminate: the transport stays open.                      *)
WillTerminateStayOpen ==
    /\ life = "alive" /\ bus
    /\ life' = "terminating"
    /\ UNCHANGED <<devVars, pc, scanVars, maskVars, workVars, bus, isOpen, irqVars, f01Vars>>

(* willTerminate: the transport is closed if it is open.                   *)
WillTerminate ==
    /\ life = "alive" /\ bus
    /\ life' = "terminating"
    /\ bus' = ~isOpen /\ isOpen' = FALSE
    /\ UNCHANGED <<devVars, pc, scanVars, maskVars, workVars, irqVars, f01Vars>>

(* stop: the functions are stopped and dropped, whatever is in progress.   *)
Stop ==
    /\ life = "terminating"
    /\ life' = "stopped"
    /\ functions' = {}
    /\ UNCHANGED <<devVars, pc, page, slot, blankPages, irqCount, irqMask, controlFunction,
                   maskVars, workVars, bus, isOpen, irqVars, f01Vars>>

Scan ==
    \/ ReadEntryError
    \/ HandleEntryError
    \/ HandleEntry
    \/ NextPage
    \/ ScanDone

EnableSensor ==
    \/ ConfigControl
    \/ ConfigDoze
    \/ ReadStatus
    \/ WriteMask

Power ==
    \/ Sleep
    \/ ReadEnabled
    \/ DisableIrqs
    \/ DevicePowerLoss
    \/ Resume
    \/ ResumeError

Notification ==
    \/ \E b \in 0 .. irqCount - 1 : DeviceEvent(b)
    \/ HostNotify
    \/ ReadIrq
    \/ ReadIrqError
    \/ HostNotifyLegacy
    \/ \E f \in todo : Attend(f) \/ AttendLegacy(f)
    \/ EndDispatch

F01Power ==
    \/ F01Suspend
    \/ F01SuspendWrite
    \/ F01Resume
    \/ F01ResumeWrite

Next ==
    \/ Scan
    \/ EnableSensor
    \/ Open
    \/ Power
    \/ Notification
    \/ F01Power
    \/ WillTerminate
    \/ Stop

Spec == Init /\ [][Next]_vars

-----------------------------------------------------------------------------
Function == [kind : Kind, page : 0 .. LastPage, slot : Nat, mask : SUBSET Bit]

(* Every variable has its type.                                            *)
TypeOK ==
    /\ device \in Device
    /\ devEnabled \subseteq Nat /\ devPending \subseteq Nat
    /\ devMode \in {"normal", "sleep"} /\ ctrl0 \in {"normal", "sleep"}
    /\ pc \in {"scan", "config", "doze", "status", "write", "open", "up", "clear",
               "disable", "asleep", "failed"}
    /\ caller \in {"start", "resume"}
    /\ page \in 0 .. LastPage /\ slot \in Nat \ {0} /\ blankPages \in {0, 1}
    /\ irqCount \in Nat /\ irqMask \subseteq Bit
    /\ functions \subseteq Function /\ todo \subseteq Function
    /\ controlFunction \in BOOLEAN
    /\ numIrqRegs \in Nat /\ f01Mask \subseteq Bit /\ dozeAddr \in Nat
    /\ current \subseteq Nat /\ irqStatus \subseteq Nat
    /\ irqsOk \in BOOLEAN /\ bus \in BOOLEAN /\ isOpen \in BOOLEAN
    /\ life \in {"alive", "terminating", "stopped"}
    /\ irqPc \in {"idle", "read", "dispatch", "legacy"}
    /\ f01Pc \in {"idle", "suspend", "resume"}
    /\ f01State \in {"on", "off", "unknown"}

(* Every interrupt bit belongs to one function at most, and by the time a  *)
(* notification can arrive readIRQ and setIRQs transfer the registers of   *)
(* all the bits: neither another function's event nor an uninitialised     *)
(* byte of irqStatus can be taken for a function's.                        *)
MasksApart ==
    /\ \A f, g \in functions : f # g => f.mask \cap g.mask = {}
    /\ bus => \A f \in functions : f.mask \subseteq RegisterBits \cap f01Mask

(* attention() is called only for a function one of whose bits the         *)
(* touchpad reported in the status registers that were read.               *)
AttendsReported ==
    [][\A f \in todo : Attend(f) => f.mask \cap irqStatus \cap RegisterBits # {}]_vars

(* The pages in use are those before two blank ones in a row.              *)
Blank(p) == device.table[p] = <<>>
InUse(p) == ~\E q \in 0 .. p - 2 : Blank(q) /\ Blank(q + 1)

Attachable(p) == {s \in 1 .. Len(device.table[p]) : device.table[p][s].kind # "other"}

(* A driver that is up has attached the functions of all pages in use,     *)
(* each once, and none of a page beyond.                                   *)
ScanComplete ==
    pc = "up" /\ life # "stopped" =>
        {<<f.page, f.slot>> : f \in functions} =
            UNION {{<<p, s>> : s \in Attachable(p)} : p \in {q \in 0 .. LastPage : InUse(q)}}

(* Between two messages, if the last one succeeded: the functions of a     *)
(* driver that is up have their interrupts, those of one that is asleep    *)
(* have none.  The config() of F01 overwrites enable registers in between. *)
IrqsAsAsked ==
    irqsOk => /\ pc = "up" => devEnabled = f01Mask
              /\ pc = "asleep" => devEnabled \cap f01Mask = {}

(* Once F01 has been resumed with success the touchpad is awake, in        *)
(* whatever order config() of the bus's resume, which writes the same      *)
(* register, and F01's own suspend and resume have taken place.            *)
AwakeWhenOn == f01Pc = "idle" /\ f01State = "on" => devMode = "normal"

(* A bus that is being terminated gets no notification any more: "Opening/ *)
(* Closing is needed to recieve interrupts" (RMITransport.hpp:30-32).      *)
QuietAfterClose == life # "alive" => ~bus

(* "Advance to interrupt control registers, then skip over them." (F01.cpp *)
(* :90): the doze registers are not among the interrupt enable registers.  *)
DozeApart == pc = "doze" => DozeRegisters \cap (1 .. numIrqRegs) = {}
=============================================================================
