---------------------------- MODULE RmiBusProofs ----------------------------
(***************************************************************************)
(* Proofs about RmiBus: for touchpads with any page description table, any *)
(* width of the mask and of a register, and any interleaving of the power  *)
(* messages, notifications, F01's power management and termination.        *)
(***************************************************************************)
EXTENDS RmiBus, SequenceTheorems, TLAPS

(* Enough registers are counted for all the bits.                          *)
LEMMA EnoughRegisters ==
    ASSUME NEW n \in Nat
    PROVE  RegistersFor(n) \in Nat /\ RegBits * RegistersFor(n) >= n
<1> DEFINE m == n + RegBits - 1
<1>1. RegBits \in Nat /\ RegBits > 0 /\ m \in Nat
    BY SizeAssumption
<1>2. m \div RegBits \in Nat
    BY <1>1
<1>3. m = RegBits * (m \div RegBits) + (m % RegBits) /\ m % RegBits \in 0 .. RegBits - 1
    BY <1>1
<1> QED BY <1>1, <1>2, <1>3 DEF RegistersFor

(* What a page holds.                                                      *)
LEMMA EntryType ==
    ASSUME TypeOK, slot <= Len(Entries)
    PROVE  Entries[slot].kind \in Kind /\ Entries[slot].bits \in Nat
<1>1. device.table[page] \in Seq([kind : Kind, bits : Nat])
    BY DeviceAssumption DEF TypeOK
<1>2. slot \in 1 .. Len(Entries)
    BY <1>1 DEF TypeOK, Entries
<1>3. Entries[slot] \in [kind : Kind, bits : Nat]
    <2> DEFINE q == device.table[page]
    <2>1. q \in Seq([kind : Kind, bits : Nat]) /\ slot \in 1 .. Len(q)
        BY <1>1, <1>2 DEF Entries
    <2> HIDE DEF q
    <2>2. q[slot] \in [kind : Kind, bits : Nat]
        BY <2>1, ElementOfSeq
    <2> QED BY <2>2 DEF q, Entries
<1> QED BY <1>3

-----------------------------------------------------------------------------
(* Type correctness, one lemma per group of actions.                       *)
LEMMA ScanType == TypeOK /\ Scan => TypeOK'
<1> SUFFICES ASSUME TypeOK, Scan PROVE TypeOK'
    OBVIOUS
<1> USE DEF TypeOK, devVars, maskVars, workVars, lifeVars, irqVars, f01Vars
<1>1. CASE ReadEntryError
    BY <1>1 DEF ReadEntryError, Fail
<1>2. CASE HandleEntryError
    BY <1>2, EntryType DEF HandleEntryError, Fail, ClaimBits, EntryMask
<1>3. CASE HandleEntry
    <2> DEFINE e == Entries[slot]
               f == [kind |-> e.kind, page |-> page, slot |-> slot, mask |-> EntryMask(e)]
    <2>1. f \in Function /\ e.bits \in Nat
        BY <1>3, EntryType DEF HandleEntry, Function, EntryMask
    <2>2. functions' \subseteq Function
        BY <1>3, <2>1 DEF HandleEntry
    <2>3. irqCount' \in Nat /\ irqMask' \subseteq Bit
        BY <1>3, <2>1 DEF HandleEntry, ClaimBits, EntryMask
    <2>4. controlFunction' \in BOOLEAN /\ dozeAddr' \in Nat /\ devPending' \subseteq Nat
        <3>1. CASE e.kind = "F01"
            <4>1. dozeAddr' = 1 + numIrqRegs /\ controlFunction' = TRUE /\ devPending' = {}
                BY <1>3, <3>1 DEF HandleEntry
            <4> QED BY <4>1
        <3>2. CASE e.kind # "F01"
            <4>1. UNCHANGED <<controlFunction, dozeAddr, devPending>>
                BY <1>3, <3>2 DEF HandleEntry
            <4> QED BY <4>1
        <3> QED BY <3>1, <3>2
    <2> HIDE DEF e, f
    <2> QED BY <1>3, <2>2, <2>3, <2>4 DEF HandleEntry
<1>4. CASE NextPage
    BY <1>4, SizeAssumption DEF NextPage, LastToScan, BlankPages
<1>5. CASE ScanDone
    <2>1. /\ numIrqRegs' \in Nat /\ f01Mask' \subseteq Bit /\ functions' \subseteq Function
          /\ pc' \in {"config", "failed"}
        BY <1>5, EnoughRegisters DEF ScanDone, Fail
    <2> QED BY <1>5, <2>1 DEF ScanDone
<1> QED BY <1>1, <1>2, <1>3, <1>4, <1>5 DEF Scan

LEMMA MessageType == TypeOK /\ (EnableSensor \/ Open \/ Power) => TypeOK'
<1> SUFFICES ASSUME TypeOK, EnableSensor \/ Open \/ Power PROVE TypeOK'
    OBVIOUS
<1> USE DEF TypeOK, devVars, scanVars, maskVars, workVars, lifeVars, irqVars, f01Vars
<1>1. CASE ConfigControl
    <2>1. devMode' \in {"normal", "sleep"} /\ pc' \in {"doze", "status"}
        BY <1>1 DEF ConfigControl
    <2>2. UNCHANGED <<device, devEnabled, devPending, scanVars, maskVars, workVars, lifeVars,
                      irqVars, f01Vars>>
        BY <1>1 DEF ConfigControl
    <2> QED BY <2>1, <2>2
<1>2. CASE ConfigDoze
    <2>1. devEnabled' \subseteq Nat
        <3>1. PICK written \in SUBSET DozeRegisters :
                 LET hit == (UNION {RegBits * (a - 1) .. RegBits * a - 1 : a \in written}) \cap RegisterBits
                 IN  \E bits \in SUBSET hit : devEnabled' = (devEnabled \ hit) \cup bits
            BY <1>2 DEF ConfigDoze
        <3>2. RegisterBits \subseteq Nat
            BY DEF RegisterBits
        <3> DEFINE hit == (UNION {RegBits * (a - 1) .. RegBits * a - 1 : a \in written}) \cap RegisterBits
        <3>3. hit \subseteq Nat
            BY <3>2
        <3>4. \E bits \in SUBSET hit : devEnabled' = (devEnabled \ hit) \cup bits
            BY <3>1
        <3> HIDE DEF hit
        <3> QED BY <3>3, <3>4
    <2> QED BY <1>2, <2>1 DEF ConfigDoze
<1>3. CASE ReadStatus
    BY <1>3 DEF ReadStatus
<1>4. CASE WriteMask
    <2>1. Bit \subseteq Nat
        BY SizeAssumption DEF Bit
    <2>2. /\ devEnabled' \subseteq Nat /\ irqsOk' \in BOOLEAN /\ functions' \subseteq Function
          /\ pc' \in {"open", "up", "failed"}
        BY <1>4, <2>1 DEF WriteMask, Fail
    <2>3. UNCHANGED <<device, devPending, devMode, page, slot, blankPages, irqCount, irqMask,
                      controlFunction, maskVars, caller, current, lifeVars, irqVars, f01Vars>>
        BY <1>4 DEF WriteMask
    <2> QED BY <2>2, <2>3
<1>5. CASE Open
    <2>1. /\ bus' \in BOOLEAN /\ isOpen' \in BOOLEAN /\ functions' \subseteq Function
          /\ pc' \in {"up", "failed"}
        BY <1>5, SizeAssumption DEF Open, Fail
    <2>2. UNCHANGED <<devVars, page, slot, blankPages, irqCount, irqMask, controlFunction,
                      maskVars, workVars, life, irqVars, f01Vars>>
        BY <1>5 DEF Open
    <2> QED BY <2>1, <2>2
<1>6. CASE Sleep \/ Resume
    <2>1. pc' \in {"clear", "config"} /\ caller' \in {"start", "resume"}
        BY <1>6 DEF Sleep, Resume
    <2>2. UNCHANGED <<devVars, scanVars, maskVars, current, irqsOk, lifeVars, irqVars, f01Vars>>
        BY <1>6 DEF Sleep, Resume
    <2> QED BY <2>1, <2>2
<1>7. CASE DevicePowerLoss
    BY <1>7 DEF DevicePowerLoss
<1>8. CASE ResumeError
    <2>1. irqsOk' \in BOOLEAN /\ pc' = "up"
        BY <1>8 DEF ResumeError
    <2>2. UNCHANGED <<devVars, scanVars, maskVars, caller, current, lifeVars, irqVars, f01Vars>>
        BY <1>8 DEF ResumeError
    <2> QED BY <2>1, <2>2
<1>9. CASE ReadEnabled
    <2>1. /\ devPending' \subseteq Nat /\ current' \subseteq Nat /\ irqsOk' \in BOOLEAN
          /\ pc' \in {"disable", "asleep"}
        BY <1>9 DEF ReadEnabled
    <2>2. UNCHANGED <<device, devEnabled, devMode, scanVars, maskVars, caller, lifeVars,
                      irqVars, f01Vars>>
        BY <1>9 DEF ReadEnabled
    <2> QED BY <2>1, <2>2
<1>10. CASE DisableIrqs
    <2>1. /\ devEnabled' \subseteq Nat /\ irqsOk' \in BOOLEAN /\ current' \subseteq Nat
          /\ pc' = "asleep"
        BY <1>10 DEF DisableIrqs, Disabled
    <2>2. UNCHANGED <<device, devPending, devMode, scanVars, maskVars, caller, lifeVars,
                      irqVars, f01Vars>>
        BY <1>10 DEF DisableIrqs
    <2> QED BY <2>1, <2>2
<1> QED BY <1>1, <1>2, <1>3, <1>4, <1>5, <1>6, <1>7, <1>8, <1>9, <1>10 DEF EnableSensor, Power

LEMMA OtherType == TypeOK /\ (Notification \/ F01Power \/ WillTerminate \/ Stop) => TypeOK'
<1> SUFFICES ASSUME TypeOK, Notification \/ F01Power \/ WillTerminate \/ Stop PROVE TypeOK'
    OBVIOUS
<1> USE DEF TypeOK, devVars, scanVars, maskVars, workVars, lifeVars, irqVars, f01Vars
<1>1. CASE \E b \in 0 .. irqCount - 1 : DeviceEvent(b)
    BY <1>1 DEF DeviceEvent
<1>2. CASE HostNotify
    BY <1>2 DEF HostNotify
<1>3. CASE ReadIrq
    <2>1. Bit \subseteq Nat
        BY SizeAssumption DEF Bit
    <2>2. irqStatus' \subseteq Nat /\ devPending' \subseteq Nat
        BY <1>3, <2>1 DEF ReadIrq
    <2>3. todo' \subseteq Function
        BY <1>3 DEF ReadIrq
    <2> QED BY <1>3, <2>2, <2>3 DEF ReadIrq
<1>4. CASE ReadIrqError
    BY <1>4 DEF ReadIrqError
<1>5. CASE HostNotifyLegacy \/ \E f \in todo : Attend(f) \/ AttendLegacy(f)
    <2>1. todo' \in SUBSET Function /\ irqPc' \in {irqPc, "legacy"}
        BY <1>5 DEF HostNotifyLegacy, Attend, AttendLegacy
    <2>2. UNCHANGED <<devVars, pc, scanVars, maskVars, workVars, lifeVars, irqStatus, f01Vars>>
        BY <1>5 DEF HostNotifyLegacy, Attend, AttendLegacy
    <2> QED BY <2>1, <2>2
<1>6. CASE EndDispatch
    <2>1. irqPc' = "idle" /\ irqStatus' = {} /\ todo' = {}
        BY <1>6 DEF EndDispatch
    <2>2. UNCHANGED <<devVars, pc, scanVars, maskVars, workVars, lifeVars, f01Vars>>
        BY <1>6 DEF EndDispatch
    <2> QED BY <2>1, <2>2
<1>7. CASE F01Power
    <2>1. /\ ctrl0' \in {"normal", "sleep"} /\ devMode' \in {"normal", "sleep"}
          /\ f01Pc' \in {"idle", "suspend", "resume"} /\ f01State' \in {"on", "off", "unknown"}
        BY <1>7 DEF F01Power, F01Suspend, F01SuspendWrite, F01Resume, F01ResumeWrite
    <2>2. UNCHANGED <<device, devEnabled, devPending, pc, scanVars, maskVars, workVars,
                      lifeVars, irqVars>>
        BY <1>7 DEF F01Power, F01Suspend, F01SuspendWrite, F01Resume, F01ResumeWrite
    <2> QED BY <2>1, <2>2
<1>8. CASE WillTerminate
    <2>1. bus' \in BOOLEAN /\ isOpen' \in BOOLEAN
        BY <1>8 DEF WillTerminate
    <2> QED BY <1>8, <2>1 DEF WillTerminate
<1>9. CASE Stop
    BY <1>9 DEF Stop
<1> QED BY <1>1, <1>2, <1>3, <1>4, <1>5, <1>6, <1>7, <1>8, <1>9 DEF Notification

LEMMA InitType == Init => TypeOK
<1> SUFFICES ASSUME Init PROVE TypeOK
    OBVIOUS
<1>1. /\ controlFunction \in BOOLEAN /\ irqsOk \in BOOLEAN /\ bus \in BOOLEAN
      /\ isOpen \in BOOLEAN
    BY DEF Init
<1>2. page \in 0 .. LastPage
    BY SizeAssumption DEF Init
<1> QED BY <1>1, <1>2 DEF Init, TypeOK

(* Every variable keeps its type.                                          *)
THEOREM TypeCorrect == Spec => []TypeOK
<1>1. Init => TypeOK
    BY InitType
<1>2. TypeOK /\ [Next]_vars => TypeOK'
    <2>1. TypeOK /\ UNCHANGED vars => TypeOK'
        BY DEF TypeOK, vars, devVars, scanVars, maskVars, workVars, lifeVars, irqVars, f01Vars
    <2> QED BY <2>1, ScanType, MessageType, OtherType DEF Next
<1> QED BY <1>1, <1>2, PTL DEF Spec

-----------------------------------------------------------------------------
(* The bits of functions.                                                  *)

(* While the table is scanned the functions found so far share out the     *)
(* bits below irqCount; before the bus is opened the transfer of all of    *)
(* them is settled.                                                        *)
Claimed ==
    /\ \A f, g \in functions : f # g => f.mask \cap g.mask = {}
    /\ \A f \in functions : /\ f.mask \subseteq irqMask
                            /\ f.mask \subseteq 0 .. irqCount - 1

Settled ==
    /\ pc = "scan" => ~bus
    /\ pc \notin {"scan", "failed"} => /\ numIrqRegs = RegistersFor(irqCount)
                                       /\ f01Mask = irqMask
    /\ pc = "failed" => functions = {}

MaskInv == Claimed /\ Settled

LEMMA HandleEntryClaims ==
    ASSUME TypeOK, MaskInv, HandleEntry
    PROVE  MaskInv'
<1> DEFINE e == Entries[slot]
           f == [kind |-> e.kind, page |-> page, slot |-> slot, mask |-> EntryMask(e)]
<1>1. e.bits \in Nat /\ irqCount \in Nat
    BY EntryType DEF HandleEntry, TypeOK
<1>2. irqCount' = irqCount + e.bits /\ irqMask' = irqMask \cup EntryMask(e)
    BY DEF HandleEntry, ClaimBits
<1>3. functions' = functions \/ functions' = functions \cup {f}
    BY DEF HandleEntry
<1>4. EntryMask(e) \subseteq irqCount .. irqCount' - 1
    BY <1>1, <1>2 DEF EntryMask
<1>5. \A g \in functions : /\ g.mask \cap EntryMask(e) = {}
                           /\ g.mask \subseteq irqMask' /\ g.mask \subseteq 0 .. irqCount' - 1
    BY <1>1, <1>2, <1>4 DEF MaskInv, Claimed
<1>6. f.mask = EntryMask(e)
    OBVIOUS
<1>7. f.mask \subseteq irqMask' /\ f.mask \subseteq 0 .. irqCount' - 1
    BY <1>1, <1>2, <1>4, <1>6
<1> HIDE DEF e, f
<1>8. Claimed'
    BY <1>3, <1>5, <1>6, <1>7 DEF MaskInv, Claimed
<1>9. Settled'
    BY DEF HandleEntry, MaskInv, Settled, lifeVars
<1> QED BY <1>8, <1>9 DEF MaskInv

LEMMA MaskStep == TypeOK /\ MaskInv /\ [Next]_vars => MaskInv'
<1> SUFFICES ASSUME TypeOK, MaskInv, [Next]_vars PROVE MaskInv'
    OBVIOUS
<1> USE DEF MaskInv, Claimed, Settled, devVars, scanVars, maskVars, workVars, lifeVars,
            irqVars, f01Vars
<1>1. CASE ReadEntryError \/ HandleEntryError
    BY <1>1 DEF ReadEntryError, HandleEntryError, Fail
<1>2. CASE HandleEntry
    BY <1>2, HandleEntryClaims
<1>3. CASE NextPage
    BY <1>3 DEF NextPage
<1>4. CASE ScanDone
    BY <1>4 DEF ScanDone, Fail
<1>5. CASE EnableSensor
    BY <1>5 DEF EnableSensor, ConfigControl, ConfigDoze, ReadStatus, WriteMask, Fail
<1>6. CASE Open
    BY <1>6 DEF Open, Fail
<1>7. CASE Power
    BY <1>7 DEF Power, Sleep, ReadEnabled, DisableIrqs, DevicePowerLoss, Resume, ResumeError
<1>8. CASE Notification
    BY <1>8 DEF Notification, DeviceEvent, HostNotify, ReadIrq, ReadIrqError, Attend,
                   HostNotifyLegacy, AttendLegacy, EndDispatch
<1>9. CASE F01Power
    BY <1>9 DEF F01Power, F01Suspend, F01SuspendWrite, F01Resume, F01ResumeWrite
<1>10. CASE WillTerminate \/ Stop
    BY <1>10 DEF WillTerminate, Stop
<1>11. CASE UNCHANGED vars
    BY <1>11 DEF vars
<1> QED BY <1>1, <1>2, <1>3, <1>4, <1>5, <1>6, <1>7, <1>8, <1>9, <1>10, <1>11 DEF Next, Scan

LEMMA MaskInvImplies == TypeOK /\ MaskInv => MasksApart
<1> SUFFICES ASSUME TypeOK, MaskInv, bus, NEW f \in functions
             PROVE  f.mask \subseteq RegisterBits \cap f01Mask
    BY DEF MaskInv, Claimed, MasksApart
<1>1. pc \notin {"scan", "failed"}
    BY DEF MaskInv, Settled
<1>2. irqCount \in Nat /\ f.mask \subseteq 0 .. irqCount - 1 /\ f.mask \subseteq f01Mask
    BY <1>1 DEF MaskInv, Claimed, Settled, TypeOK
<1>3. RegBits * numIrqRegs \in Nat /\ RegBits * numIrqRegs >= irqCount
    BY <1>1, <1>2, EnoughRegisters, SizeAssumption DEF MaskInv, Settled, TypeOK
<1> HIDE DEF MaskInv
<1>4. 0 .. irqCount - 1 \subseteq 0 .. RegBits * numIrqRegs - 1
    BY <1>2, <1>3
<1> QED BY <1>2, <1>4 DEF RegisterBits

(* Interrupt bits are shared out without overlap, and all of them are      *)
(* transferred by the time the first notification can arrive.              *)
THEOREM MasksAreApart == Spec => []MasksApart
<1>1. Init => MaskInv
    BY DEF Init, MaskInv, Claimed, Settled
<1>2. TypeOK /\ MaskInv /\ [Next]_vars => MaskInv'
    BY MaskStep
<1> QED BY <1>1, <1>2, MaskInvImplies, TypeCorrect, PTL DEF Spec

-----------------------------------------------------------------------------
(* Sleep mode.  The field ctrl0 and the register agree whenever F01 has    *)
(* been resumed; config() then writes what the register already holds.     *)
AwakeInv ==
    /\ f01Pc = "resume" => ctrl0 = "normal"
    /\ f01Pc = "idle" /\ f01State = "on" => ctrl0 = "normal" /\ devMode = "normal"

LEMMA AwakeStep == AwakeInv /\ [Next]_vars => AwakeInv'
<1> SUFFICES ASSUME AwakeInv, [Next]_vars PROVE AwakeInv'
    OBVIOUS
<1> USE DEF AwakeInv, devVars, f01Vars
<1>1. CASE Scan
    BY <1>1 DEF Scan, ReadEntryError, HandleEntryError, HandleEntry, NextPage, ScanDone
<1>2. CASE EnableSensor
    BY <1>2 DEF EnableSensor, ConfigControl, ConfigDoze, ReadStatus, WriteMask
<1>3. CASE Open \/ WillTerminate \/ Stop
    BY <1>3 DEF Open, WillTerminate, Stop
<1>4. CASE Power
    BY <1>4 DEF Power, Sleep, ReadEnabled, DisableIrqs, DevicePowerLoss, Resume, ResumeError
<1>5. CASE Notification
    BY <1>5 DEF Notification, DeviceEvent, HostNotify, ReadIrq, ReadIrqError, Attend,
                   HostNotifyLegacy, AttendLegacy, EndDispatch
<1>6. CASE F01Power
    BY <1>6 DEF F01Power, F01Suspend, F01SuspendWrite, F01Resume, F01ResumeWrite
<1>7. CASE UNCHANGED vars
    BY <1>7 DEF vars
<1> QED BY <1>1, <1>2, <1>3, <1>4, <1>5, <1>6, <1>7 DEF Next

(* A touchpad whose F01 has been resumed is awake.                         *)
THEOREM Awake == Spec => []AwakeWhenOn
<1>1. Init => AwakeInv
    BY DEF Init, AwakeInv
<1>2. AwakeInv => AwakeWhenOn
    BY DEF AwakeInv, AwakeWhenOn
<1> QED BY <1>1, <1>2, AwakeStep, PTL DEF Spec

-----------------------------------------------------------------------------
(* Termination over a transport that keeps track of being open.            *)
Starting == \/ pc \in {"scan", "failed", "open"}
            \/ caller = "start" /\ pc \in {"config", "doze", "status", "write"}

OpenInv == /\ isOpen <=> bus
           /\ bus => life = "alive"
           /\ Starting => ~bus /\ life = "alive"

LEMMA OpenStep == ASSUME ForwardsOpen PROVE TypeOK /\ OpenInv /\ [Next]_vars => OpenInv'
<1> SUFFICES ASSUME TypeOK, OpenInv, [Next]_vars PROVE OpenInv'
    OBVIOUS
<1> USE DEF OpenInv, Starting, lifeVars, workVars, irqVars
<1>1. CASE Scan
    BY <1>1 DEF Scan, ReadEntryError, HandleEntryError, HandleEntry, NextPage, ScanDone, Fail
<1>2. CASE EnableSensor
    BY <1>2 DEF EnableSensor, ConfigControl, ConfigDoze, ReadStatus, WriteMask, Fail
<1>3. CASE Open
    <2>1. pc = "open" /\ ~bus /\ ~isOpen /\ life' = "alive" /\ pc' \in {"up", "failed"}
        BY <1>3 DEF Open, Fail
    <2>2. CASE pc' = "up"
        BY <1>3, <2>1, <2>2 DEF Open, Fail
    <2>3. CASE pc' = "failed"
        BY <1>3, <2>1, <2>3 DEF Open, Fail
    <2> QED BY <2>1, <2>2, <2>3
<1>4. CASE WillTerminate
    <2>1. bus /\ isOpen /\ ~Starting
        BY <1>4 DEF WillTerminate
    <2>2. ~bus' /\ ~isOpen' /\ ~Starting'
        BY <1>4, <2>1 DEF WillTerminate
    <2> QED BY <2>2
<1>9. CASE Stop
    BY <1>9 DEF Stop
<1>5. CASE Power
    BY <1>5 DEF Power, Sleep, ReadEnabled, DisableIrqs, DevicePowerLoss, Resume, ResumeError
<1>6. CASE Notification
    BY <1>6 DEF Notification, DeviceEvent, HostNotify, ReadIrq, ReadIrqError, Attend,
                   HostNotifyLegacy, AttendLegacy, EndDispatch
<1>7. CASE F01Power
    BY <1>7 DEF F01Power, F01Suspend, F01SuspendWrite, F01Resume, F01ResumeWrite
<1>8. CASE UNCHANGED vars
    BY <1>8 DEF vars
<1> QED BY <1>1, <1>2, <1>3, <1>4, <1>5, <1>6, <1>7, <1>8, <1>9 DEF Next

(* A transport that passes handleOpen on to RMITransport sends nothing to  *)
(* a bus that is being terminated.                                         *)
THEOREM QuietIfForwarded == ASSUME ForwardsOpen PROVE Spec => []QuietAfterClose
<1>1. Init => OpenInv
    BY DEF Init, OpenInv
<1>2. TypeOK /\ OpenInv /\ [Next]_vars => OpenInv'
    BY OpenStep
<1>3. OpenInv => QuietAfterClose
    BY DEF OpenInv, QuietAfterClose
<1> QED BY <1>1, <1>2, <1>3, TypeCorrect, PTL DEF Spec

-----------------------------------------------------------------------------
(* The interrupts as the last message asked.                               *)
AskedInv ==
    /\ IrqsAsAsked
    /\ irqsOk /\ pc = "open" => devEnabled = f01Mask
    /\ pc = "scan" => ~irqsOk

LEMMA AskedStep == AskedInv /\ [Next]_vars => AskedInv'
<1> SUFFICES ASSUME AskedInv, [Next]_vars PROVE AskedInv'
    OBVIOUS
<1> USE DEF AskedInv, IrqsAsAsked, devVars, scanVars, maskVars, workVars, lifeVars, irqVars, f01Vars
<1>1. CASE Scan
    BY <1>1 DEF Scan, ReadEntryError, HandleEntryError, HandleEntry, NextPage, ScanDone, Fail
<1>2. CASE ConfigControl \/ ConfigDoze \/ ReadStatus
    BY <1>2 DEF ConfigControl, ConfigDoze, ReadStatus
<1>3. CASE WriteMask
    BY <1>3 DEF WriteMask, Fail
<1>4. CASE Open
    BY <1>4 DEF Open, Fail
<1>5. CASE Sleep \/ Resume \/ ResumeError
    BY <1>5 DEF Sleep, Resume, ResumeError
<1>6. CASE ReadEnabled
    BY <1>6 DEF ReadEnabled
<1>7. CASE DisableIrqs
    BY <1>7 DEF DisableIrqs, Disabled
<1>8. CASE DevicePowerLoss
    BY <1>8 DEF DevicePowerLoss
<1>9. CASE Notification
    <2>1. UNCHANGED <<devEnabled, pc, f01Mask, irqsOk>>
        BY <1>9 DEF Notification, DeviceEvent, HostNotify, ReadIrq, ReadIrqError, Attend,
                    HostNotifyLegacy, AttendLegacy, EndDispatch
    <2> QED BY <2>1
<1>10. CASE F01Power \/ WillTerminate \/ Stop
    <2>1. UNCHANGED <<devEnabled, pc, f01Mask, irqsOk>>
        BY <1>10 DEF F01Power, F01Suspend, F01SuspendWrite, F01Resume, F01ResumeWrite,
                     WillTerminate, Stop
    <2> QED BY <2>1
<1>11. CASE UNCHANGED vars
    BY <1>11 DEF vars
<1> QED BY <1>1, <1>2, <1>3, <1>4, <1>5, <1>6, <1>7, <1>8, <1>9, <1>10, <1>11
        DEF Next, EnableSensor, Power

(* After a message that succeeded the functions have their interrupts, or  *)
(* none of them has, whichever accesses failed before.                     *)
THEOREM Asked == Spec => []IrqsAsAsked
<1>1. Init => AskedInv
    BY DEF Init, AskedInv, IrqsAsAsked
<1>2. AskedInv => IrqsAsAsked
    BY DEF AskedInv
<1> QED BY <1>1, <1>2, AskedStep, PTL DEF Spec

-----------------------------------------------------------------------------
(* Dispatch.  The functions a notification has yet to look at have their   *)
(* bits in the registers that were read.                                   *)
DispatchInv ==
    /\ irqPc # "idle" \/ bus => pc # "scan"
    /\ irqPc = "dispatch" => \A f \in todo : f.mask \subseteq RegisterBits

LEMMA MasksRead ==
    ASSUME TypeOK, MaskInv, pc # "scan", NEW f \in functions
    PROVE  f.mask \subseteq RegisterBits
<1>1. pc # "failed"
    BY DEF MaskInv, Settled
<1>2. irqCount \in Nat /\ f.mask \subseteq 0 .. irqCount - 1
    BY DEF MaskInv, Claimed, TypeOK
<1>3. RegBits * numIrqRegs \in Nat /\ RegBits * numIrqRegs >= irqCount
    BY <1>1, <1>2, EnoughRegisters, SizeAssumption DEF MaskInv, Settled, TypeOK
<1>4. 0 .. irqCount - 1 \subseteq 0 .. RegBits * numIrqRegs - 1
    BY <1>2, <1>3
<1> QED BY <1>2, <1>4 DEF RegisterBits

LEMMA DispatchStep == TypeOK /\ MaskInv /\ DispatchInv /\ [Next]_vars => DispatchInv'
<1> SUFFICES ASSUME TypeOK, MaskInv, DispatchInv, [Next]_vars PROVE DispatchInv'
    OBVIOUS
<1> USE DEF DispatchInv, RegisterBits, maskVars, irqVars, lifeVars
<1>1. CASE Scan
    <2>1. irqPc = "idle" /\ ~bus
        BY <1>1 DEF Scan, ReadEntryError, HandleEntryError, HandleEntry, NextPage, ScanDone
    <2>2. UNCHANGED <<irqPc, bus>>
        BY <1>1 DEF Scan, ReadEntryError, HandleEntryError, HandleEntry, NextPage, ScanDone
    <2> QED BY <2>1, <2>2
<1>2. CASE EnableSensor \/ Open \/ Power
    <2>1. UNCHANGED <<irqPc, todo, numIrqRegs>> /\ pc' # "scan"
        BY <1>2 DEF EnableSensor, ConfigControl, ConfigDoze, ReadStatus, WriteMask, Fail, Open, Power,
                    Sleep, ReadEnabled, DisableIrqs, DevicePowerLoss, Resume, ResumeError
    <2> QED BY <2>1
<1>3. CASE F01Power \/ WillTerminate \/ Stop
    <2>1. UNCHANGED <<irqPc, todo, numIrqRegs, pc>> /\ (bus' => bus \/ irqPc # "idle")
        BY <1>3 DEF F01Power, F01Suspend, F01SuspendWrite, F01Resume, F01ResumeWrite,
                    WillTerminate, Stop
    <2> QED BY <2>1
<1>4. CASE ReadIrq
    <2>1. \A f \in functions : f.mask \subseteq RegisterBits
        BY <1>4, MasksRead DEF ReadIrq
    <2>2. todo' = functions /\ UNCHANGED <<pc, numIrqRegs, bus>> /\ irqPc # "idle"
        BY <1>4 DEF ReadIrq
    <2> QED BY <2>1, <2>2
<1>5. CASE \E f \in todo : Attend(f) \/ AttendLegacy(f)
    BY <1>5 DEF Attend, AttendLegacy
<1>6. CASE HostNotify \/ HostNotifyLegacy \/ ReadIrqError \/ EndDispatch
    BY <1>6 DEF HostNotify, HostNotifyLegacy, ReadIrqError, EndDispatch
<1>7. CASE \E b \in 0 .. irqCount - 1 : DeviceEvent(b)
    BY <1>7 DEF DeviceEvent
<1>8. CASE UNCHANGED vars
    BY <1>8 DEF vars
<1> QED BY <1>1, <1>2, <1>3, <1>4, <1>5, <1>6, <1>7, <1>8 DEF Next, Notification

(* No function is told of an event on the strength of a byte of irqStatus  *)
(* that was not read.                                                      *)
THEOREM Reported == Spec => AttendsReported
<1> DEFINE Meant == \A f \in todo : Attend(f) => f.mask \cap irqStatus \cap RegisterBits # {}
<1>1. Init => MaskInv /\ DispatchInv
    BY DEF Init, MaskInv, Claimed, Settled, DispatchInv
<1>2. TypeOK /\ MaskInv /\ DispatchInv /\ [Next]_vars => MaskInv' /\ DispatchInv'
    BY MaskStep, DispatchStep
<1>3. DispatchInv => Meant
    <2> SUFFICES ASSUME DispatchInv, NEW f \in todo, Attend(f)
                 PROVE  f.mask \cap irqStatus \cap RegisterBits # {}
        OBVIOUS
    <2>1. f.mask \cap irqStatus # {} /\ f.mask \subseteq RegisterBits
        BY DEF DispatchInv, Attend, hasAttnSig
    <2> QED BY <2>1
<1>4. DispatchInv /\ [Next]_vars => [Meant]_vars
    BY <1>3
<1> HIDE DEF Meant
<1>5. Spec => [][Meant]_vars
    BY <1>1, <1>2, <1>4, TypeCorrect, PTL DEF Spec
<1> QED BY <1>5 DEF Meant, AttendsReported
-----------------------------------------------------------------------------
(* The scan.  The entries it has passed are those of the pages before this *)
(* one and those before slot.                                              *)
Places == {<<f.page, f.slot>> : f \in functions}

Passed == {x \in (0 .. LastPage) \X Nat :
              /\ x[2] \in Attachable(x[1])
              /\ x[1] < page \/ (x[1] = page /\ x[2] < slot)}

Wanted == {x \in (0 .. LastPage) \X Nat : x[2] \in Attachable(x[1]) /\ InUse(x[1])}

ScanInv ==
    /\ pc = "scan" => /\ slot <= Len(Entries) + 1
                      /\ InUse(page)
                      /\ blankPages = 1 <=> page > 0 /\ Blank(page - 1)
                      /\ Places = Passed
                      /\ life = "alive" /\ ~bus
    /\ pc \notin {"scan", "failed"} /\ life # "stopped" => Places = Wanted

LEMMA BlankEmpty ==
    ASSUME TypeOK
    PROVE  Len(Entries) \in Nat /\ (Len(Entries) = 0 <=> Blank(page))
<1>1. device.table[page] \in Seq([kind : Kind, bits : Nat])
    BY DeviceAssumption DEF TypeOK
<1> DEFINE q == device.table[page]
<1> HIDE DEF q
<1>2. q \in Seq([kind : Kind, bits : Nat])
    BY <1>1 DEF q
<1>3. Len(q) \in Nat /\ (Len(q) = 0 <=> q = <<>>)
    BY <1>2, EmptySeq, LenProperties
<1> QED BY <1>3 DEF q, Entries, Blank

(* The end of a page that is not the last to scan.                         *)
LEMMA PageScan == ASSUME TypeOK, ScanInv, NextPage PROVE ScanInv'
<1>1. /\ pc = "scan" /\ pc' = "scan" /\ page' = page + 1 /\ slot' = 1
      /\ slot = Len(Entries) + 1 /\ blankPages' = BlankPages
      /\ UNCHANGED <<device, functions, life, bus>>
    BY BlankEmpty DEF NextPage, ScanInv, TypeOK, devVars, lifeVars
<1>2. page \in Nat /\ page < LastPage /\ BlankPages < 2 /\ (slot = 1 <=> Blank(page))
    BY <1>1, BlankEmpty, SizeAssumption DEF NextPage, LastToScan, TypeOK, BlankPages
<1>3. page' = page + 1 /\ slot' <= Len(Entries') + 1
    <2>1. TypeOK'
        BY ScanType DEF Scan
    <2>2. Len(Entries') \in Nat
        <3>1. device'.table[page'] \in Seq([kind : Kind, bits : Nat])
            BY <2>1, DeviceAssumption DEF TypeOK
        <3>2. Len(device'.table[page']) \in Nat
            BY <3>1, LenProperties
        <3> QED BY <3>2 DEF Entries
    <2> QED BY <1>1, <2>2
<1>4. ~(Blank(page) /\ page > 0 /\ Blank(page - 1))
    BY <1>1, <1>2 DEF ScanInv, BlankPages
<1>5. InUse(page)'
    <2> SUFFICES ASSUME NEW q \in 0 .. page - 1, Blank(q), Blank(q + 1) PROVE FALSE
        BY <1>1, <1>2 DEF InUse, Blank
    <2>1. q = page - 1
        BY <1>1, <1>2 DEF ScanInv, InUse
    <2> QED BY <1>2, <1>4, <2>1
<1>6. blankPages' = 1 <=> page' > 0 /\ Blank(page - 1)'
    <2>1. blankPages' = 1 <=> slot = 1
        BY <1>1, <1>2 DEF BlankPages, TypeOK
    <2>2. page' - 1 = page
        BY <1>1, <1>2
    <2> QED BY <1>1, <1>2, <2>1, <2>2 DEF Blank
<1>7. Places' = Passed'
    <2>1. Places' = Passed
        BY <1>1 DEF ScanInv, Places
    <2>2. \A x \in (0 .. LastPage) \X Nat : x[2] \in Attachable(x[1]) /\ x[1] = page => x[2] < slot
        BY <1>1, <1>2, BlankEmpty DEF Attachable, Entries
    <2>3. \A x \in (0 .. LastPage) \X Nat : x[2] \in Attachable(x[1]) => x[2] >= 1
        BY DEF Attachable
    <2>4. \A p : Attachable(p)' = Attachable(p)
        BY <1>1 DEF Attachable
    <2>5. \A x \in (0 .. LastPage) \X Nat : x[2] \in Attachable(x[1]) =>
              ((x[1] < page' \/ (x[1] = page' /\ x[2] < slot'))
                   <=> (x[1] < page \/ (x[1] = page /\ x[2] < slot)))
        BY <1>1, <1>2, <2>2, <2>3, SizeAssumption
    <2>6. Passed' = {x \in (0 .. LastPage) \X Nat :
                        /\ x[2] \in Attachable(x[1])
                        /\ x[1] < page' \/ (x[1] = page' /\ x[2] < slot')}
        BY <2>4 DEF Passed
    <2> QED BY <2>1, <2>5, <2>6 DEF Passed
<1> QED BY <1>1, <1>3, <1>5, <1>6, <1>7 DEF ScanInv

(* An entry that is handled.                                               *)
LEMMA EntryScan == ASSUME TypeOK, ScanInv, HandleEntry PROVE ScanInv'
<1> DEFINE e == Entries[slot]
           f == [kind |-> e.kind, page |-> page, slot |-> slot, mask |-> EntryMask(e)]
<1>1. /\ pc = "scan" /\ pc' = "scan" /\ slot' = slot + 1 /\ slot \in 1 .. Len(Entries)
      /\ slot \in Nat /\ page \in 0 .. LastPage
      /\ UNCHANGED <<device, page, blankPages, life, bus>>
    BY BlankEmpty DEF HandleEntry, TypeOK, lifeVars
<1>2. functions' = IF e.kind = "other" THEN functions ELSE functions \cup {f}
    BY DEF HandleEntry
<1>3. slot' <= Len(Entries') + 1 /\ InUse(page)' /\ (blankPages' = 1 <=> page' > 0 /\ Blank(page - 1)')
    BY <1>1, BlankEmpty DEF ScanInv, InUse, Blank, Entries
<1>4. slot \in Attachable(page) <=> e.kind # "other"
    BY <1>1 DEF Attachable, Entries
<1>5. f.page = page /\ f.slot = slot
    OBVIOUS
<1> HIDE DEF e, f
<1>6. Places' = IF e.kind = "other" THEN Places ELSE Places \cup {<<page, slot>>}
    BY <1>2, <1>5 DEF Places
<1>7. Passed' = IF e.kind = "other" THEN Passed ELSE Passed \cup {<<page, slot>>}
    <2>1. \A p : Attachable(p)' = Attachable(p)
        BY <1>1 DEF Attachable
    <2>2. \A x \in (0 .. LastPage) \X Nat :
             (x[1] = page /\ x[2] < slot + 1) <=> (x[1] = page /\ x[2] < slot) \/ x = <<page, slot>>
        BY <1>1
    <2>3. <<page, slot>> \in (0 .. LastPage) \X Nat
        BY <1>1
    <2> QED BY <1>1, <1>4, <2>1, <2>2, <2>3 DEF Passed
<1> QED BY <1>1, <1>3, <1>6, <1>7 DEF ScanInv

(* The end of the last page: nothing in use is left.                       *)
LEMMA LastScan == ASSUME TypeOK, ScanInv, ScanDone PROVE ScanInv'
<1>1. /\ pc = "scan" /\ slot = Len(Entries) + 1 /\ LastToScan
      /\ pc' \in {"config", "failed"} /\ UNCHANGED <<device, page, slot>>
      /\ page \in 0 .. LastPage /\ page \in Nat
      /\ pc' = "config" => UNCHANGED functions
    BY BlankEmpty, SizeAssumption DEF ScanDone, ScanInv, TypeOK, Fail, devVars
<1>2. \A p \in 0 .. LastPage : p < page + 1 => InUse(p)
    BY <1>1 DEF ScanInv, InUse
<1>3. \A p \in 0 .. LastPage : InUse(p) => p < page + 1
    <2>1. CASE page = LastPage
        BY <2>1, <1>1, SizeAssumption
    <2>2. CASE BlankPages >= 2
        <3>1. slot = 1 /\ blankPages = 1 /\ page > 0 /\ Blank(page - 1) /\ Blank(page)
            BY <1>1, <2>2, BlankEmpty DEF BlankPages, ScanInv, TypeOK
        <3>2. Blank(page - 1) /\ Blank((page - 1) + 1) /\ page - 1 \in Nat
            BY <1>1, <3>1
        <3> QED BY <1>1, <3>2, SizeAssumption DEF InUse
    <2> QED BY <1>1, <2>1, <2>2 DEF LastToScan
<1>4. \A x \in (0 .. LastPage) \X Nat : x[2] \in Attachable(x[1]) /\ x[1] = page => x[2] < slot
    BY <1>1, BlankEmpty DEF Attachable, Entries
<1>5. Passed = Wanted
    <2>1. \A x \in (0 .. LastPage) \X Nat : x[2] \in Attachable(x[1]) =>
              ((x[1] < page \/ (x[1] = page /\ x[2] < slot)) <=> InUse(x[1]))
        BY <1>1, <1>2, <1>3, <1>4
    <2> QED BY <2>1 DEF Passed, Wanted
<1>6. Wanted' = Wanted
    BY <1>1 DEF Wanted, Attachable, InUse, Blank
<1>7. pc' = "config" => Places' = Wanted'
    BY <1>1, <1>5, <1>6 DEF Places, ScanInv
<1> QED BY <1>1, <1>7 DEF ScanInv

LEMMA ScanStep == TypeOK /\ ScanInv /\ [Next]_vars => ScanInv'
<1> SUFFICES ASSUME TypeOK, ScanInv, [Next]_vars PROVE ScanInv'
    OBVIOUS
<1> USE DEF devVars, scanVars, workVars, lifeVars
<1>1. CASE ReadEntryError \/ HandleEntryError
    <2>1. pc' = "failed"
        BY <1>1 DEF ReadEntryError, HandleEntryError, Fail
    <2> QED BY <2>1 DEF ScanInv
<1>2. CASE HandleEntry
    BY <1>2, EntryScan
<1>3. CASE NextPage
    BY <1>3, PageScan
<1>4. CASE ScanDone
    BY <1>4, LastScan
<1>5. CASE EnableSensor \/ Open \/ Power
    <2>1. /\ pc \notin {"scan", "failed"} /\ pc' # "scan" /\ UNCHANGED <<device, life>>
          /\ UNCHANGED functions \/ pc' = "failed"
        BY <1>5 DEF EnableSensor, ConfigControl, ConfigDoze, ReadStatus, WriteMask, Fail, Open, Power,
                    Sleep, ReadEnabled, DisableIrqs, DevicePowerLoss, Resume, ResumeError
    <2>2. Wanted' = Wanted
        BY <2>1 DEF Wanted, Attachable, InUse, Blank
    <2> QED BY <2>1, <2>2 DEF ScanInv, Places
<1>6. CASE Notification \/ F01Power \/ UNCHANGED vars
    <2>1. UNCHANGED <<device, pc, scanVars, life, bus>>
        BY <1>6 DEF Notification, DeviceEvent, HostNotify, ReadIrq, ReadIrqError, Attend,
                    HostNotifyLegacy, AttendLegacy, EndDispatch, F01Power, F01Suspend,
                    F01SuspendWrite, F01Resume, F01ResumeWrite, vars
    <2>2. Wanted' = Wanted /\ Passed' = Passed /\ Entries' = Entries /\ Places' = Places
        BY <2>1 DEF Wanted, Passed, Attachable, InUse, Blank, Entries, Places
    <2>3. InUse(page)' = InUse(page) /\ Blank(page - 1)' = Blank(page - 1)
        BY <2>1 DEF InUse, Blank
    <2> QED BY <2>1, <2>2, <2>3 DEF ScanInv
<1>7. CASE WillTerminate
    <2>1. pc # "scan" /\ UNCHANGED <<device, pc, functions>> /\ life # "stopped"
        BY <1>7 DEF WillTerminate, ScanInv
    <2>2. Wanted' = Wanted
        BY <2>1 DEF Wanted, Attachable, InUse, Blank
    <2> QED BY <2>1, <2>2 DEF ScanInv, Places
<1>8. CASE Stop
    <2>1. pc # "scan" /\ pc' = pc /\ life' = "stopped"
        BY <1>8 DEF Stop, ScanInv
    <2> QED BY <2>1 DEF ScanInv
<1> QED BY <1>1, <1>2, <1>3, <1>4, <1>5, <1>6, <1>7, <1>8 DEF Next, Scan

(* A driver that is up has attached what there is, whatever the table.     *)
THEOREM Scanned == Spec => []ScanComplete
<1>1. Init => ScanInv
    <2> SUFFICES ASSUME Init PROVE ScanInv
        OBVIOUS
    <2>1. TypeOK
        BY InitType
    <2>2. page = 0 /\ slot = 1 /\ functions = {} /\ blankPages = 0 /\ pc = "scan"
          /\ life = "alive" /\ ~bus
        BY DEF Init
    <2>3. Len(Entries) \in Nat
        BY <2>1, BlankEmpty
    <2>4. Passed = {}
        <3>1. \A x \in (0 .. LastPage) \X Nat : x[2] \in Attachable(x[1]) => x[2] >= 1 /\ x[1] >= 0
            BY SizeAssumption DEF Attachable
        <3> QED BY <2>2, <3>1, SizeAssumption DEF Passed
    <2>5. InUse(page)
        BY <2>2 DEF InUse
    <2> QED BY <2>2, <2>3, <2>4, <2>5 DEF ScanInv, Places
<1>2. ScanInv => ScanComplete
    <2> SUFFICES ASSUME ScanInv, pc = "up", life # "stopped"
                 PROVE  Places = UNION {{<<p, s>> : s \in Attachable(p)} :
                                           p \in {q \in 0 .. LastPage : InUse(q)}}
        BY DEF ScanComplete, Places
    <2>1. Places = Wanted
        BY DEF ScanInv
    <2>2. \A p : Attachable(p) \subseteq Nat
        BY DEF Attachable
    <2> QED BY <2>1, <2>2 DEF Wanted
<1> QED BY <1>1, <1>2, ScanStep, TypeCorrect, PTL DEF Spec
=============================================================================
