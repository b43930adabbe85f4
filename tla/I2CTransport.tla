----------------------------- MODULE I2CTransport -----------------------------
(***************************************************************************)
(* The I2C HID transport of VoodooRMI (Transports/I2C/RMII2C.cpp).         *)
(*                                                                         *)
(* Registers are reached through a page register of the touchpad; the      *)
(* driver remembers the page it selected last and selects another one only *)
(* when an access needs it.  The touchpad forgets the page, and falls back *)
(* to the reports of a HID mouse, whenever it is reset or loses its power; *)
(* a read that finds a mouse's report puts it back into RMI mode and tells *)
(* the bus to configure it again.                                          *)
(*                                                                         *)
(* Threads: Gate stands for the thread that holds the gate of the work     *)
(* loop, which delivers interrupts and carries out power changes, one at a *)
(* time ("gate" says which); Other are the threads that access registers   *)
(* without the gate: the bus that starts, the functions' own workers.      *)
(***************************************************************************)
EXTENDS Integers

CONSTANTS
    Gate, Other,   \* threads that call readBlock and blockWrite
    NoThread,      \* owner of a free IOLock
    LastPage,      \* the last page, 0xFF
    PageSize,      \* registers of a page, 256
    MaxInput,      \* wMaxInputLength of the HID descriptor, 0 for none
    Request,       \* the calls clients make: [op, addr, len]
    MaxRetries     \* retries of rmi_set_mode in probe, 5

Client == Other \cup {Gate}
Page   == 0 .. LastPage

ASSUME ThreadAssumption == Gate \notin Other /\ NoThread \notin Client
ASSUME SizeAssumption ==
    /\ LastPage \in Nat /\ PageSize \in Nat \ {0}
    /\ MaxInput \in Nat /\ MaxRetries \in Nat
ASSUME RequestAssumption ==
    Request \subseteq [op : {"read", "write"}, addr : 0 .. PageSize * (LastPage + 1) - 1, len : Nat]

VARIABLES
    pc, req, landed,   \* a client's call: where it is, its arguments, and the
                       \* <<byte of the buffer, register>> it has moved
    page_mutex, page,  \* fields of RMII2C
    ready, bus, currentPowerState,
    enabled,           \* the interrupt source, or the timer that simulates it
    gate,              \* what the holder of the gate is doing
    heeded,            \* history: since the last power change that was carried
                       \* out none has been missed (SetPowerState)
    life, attempts,    \* probe and start
    devPage, devMode,  \* the touchpad's page register and kind of reports
    kept,              \* history: it has kept its page since the driver selected one
    slipped            \* history: the last selection it took was reported as failed

callVars  == <<pc, req, landed>>
pageVars  == <<page_mutex, page>>
powerVars == <<ready, bus, currentPowerState, enabled, gate, heeded>>
lifeVars  == <<life, attempts>>
devVars   == <<devPage, devMode, kept, slipped>>
vars == <<callVars, pageVars, powerVars, lifeVars, devVars>>

-----------------------------------------------------------------------------
NoRequest == [op |-> "read", addr |-> 0, len |-> 0]

IsRead(t) == req[t].op = "read"

(* Mutant of PageOf: the address is not shifted.                           *)
PageOfUnshifted(r) == r.addr

(* RMI_I2C_PAGE(rmiaddr).                                                  *)
PageOf(r) == r.addr \div PageSize

(* Mutant of OnPage: a write does not look at the page.                    *)
OnPageRead(t) == IsRead(t) => page = PageOf(req[t])

OnPage(t) == page = PageOf(req[t])

(* The bytes of a call: a read is cut to what an input report can hold.    *)
Length(r) == IF r.op = "read" /\ MaxInput # 0 /\ r.len > MaxInput THEN MaxInput ELSE r.len

Bytes(t) == Length(req[t])

(* The device looks for the registers on the page it has.                  *)
Moved(t) == {<<k, PageSize * devPage + (req[t].addr % PageSize) + k>> : k \in 0 .. Bytes(t) - 1}

Init ==
    /\ pc = [t \in Client |-> "idle"]
    /\ req = [t \in Client |-> NoRequest]
    /\ landed = [t \in Client |-> {}]
    /\ page_mutex = NoThread /\ page = 0
    /\ ready = FALSE /\ bus = FALSE /\ currentPowerState = "on" /\ enabled = FALSE
    /\ gate = "idle" /\ heeded = TRUE /\ life = "mode" /\ attempts = 0
    /\ devPage \in Page /\ devMode = "HID" /\ kept = FALSE /\ slipped = FALSE

(* rmi_set_mode(reportMode): the device answers as an RMI device.          *)
SetMode == devMode' = "RMI"

(* An error on the bus does not tell whether the device took the mode.     *)
SetModeError == devMode' \in {devMode, "RMI"}

(* rmi_set_page, the write of the report.                                  *)
SelectPage(p) == devPage' = p /\ kept' = TRUE /\ slipped' = FALSE

(* The write fails, and the device may have changed its page all the same. *)
SelectPageError(p) ==
    \/ UNCHANGED <<devPage, kept, slipped>>
    \/ devPage' = p /\ slipped' = TRUE /\ UNCHANGED kept

-----------------------------------------------------------------------------
(* probe(): the mode is set, with retries ...                              *)
ProbeMode ==
    /\ life = "mode"
    /\ SetMode
    /\ life' = "page"
    /\ UNCHANGED <<callVars, pageVars, powerVars, attempts, devPage, kept, slipped>>

ProbeModeError ==
    /\ life = "mode"
    /\ SetModeError
    /\ IF attempts < MaxRetries THEN attempts' = attempts + 1 /\ UNCHANGED life
                                ELSE life' = "dead" /\ UNCHANGED attempts
    /\ UNCHANGED <<callVars, pageVars, powerVars, devPage, kept, slipped>>

(* ... and the page register gets a known value.                           *)
ProbePage ==
    /\ life = "page"
    /\ \/ SelectPage(0) /\ page' = 0 /\ life' = "start"
       \/ SelectPageError(0) /\ UNCHANGED page /\ life' = "dead"
    /\ UNCHANGED <<callVars, page_mutex, powerVars, attempts, devMode>>

startInterrupt == enabled' = TRUE /\ ready' = TRUE

(* Mutant of stopInterrupt: the source stays enabled.                      *)
stopInterruptReady == ready' = FALSE /\ UNCHANGED enabled

stopInterrupt == enabled' = FALSE /\ ready' = FALSE

(* start(): an event source cannot be had, or interrupts are on.           *)
Start ==
    /\ life = "start"
    /\ \/ startInterrupt /\ life' = "up"
       \/ stopInterrupt /\ life' = "dead"
    /\ UNCHANGED <<callVars, pageVars, bus, currentPowerState, gate, heeded, attempts, devVars>>

(* handleOpen(), by the bus when it has started: it is remembered ...       *)
Open ==
    /\ life = "up" /\ ~bus
    /\ bus' = TRUE /\ life' = "open"
    /\ UNCHANGED <<callVars, pageVars, ready, currentPowerState, enabled, gate, heeded, attempts,
                   devVars>>

(* ... and interrupts are on, whatever the power state has become.         *)
OpenInterrupt ==
    /\ life = "open"
    /\ startInterrupt
    /\ heeded' = (heeded /\ currentPowerState = "on")
    /\ life' = "up"
    /\ UNCHANGED <<callVars, pageVars, bus, currentPowerState, gate, attempts, devVars>>

(* stop(), when the clients have stopped: event sources are removed under  *)
(* the gate.  No close() has come before: open() was not IOService's, so   *)
(* the bus finds the transport not open (RmiBus, ForwardsOpen).            *)
Stop ==
    /\ life = "up" /\ gate = "idle"
    /\ \A t \in Client : pc[t] = "idle"
    /\ stopInterrupt
    /\ life' = "dead"
    /\ UNCHANGED <<callVars, pageVars, bus, currentPowerState, gate, heeded, attempts, devVars>>

-----------------------------------------------------------------------------
(* A thread enters readBlock or blockWrite; the gate's thread does so only *)
(* while it delivers a message to the bus.                                 *)
Call(t, r) ==
    /\ pc[t] = "idle"
    /\ life \in {"up", "open"}
    /\ t = Gate => gate \in {"notify", "sleep", "resume"}
    /\ pc' = [pc EXCEPT ![t] = "lock"]
    /\ req' = [req EXCEPT ![t] = r]
    /\ UNCHANGED <<landed, pageVars, powerVars, lifeVars, devVars>>

(* Mutant of LockPage: the thread does not wait for the lock.              *)
LockPageNoWait(t) ==
    /\ pc[t] \in {"lock", "configure"}
    /\ page_mutex' = t
    /\ pc' = [pc EXCEPT ![t] = "select"]
    /\ UNCHANGED <<req, landed, page, powerVars, lifeVars, devVars>>

(* IOLockLock(page_mutex); the lock is not recursive.                      *)
LockPage(t) ==
    /\ pc[t] \in {"lock", "configure"}
    /\ page_mutex = NoThread
    /\ page_mutex' = t
    /\ pc' = [pc EXCEPT ![t] = "select"]
    /\ UNCHANGED <<req, landed, page, powerVars, lifeVars, devVars>>

(* The page of the access is the one selected last.                        *)
KeepPage(t) ==
    /\ pc[t] = "select"
    /\ OnPage(t)
    /\ pc' = [pc EXCEPT ![t] = "transfer"]
    /\ UNCHANGED <<req, landed, pageVars, powerVars, lifeVars, devVars>>

(* rmi_set_page: the device has the page ...                               *)
ChangePage(t) ==
    /\ pc[t] = "select"
    /\ ~OnPage(t)
    /\ SelectPage(PageOf(req[t]))
    /\ pc' = [pc EXCEPT ![t] = "record"]
    /\ UNCHANGED <<req, landed, pageVars, powerVars, lifeVars, devMode>>

(* ... and the driver remembers it.                                        *)
RecordPage(t) ==
    /\ pc[t] = "record"
    /\ page' = PageOf(req[t])
    /\ pc' = [pc EXCEPT ![t] = "transfer"]
    /\ UNCHANGED <<req, landed, page_mutex, powerVars, lifeVars, devVars>>

(* rmi_set_page fails: the page remembered stays what it was.              *)
ChangePageError(t) ==
    /\ pc[t] = "select"
    /\ ~OnPage(t)
    /\ SelectPageError(PageOf(req[t]))
    /\ pc' = [pc EXCEPT ![t] = "exit"]
    /\ UNCHANGED <<req, landed, pageVars, powerVars, lifeVars, devMode>>

(* The transfer succeeds; what comes back for a read is an RMI report.     *)
Transfer(t) ==
    /\ pc[t] = "transfer"
    /\ IsRead(t) => devMode = "RMI"
    /\ landed' = [landed EXCEPT ![t] = Moved(t)]
    /\ pc' = [pc EXCEPT ![t] = "done"]
    /\ UNCHANGED <<req, pageVars, powerVars, lifeVars, devVars>>

(* It fails, or what comes back for a read is some other report.           *)
TransferError(t) ==
    /\ pc[t] = "transfer"
    /\ pc' = [pc EXCEPT ![t] = "exit"]
    /\ UNCHANGED <<req, landed, pageVars, powerVars, lifeVars, devVars>>

(* The report is that of a mouse or of a pointer: readBlock calls reset(). *)
ReadMismatch(t) ==
    /\ pc[t] = "transfer"
    /\ IsRead(t) /\ devMode = "HID"
    /\ pc' = [pc EXCEPT ![t] = "reset"]
    /\ UNCHANGED <<req, landed, pageVars, powerVars, lifeVars, devVars>>

(* reset(): the mode cannot be set, or there is no bus to tell of it.      *)
ResetOnly(t) ==
    /\ pc[t] = "reset"
    /\ \/ SetModeError /\ UNCHANGED ready
       \/ ~bus /\ SetMode /\ ready' = TRUE
    /\ pc' = [pc EXCEPT ![t] = "exit"]
    /\ UNCHANGED <<req, landed, pageVars, bus, currentPowerState, enabled, gate, heeded, lifeVars,
                   devPage, kept, slipped>>

(* reset(): the bus is told to configure the device, which begins with a   *)
(* blockWrite by this very thread, within its readBlock.                   *)
ResetAndConfigure(t) ==
    /\ pc[t] = "reset"
    /\ bus
    /\ SetMode
    /\ ready' = TRUE
    /\ pc' = [pc EXCEPT ![t] = "configure"]
    /\ UNCHANGED <<req, landed, pageVars, bus, currentPowerState, enabled, gate, heeded, lifeVars,
                   devPage, kept, slipped>>

(* exit: IOLockUnlock(page_mutex); return retval.                          *)
Return(t) ==
    /\ pc[t] \in {"done", "exit"}
    /\ page_mutex' = NoThread
    /\ pc' = [pc EXCEPT ![t] = "idle"]
    /\ req' = [req EXCEPT ![t] = NoRequest]
    /\ landed' = [landed EXCEPT ![t] = {}]
    /\ UNCHANGED <<page, powerVars, lifeVars, devVars>>

ClientStep(t) ==
    \/ LockPage(t)
    \/ KeepPage(t)
    \/ ChangePage(t)
    \/ RecordPage(t)
    \/ ChangePageError(t)
    \/ Transfer(t)
    \/ TransferError(t)
    \/ ReadMismatch(t)
    \/ ResetOnly(t)
    \/ ResetAndConfigure(t)
    \/ Return(t)

-----------------------------------------------------------------------------
(* interruptOccured, also called by simulateInterrupt's timer.             *)
InterruptOccured ==
    /\ gate = "idle"
    /\ enabled /\ ready /\ bus
    /\ gate' = "notify"
    /\ UNCHANGED <<callVars, pageVars, ready, bus, currentPowerState, enabled, heeded, lifeVars,
                   devVars>>

(* setPowerState: nothing to do without a bus or in the state asked for.   *)
(* The state is remembered; attemptAction gives up if the gate is taken,   *)
(* and then the change is missed for good.                                 *)
SetPowerState(s) ==
    /\ life \in {"up", "open"} /\ bus
    /\ currentPowerState # s
    /\ currentPowerState' = s
    /\ gate' = IF gate # "idle" THEN gate ELSE IF s = "off" THEN "sleep" ELSE "wake"
    /\ heeded' = (gate = "idle")
    /\ UNCHANGED <<callVars, pageVars, ready, bus, enabled, lifeVars, devVars>>

(* The message to the bus, a notification or Resume, has been dealt with.  *)
MessageDone ==
    /\ gate \in {"notify", "resume"}
    /\ pc[Gate] = "idle"
    /\ gate' = "idle"
    /\ UNCHANGED <<callVars, pageVars, ready, bus, currentPowerState, enabled, heeded, lifeVars,
                   devVars>>

(* setPowerStateGated, off: after the bus has dealt with Sleep.            *)
SleepDone ==
    /\ gate = "sleep"
    /\ pc[Gate] = "idle"
    /\ stopInterrupt
    /\ gate' = "idle"
    /\ UNCHANGED <<callVars, pageVars, bus, currentPowerState, heeded, lifeVars, devVars>>

(* setPowerStateGated, on: interrupts first, then a pause of a second ...  *)
Wake ==
    /\ gate = "wake"
    /\ startInterrupt
    /\ gate' = "mode"
    /\ UNCHANGED <<callVars, pageVars, bus, currentPowerState, heeded, lifeVars, devVars>>

(* ... then the mode, and Resume for the bus if that succeeds.             *)
WakeMode ==
    /\ gate = "mode"
    /\ \/ SetMode /\ gate' = "resume"
       \/ SetModeError /\ gate' = "idle"
    /\ UNCHANGED <<callVars, pageVars, ready, bus, currentPowerState, enabled, heeded, lifeVars,
                   devPage, kept, slipped>>

(* The touchpad is reset, or has its power cut while the system sleeps.    *)
DeviceReset ==
    /\ life \in {"up", "open"}
    /\ devMode' = "HID" /\ devPage' = 0 /\ kept' = FALSE /\ slipped' = FALSE
    /\ UNCHANGED <<callVars, pageVars, powerVars, lifeVars>>

Lifecycle ==
    \/ ProbeMode
    \/ ProbeModeError
    \/ ProbePage
    \/ Start
    \/ Open
    \/ OpenInterrupt
    \/ Stop

GateStep ==
    \/ InterruptOccured
    \/ \E s \in {"on", "off"} : SetPowerState(s)
    \/ MessageDone
    \/ SleepDone
    \/ Wake
    \/ WakeMode

Next ==
    \/ Lifecycle
    \/ \E t \in Client, r \in Request : Call(t, r)
    \/ \E t \in Client : ClientStep(t)
    \/ GateStep
    \/ DeviceReset

Spec == Init /\ [][Next]_vars

-----------------------------------------------------------------------------
(* Every variable has its type.                                            *)
TypeOK ==
    /\ pc \in [Client -> {"idle", "lock", "select", "record", "transfer", "reset", "configure",
                      "done", "exit"}]
    /\ req \in [Client -> Request \cup {NoRequest}]
    /\ landed \in [Client -> SUBSET (Nat \X Nat)]
    /\ page_mutex \in Client \cup {NoThread}
    /\ page \in Page /\ devPage \in Page
    /\ ready \in BOOLEAN /\ bus \in BOOLEAN /\ enabled \in BOOLEAN
    /\ kept \in BOOLEAN /\ slipped \in BOOLEAN /\ heeded \in BOOLEAN
    /\ currentPowerState \in {"on", "off"}
    /\ gate \in {"idle", "notify", "sleep", "wake", "mode", "resume"}
    /\ life \in {"mode", "page", "start", "up", "open", "dead"}
    /\ attempts \in 0 .. MaxRetries
    /\ devMode \in {"HID", "RMI"}

(* Until the touchpad is reset, the page the driver remembers is the        *)
(* touchpad's, unless a thread is about to record it, with exactly one     *)
(* exception: a selection that took effect though its write failed.  Then  *)
(* rmi_set_page leaves the page remembered before, which the touchpad has  *)
(* left, until some selection succeeds.  Two threads that select pages     *)
(* never leave the one's page in the device and the other's in the driver. *)
PageCoherent ==
    kept /\ (\A t \in Client : pc[t] # "record") => (page = devPage <=> ~slipped)

Straight(t) == {<<k, req[t].addr + k>> : k \in 0 .. req[t].len - 1}

(* Meanwhile a call moves the bytes of its buffer from and to the registers *)
(* they belong to, and one that succeeds has moved them all if they fit     *)
(* into an input report.  After a selection that slipped, a call for the    *)
(* page remembered selects nothing (readBlock, blockWrite), and the bytes   *)
(* it moves, with success, are all another page's.                          *)
TransferExact ==
    kept => \A t \in Client :
        /\ ~slipped => landed[t] \subseteq Straight(t)
        /\ ~slipped /\ pc[t] = "done" /\ Bytes(t) = req[t].len => landed[t] = Straight(t)
        /\ slipped  => landed[t] \cap Straight(t) = {}

(* Whoever holds the gate, whoever asks for power meanwhile, and whatever  *)
(* fails: when the gate is free again interrupts are on exactly if the     *)
(* touchpad is, unless attemptAction gave up on the last power change, or  *)
(* the bus opened the transport while it slept.                            *)
InterruptsFollowPower ==
    life = "up" /\ bus /\ gate = "idle" /\ heeded => (enabled <=> currentPowerState = "on")

(* "Tell driver to reconfigure" (RMII2C.cpp:274): the thread that is told  *)
(* to can get the lock that every register access needs.                   *)
ReconfigureCanLock == \A t \in Client : pc[t] = "configure" => page_mutex # t

-----------------------------------------------------------------------------
(* A request as readBlock cuts it.                                         *)
Cut(r) == [r EXCEPT !.len = Length(r)]

Status == [t \in Client |-> CASE pc[t] = "idle" -> "idle"
                             [] pc[t] = "done" -> "success"
                             [] OTHER -> "running"]

Promise == INSTANCE RegisterAccess WITH
    Request <- {Cut(r) : r \in Request},
    call    <- [t \in Client |-> Cut(req[t])],
    status  <- Status,
    moved   <- landed,
    turn    <- page_mutex

(* While the touchpad is not reset and no failed selection has taken effect, *)
(* each step is one of RegisterAccess, for requests cut to what an input   *)
(* report holds: the thread that owns page_mutex has its turn, errors and  *)
(* mode changes leave it or give it back, and what succeeds has moved its  *)
(* bytes straight.  Of a failed selection TransferExact says what happens; *)
(* that a longer read is cut short with success is allowed for by Cut.     *)
KeepsPromise == [][kept /\ ~slipped => Promise!Next]_(Promise!vars)
=============================================================================
