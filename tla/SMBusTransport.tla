--------------------------- MODULE SMBusTransport ---------------------------
(***************************************************************************)
(* The SMBus transport of VoodooRMI (Transports/SMBus/RMISMBus.cpp).       *)
(*                                                                         *)
(* RMI4 registers are reached over SMBus through a table of MapSize        *)
(* command codes that lives in the touchpad.  The driver keeps a copy of   *)
(* the table (mapping_table) and reuses an entry whenever the copy says    *)
(* that the device already maps the registers of a request.  Everything    *)
(* below is about the two tables: the copy is used without asking the      *)
(* device, by several threads, while a power change may wipe the device's  *)
(* table and a reset() wipes the copy.                                     *)
(*                                                                         *)
(* Threads: every thread that calls readBlock or blockWrite is a Client    *)
(* (the host-notify thread, the PM thread while it sends Sleep and Resume, *)
(* the threads of functions that start).  reset() runs on the PM thread,   *)
(* which is not a Client during that call: its progress is in "power".     *)
(***************************************************************************)
EXTENDS Integers

CONSTANTS
    Client,      \* threads that call readBlock and blockWrite
    NoThread,    \* owner of a free IOLock
    MapSize,     \* RMI_SMB2_MAP_SIZE, 8 in the code
    ChunkSize,   \* SMB_MAX_COUNT, 32 in the code
    Request,     \* the calls clients make: [op, addr, len]
    MaxRetries   \* retries of rmiStart after its first attempt, 5 in the code

ASSUME ClientAssumption == NoThread \notin Client
ASSUME SizeAssumption ==
    /\ MapSize \in Nat \ {0}
    /\ ChunkSize \in Nat \ {0}
    /\ MaxRetries \in Nat
ASSUME RequestAssumption ==
    Request \subseteq [op : {"read", "write"}, addr : Nat, len : Nat]

VARIABLES
    \* locals of a client's call, at their defaults while there is none
    pc,             \* where the thread is in readBlock or blockWrite
    req,            \* the arguments of its call
    rmiaddr,        \* parameter rmiaddr, advanced by the loop of readBlock
    cur_len,        \* bytes the loop has still to move
    commandcode,    \* the command code found by rmi_smb_get_command_code
    new_map,        \* the entry rmi_smb_get_command_code is installing
    landed,         \* <<byte of the caller's buffer, register>> moved so far
    \* fields of RMISMBus
    page_mutex, mapping_table_mutex, mapping_table, table_index,
    power, attempts,  \* the PM thread, the loop of rmiStart
    \* the touchpad
    devMap,         \* the table in the device
    devMode         \* "SMBus", or "PS2" in which it ignores SMBus requests

localVars == <<req, rmiaddr, cur_len, commandcode, new_map, landed>>
tableVars == <<mapping_table_mutex, mapping_table, table_index>>
powerVars == <<power, attempts>>
devVars   == <<devMap, devMode>>
vars == <<pc, localVars, page_mutex, tableVars, powerVars, devVars>>

-----------------------------------------------------------------------------
Index == 0 .. MapSize - 1

WE == 1   \* RMI_SMB2_MAP_FLAGS_WE

Entry == [rmiaddr : Int, readcount : Int, flags : {0, WE}]

(* What memset(.., 0, ..) leaves; also a table slot of a device that has   *)
(* just been powered.                                                      *)
ZeroEntry == [rmiaddr |-> 0, readcount |-> 0, flags |-> 0]

NoRequest == [op |-> "read", addr |-> 0, len |-> 0]

IsRead(t) == req[t].op = "read"

(* min(cur_len, SMB_MAX_COUNT): the size of the next chunk.                *)
BlockLen(t) == IF cur_len[t] < ChunkSize THEN cur_len[t] ELSE ChunkSize

(* The entry that the call of t asks the device to install.                *)
WantedEntry(t) == [rmiaddr   |-> rmiaddr[t],
                   readcount |-> BlockLen(t),
                   flags     |-> IF IsRead(t) THEN 0 ELSE WE]

(* Mutant of Serves: any entry for the address will do for a read.         *)
ServesAnyCount(e, t) == /\ e.rmiaddr = rmiaddr[t]
                        /\ IsRead(t) \/ e.flags = WE

(* The test of the search loop: a read needs the same count, a write needs *)
(* an entry that is enabled for writing, whatever its count.               *)
Serves(e, t) == /\ e.rmiaddr = rmiaddr[t]
                /\ IF IsRead(t) THEN e.readcount = BlockLen(t)
                                ELSE e.flags = WE

FirstHit(t, i) == /\ Serves(mapping_table[i], t)
                  /\ \A j \in Index : j < i => ~Serves(mapping_table[j], t)

NoHit(t) == \A i \in Index : ~Serves(mapping_table[i], t)

(* Mutant of NextSlot: the index is not wrapped.                           *)
NextSlotNoWrap == table_index + 1

(* The slot for the entry after the next one.                              *)
NextSlot == (table_index + 1) % MapSize

(* The bytes <<buffer position, register>> that one device transfer of     *)
(* client t moves: the device starts at the register its own entry names.  *)
Moved(t, n) == {<<req[t].len - cur_len[t] + k, devMap[commandcode[t]].rmiaddr + k>>
                   : k \in 0 .. n - 1}

-----------------------------------------------------------------------------
Init ==
    /\ pc = [t \in Client |-> "idle"]
    /\ req = [t \in Client |-> NoRequest]
    /\ rmiaddr = [t \in Client |-> 0]
    /\ cur_len = [t \in Client |-> 0]
    /\ commandcode = [t \in Client |-> 0]
    /\ new_map = [t \in Client |-> ZeroEntry]
    /\ landed = [t \in Client |-> {}]
    /\ page_mutex = NoThread
    /\ mapping_table_mutex = NoThread
    /\ mapping_table = [i \in Index |-> ZeroEntry]
    /\ table_index = 0
    /\ power = "probe"
    /\ attempts = 0
    /\ devMap = [i \in Index |-> ZeroEntry]
    /\ devMode = "PS2"

(* A client enters readBlock or blockWrite.                                *)
Call(t, r) ==
    /\ pc[t] = "idle"
    /\ power \notin {"probe", "dead"}
    /\ pc' = [pc EXCEPT ![t] = "lock"]
    /\ req' = [req EXCEPT ![t] = r]
    /\ rmiaddr' = [rmiaddr EXCEPT ![t] = r.addr]
    /\ cur_len' = [cur_len EXCEPT ![t] = r.len]
    /\ landed' = [landed EXCEPT ![t] = {}]
    /\ UNCHANGED <<commandcode, new_map, page_mutex, tableVars, powerVars, devVars>>

(* Mutant of LockPage: the thread does not wait for the lock.              *)
LockPageNoWait(t) ==
    /\ pc[t] = "lock"
    /\ page_mutex' = t
    /\ pc' = [pc EXCEPT ![t] = "loop"]
    /\ UNCHANGED <<localVars, tableVars, powerVars, devVars>>

(* IOLockLock(page_mutex); the lock is not recursive.                      *)
LockPage(t) ==
    /\ pc[t] = "lock"
    /\ page_mutex = NoThread
    /\ page_mutex' = t
    /\ pc' = [pc EXCEPT ![t] = "loop"]
    /\ UNCHANGED <<localVars, tableVars, powerVars, devVars>>

(* Mutant of Return: "return retval" without passing through exit.         *)
ReturnLocked(t) ==
    /\ pc' = [pc EXCEPT ![t] = "idle"]
    /\ req' = [req EXCEPT ![t] = NoRequest]
    /\ rmiaddr' = [rmiaddr EXCEPT ![t] = 0]
    /\ cur_len' = [cur_len EXCEPT ![t] = 0]
    /\ commandcode' = [commandcode EXCEPT ![t] = 0]
    /\ landed' = [landed EXCEPT ![t] = {}]
    /\ UNCHANGED page_mutex

(* exit: IOLockUnlock(page_mutex); return retval.  The frame is gone.      *)
Return(t) ==
    /\ page_mutex' = NoThread
    /\ pc' = [pc EXCEPT ![t] = "idle"]
    /\ req' = [req EXCEPT ![t] = NoRequest]
    /\ rmiaddr' = [rmiaddr EXCEPT ![t] = 0]
    /\ cur_len' = [cur_len EXCEPT ![t] = 0]
    /\ commandcode' = [commandcode EXCEPT ![t] = 0]
    /\ landed' = [landed EXCEPT ![t] = {}]

(* The loop condition is false: everything has been moved.                 *)
Finish(t) ==
    /\ pc[t] = "loop"
    /\ cur_len[t] <= 0
    /\ Return(t)
    /\ UNCHANGED <<new_map, tableVars, powerVars, devVars>>

(* rmi_smb_get_command_code, the search ends at a usable entry: the lock   *)
(* of the table is taken and released within the step.                     *)
LookupHit(t) ==
    /\ pc[t] = "loop"
    /\ cur_len[t] > 0
    /\ mapping_table_mutex = NoThread
    /\ \E i \in Index :
          /\ FirstHit(t, i)
          /\ commandcode' = [commandcode EXCEPT ![t] = i]
    /\ pc' = [pc EXCEPT ![t] = "access"]
    /\ UNCHANGED <<req, rmiaddr, cur_len, new_map, landed, page_mutex,
                   tableVars, powerVars, devVars>>

(* rmi_smb_get_command_code, no usable entry: the slot at table_index is   *)
(* reused, whatever it holds; the lock stays taken.                        *)
LookupMiss(t) ==
    /\ pc[t] = "loop"
    /\ cur_len[t] > 0
    /\ mapping_table_mutex = NoThread
    /\ NoHit(t)
    /\ mapping_table_mutex' = t
    /\ commandcode' = [commandcode EXCEPT ![t] = table_index]
    /\ table_index' = NextSlot
    /\ new_map' = [new_map EXCEPT ![t] = WantedEntry(t)]
    /\ pc' = [pc EXCEPT ![t] = "install"]
    /\ UNCHANGED <<req, rmiaddr, cur_len, landed, page_mutex,
                   mapping_table, powerVars, devVars>>

(* writeBlockData(i + 0x80, new_map) succeeds.                             *)
InstallOk(t) ==
    /\ pc[t] = "install"
    /\ devMode = "SMBus"
    /\ devMap' = [devMap EXCEPT ![commandcode[t]] = new_map[t]]
    /\ pc' = [pc EXCEPT ![t] = "record"]
    /\ UNCHANGED <<localVars, page_mutex, tableVars, powerVars, devMode>>

(* writeBlockData fails; an error on the bus does not tell whether the     *)
(* device took the entry.  The entry to record becomes all zeroes.         *)
InstallError(t) ==
    /\ pc[t] = "install"
    /\ \/ UNCHANGED devMap
       \/ /\ devMode = "SMBus"
          /\ devMap' = [devMap EXCEPT ![commandcode[t]] = new_map[t]]
    /\ new_map' = [new_map EXCEPT ![t] = ZeroEntry]
    /\ pc' = [pc EXCEPT ![t] = "record"]
    /\ UNCHANGED <<req, rmiaddr, cur_len, commandcode, landed, page_mutex,
                   tableVars, powerVars, devMode>>

(* mapping_table[i] = new_map; IOLockUnlock(mapping_table_mutex).  After   *)
(* a failed write the caller leaves through exit with the error.           *)
Record(t) ==
    /\ pc[t] = "record"
    /\ mapping_table' = [mapping_table EXCEPT ![commandcode[t]] = new_map[t]]
    /\ mapping_table_mutex' = NoThread
    /\ new_map' = [new_map EXCEPT ![t] = ZeroEntry]
    /\ IF new_map[t] = ZeroEntry
       THEN Return(t)
       ELSE /\ pc' = [pc EXCEPT ![t] = "access"]
            /\ UNCHANGED <<req, rmiaddr, cur_len, commandcode, landed, page_mutex>>
    /\ UNCHANGED <<table_index, powerVars, devVars>>

(* What the device does with command code c: a read returns the readcount  *)
(* registers of the entry, a write needs an entry with the WE flag.        *)
DeviceAccepts(t) ==
    /\ devMode = "SMBus"
    /\ IF IsRead(t) THEN devMap[commandcode[t]].readcount > 0
                    ELSE devMap[commandcode[t]].flags = WE

(* readBlockData(commandcode) succeeds: the loop of readBlock moves on to  *)
(* the next chunk of the buffer and of the registers.                      *)
ReadChunk(t) ==
    /\ pc[t] = "access"
    /\ IsRead(t)
    /\ DeviceAccepts(t)
    /\ landed' = [landed EXCEPT ![t] = @ \cup Moved(t, devMap[commandcode[t]].readcount)]
    /\ cur_len' = [cur_len EXCEPT ![t] = @ - ChunkSize]
    /\ rmiaddr' = [rmiaddr EXCEPT ![t] = @ + ChunkSize]
    /\ pc' = [pc EXCEPT ![t] = "loop"]
    /\ UNCHANGED <<req, commandcode, new_map, page_mutex, tableVars,
                   powerVars, devVars>>

(* writeBlockData(commandcode) succeeds: the loop of blockWrite moves on   *)
(* to the next chunk of the buffer; rmiaddr keeps its value.               *)
WriteChunk(t) ==
    /\ pc[t] = "access"
    /\ ~IsRead(t)
    /\ DeviceAccepts(t)
    /\ landed' = [landed EXCEPT ![t] = @ \cup Moved(t, BlockLen(t))]
    /\ cur_len' = [cur_len EXCEPT ![t] = @ - ChunkSize]
    /\ pc' = [pc EXCEPT ![t] = "loop"]
    /\ UNCHANGED <<req, rmiaddr, commandcode, new_map, page_mutex, tableVars,
                   powerVars, devVars>>

(* The transfer fails, for any reason a bus may have.                      *)
AccessError(t) ==
    /\ pc[t] = "access"
    /\ Return(t)
    /\ UNCHANGED <<new_map, tableVars, powerVars, devVars>>

ClientStep(t) ==
    \/ LockPage(t)
    \/ Finish(t)
    \/ LookupHit(t)
    \/ LookupMiss(t)
    \/ InstallOk(t)
    \/ InstallError(t)
    \/ Record(t)
    \/ ReadChunk(t)
    \/ WriteChunk(t)
    \/ AccessError(t)

-----------------------------------------------------------------------------
(* rmi_smb_get_version answers: reading the version makes the device       *)
(* accept SMBus requests.                                                  *)
GetVersion == devMode' = "SMBus" /\ UNCHANGED devMap

(* start() and the loop of rmiStart: the first answer that names version 2 *)
(* or 3 publishes the transport.                                           *)
RmiStartOk ==
    /\ power = "probe"
    /\ GetVersion
    /\ power' = "on"
    /\ UNCHANGED <<pc, localVars, page_mutex, tableVars, attempts>>

(* The read of the version fails: one more attempt until all are used up.  *)
RmiStartError ==
    /\ power = "probe"
    /\ IF attempts < MaxRetries
       THEN attempts' = attempts + 1 /\ UNCHANGED power
       ELSE power' = "dead" /\ UNCHANGED attempts
    /\ UNCHANGED <<pc, localVars, page_mutex, tableVars, devVars>>

(* The version is none the driver knows: start fails at once.              *)
RmiStartUnknownVersion ==
    /\ power = "probe"
    /\ GetVersion
    /\ power' = "dead"
    /\ UNCHANGED <<pc, localVars, page_mutex, tableVars, attempts>>

(* setPowerState(0): the bus is told; the transport itself does nothing.   *)
Sleep ==
    /\ power = "on"
    /\ power' = "off"
    /\ UNCHANGED <<pc, localVars, page_mutex, tableVars, attempts, devVars>>

(* While the system sleeps the touchpad may lose its power and comes back  *)
(* as a PS/2 device with an empty table.                                   *)
DevicePowerLoss ==
    /\ power = "off"
    /\ devMode' = "PS2"
    /\ devMap' = [i \in Index |-> ZeroEntry]
    /\ UNCHANGED <<pc, localVars, page_mutex, tableVars, powerVars>>

(* Mutant of ResetTable: the memset does not take mapping_table_mutex.     *)
ResetTableUnlocked ==
    /\ power \in {"on", "off"}
    /\ mapping_table' = [i \in Index |-> ZeroEntry]
    /\ power' = "version"
    /\ UNCHANGED <<pc, localVars, page_mutex, mapping_table_mutex, table_index,
                   attempts, devVars>>

(* setPowerState(1), reset(): the table is discarded under its lock.  The  *)
(* PM layer may also ask for a state the transport is already in.          *)
ResetTable ==
    /\ power \in {"on", "off"}
    /\ mapping_table_mutex = NoThread
    /\ mapping_table' = [i \in Index |-> ZeroEntry]
    /\ power' = "version"
    /\ UNCHANGED <<pc, localVars, page_mutex, mapping_table_mutex, table_index,
                   attempts, devVars>>

(* reset(), second half: the version is read, or the read fails and the    *)
(* driver stays up without having resumed the device.                      *)
ResetVersion ==
    /\ power = "version"
    /\ power' = "on"
    /\ GetVersion \/ UNCHANGED devVars
    /\ UNCHANGED <<pc, localVars, page_mutex, tableVars, attempts>>

(* start() returned false: IOKit drops the driver.                         *)
Dead == power = "dead" /\ UNCHANGED vars

PmStep ==
    \/ RmiStartOk
    \/ RmiStartError
    \/ RmiStartUnknownVersion
    \/ Sleep
    \/ DevicePowerLoss
    \/ ResetTable
    \/ ResetVersion

Next ==
    \/ \E t \in Client, r \in Request : Call(t, r)
    \/ \E t \in Client : ClientStep(t)
    \/ PmStep
    \/ Dead

Spec == Init /\ [][Next]_vars

(* A thread inside a call keeps running: it is scheduled, and every bus    *)
(* transfer ends, with data or with an error.  Nobody has to call, and the *)
(* system need not sleep.                                                  *)
Fairness == \A t \in Client : WF_vars(ClientStep(t))

FairSpec == Spec /\ Fairness

-----------------------------------------------------------------------------
(* Every variable has its type.                                            *)
TypeOK ==
    /\ pc \in [Client -> {"idle", "lock", "loop", "install", "record", "access"}]
    /\ req \in [Client -> Request \cup {NoRequest}]
    /\ rmiaddr \in [Client -> Int]
    /\ cur_len \in [Client -> Int]
    /\ commandcode \in [Client -> Index]
    /\ new_map \in [Client -> Entry]
    /\ landed \in [Client -> SUBSET (Int \X Int)]
    /\ page_mutex \in Client \cup {NoThread}
    /\ mapping_table_mutex \in Client \cup {NoThread}
    /\ mapping_table \in [Index -> Entry]
    /\ table_index \in Index
    /\ power \in {"probe", "on", "off", "version", "dead"}
    /\ attempts \in 0 .. MaxRetries
    /\ devMap \in [Index -> Entry]
    /\ devMode \in {"SMBus", "PS2"}

(* The slot some thread is rewriting right now, under mapping_table_mutex. *)
BeingRewritten(i) == \E t \in Client : /\ pc[t] \in {"install", "record"}
                                       /\ commandcode[t] = i

(* Whenever the device listens, each entry of the driver's table that is   *)
(* in use is the entry of the device, except for the one slot being        *)
(* rewritten: failed installs, a power loss, and a reset() that runs while *)
(* a thread installs an entry must all leave the two tables in agreement.  *)
(* (get_command_code answers from the driver's table alone.)               *)
MapCoherent ==
    devMode = "SMBus" =>
        \A i \in Index : mapping_table[i] # ZeroEntry /\ ~BeingRewritten(i)
                            => mapping_table[i] = devMap[i]

(* A command code still serves the request when it is used: between        *)
(* get_command_code and the transfer no other thread has had the slot      *)
(* remapped; at most the device has forgotten it.                          *)
AccessHitsRequest ==
    \A t \in Client :
        pc[t] = "access" => \/ Serves(devMap[commandcode[t]], t)
                            \/ devMap[commandcode[t]] = ZeroEntry

(* The byte of the buffer and the register it belongs to.                  *)
Straight(t) == {<<k, req[t].addr + k>> : k \in 0 .. req[t].len - 1}

(* The loop has ended without an error: the call is about to succeed.      *)
Succeeds(t) == pc[t] = "loop" /\ cur_len[t] <= 0

(* The writes the loop of blockWrite handles.                              *)
OneChunk(t) == req[t].len <= ChunkSize

(* No call, however it ends, moves a byte between the buffer and another   *)
(* register than the one it belongs to, and a call that succeeds has moved *)
(* them all; of writes this is claimed for one chunk only.                 *)
TransferExact ==
    \A t \in Client : IsRead(t) \/ OneChunk(t) =>
        /\ landed[t] \subseteq Straight(t)
        /\ Succeeds(t) => landed[t] = Straight(t)

(* The same for every write: "break into 32 bytes chunks to write"         *)
(* (RMISMBus.cpp:240-242) promises that a longer write is only split.      *)
LongWriteExact ==
    \A t \in Client : ~IsRead(t) /\ Succeeds(t) => landed[t] = Straight(t)

(* Locks are nested one way, page_mutex outside mapping_table_mutex, and   *)
(* only calls in progress hold them.                                       *)
LockOrder ==
    /\ \A t \in Client : page_mutex = t <=> pc[t] \notin {"idle", "lock"}
    /\ \A t \in Client : mapping_table_mutex = t <=> pc[t] \in {"install", "record"}

(* Every path out of a transfer, errors included, gives page_mutex back.   *)
PageMutexReleased == \A t \in Client : page_mutex = t ~> page_mutex # t

(* A view of the calls: what RegisterAccess calls their status.            *)
Status == [t \in Client |-> IF pc[t] = "idle" THEN "idle"
                            ELSE IF Succeeds(t) THEN "success" ELSE "running"]

Promise == INSTANCE RegisterAccess WITH
    call   <- req,
    status <- Status,
    moved  <- landed,
    turn   <- page_mutex

(* The transport keeps the promise of RegisterAccess, as long as no write  *)
(* is longer than a chunk: the thread that owns page_mutex has its turn.   *)
KeepsPromise == Promise!Spec
=============================================================================
