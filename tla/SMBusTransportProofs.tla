------------------------ MODULE SMBusTransportProofs ------------------------
(***************************************************************************)
(* Proofs about SMBusTransport, for any number of threads, any set of      *)
(* requests and any size of the table and of a chunk.                      *)
(***************************************************************************)
EXTENDS SMBusTransport, TLAPS

(* MapCoherent is not inductive: it says nothing of a device that does not *)
(* listen, and the tables have to agree again when it does.                *)
DeviceInv ==
    /\ devMode = "PS2" => \A i \in Index : devMap[i] = ZeroEntry
    /\ devMode = "PS2" /\ power # "off" => \A i \in Index : mapping_table[i] = ZeroEntry
    /\ \A t \in Client : pc[t] = "record" /\ new_map[t] # ZeroEntry =>
          IF devMode = "SMBus" THEN devMap[commandcode[t]] = new_map[t]
                               ELSE power = "off"

(* What a thread in the middle of a transfer knows about its own locals.   *)
EntryInv ==
    \A t \in Client :
        /\ pc[t] \in {"install", "record", "access"} => cur_len[t] > 0
        /\ pc[t] = "install" => new_map[t] = WantedEntry(t)
        /\ pc[t] = "record" => new_map[t] \in {ZeroEntry, WantedEntry(t)}

(* How many bytes a loop that goes straight has moved.                     *)
Through(t) == IF cur_len[t] > 0 THEN req[t].len - cur_len[t] ELSE req[t].len

(* How far the loop is, and what it has moved.                             *)
LoopInv ==
    \A t \in Client :
        /\ cur_len[t] = req[t].len \/ cur_len[t] <= req[t].len - ChunkSize
        /\ IsRead(t) \/ OneChunk(t) =>
              /\ cur_len[t] > 0 => rmiaddr[t] = req[t].addr + (req[t].len - cur_len[t])
              /\ landed[t] = {<<k, req[t].addr + k>> : k \in 0 .. Through(t) - 1}

IInv == /\ TypeOK
        /\ LockOrder
        /\ MapCoherent
        /\ DeviceInv
        /\ EntryInv
        /\ AccessHitsRequest
        /\ LoopInv

-----------------------------------------------------------------------------
(* The constants are what the operators take them for.                     *)
LEMMA EntryFacts ==
    /\ ZeroEntry \in Entry
    /\ NoRequest \in [op : {"read", "write"}, addr : Nat, len : Nat]
    /\ 0 \in Index
BY SizeAssumption DEF ZeroEntry, Entry, NoRequest, Index, WE

LEMMA RequestFacts ==
    ASSUME TypeOK, NEW t \in Client
    PROVE  /\ req[t] \in [op : {"read", "write"}, addr : Nat, len : Nat]
           /\ WantedEntry(t) \in Entry
           /\ BlockLen(t) \in Int
<1>1. req[t] \in [op : {"read", "write"}, addr : Nat, len : Nat]
    BY EntryFacts, RequestAssumption DEF TypeOK
<1>2. BlockLen(t) \in Int
    BY SizeAssumption DEF TypeOK, BlockLen
<1>3. rmiaddr[t] \in Int
    BY DEF TypeOK
<1>4. WantedEntry(t) \in Entry
    BY <1>2, <1>3 DEF WantedEntry, Entry, WE
<1> QED BY <1>1, <1>2, <1>4

(* One byte range more: what a chunk adds to a transfer that goes straight.*)
LEMMA ExtendStraight ==
    ASSUME NEW a \in Int, NEW n \in Nat, NEW m \in Nat
    PROVE  {<<k, a + k>> : k \in 0 .. n - 1} \cup {<<n + k, (a + n) + k>> : k \in 0 .. m - 1}
              = {<<k, a + k>> : k \in 0 .. (n + m) - 1}
<1> DEFINE A == {<<k, a + k>> : k \in 0 .. n - 1}
           B == {<<n + k, (a + n) + k>> : k \in 0 .. m - 1}
           C == {<<k, a + k>> : k \in 0 .. (n + m) - 1}
<1>1. A \subseteq C
    OBVIOUS
<1>2. ASSUME NEW k \in 0 .. m - 1
      PROVE  <<n + k, (a + n) + k>> \in C
    <2>1. n + k \in 0 .. (n + m) - 1 /\ (a + n) + k = a + (n + k)
        OBVIOUS
    <2> QED BY <2>1
<1>3. ASSUME NEW k \in 0 .. (n + m) - 1
      PROVE  <<k, a + k>> \in A \cup B
    <2>1. CASE k < n
        <3>1. k \in 0 .. n - 1
            BY <2>1
        <3> QED BY <3>1
    <2>2. CASE ~(k < n)
        <3>1. k - n \in 0 .. m - 1 /\ n + (k - n) = k /\ (a + n) + (k - n) = a + k
            BY <2>2
        <3> QED BY <3>1
    <2> QED BY <2>1, <2>2
<1> QED BY <1>1, <1>2, <1>3

-----------------------------------------------------------------------------
(* Type correctness.                                                       *)
LEMMA InitType == Init => TypeOK
BY EntryFacts, SizeAssumption, ClientAssumption
DEF Init, TypeOK, Index

LEMMA ReturnType ==
    ASSUME TypeOK, NEW t \in Client, Return(t)
    PROVE  /\ pc' \in [Client -> {"idle", "lock", "loop", "install", "record", "access"}]
           /\ req' \in [Client -> Request \cup {NoRequest}]
           /\ rmiaddr' \in [Client -> Int]
           /\ cur_len' \in [Client -> Int]
           /\ commandcode' \in [Client -> Index]
           /\ landed' \in [Client -> SUBSET (Int \X Int)]
           /\ page_mutex' \in Client \cup {NoThread}
BY EntryFacts DEF TypeOK, Return

LEMMA ClientType ==
    ASSUME TypeOK, NEW t \in Client, ClientStep(t)
    PROVE  TypeOK'
<1> USE DEF TypeOK
<1>0. /\ devMap[commandcode[t]] \in Entry
      /\ commandcode[t] \in Index
      /\ new_map[t] \in Entry
    BY DEF Index
<1>1. CASE LockPage(t)
    BY <1>1 DEF LockPage, localVars, tableVars, powerVars, devVars
<1>2. CASE Finish(t)
    BY <1>2, ReturnType DEF Finish, tableVars, powerVars, devVars
<1>3. CASE LookupHit(t)
    BY <1>3 DEF LookupHit, tableVars, powerVars, devVars
<1>4. CASE LookupMiss(t)
    <2>1. (table_index + 1) % MapSize \in Index
        BY SizeAssumption DEF Index
    <2> QED BY <1>4, <2>1, RequestFacts DEF LookupMiss, NextSlot, powerVars, devVars
<1>5. CASE InstallOk(t)
    BY <1>0, <1>5 DEF InstallOk, localVars, tableVars, powerVars
<1>6. CASE InstallError(t)
    BY <1>0, <1>6, EntryFacts DEF InstallError, tableVars, powerVars
<1>7. CASE Record(t)
    <2>1. /\ mapping_table' \in [Index -> Entry]
          /\ mapping_table_mutex' \in Client \cup {NoThread}
          /\ new_map' \in [Client -> Entry]
        BY <1>0, <1>7, EntryFacts DEF Record
    <2>2. CASE new_map[t] = ZeroEntry
        BY <1>7, <2>1, <2>2, ReturnType DEF Record, powerVars, devVars
    <2>3. CASE new_map[t] # ZeroEntry
        BY <1>7, <2>1, <2>3 DEF Record, powerVars, devVars
    <2> QED BY <2>2, <2>3
<1>8. CASE ReadChunk(t)
    <2>1. devMap[commandcode[t]].readcount \in Int /\ devMap[commandcode[t]].rmiaddr \in Int
        BY <1>0 DEF Entry
    <2>2. Moved(t, devMap[commandcode[t]].readcount) \in SUBSET (Int \X Int)
        BY <2>1, RequestFacts DEF Moved
    <2> QED BY <1>8, <2>2, SizeAssumption DEF ReadChunk, tableVars, powerVars, devVars
<1>9. CASE WriteChunk(t)
    <2>1. devMap[commandcode[t]].rmiaddr \in Int
        BY <1>0 DEF Entry
    <2>2. Moved(t, BlockLen(t)) \in SUBSET (Int \X Int)
        BY <2>1, RequestFacts DEF Moved
    <2> QED BY <1>9, <2>2, SizeAssumption DEF WriteChunk, tableVars, powerVars, devVars
<1>10. CASE AccessError(t)
    BY <1>10, ReturnType DEF AccessError, tableVars, powerVars, devVars
<1> QED BY <1>1, <1>2, <1>3, <1>4, <1>5, <1>6, <1>7, <1>8, <1>9, <1>10 DEF ClientStep

LEMMA PmType ==
    ASSUME TypeOK, PmStep
    PROVE  TypeOK'
<1> USE DEF TypeOK, localVars, tableVars, devVars
<1>1. CASE RmiStartOk
    BY <1>1 DEF RmiStartOk, GetVersion
<1>2. CASE RmiStartError
    BY <1>2, SizeAssumption DEF RmiStartError
<1>3. CASE RmiStartUnknownVersion
    BY <1>3 DEF RmiStartUnknownVersion, GetVersion
<1>4. CASE Sleep
    BY <1>4 DEF Sleep
<1>5. CASE DevicePowerLoss
    BY <1>5, EntryFacts DEF DevicePowerLoss, powerVars
<1>6. CASE ResetTable
    BY <1>6, EntryFacts DEF ResetTable
<1>7. CASE ResetVersion
    BY <1>7 DEF ResetVersion, GetVersion
<1> QED BY <1>1, <1>2, <1>3, <1>4, <1>5, <1>6, <1>7 DEF PmStep

LEMMA TypeStep == TypeOK /\ [Next]_vars => TypeOK'
<1> SUFFICES ASSUME TypeOK, [Next]_vars PROVE TypeOK'
    OBVIOUS
<1>1. CASE \E t \in Client, r \in Request : Call(t, r)
    BY <1>1, RequestAssumption
    DEF TypeOK, Call, tableVars, powerVars, devVars
<1>2. CASE \E t \in Client : ClientStep(t)
    BY <1>2, ClientType
<1>3. CASE PmStep
    BY <1>3, PmType
<1>4. CASE Dead \/ UNCHANGED vars
    BY <1>4 DEF Dead, TypeOK, vars, localVars, tableVars, powerVars, devVars
<1> QED BY <1>1, <1>2, <1>3, <1>4 DEF Next

(* Every variable keeps its type, whatever the constants are.              *)
THEOREM TypeCorrect == Spec => []TypeOK
<1>1. Init => TypeOK
    BY InitType
<1>2. TypeOK /\ [Next]_vars => TypeOK'
    BY TypeStep
<1> QED BY <1>1, <1>2, PTL DEF Spec

-----------------------------------------------------------------------------
(* Locks.                                                                  *)
LEMMA InitInv == Init => IInv
<1> SUFFICES ASSUME Init PROVE IInv
    OBVIOUS
<1>1. TypeOK
    BY InitType
<1>2. LockOrder
    BY ClientAssumption DEF Init, LockOrder
<1>3. MapCoherent /\ DeviceInv
    BY DEF Init, MapCoherent, DeviceInv
<1>4. EntryInv /\ AccessHitsRequest
    BY DEF Init, EntryInv, AccessHitsRequest
<1>5. LoopInv
    <2> SUFFICES ASSUME NEW t \in Client
                 PROVE  /\ cur_len[t] = req[t].len
                        /\ ~(cur_len[t] > 0)
                        /\ landed[t] = {<<k, req[t].addr + k>> : k \in 0 .. Through(t) - 1}
        BY DEF LoopInv
    <2>1. req[t] = NoRequest /\ cur_len[t] = 0 /\ landed[t] = {}
        BY DEF Init
    <2> QED BY <2>1 DEF NoRequest, Through
<1> QED BY <1>1, <1>2, <1>3, <1>4, <1>5 DEF IInv

LEMMA LockStep == TypeOK /\ LockOrder /\ [Next]_vars => LockOrder'
<1> SUFFICES ASSUME TypeOK, LockOrder, [Next]_vars PROVE LockOrder'
    OBVIOUS
<1> USE ClientAssumption DEF LockOrder
<1>1. ASSUME NEW t \in Client, NEW r \in Request, Call(t, r) PROVE LockOrder'
    BY <1>1 DEF Call, TypeOK, tableVars
<1>2. ASSUME NEW t \in Client, ClientStep(t) PROVE LockOrder'
    <2> USE <1>2 DEF TypeOK, localVars, tableVars
    <2>1. CASE LockPage(t)
        BY <2>1 DEF LockPage
    <2>2. CASE Finish(t)
        BY <2>2 DEF Finish, Return
    <2>3. CASE LookupHit(t)
        BY <2>3 DEF LookupHit
    <2>4. CASE LookupMiss(t)
        BY <2>4 DEF LookupMiss, NextSlot
    <2>5. CASE InstallOk(t)
        BY <2>5 DEF InstallOk
    <2>6. CASE InstallError(t)
        BY <2>6 DEF InstallError
    <2>7. CASE Record(t)
        BY <2>7 DEF Record, Return
    <2>8. CASE ReadChunk(t)
        BY <2>8 DEF ReadChunk
    <2>9. CASE WriteChunk(t)
        BY <2>9 DEF WriteChunk
    <2>10. CASE AccessError(t)
        BY <2>10 DEF AccessError, Return
    <2> QED BY <2>1, <2>2, <2>3, <2>4, <2>5, <2>6, <2>7, <2>8, <2>9, <2>10 DEF ClientStep
<1>3. CASE PmStep
    BY <1>3 DEF PmStep, RmiStartOk, RmiStartError, RmiStartUnknownVersion, Sleep,
                DevicePowerLoss, ResetTable, ResetVersion, tableVars
<1>4. CASE Dead \/ UNCHANGED vars
    BY <1>4 DEF Dead, vars, tableVars
<1> QED BY <1>1, <1>2, <1>3, <1>4 DEF Next

(* What the locks are for: at most one call is past page_mutex.            *)
LEMMA OneInside ==
    ASSUME LockOrder, NEW t \in Client, NEW u \in Client,
           pc[t] \notin {"idle", "lock"}, pc[u] \notin {"idle", "lock"}
    PROVE  t = u
BY DEF LockOrder

-----------------------------------------------------------------------------
(* What a thread knows in the middle of its transfer.                      *)
LEMMA WantedNotZero ==
    ASSUME TypeOK, NEW t \in Client, cur_len[t] > 0
    PROVE  /\ WantedEntry(t) # ZeroEntry
           /\ \A e \in Entry : Serves(e, t) => e # ZeroEntry
           /\ Serves(WantedEntry(t), t)
           /\ BlockLen(t) > 0
BY SizeAssumption, RequestFacts
DEF WantedEntry, ZeroEntry, BlockLen, Serves, WE, TypeOK

LEMMA EntryStep == TypeOK /\ EntryInv /\ [Next]_vars => EntryInv'
<1> SUFFICES ASSUME TypeOK, EntryInv, [Next]_vars PROVE EntryInv'
    OBVIOUS
<1> USE DEF EntryInv
<1>1. ASSUME NEW t \in Client, NEW r \in Request, Call(t, r) PROVE EntryInv'
    BY <1>1 DEF Call, TypeOK, WantedEntry, IsRead, BlockLen
<1>2. ASSUME NEW t \in Client, ClientStep(t) PROVE EntryInv'
    <2> USE <1>2 DEF TypeOK, localVars, WantedEntry, IsRead, BlockLen
    <2>1. CASE LockPage(t)
        BY <2>1 DEF LockPage
    <2>2. CASE Finish(t)
        BY <2>2 DEF Finish, Return
    <2>3. CASE LookupHit(t)
        BY <2>3 DEF LookupHit
    <2>4. CASE LookupMiss(t)
        BY <2>4 DEF LookupMiss, NextSlot
    <2>5. CASE InstallOk(t)
        BY <2>5 DEF InstallOk
    <2>6. CASE InstallError(t)
        BY <2>6 DEF InstallError
    <2>7. CASE Record(t)
        BY <2>7 DEF Record, Return
    <2>8. CASE ReadChunk(t)
        BY <2>8 DEF ReadChunk
    <2>9. CASE WriteChunk(t)
        BY <2>9 DEF WriteChunk
    <2>10. CASE AccessError(t)
        BY <2>10 DEF AccessError, Return
    <2> QED BY <2>1, <2>2, <2>3, <2>4, <2>5, <2>6, <2>7, <2>8, <2>9, <2>10 DEF ClientStep
<1>3. CASE PmStep
    BY <1>3 DEF PmStep, RmiStartOk, RmiStartError, RmiStartUnknownVersion, Sleep,
                DevicePowerLoss, ResetTable, ResetVersion, localVars,
                WantedEntry, IsRead, BlockLen
<1>4. CASE Dead \/ UNCHANGED vars
    BY <1>4 DEF Dead, vars, localVars, WantedEntry, IsRead, BlockLen
<1> QED BY <1>1, <1>2, <1>3, <1>4 DEF Next

-----------------------------------------------------------------------------
(* The two tables.                                                         *)
MapInv == MapCoherent /\ DeviceInv

(* Steps that touch neither table, nor the mode, nor who rewrites a slot.  *)
LEMMA MapUntouched ==
    ASSUME MapInv, UNCHANGED <<mapping_table, devMap, devMode>>,
           power' = power \/ (power # "off" /\ devMode = "SMBus") \/ power' = "off"
                \/ (power # "off" /\ power' # "off"),
           \A t \in Client :
              IF pc[t] \in {"install", "record"}
              THEN UNCHANGED <<pc[t], commandcode[t], new_map[t]>>
              ELSE pc'[t] \notin {"install", "record"}
    PROVE  MapInv'
BY DEF MapInv, MapCoherent, DeviceInv, BeingRewritten

LEMMA MapStep == IInv /\ [Next]_vars => MapInv'
<1> SUFFICES ASSUME IInv, [Next]_vars PROVE MapInv'
    OBVIOUS
<1>0. TypeOK /\ LockOrder /\ MapInv /\ EntryInv
    BY DEF IInv, MapInv
<1>1. ASSUME NEW t \in Client, NEW r \in Request, Call(t, r) PROVE MapInv'
    BY <1>0, <1>1, MapUntouched DEF Call, TypeOK, tableVars, powerVars, devVars
<1>2. ASSUME NEW t \in Client, ClientStep(t) PROVE MapInv'
    <2>0. \A u \in Client : u # t /\ pc[t] \in {"loop", "install", "record", "access"}
                => pc[u] \in {"idle", "lock"}
        BY <1>0 DEF LockOrder
    <2> USE <1>0 DEF TypeOK, localVars, tableVars, powerVars, devVars
    <2>1. CASE LockPage(t)
        BY <2>1, MapUntouched DEF LockPage
    <2>2. CASE Finish(t)
        BY <2>2, MapUntouched DEF Finish, Return
    <2>3. CASE LookupHit(t)
        BY <2>3, MapUntouched DEF LookupHit
    <2>4. CASE LookupMiss(t)
        <3>1. /\ \A u \in Client : pc[u] \notin {"install", "record"}
              /\ \A u \in Client : pc'[u] = "record" => pc[u] = "record"
              /\ UNCHANGED <<mapping_table, devMap, devMode, power>>
            BY <2>0, <2>4 DEF LookupMiss, NextSlot
        <3> QED BY <3>1 DEF MapInv, MapCoherent, DeviceInv, BeingRewritten
    <2>5. CASE InstallOk(t)
        <3>1. /\ devMode = "SMBus"
              /\ devMap' = [devMap EXCEPT ![commandcode[t]] = new_map[t]]
              /\ pc' = [pc EXCEPT ![t] = "record"]
              /\ UNCHANGED <<mapping_table, devMode, power, commandcode, new_map>>
            BY <2>5 DEF InstallOk
        <3>2. \A u \in Client : pc'[u] = "record" => u = t
            BY <2>0, <2>5, <3>1 DEF InstallOk
        <3>3. devMap'[commandcode[t]] = new_map[t]
            BY <3>1
        <3>4. DeviceInv'
            BY <3>1, <3>2, <3>3 DEF DeviceInv
        <3>5. \A i \in Index : i # commandcode[t] => devMap'[i] = devMap[i]
            BY <3>1
        <3>6. BeingRewritten(commandcode[t])'
            BY <3>1 DEF BeingRewritten
        <3>7. \A i \in Index : BeingRewritten(i) => BeingRewritten(i)'
            BY <3>1 DEF BeingRewritten
        <3>8. MapCoherent'
            BY <3>1, <3>5, <3>6, <3>7 DEF MapInv, MapCoherent
        <3> QED BY <3>4, <3>8 DEF MapInv
    <2>6. CASE InstallError(t)
        <3>1. /\ pc' = [pc EXCEPT ![t] = "record"]
              /\ new_map' = [new_map EXCEPT ![t] = ZeroEntry]
              /\ UNCHANGED <<mapping_table, devMode, power, commandcode>>
            BY <2>6 DEF InstallError
        <3>2. \A u \in Client : pc'[u] = "record" => u = t
            BY <2>0, <2>6, <3>1 DEF InstallError
        <3>3. \A i \in Index : devMap'[i] = devMap[i] \/ (devMode = "SMBus" /\ i = commandcode[t])
            BY <2>6 DEF InstallError
        <3>4. DeviceInv'
            BY <3>1, <3>2, <3>3 DEF MapInv, DeviceInv
        <3>5. \A i \in Index : i = commandcode[t] \/ BeingRewritten(i) => BeingRewritten(i)'
            BY <3>1 DEF BeingRewritten
        <3>6. MapCoherent'
            BY <3>1, <3>3, <3>5 DEF MapInv, MapCoherent
        <3> QED BY <3>4, <3>6 DEF MapInv
    <2>7. CASE Record(t)
        <3>1. /\ pc[t] = "record"
              /\ mapping_table' = [mapping_table EXCEPT ![commandcode[t]] = new_map[t]]
              /\ UNCHANGED <<devMap, devMode, power>>
              /\ pc' = [pc EXCEPT ![t] = "idle"] \/ pc' = [pc EXCEPT ![t] = "access"]
            BY <2>7 DEF Record, Return
        <3>2. \A u \in Client : pc'[u] # "record"
            BY <2>0, <3>1
        <3>3. \A i \in Index : BeingRewritten(i) => i = commandcode[t]
            BY <2>0, <3>1 DEF BeingRewritten
        <3>4. new_map[t] # ZeroEntry =>
                 IF devMode = "SMBus" THEN devMap[commandcode[t]] = new_map[t]
                                      ELSE power = "off"
            BY <3>1 DEF MapInv, DeviceInv
        <3>5. \A i \in Index :
                 mapping_table'[i] = IF i = commandcode[t] THEN new_map[t] ELSE mapping_table[i]
            BY <3>1
        <3>6. DeviceInv'
            BY <3>1, <3>2, <3>4, <3>5 DEF MapInv, DeviceInv
        <3>7. MapCoherent'
            BY <3>1, <3>3, <3>4, <3>5 DEF MapInv, MapCoherent
        <3> QED BY <3>6, <3>7 DEF MapInv
    <2>8. CASE ReadChunk(t)
        BY <2>8, MapUntouched DEF ReadChunk
    <2>9. CASE WriteChunk(t)
        BY <2>9, MapUntouched DEF WriteChunk
    <2>10. CASE AccessError(t)
        BY <2>10, MapUntouched DEF AccessError, Return
    <2> QED BY <1>2, <2>1, <2>2, <2>3, <2>4, <2>5, <2>6, <2>7, <2>8, <2>9, <2>10 DEF ClientStep
<1>3. CASE PmStep
    <2> USE <1>0 DEF TypeOK, localVars, tableVars, powerVars, devVars
    <2>1. ASSUME devMode' = "SMBus", power # "off", UNCHANGED <<pc, commandcode, new_map, mapping_table, devMap>>
          PROVE  MapInv'
        BY <2>1 DEF MapInv, MapCoherent, DeviceInv, BeingRewritten
    <2>2. CASE RmiStartOk
        BY <2>1, <2>2 DEF RmiStartOk, GetVersion
    <2>3. CASE RmiStartError
        BY <2>3, MapUntouched DEF RmiStartError
    <2>4. CASE RmiStartUnknownVersion
        BY <2>1, <2>4 DEF RmiStartUnknownVersion, GetVersion
    <2>5. CASE Sleep
        BY <2>5, MapUntouched DEF Sleep
    <2>6. CASE DevicePowerLoss
        BY <2>6 DEF DevicePowerLoss, MapInv, MapCoherent, DeviceInv
    <2>7. CASE ResetTable
        <3>1. \A t \in Client : pc[t] \notin {"install", "record"}
            BY <2>7, ClientAssumption DEF ResetTable, LockOrder
        <3>2. \A i \in Index : mapping_table'[i] = ZeroEntry
            BY <2>7 DEF ResetTable
        <3> QED BY <2>7, <3>1, <3>2 DEF ResetTable, MapInv, MapCoherent, DeviceInv
    <2>8. CASE ResetVersion
        <3>1. CASE GetVersion
            BY <2>1, <2>8, <3>1 DEF ResetVersion, GetVersion
        <3>2. CASE UNCHANGED devVars
            BY <2>8, <3>2, MapUntouched DEF ResetVersion
        <3> QED BY <2>8, <3>1, <3>2 DEF ResetVersion
    <2> QED BY <1>3, <2>2, <2>3, <2>4, <2>5, <2>6, <2>7, <2>8 DEF PmStep
<1>4. CASE Dead \/ UNCHANGED vars
    BY <1>0, <1>4, MapUntouched DEF Dead, vars, localVars, tableVars, powerVars, devVars
<1> QED BY <1>1, <1>2, <1>3, <1>4 DEF Next

-----------------------------------------------------------------------------
(* A command code serves the request it was found for until it is used.    *)
LEMMA AccessStep == IInv /\ [Next]_vars => AccessHitsRequest'
<1> SUFFICES ASSUME IInv, [Next]_vars PROVE AccessHitsRequest'
    OBVIOUS
<1>0. TypeOK /\ LockOrder /\ MapCoherent /\ DeviceInv /\ EntryInv /\ AccessHitsRequest
    BY DEF IInv
<1>a. ASSUME \A t \in Client : pc'[t] = "access" =>
                 /\ pc[t] = "access"
                 /\ UNCHANGED <<req[t], rmiaddr[t], cur_len[t], commandcode[t]>>
                 /\ devMap'[commandcode[t]] \in {devMap[commandcode[t]], ZeroEntry}
      PROVE  AccessHitsRequest'
    BY <1>0, <1>a DEF AccessHitsRequest, Serves, IsRead, BlockLen
<1>1. ASSUME NEW t \in Client, NEW r \in Request, Call(t, r) PROVE AccessHitsRequest'
    BY <1>0, <1>1, <1>a DEF Call, TypeOK, devVars
<1>2. ASSUME NEW t \in Client, ClientStep(t) PROVE AccessHitsRequest'
    <2>0. \A u \in Client : u # t /\ pc[t] \in {"loop", "install", "record", "access"}
                => pc[u] \in {"idle", "lock"}
        BY <1>0 DEF LockOrder
    <2>b. ASSUME pc' = [pc EXCEPT ![t] = "access"],
                 UNCHANGED <<req, rmiaddr, cur_len, devMap>>,
                 Serves(devMap[commandcode'[t]], t) \/ devMap[commandcode'[t]] = ZeroEntry,
                 pc[t] \in {"loop", "record"}
          PROVE  AccessHitsRequest'
        <3>1. \A u \in Client : pc'[u] = "access" => u = t
            BY <1>0, <2>0, <2>b DEF TypeOK
        <3>2. Serves(devMap[commandcode[t]], t)' <=> Serves(devMap[commandcode'[t]], t)
            BY <2>b DEF Serves, IsRead, BlockLen
        <3> QED BY <2>b, <3>1, <3>2 DEF AccessHitsRequest
    <2> USE <1>0 DEF TypeOK, localVars, tableVars, powerVars, devVars
    <2>1. CASE LockPage(t)
        BY <2>1, <1>a DEF LockPage
    <2>2. CASE Finish(t)
        BY <2>2, <1>a DEF Finish, Return
    <2>3. CASE LookupHit(t)
        <3>1. PICK i \in Index : FirstHit(t, i) /\ commandcode' = [commandcode EXCEPT ![t] = i]
            BY <2>3 DEF LookupHit
        <3>2. /\ pc' = [pc EXCEPT ![t] = "access"] /\ pc[t] = "loop" /\ cur_len[t] > 0
              /\ UNCHANGED <<req, rmiaddr, cur_len, devMap>>
              /\ mapping_table_mutex = NoThread
            BY <2>3 DEF LookupHit
        <3>3. commandcode'[t] = i /\ Serves(mapping_table[i], t) /\ mapping_table[i] # ZeroEntry
            BY <3>1, <3>2, WantedNotZero DEF FirstHit
        <3>4. ~BeingRewritten(i)
            BY <3>2, ClientAssumption DEF BeingRewritten, LockOrder
        <3>5. devMode = "SMBus" => devMap[i] = mapping_table[i]
            BY <3>3, <3>4 DEF MapCoherent
        <3>6. devMode = "PS2" => devMap[i] = ZeroEntry
            BY DEF DeviceInv
        <3> QED BY <3>2, <3>3, <3>5, <3>6, <2>b
    <2>4. CASE LookupMiss(t)
        BY <2>0, <2>4, <1>a DEF LookupMiss, NextSlot
    <2>5. CASE InstallOk(t)
        BY <2>0, <2>5, <1>a DEF InstallOk
    <2>6. CASE InstallError(t)
        BY <2>0, <2>6, <1>a DEF InstallError
    <2>7. CASE Record(t)
        <3>1. CASE new_map[t] = ZeroEntry
            BY <2>7, <3>1, <1>a DEF Record, Return
        <3>2. CASE new_map[t] # ZeroEntry
            <4>1. /\ pc' = [pc EXCEPT ![t] = "access"] /\ pc[t] = "record" /\ cur_len[t] > 0
                  /\ UNCHANGED <<req, rmiaddr, cur_len, devMap, commandcode>>
                BY <2>7, <3>2 DEF Record, EntryInv
            <4>2. new_map[t] = WantedEntry(t) /\ Serves(new_map[t], t)
                BY <3>2, <4>1, WantedNotZero DEF EntryInv
            <4>3. devMode = "SMBus" => devMap[commandcode[t]] = new_map[t]
                BY <3>2, <4>1 DEF DeviceInv
            <4>4. devMode = "PS2" => devMap[commandcode[t]] = ZeroEntry
                BY DEF DeviceInv, Index
            <4> QED BY <4>1, <4>2, <4>3, <4>4, <2>b
        <3> QED BY <3>1, <3>2
    <2>8. CASE ReadChunk(t)
        BY <2>8, <1>a DEF ReadChunk
    <2>9. CASE WriteChunk(t)
        BY <2>9, <1>a DEF WriteChunk
    <2>10. CASE AccessError(t)
        BY <2>10, <1>a DEF AccessError, Return
    <2> QED BY <1>2, <2>1, <2>2, <2>3, <2>4, <2>5, <2>6, <2>7, <2>8, <2>9, <2>10 DEF ClientStep
<1>3. CASE PmStep
    BY <1>0, <1>3, <1>a DEF PmStep, RmiStartOk, RmiStartError, RmiStartUnknownVersion, Sleep,
       DevicePowerLoss, ResetTable, ResetVersion, GetVersion, localVars, devVars, TypeOK
<1>4. CASE Dead \/ UNCHANGED vars
    BY <1>0, <1>4, <1>a DEF Dead, vars, localVars, devVars
<1> QED BY <1>1, <1>2, <1>3, <1>4 DEF Next

-----------------------------------------------------------------------------
(* The loop.  A chunk that is moved with a command code that serves the    *)
(* request extends the straight transfer by exactly the chunk.             *)
LEMMA ChunkStraight ==
    ASSUME IInv, NEW t \in Client, pc[t] = "access", DeviceAccepts(t),
           IsRead(t) \/ OneChunk(t)
    PROVE  /\ IsRead(t) => devMap[commandcode[t]].readcount = BlockLen(t)
           /\ landed[t] \cup Moved(t, BlockLen(t))
                 = {<<k, req[t].addr + k>> : k \in 0 .. (req[t].len - cur_len[t] + BlockLen(t)) - 1}
           /\ req[t].len - cur_len[t] \in Nat
<1> USE DEF IInv
<1>1. cur_len[t] > 0 /\ cur_len[t] \in Int /\ BlockLen(t) \in Nat
    BY RequestFacts, SizeAssumption DEF EntryInv, TypeOK, BlockLen
<1>2. req[t].addr \in Nat /\ req[t].len \in Nat
    BY RequestFacts
<1>3. devMap[commandcode[t]] # ZeroEntry
    BY DEF DeviceAccepts, ZeroEntry, WE
<1>4. Serves(devMap[commandcode[t]], t)
    BY <1>3 DEF AccessHitsRequest
<1>5. /\ devMap[commandcode[t]].rmiaddr = req[t].addr + (req[t].len - cur_len[t])
      /\ IsRead(t) => devMap[commandcode[t]].readcount = BlockLen(t)
    BY <1>1, <1>4 DEF Serves, LoopInv
<1>6. req[t].len - cur_len[t] \in Nat
    BY <1>1, <1>2, SizeAssumption DEF LoopInv
<1>7. landed[t] = {<<k, req[t].addr + k>> : k \in 0 .. (req[t].len - cur_len[t]) - 1}
    BY <1>1 DEF LoopInv, Through
<1>8. Moved(t, BlockLen(t)) =
         {<<(req[t].len - cur_len[t]) + k, (req[t].addr + (req[t].len - cur_len[t])) + k>>
             : k \in 0 .. BlockLen(t) - 1}
    BY <1>5 DEF Moved
<1>9. {<<k, req[t].addr + k>> : k \in 0 .. (req[t].len - cur_len[t]) - 1} \cup
         {<<(req[t].len - cur_len[t]) + k, (req[t].addr + (req[t].len - cur_len[t])) + k>>
             : k \in 0 .. BlockLen(t) - 1}
      = {<<k, req[t].addr + k>> : k \in 0 .. ((req[t].len - cur_len[t]) + BlockLen(t)) - 1}
    <2>1. req[t].addr \in Int /\ req[t].len - cur_len[t] \in Nat /\ BlockLen(t) \in Nat
        BY <1>1, <1>2, <1>6
    <2> QED BY ONLY <2>1, ExtendStraight, Zenon
<1>10. landed[t] \cup Moved(t, BlockLen(t))
          = {<<k, req[t].addr + k>> : k \in 0 .. (req[t].len - cur_len[t] + BlockLen(t)) - 1}
    BY ONLY <1>7, <1>8, <1>9, Zenon
<1> QED BY <1>5, <1>6, <1>10

LEMMA LoopStep == IInv /\ [Next]_vars => LoopInv'
<1> SUFFICES ASSUME IInv, [Next]_vars PROVE LoopInv'
    OBVIOUS
<1>0. TypeOK /\ LoopInv /\ EntryInv
    BY DEF IInv
<1> DEFINE Ok(t) ==
        /\ cur_len[t] = req[t].len \/ cur_len[t] <= req[t].len - ChunkSize
        /\ IsRead(t) \/ OneChunk(t) =>
              /\ cur_len[t] > 0 => rmiaddr[t] = req[t].addr + (req[t].len - cur_len[t])
              /\ landed[t] = {<<k, req[t].addr + k>> : k \in 0 .. Through(t) - 1}
<1>a. ASSUME NEW t \in Client, UNCHANGED <<req[t], rmiaddr[t], cur_len[t], landed[t]>>
      PROVE  Ok(t)'
    BY <1>0, <1>a DEF LoopInv, Through, IsRead, OneChunk
<1>b. ASSUME NEW t \in Client, NEW r \in Request \cup {NoRequest},
             req'[t] = r, cur_len'[t] = r.len, landed'[t] = {}, rmiaddr'[t] = r.addr
      PROVE  Ok(t)'
    <2>1. r \in [op : {"read", "write"}, addr : Nat, len : Nat]
        BY RequestAssumption, EntryFacts
    <2>2. Through(t)' = 0 \/ cur_len'[t] <= 0
        BY <1>b, <2>1 DEF Through
    <2>3. {<<k, r.addr + k>> : k \in 0 .. 0 - 1} = {}
        OBVIOUS
    <2>4. Through(t)' = 0
        BY <1>b, <2>1 DEF Through
    <2> QED BY <1>b, <2>1, <2>3, <2>4
<1>c. ASSUME NEW t \in Client, Return(t) PROVE \A u \in Client : Ok(u)'
    <2>1. \A u \in Client \ {t} : UNCHANGED <<req[u], rmiaddr[u], cur_len[u], landed[u]>>
        BY <1>0, <1>c DEF Return, TypeOK
    <2>2. req'[t] = NoRequest /\ cur_len'[t] = 0 /\ landed'[t] = {} /\ rmiaddr'[t] = 0
        BY <1>0, <1>c DEF Return, TypeOK
    <2>3. NoRequest.len = 0 /\ NoRequest.addr = 0
        BY DEF NoRequest
    <2>4. Ok(t)'
        BY <1>b, <2>2, <2>3
    <2> QED BY <1>a, <2>1, <2>4
<1>1. ASSUME NEW t \in Client, NEW r \in Request, Call(t, r) PROVE \A u \in Client : Ok(u)'
    <2>1. \A u \in Client \ {t} : UNCHANGED <<req[u], rmiaddr[u], cur_len[u], landed[u]>>
        BY <1>0, <1>1 DEF Call, TypeOK
    <2>2. req'[t] = r /\ cur_len'[t] = r.len /\ landed'[t] = {} /\ rmiaddr'[t] = r.addr
        BY <1>0, <1>1 DEF Call, TypeOK
    <2>3. Ok(t)'
        BY <1>b, <2>2
    <2> QED BY <1>a, <2>1, <2>3
<1>2. ASSUME NEW t \in Client, ClientStep(t) PROVE \A u \in Client : Ok(u)'
    <2>1. CASE LockPage(t) \/ LookupHit(t) \/ LookupMiss(t) \/ InstallOk(t) \/ InstallError(t)
        BY <1>a, <2>1 DEF LockPage, LookupHit, LookupMiss, InstallOk, InstallError, localVars
    <2>2. CASE Finish(t) \/ AccessError(t)
        BY <1>c, <2>2 DEF Finish, AccessError
    <2>3. CASE Record(t)
        BY <1>a, <1>c, <2>3 DEF Record
    <2>4. CASE ReadChunk(t) \/ WriteChunk(t)
        <3>1. /\ pc[t] = "access" /\ DeviceAccepts(t) /\ cur_len[t] > 0
              /\ UNCHANGED req
              /\ cur_len' = [cur_len EXCEPT ![t] = cur_len[t] - ChunkSize]
              /\ \A u \in Client \ {t} : UNCHANGED <<rmiaddr[u], landed[u]>>
            BY <1>0, <2>4 DEF ReadChunk, WriteChunk, EntryInv, TypeOK
        <3>2. \A u \in Client \ {t} : Ok(u)'
            BY <1>0, <1>a, <3>1 DEF TypeOK
        <3>3. /\ cur_len[t] \in Int /\ cur_len'[t] = cur_len[t] - ChunkSize
              /\ req[t].len \in Nat /\ req[t].addr \in Nat /\ rmiaddr[t] \in Int
            BY <1>0, <3>1, RequestFacts DEF TypeOK
        <3>4. (cur_len[t] = req[t].len \/ cur_len[t] <= req[t].len - ChunkSize)'
            BY <1>0, <3>1, <3>3, SizeAssumption DEF LoopInv
        <3>5. ASSUME IsRead(t) \/ OneChunk(t)
              PROVE  /\ cur_len'[t] > 0 => rmiaddr'[t] = req[t].addr + (req[t].len - cur_len'[t])
                     /\ landed'[t] = {<<k, req[t].addr + k>> : k \in 0 .. Through(t)' - 1}
            <4>1. landed'[t] = landed[t] \cup Moved(t, BlockLen(t))
                BY <1>0, <2>4, <3>1, <3>5, ChunkStraight DEF ReadChunk, WriteChunk, TypeOK
            <4>2. landed'[t] = {<<k, req[t].addr + k>> : k \in 0 .. (req[t].len - cur_len[t] + BlockLen(t)) - 1}
                BY <3>1, <3>5, <4>1, ChunkStraight
            <4>3. Through(t)' = req[t].len - cur_len[t] + BlockLen(t)
                BY <3>1, <3>3, SizeAssumption DEF Through, BlockLen
            <4>4. cur_len'[t] > 0 => IsRead(t)
                BY <1>0, <3>1, <3>3, <3>5, SizeAssumption DEF LoopInv, OneChunk
            <4>5. IsRead(t) => rmiaddr'[t] = rmiaddr[t] + ChunkSize
                BY <1>0, <2>4 DEF ReadChunk, WriteChunk, TypeOK
            <4>6. rmiaddr[t] = req[t].addr + (req[t].len - cur_len[t])
                BY <1>0, <3>1, <3>5 DEF LoopInv
            <4> QED BY <3>3, <4>2, <4>3, <4>4, <4>5, <4>6, SizeAssumption
        <3>6. Ok(t)'
            BY <3>1, <3>4, <3>5 DEF IsRead, OneChunk
        <3> QED BY <3>2, <3>6
    <2> QED BY <1>2, <2>1, <2>2, <2>3, <2>4 DEF ClientStep
<1>3. ASSUME PmStep PROVE \A u \in Client : Ok(u)'
    BY <1>a, <1>3 DEF PmStep, RmiStartOk, RmiStartError, RmiStartUnknownVersion, Sleep,
       DevicePowerLoss, ResetTable, ResetVersion, localVars
<1>4. ASSUME Dead \/ UNCHANGED vars PROVE \A u \in Client : Ok(u)'
    BY <1>a, <1>4 DEF Dead, vars, localVars
<1>5. \A u \in Client : Ok(u)'
    BY <1>1, <1>2, <1>3, <1>4 DEF Next
<1> QED BY <1>5 DEF LoopInv

-----------------------------------------------------------------------------
(* The inductive invariant, and the properties it implies.                 *)
THEOREM Inductive == Spec => []IInv
<1>1. Init => IInv
    BY InitInv
<1>2. IInv /\ [Next]_vars => IInv'
    BY TypeStep, LockStep, MapStep, EntryStep, AccessStep, LoopStep DEF IInv, MapInv
<1> QED BY <1>1, <1>2, PTL DEF Spec

(* page_mutex and mapping_table_mutex are owned exactly by the calls that  *)
(* are where the code holds them.                                          *)
THEOREM LocksOwned == Spec => []LockOrder
<1>1. IInv => LockOrder
    BY DEF IInv
<1> QED BY <1>1, Inductive, PTL

(* The driver's table never claims what the listening device does not map. *)
THEOREM Coherence == Spec => []MapCoherent
<1>1. IInv => MapCoherent
    BY DEF IInv
<1> QED BY <1>1, Inductive, PTL

(* No command code is stale when it is used, unless the device forgot it.  *)
THEOREM CodesFresh == Spec => []AccessHitsRequest
<1>1. IInv => AccessHitsRequest
    BY DEF IInv
<1> QED BY <1>1, Inductive, PTL

LEMMA InvExact == IInv => TransferExact
<1> SUFFICES ASSUME IInv, NEW t \in Client, IsRead(t) \/ OneChunk(t)
             PROVE  /\ landed[t] \subseteq Straight(t)
                    /\ Succeeds(t) => landed[t] = Straight(t)
    BY DEF TransferExact
<1>1. cur_len[t] \in Int /\ req[t].len \in Nat /\ req[t].addr \in Nat
    BY RequestFacts DEF IInv, TypeOK
<1>2. landed[t] = {<<k, req[t].addr + k>> : k \in 0 .. Through(t) - 1}
    BY DEF IInv, LoopInv
<1>3. Through(t) <= req[t].len /\ Through(t) \in Int
    BY <1>1 DEF Through
<1>4. landed[t] \subseteq Straight(t)
    BY <1>1, <1>2, <1>3 DEF Straight
<1>5. ASSUME Succeeds(t) PROVE landed[t] = Straight(t)
    <2>1. Through(t) = req[t].len
        BY <1>1, <1>5 DEF Succeeds, Through
    <2> QED BY <1>2, <2>1 DEF Straight
<1> QED BY <1>4, <1>5

(* Reads, and writes of one chunk, move bytes only where they belong, and  *)
(* a call that succeeds has moved them all.                                *)
THEOREM Exactness == Spec => []TransferExact
BY Inductive, InvExact, PTL

-----------------------------------------------------------------------------
(* The refinement of RegisterAccess.                                       *)
IdleInv == \A t \in Client : pc[t] = "idle" => landed[t] = {}

LEMMA IdleStep == TypeOK /\ IdleInv /\ [Next]_vars => IdleInv'
<1> USE DEF IdleInv, TypeOK
<1> SUFFICES ASSUME TypeOK, IdleInv, [Next]_vars PROVE IdleInv'
    OBVIOUS
<1>1. ASSUME NEW t \in Client, NEW r \in Request, Call(t, r) PROVE IdleInv'
    BY <1>1 DEF Call
<1>2. ASSUME NEW t \in Client, ClientStep(t) PROVE IdleInv'
    BY <1>2 DEF ClientStep, LockPage, Finish, LookupHit, LookupMiss, InstallOk, InstallError,
                Record, ReadChunk, WriteChunk, AccessError, Return, localVars
<1>3. CASE PmStep
    BY <1>3 DEF PmStep, RmiStartOk, RmiStartError, RmiStartUnknownVersion, Sleep,
                DevicePowerLoss, ResetTable, ResetVersion, localVars
<1>4. CASE Dead \/ UNCHANGED vars
    BY <1>4 DEF Dead, vars, localVars
<1> QED BY <1>1, <1>2, <1>3, <1>4 DEF Next

ShortWrites == \A r \in Request : r.op = "write" => r.len <= ChunkSize

LEMMA ReturnRefines ==
    ASSUME IInv, IdleInv, NEW t \in Client, Return(t), pc[t] \notin {"idle", "lock"}
    PROVE  Promise!Return(t)
<1>1. /\ pc \in [Client -> {"idle", "lock", "loop", "install", "record", "access"}]
      /\ page_mutex = t
    BY DEF IInv, TypeOK, LockOrder
<1>2. Status[t] \in {"running", "success"}
    BY DEF Status
<1>3. Status' = [Status EXCEPT ![t] = "idle"]
    BY <1>1 DEF Return, Status, Succeeds, IInv, TypeOK
<1> QED BY <1>1, <1>2, <1>3 DEF Promise!Return, Return

LEMMA MoveRefines ==
    ASSUME IInv, TransferExact', ShortWrites, NEW t \in Client,
           page_mutex \in {NoThread, t}, page_mutex' = t,
           pc[t] # "idle", ~Succeeds(t), pc' = [pc EXCEPT ![t] = "loop"], UNCHANGED req,
           landed' = [landed EXCEPT ![t] = landed'[t]], landed[t] \subseteq landed'[t],
           \A u \in Client \ {t} : cur_len'[u] = cur_len[u]
    PROVE  Promise!Move(t)
<1>1. IsRead(t) \/ OneChunk(t)
    <2>1. req[t] \in Request \/ req[t] = NoRequest
        BY DEF IInv, TypeOK
    <2>2. req[t].op \in {"read", "write"}
        BY RequestFacts DEF IInv
    <2> QED BY <2>1, <2>2 DEF ShortWrites, IsRead, OneChunk, NoRequest
<1>2. /\ landed'[t] \subseteq Straight(t)
      /\ Succeeds(t)' => landed'[t] = Straight(t)
    BY <1>1 DEF TransferExact, IsRead, OneChunk, Straight
<1>3. Promise!Straight(req[t]) = Straight(t)
    BY DEF Promise!Straight, Straight
<1>4. Status[t] = "running"
    BY DEF Status
<1>5. \/ Status' = Status /\ ~Succeeds(t)'
      \/ Status' = [Status EXCEPT ![t] = "success"] /\ Succeeds(t)'
    BY <1>4 DEF Status, Succeeds, IInv, TypeOK
<1> QED BY <1>2, <1>3, <1>4, <1>5 DEF Promise!Move

LEMMA StepRefines ==
    ASSUME IInv, IdleInv, TransferExact', ShortWrites, [Next]_vars
    PROVE  [Promise!Next]_(Promise!vars)
<1>0. TypeOK /\ LockOrder
    BY DEF IInv
<1> USE DEF TypeOK
<1>1. ASSUME NEW t \in Client, NEW r \in Request, Call(t, r) PROVE Promise!Next
    <2>1. Status[t] = "idle" /\ Status' = [Status EXCEPT ![t] = "running"]
        BY <1>0, <1>1 DEF Call, Status, Succeeds
    <2>2. landed' = landed
        BY <1>0, <1>1 DEF Call, IdleInv
    <2>3. Promise!Call(t, r)
        BY <1>1, <2>1, <2>2 DEF Promise!Call, Call
    <2> QED BY <2>3 DEF Promise!Next
<1>a. ASSUME UNCHANGED <<req, landed, page_mutex>>, UNCHANGED Status
      PROVE  UNCHANGED Promise!vars
    BY <1>a DEF Promise!vars
<1>2. ASSUME NEW t \in Client, ClientStep(t) PROVE Promise!Next \/ UNCHANGED Promise!vars
    <2>1. CASE LockPage(t)
        <3>1. Promise!Move(t)
            BY <1>0, <2>1, MoveRefines DEF LockPage, localVars, Succeeds
        <3> QED BY <3>1 DEF Promise!Next
    <2>2. CASE Finish(t) \/ AccessError(t)
        <3>1. Promise!Return(t)
            BY <2>2, ReturnRefines DEF Finish, AccessError
        <3> QED BY <3>1 DEF Promise!Next
    <2>3. CASE LookupHit(t) \/ LookupMiss(t) \/ InstallOk(t) \/ InstallError(t)
        <3>1. UNCHANGED <<req, landed, page_mutex>>
            BY <2>3 DEF LookupHit, LookupMiss, InstallOk, InstallError, localVars
        <3>2. UNCHANGED Status
            BY <1>0, <2>3 DEF LookupHit, LookupMiss, InstallOk, InstallError, localVars,
                              Status, Succeeds
        <3> QED BY <1>a, <3>1, <3>2
    <2>4. CASE Record(t)
        <3>1. CASE new_map[t] = ZeroEntry
            <4>1. Promise!Return(t)
                BY <2>4, <3>1, ReturnRefines DEF Record
            <4> QED BY <4>1 DEF Promise!Next
        <3>2. CASE new_map[t] # ZeroEntry
            <4>1. UNCHANGED <<req, landed, page_mutex>>
                BY <2>4, <3>2 DEF Record
            <4>2. UNCHANGED Status
                BY <1>0, <2>4, <3>2 DEF Record, Status, Succeeds
            <4> QED BY <1>a, <4>1, <4>2
        <3> QED BY <3>1, <3>2
    <2>5. CASE ReadChunk(t) \/ WriteChunk(t)
        <3>1. page_mutex = t /\ page_mutex' = t
            BY <1>0, <2>5 DEF ReadChunk, WriteChunk, LockOrder
        <3>2. /\ pc[t] = "access" /\ pc' = [pc EXCEPT ![t] = "loop"] /\ UNCHANGED req
              /\ landed' = [landed EXCEPT ![t] = landed'[t]] /\ landed[t] \subseteq landed'[t]
              /\ \A u \in Client \ {t} : cur_len'[u] = cur_len[u]
            BY <1>0, <2>5 DEF ReadChunk, WriteChunk
        <3>3. Promise!Move(t)
            BY <3>1, <3>2, MoveRefines DEF Succeeds
        <3> QED BY <3>3 DEF Promise!Next
    <2> QED BY <1>2, <2>1, <2>2, <2>3, <2>4, <2>5 DEF ClientStep
<1>3. CASE PmStep
    <2>1. UNCHANGED <<pc, req, cur_len, landed, page_mutex>>
        BY <1>3 DEF PmStep, RmiStartOk, RmiStartError, RmiStartUnknownVersion, Sleep,
                    DevicePowerLoss, ResetTable, ResetVersion, localVars
    <2> QED BY <1>a, <2>1 DEF Status, Succeeds
<1>4. CASE Dead \/ UNCHANGED vars
    <2>1. UNCHANGED <<pc, req, cur_len, landed, page_mutex>>
        BY <1>4 DEF Dead, vars, localVars
    <2> QED BY <1>a, <2>1 DEF Status, Succeeds
<1> QED BY <1>1, <1>2, <1>3, <1>4 DEF Next

(* The transport implements RegisterAccess when no write is longer than a  *)
(* chunk: whatever reset, power loss and failing transfers do, calls have  *)
(* their turn at the device one at a time and go straight.                 *)
THEOREM Implements ==
    ASSUME ShortWrites
    PROVE  Spec => KeepsPromise
<1>1. Init => Promise!Init /\ IdleInv
    BY DEF Init, Promise!Init, Status, IdleInv
<1>2. Spec => []IdleInv
    <2>1. TypeOK /\ IdleInv /\ [Next]_vars => IdleInv'
        BY IdleStep
    <2> QED BY <1>1, <2>1, TypeCorrect, PTL DEF Spec
<1>3. IInv /\ IdleInv /\ TransferExact' /\ [Next]_vars => [Promise!Next]_(Promise!vars)
    BY StepRefines
<1> QED BY <1>1, <1>2, <1>3, Inductive, Exactness, PTL DEF Spec, KeepsPromise, Promise!Spec
=============================================================================
