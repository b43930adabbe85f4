-------------------------- MODULE I2CTransportProofs --------------------------
(***************************************************************************)
(* Proofs about I2CTransport, for any number of threads, pages and         *)
(* registers, and any calls.                                               *)
(***************************************************************************)
EXTENDS I2CTransport, TLAPS

USE ThreadAssumption, SizeAssumption

LEMMA RequestFacts ==
    /\ NoRequest \in [op : {"read", "write"}, addr : 0 .. PageSize * (LastPage + 1) - 1, len : Nat]
    /\ Request \cup {NoRequest}
         \subseteq [op : {"read", "write"}, addr : 0 .. PageSize * (LastPage + 1) - 1, len : Nat]
<1>1. PageSize * (LastPage + 1) - 1 \in Nat
    <2>1. PageSize \in Int /\ PageSize > 0 /\ LastPage + 1 \in Int /\ LastPage + 1 > 0
        OBVIOUS
    <2>2. \A a, b \in Int : a > 0 /\ b > 0 => a * b > 0
        OBVIOUS
    <2>3. \A a, b \in Int : a * b \in Int
        OBVIOUS
    <2>4. PageSize * (LastPage + 1) > 0 /\ PageSize * (LastPage + 1) \in Int
        BY <2>1, <2>2, <2>3
    <2> QED BY <2>4
<1> QED BY <1>1, RequestAssumption DEF NoRequest

(* Division by the size of a page, and what the device makes of its parts. *)
LEMMA PageParts ==
    ASSUME NEW a \in 0 .. PageSize * (LastPage + 1) - 1
    PROVE  /\ a \div PageSize \in Page
           /\ a % PageSize \in Nat
           /\ PageSize * (a \div PageSize) + (a % PageSize) = a
<1>1. a \in Nat /\ PageSize \in Int /\ PageSize > 0 /\ LastPage \in Nat
      /\ a < PageSize * (LastPage + 1)
    BY SMT
<1>2. \A d \in Int : d > 0 => \A n \in Nat : n \div d \in Int /\ n % d \in 0 .. d - 1
                                            /\ n = d * (n \div d) + (n % d)
    BY SMT
<1> DEFINE q == a \div PageSize
           r == a % PageSize
<1>3. q \in Int /\ r \in 0 .. PageSize - 1 /\ a = PageSize * q + r
    BY <1>1, <1>2
<1> HIDE DEF q, r
<1>4. \A d, x \in Int : d > 0 /\ x < 0 => d * x <= -d
    BY SMT
<1>5. q >= 0
    <2> SUFFICES ASSUME q < 0 PROVE FALSE
        BY <1>3
    <2>1. PageSize * q <= -PageSize
        BY <1>1, <1>3, <1>4
    <2> QED BY <1>1, <1>3, <2>1
<1>6. \A d, x, y \in Int : d > 0 /\ x >= y => d * x >= d * y
    BY SMT
<1>7. q <= LastPage
    <2> SUFFICES ASSUME q >= LastPage + 1 PROVE FALSE
        BY <1>1, <1>3
    <2>1. PageSize * q >= PageSize * (LastPage + 1)
        BY <1>1, <1>3, <1>6
    <2> QED BY <1>1, <1>3, <2>1
<1> QED BY <1>3, <1>5, <1>7 DEF q, r, Page

-----------------------------------------------------------------------------
(* Type correctness.                                                       *)
LEMMA MovedType ==
    ASSUME TypeOK, NEW t \in Client
    PROVE  /\ req[t] \in [op : {"read", "write"}, addr : 0 .. PageSize * (LastPage + 1) - 1, len : Nat]
           /\ PageOf(req[t]) \in Page
           /\ Bytes(t) \in Nat
           /\ Moved(t) \in SUBSET (Nat \X Nat)
<1>1. req[t] \in [op : {"read", "write"}, addr : 0 .. PageSize * (LastPage + 1) - 1, len : Nat]
    BY RequestFacts DEF TypeOK
<1>2. req[t].addr \in 0 .. PageSize * (LastPage + 1) - 1 /\ req[t].len \in Nat
    BY <1>1
<1>3. PageOf(req[t]) \in Page /\ req[t].addr % PageSize \in Nat
    BY <1>2, PageParts DEF PageOf
<1>4. Bytes(t) \in Nat
    BY <1>2 DEF Bytes, Length
<1>5. ASSUME NEW k \in 0 .. Bytes(t) - 1
      PROVE  k \in Nat /\ PageSize * devPage + (req[t].addr % PageSize) + k \in Nat
    <2>1. devPage \in Nat /\ PageSize \in Nat
        BY DEF TypeOK, Page
    <2>2. PageSize * devPage \in Nat
        <3>1. \A a, b \in Nat : a * b \in Nat
            OBVIOUS
        <3> QED BY <2>1, <3>1
    <2> QED BY <1>3, <1>4, <2>2
<1> QED BY <1>1, <1>3, <1>4, <1>5 DEF Moved

(* On its own page a call finds its registers, on another one none of them. *)
LEMMA OwnPage ==
    ASSUME TypeOK, NEW t \in Client, devPage = PageOf(req[t])
    PROVE  Moved(t) = {<<k, req[t].addr + k>> : k \in 0 .. Bytes(t) - 1}
<1>1. req[t].addr \in 0 .. PageSize * (LastPage + 1) - 1
    BY MovedType
<1>2. PageSize * devPage + (req[t].addr % PageSize) = req[t].addr
    BY <1>1, PageParts DEF PageOf
<1> QED BY <1>2 DEF Moved

LEMMA OtherPage ==
    ASSUME TypeOK, NEW t \in Client, devPage # PageOf(req[t])
    PROVE  Moved(t) \cap Straight(t) = {}
<1> DEFINE a == req[t].addr
           q == a \div PageSize
           r == a % PageSize
<1>1. a \in 0 .. PageSize * (LastPage + 1) - 1 /\ Bytes(t) \in Nat /\ req[t].len \in Nat
    BY MovedType
<1>2. a \in Nat /\ q \in Int /\ r \in Int /\ a = PageSize * q + r
    <2>1. \A x \in 0 .. PageSize * (LastPage + 1) - 1 :
              /\ x \div PageSize \in Page /\ x % PageSize \in Nat
              /\ PageSize * (x \div PageSize) + (x % PageSize) = x
        BY PageParts
    <2>2. \A x : x \in Page => x \in Int
        BY DEF Page
    <2>3. a \in Nat
        BY <1>1
    <2> HIDE DEF a
    <2> QED BY <1>1, <2>1, <2>2, <2>3
<1>3. devPage \in Int /\ devPage # q
    BY DEF TypeOK, Page, PageOf
<1>4. PageSize * devPage # PageSize * q /\ PageSize * devPage \in Int /\ PageSize * q \in Int
    <2> HIDE DEF q
    <2>1. PageSize \in Int /\ PageSize > 0
        OBVIOUS
    <2>2. \A d, x, y \in Int : d > 0 /\ x < y => d * x < d * y
        BY SMT
    <2>3. \A x, y \in Int : x * y \in Int
        BY SMT
    <2> QED BY <1>2, <1>3, <2>1, <2>2, <2>3
<1> DEFINE b == PageSize * devPage + r
<1>5. b \in Int /\ b # a
    <2> HIDE DEF a, q, r
    <2> QED BY <1>2, <1>4
<1>6. Moved(t) = {<<k, b + k>> : k \in 0 .. Bytes(t) - 1}
    BY DEF Moved
<1>7. Straight(t) = {<<k, a + k>> : k \in 0 .. req[t].len - 1}
    BY DEF Straight
<1> HIDE DEF a, b
<1>8. \A k, l \in Int : <<k, b + k>> = <<l, a + l>> => FALSE
    BY <1>2, <1>5
<1> QED BY <1>1, <1>6, <1>7, <1>8

LEMMA TypeInit == Init => TypeOK
<1>1. 0 \in Page
    BY DEF Page
<1>2. [t \in Client |-> {}] \in [Client -> SUBSET (Nat \X Nat)]
    OBVIOUS
<1>3. [t \in Client |-> NoRequest] \in [Client -> Request \cup {NoRequest}]
    OBVIOUS
<1> SUFFICES ASSUME Init PROVE TypeOK
    OBVIOUS
<1>4. landed \in [Client -> SUBSET (Nat \X Nat)]
    BY <1>2 DEF Init
<1>5. ready \in BOOLEAN /\ bus \in BOOLEAN /\ enabled \in BOOLEAN /\ kept \in BOOLEAN
      /\ slipped \in BOOLEAN /\ heeded \in BOOLEAN
    BY Zenon DEF Init
<1>6. attempts \in 0 .. MaxRetries
    BY DEF Init
<1> QED BY <1>1, <1>3, <1>4, <1>5, <1>6 DEF Init, TypeOK

LEMMA TypeStep == TypeOK /\ [Next]_vars => TypeOK'
<1> SUFFICES ASSUME TypeOK, [Next]_vars PROVE TypeOK'
    OBVIOUS
<1>0. 0 \in Page
    BY DEF Page
<1> USE DEF TypeOK, callVars, pageVars, powerVars, lifeVars, devVars
<1>1. CASE Lifecycle
    <2>1. CASE ProbeMode
        BY <2>1 DEF ProbeMode, SetMode
    <2>2. CASE ProbeModeError
        BY <2>2 DEF ProbeModeError, SetModeError
    <2>3. CASE ProbePage
        <3>1. devPage' \in Page /\ page' \in Page
            BY <2>3, <1>0 DEF ProbePage, SelectPage, SelectPageError
        <3>2. kept' \in BOOLEAN /\ slipped' \in BOOLEAN
            BY <2>3 DEF ProbePage, SelectPage, SelectPageError
        <3> QED BY <2>3, <3>1, <3>2 DEF ProbePage
    <2>4. CASE Start
        BY <2>4 DEF Start, startInterrupt, stopInterrupt
    <2>5. CASE Open
        BY <2>5 DEF Open
    <2>6. CASE OpenInterrupt
        <3>1. heeded' \in BOOLEAN
            BY <2>6, Zenon DEF OpenInterrupt
        <3> QED BY <2>6, <3>1 DEF OpenInterrupt, startInterrupt
    <2>7. CASE Stop
        BY <2>7 DEF Stop, stopInterrupt
    <2> QED BY <1>1, <2>1, <2>2, <2>3, <2>4, <2>5, <2>6, <2>7 DEF Lifecycle
<1>2. ASSUME NEW t \in Client, NEW r \in Request, Call(t, r) PROVE TypeOK'
    BY <1>2 DEF Call
<1>3. ASSUME NEW t \in Client, ClientStep(t) PROVE TypeOK'
    <2>0. PageOf(req[t]) \in Page /\ Moved(t) \in SUBSET (Nat \X Nat)
        BY MovedType
    <2>1. CASE LockPage(t)
        BY <2>1 DEF LockPage
    <2>2. CASE KeepPage(t)
        BY <2>2 DEF KeepPage
    <2>3. CASE ChangePage(t)
        <3>1. kept' \in BOOLEAN /\ slipped' \in BOOLEAN /\ devPage' \in Page
            BY <2>3, <2>0 DEF ChangePage, SelectPage
        <3> QED BY <2>3, <3>1 DEF ChangePage
    <2>4. CASE RecordPage(t)
        BY <2>4, <2>0 DEF RecordPage
    <2>5. CASE ChangePageError(t)
        <3>1. kept' \in BOOLEAN /\ slipped' \in BOOLEAN /\ devPage' \in Page
            BY <2>5, <2>0 DEF ChangePageError, SelectPageError
        <3> QED BY <2>5, <3>1 DEF ChangePageError
    <2>6. CASE Transfer(t)
        BY <2>6, <2>0 DEF Transfer
    <2>7. CASE TransferError(t) \/ ReadMismatch(t)
        BY <2>7 DEF TransferError, ReadMismatch
    <2>8. CASE ResetOnly(t)
        <3>1. ready' \in BOOLEAN /\ devMode' \in {"HID", "RMI"}
            BY <2>8 DEF ResetOnly, SetMode, SetModeError
        <3> QED BY <2>8, <3>1 DEF ResetOnly
    <2>9. CASE ResetAndConfigure(t)
        BY <2>9 DEF ResetAndConfigure, SetMode
    <2>10. CASE Return(t)
        BY <2>10 DEF Return
    <2> HIDE DEF TypeOK, callVars, pageVars, powerVars, lifeVars, devVars
    <2> QED
        BY <1>3, <2>1, <2>2, <2>3, <2>4, <2>5, <2>6, <2>7, <2>8, <2>9, <2>10 DEF ClientStep
<1>4. CASE GateStep
    <2>1. CASE InterruptOccured \/ MessageDone
        BY <2>1 DEF InterruptOccured, MessageDone
    <2>2. ASSUME NEW s \in {"on", "off"}, SetPowerState(s) PROVE TypeOK'
        <3>1. heeded' \in BOOLEAN
            BY <2>2, Zenon DEF SetPowerState
        <3> QED BY <2>2, <3>1 DEF SetPowerState
    <2>3. CASE SleepDone
        BY <2>3 DEF SleepDone, stopInterrupt
    <2>4. CASE Wake
        BY <2>4 DEF Wake, startInterrupt
    <2>5. CASE WakeMode
        BY <2>5 DEF WakeMode, SetMode, SetModeError
    <2> HIDE DEF TypeOK, callVars, pageVars, powerVars, lifeVars, devVars
    <2> QED BY <1>4, <2>1, <2>2, <2>3, <2>4, <2>5 DEF GateStep
<1>5. CASE DeviceReset
    BY <1>5, <1>0 DEF DeviceReset
<1>6. CASE UNCHANGED vars
    BY <1>6 DEF vars
<1> HIDE DEF TypeOK, callVars, pageVars, powerVars, lifeVars, devVars
<1> QED BY <1>1, <1>2, <1>3, <1>4, <1>5, <1>6 DEF Next

(* Every variable keeps its type.                                          *)
THEOREM TypeCorrect == Spec => []TypeOK
BY TypeInit, TypeStep, PTL DEF Spec

-----------------------------------------------------------------------------
(* The invariant the other theorems rest on.  Nobody is inside a call until *)
(* the driver is up, and the touchpad has no page that is known of before   *)
(* probe() has selected one; a thread past the lock owns it; a thread that  *)
(* is about to record a page has selected it, one that transfers finds its  *)
(* own remembered; and what a call has moved is what the touchpad has on    *)
(* its page, or nothing.                                                    *)
NotUpIdle == life \notin {"up", "open"} => \A t \in Client : pc[t] = "idle"

NotKept == life \in {"mode", "page"} => ~kept

Owned == \A t \in Client :
    pc[t] \in {"select", "record", "transfer", "reset", "configure", "done", "exit"} => page_mutex = t

Coherent == kept => \/ page = devPage <=> ~slipped
                    \/ \E t \in Client : pc[t] = "record"

Selected == \A t \in Client :
    /\ pc[t] = "record" /\ kept => devPage = PageOf(req[t]) /\ ~slipped
    /\ pc[t] \in {"transfer", "done"} => page = PageOf(req[t])

Landed == \A t \in Client :
    /\ pc[t] # "done" => landed[t] = {}
    /\ pc[t] = "done" /\ kept => landed[t] = Moved(t)

IInv == TypeOK /\ NotUpIdle /\ NotKept /\ Owned /\ Coherent /\ Selected /\ Landed

LEMMA InvInit == Init => IInv
<1> SUFFICES ASSUME Init PROVE IInv
    OBVIOUS
<1>1. TypeOK
    BY TypeInit
<1> QED BY <1>1 DEF Init, IInv, NotUpIdle, NotKept, Owned, Coherent, Selected, Landed

(* A step that touches neither the calls nor what is known of the page.    *)
LEMMA InvUntouched ==
    ASSUME IInv, TypeOK', UNCHANGED <<callVars, pageVars, devPage, kept, slipped>>,
           life' \in {"mode", "page"} => life \in {"mode", "page"},
           life \in {"up", "open"} => life' \in {"up", "open"} \/ \A t \in Client : pc[t] = "idle"
    PROVE  IInv'
<1>1. life' \notin {"up", "open"} => \A t \in Client : pc[t] = "idle"
    BY DEF IInv, NotUpIdle
<1>2. \A t \in Client : Moved(t)' = Moved(t)
    BY DEF Moved, Bytes, Length, callVars
<1> QED
    BY <1>1, <1>2
    DEF IInv, NotUpIdle, NotKept, Owned, Coherent, Selected, Landed, PageOf, callVars, pageVars

(* No call is in progress: the driver is not up yet.                       *)
LEMMA InvProbe == IInv /\ ProbePage => IInv'
<1> SUFFICES ASSUME IInv, ProbePage PROVE IInv'
    OBVIOUS
<1>1. TypeOK'
    BY TypeStep DEF IInv, Next, Lifecycle
<1>2. \A t \in Client : pc[t] = "idle" /\ pc'[t] = "idle"
    BY DEF IInv, NotUpIdle, ProbePage, callVars
<1>3. life' \notin {"mode", "page"}
    BY DEF ProbePage
<1>4. kept' => page' = devPage' /\ ~slipped'
    <2>1. CASE SelectPage(0) /\ page' = 0
        BY <2>1 DEF SelectPage
    <2>2. CASE SelectPageError(0)
        <3>1. ~kept
            BY DEF IInv, NotKept, ProbePage
        <3> QED BY <2>2, <3>1 DEF SelectPageError
    <2> QED BY <2>1, <2>2 DEF ProbePage
<1> QED
    BY <1>1, <1>2, <1>3, <1>4
    DEF IInv, NotUpIdle, NotKept, Owned, Coherent, Selected, Landed, ProbePage, callVars

LEMMA InvReset == IInv /\ DeviceReset => IInv'
<1> SUFFICES ASSUME IInv, DeviceReset PROVE IInv'
    OBVIOUS
<1>1. TypeOK'
    BY TypeStep DEF IInv, Next
<1> QED
    BY <1>1
    DEF IInv, NotUpIdle, NotKept, Owned, Coherent, Selected, Landed, PageOf, DeviceReset, callVars, pageVars,
        lifeVars

LEMMA InvCall == ASSUME IInv, NEW t \in Client, NEW r \in Request, Call(t, r) PROVE IInv'
<1> USE DEF Call, pageVars, powerVars, lifeVars, devVars
<1>1. TypeOK'
    BY TypeStep DEF IInv, Next
<1>2. pc' = [pc EXCEPT ![t] = "lock"] /\ req' = [req EXCEPT ![t] = r] /\ pc[t] = "idle"
    OBVIOUS
<1>3. NotUpIdle' /\ NotKept' /\ Owned'
    BY <1>2 DEF IInv, NotUpIdle, NotKept, Owned, TypeOK
<1>4. Coherent' /\ Selected'
    BY <1>2 DEF IInv, Coherent, Selected, TypeOK, PageOf
<1>5. \A u \in Client : u # t => Moved(u)' = Moved(u) /\ req'[u] = req[u] /\ pc'[u] = pc[u]
    BY <1>2 DEF Moved, Bytes, Length, IInv, TypeOK
<1>6. Landed'
    BY <1>2, <1>5 DEF IInv, Landed, TypeOK
<1> QED BY <1>1, <1>3, <1>4, <1>6 DEF IInv

(* A step of a call.  Owned says that no other thread is past the lock.    *)
LEMMA InvClient == ASSUME IInv, NEW t \in Client, ClientStep(t) PROVE IInv'
<1> USE DEF pageVars, powerVars, lifeVars, devVars
<1>1. TypeOK /\ TypeOK'
    BY TypeStep DEF IInv, Next
<1>a. pc[t] # "idle" /\ UNCHANGED life
    BY DEF ClientStep, LockPage, KeepPage, ChangePage, RecordPage, ChangePageError, Transfer,
           TransferError, ReadMismatch, ResetOnly, ResetAndConfigure, Return
<1>2. NotUpIdle' /\ NotKept'
    BY <1>a DEF IInv, NotUpIdle, NotKept
<1>3. ASSUME NEW u \in Client, u # t, pc[t] # "lock"
      PROVE  pc[u] \in {"idle", "lock"}
    BY <1>1, <1>3, <1>a DEF IInv, Owned, TypeOK
<1>4. ASSUME NEW u \in Client, u # t
      PROVE  pc'[u] = pc[u] /\ req'[u] = req[u] /\ landed'[u] = landed[u]
    BY <1>1, <1>4 DEF TypeOK, ClientStep, LockPage, KeepPage, ChangePage, RecordPage,
               ChangePageError, Transfer, TransferError, ReadMismatch, ResetOnly,
               ResetAndConfigure, Return
<1>14. ASSUME UNCHANGED devPage, NEW u \in Client, req'[u] = req[u]
       PROVE  Moved(u)' = Moved(u)
    BY <1>14 DEF Moved, Bytes, Length
<1>5. CASE LockPage(t)
    <2>1. /\ pc[t] \in {"lock", "configure"} /\ pc'[t] = "select"
          /\ page_mutex = NoThread /\ page_mutex' = t
          /\ UNCHANGED <<req, landed, page, devPage, kept, slipped>>
        BY <1>1, <1>5 DEF LockPage, TypeOK
    <2>2. Owned'
        BY <2>1, <1>1, <1>4 DEF IInv, Owned, TypeOK
    <2>3. Coherent' /\ Selected'
        BY <2>1, <1>4 DEF IInv, Coherent, Selected, PageOf
    <2>4. Landed'
        BY <2>1, <1>4, <1>14 DEF IInv, Landed
    <2> QED BY <1>1, <1>2, <2>2, <2>3, <2>4 DEF IInv
<1>6. CASE KeepPage(t)
    <2>1. pc[t] = "select" /\ pc'[t] = "transfer" /\ page = PageOf(req[t])
          /\ UNCHANGED <<req, landed, page_mutex, page, devPage, kept, slipped>>
        BY <1>1, <1>6 DEF KeepPage, OnPage, TypeOK
    <2>2. Owned'
        BY <2>1, <1>4 DEF IInv, Owned
    <2>3. Coherent' /\ Selected'
        BY <2>1, <1>3, <1>4 DEF IInv, Coherent, Selected, PageOf
    <2>4. Landed'
        BY <2>1, <1>4, <1>14 DEF IInv, Landed
    <2> QED BY <1>1, <1>2, <2>2, <2>3, <2>4 DEF IInv
<1>7. CASE ChangePage(t)
    <2>1. pc[t] = "select" /\ pc'[t] = "record" /\ devPage' = PageOf(req[t]) /\ ~slipped'
          /\ UNCHANGED <<req, landed, page_mutex, page>>
        BY <1>1, <1>7 DEF ChangePage, SelectPage, TypeOK
    <2>2. Owned'
        BY <2>1, <1>4 DEF IInv, Owned
    <2>3. Coherent' /\ Selected'
        BY <2>1, <1>3, <1>4 DEF Coherent, Selected, PageOf
    <2>4. Landed'
        <3>1. \A u \in Client : pc'[u] # "done" /\ pc[u] # "done"
            BY <2>1, <1>3, <1>4
        <3> QED BY <2>1, <3>1, <1>4 DEF IInv, Landed
    <2> QED BY <1>1, <1>2, <2>2, <2>3, <2>4 DEF IInv
<1>8. CASE RecordPage(t)
    <2>1. pc[t] = "record" /\ pc'[t] = "transfer" /\ page' = PageOf(req[t])
          /\ UNCHANGED <<req, landed, page_mutex, devPage, kept, slipped>>
        BY <1>1, <1>8 DEF RecordPage, TypeOK
    <2>2. Owned'
        BY <2>1, <1>4 DEF IInv, Owned
    <2>3. Coherent' /\ Selected'
        BY <2>1, <1>3, <1>4 DEF IInv, Coherent, Selected, PageOf
    <2>4. Landed'
        BY <2>1, <1>4, <1>14 DEF IInv, Landed
    <2> QED BY <1>1, <1>2, <2>2, <2>3, <2>4 DEF IInv
<1>9. CASE ChangePageError(t)
    <2>1. pc[t] = "select" /\ pc'[t] = "exit" /\ page # PageOf(req[t])
          /\ UNCHANGED <<req, landed, page_mutex, page>>
        BY <1>1, <1>9 DEF ChangePageError, OnPage, TypeOK
    <2>2. Owned'
        BY <2>1, <1>4 DEF IInv, Owned
    <2>3. Coherent' /\ Selected'
        <3>1. kept => (page = devPage <=> ~slipped)
            BY <2>1, <1>3 DEF IInv, Coherent
        <3>2. kept' => (page' = devPage' <=> ~slipped')
            <4>1. CASE UNCHANGED <<devPage, kept, slipped>>
                BY <2>1, <3>1, <4>1
            <4>2. CASE devPage' = PageOf(req[t]) /\ slipped' = TRUE
                BY <2>1, <4>2
            <4> QED BY <1>9, <4>1, <4>2 DEF ChangePageError, SelectPageError
        <3> QED BY <2>1, <3>2, <1>3, <1>4 DEF Coherent, Selected
    <2>4. Landed'
        <3>1. \A u \in Client : pc'[u] # "done" /\ pc[u] # "done"
            BY <2>1, <1>3, <1>4
        <3> QED BY <2>1, <3>1, <1>4 DEF IInv, Landed
    <2> QED BY <1>1, <1>2, <2>2, <2>3, <2>4 DEF IInv
<1>10. CASE Transfer(t)
    <2>1. pc[t] = "transfer" /\ pc'[t] = "done" /\ landed'[t] = Moved(t)
          /\ UNCHANGED <<req, page_mutex, page, devPage, kept, slipped>>
        BY <1>1, <1>10 DEF Transfer, TypeOK
    <2>2. Owned'
        BY <2>1, <1>4 DEF IInv, Owned
    <2>3. Coherent' /\ Selected'
        BY <2>1, <1>3, <1>4 DEF IInv, Coherent, Selected, PageOf
    <2>4. Landed'
        BY <2>1, <1>4, <1>14 DEF IInv, Landed
    <2> QED BY <1>1, <1>2, <2>2, <2>3, <2>4 DEF IInv
<1>11. CASE TransferError(t) \/ ReadMismatch(t) \/ ResetOnly(t)
    <2>1. pc[t] \in {"transfer", "reset"} /\ pc'[t] \in {"exit", "reset"}
          /\ UNCHANGED <<req, landed, page_mutex, page, devPage, kept, slipped>>
        BY <1>1, <1>11 DEF TransferError, ReadMismatch, ResetOnly, TypeOK
    <2>2. Owned'
        BY <2>1, <1>4 DEF IInv, Owned
    <2>3. Coherent' /\ Selected'
        BY <2>1, <1>3, <1>4 DEF IInv, Coherent, Selected, PageOf
    <2>4. Landed'
        BY <2>1, <1>4, <1>14 DEF IInv, Landed
    <2> QED BY <1>1, <1>2, <2>2, <2>3, <2>4 DEF IInv
<1>12. CASE ResetAndConfigure(t)
    <2>1. pc[t] = "reset" /\ pc'[t] = "configure"
          /\ UNCHANGED <<req, landed, page_mutex, page, devPage, kept, slipped>>
        BY <1>1, <1>12 DEF ResetAndConfigure, TypeOK
    <2>2. Owned'
        BY <2>1, <1>4 DEF IInv, Owned
    <2>3. Coherent' /\ Selected'
        BY <2>1, <1>3, <1>4 DEF IInv, Coherent, Selected, PageOf
    <2>4. Landed'
        BY <2>1, <1>4, <1>14 DEF IInv, Landed
    <2> QED BY <1>1, <1>2, <2>2, <2>3, <2>4 DEF IInv
<1>13. CASE Return(t)
    <2>1. pc[t] \in {"done", "exit"} /\ pc'[t] = "idle" /\ landed'[t] = {}
          /\ UNCHANGED <<page, devPage, kept, slipped>>
        BY <1>1, <1>13 DEF Return, TypeOK
    <2>2. Owned'
        BY <2>1, <1>3, <1>4 DEF Owned
    <2>3. Coherent' /\ Selected'
        BY <2>1, <1>3, <1>4 DEF IInv, Coherent, Selected, PageOf
    <2>4. Landed'
        BY <2>1, <1>4, <1>14 DEF IInv, Landed
    <2> QED BY <1>1, <1>2, <2>2, <2>3, <2>4 DEF IInv
<1> QED BY <1>5, <1>6, <1>7, <1>8, <1>9, <1>10, <1>11, <1>12, <1>13 DEF ClientStep

LEMMA InvStep == IInv /\ [Next]_vars => IInv'
<1> SUFFICES ASSUME IInv, [Next]_vars PROVE IInv'
    OBVIOUS
<1>0. TypeOK'
    BY TypeStep DEF IInv
<1>1. CASE Lifecycle
    <2>1. CASE ProbePage
        BY <2>1, InvProbe
    <2>2. CASE ProbeMode \/ ProbeModeError \/ Start \/ Open \/ OpenInterrupt
        <3>1. UNCHANGED <<callVars, pageVars, devPage, kept, slipped>>
              /\ (life \in {"up", "open"} => life' \in {"up", "open"})
              /\ (life' \in {"mode", "page"} => life \in {"mode", "page"})
            BY <2>2 DEF ProbeMode, ProbeModeError, Start, Open, OpenInterrupt, devVars, lifeVars
        <3> QED BY <1>0, <3>1, InvUntouched
    <2>3. CASE Stop
        <3>1. UNCHANGED <<callVars, pageVars, devPage, kept, slipped>> /\ life' = "dead"
              /\ \A t \in Client : pc[t] = "idle"
            BY <2>3 DEF Stop, devVars
        <3> QED BY <1>0, <3>1, InvUntouched
    <2> QED BY <1>1, <2>1, <2>2, <2>3 DEF Lifecycle
<1>2. ASSUME NEW t \in Client, NEW r \in Request, Call(t, r) PROVE IInv'
    BY <1>2, InvCall
<1>3. ASSUME NEW t \in Client, ClientStep(t) PROVE IInv'
    BY <1>3, InvClient
<1>4. CASE GateStep
    <2>1. UNCHANGED <<callVars, pageVars, devPage, kept, slipped, life>>
        BY <1>4 DEF GateStep, InterruptOccured, SetPowerState, MessageDone, SleepDone, Wake, WakeMode,
                    lifeVars, devVars
    <2> QED BY <1>0, <2>1, InvUntouched
<1>5. CASE DeviceReset
    BY <1>5, InvReset
<1>6. CASE UNCHANGED vars
    BY <1>0, <1>6, InvUntouched DEF vars, lifeVars, devVars
<1> QED BY <1>1, <1>2, <1>3, <1>4, <1>5, <1>6 DEF Next

(* IInv is inductive: what Coherence and Exactness rest on.                *)
THEOREM Inductive == Spec => []IInv
BY InvInit, InvStep, PTL DEF Spec

(* Until the touchpad is reset, the page the driver remembers is the        *)
(* touchpad's exactly unless a failed selection has taken effect, however   *)
(* readBlock and blockWrite interleave and fail.                           *)
THEOREM Coherence == Spec => []PageCoherent
<1>1. IInv => PageCoherent
    BY DEF IInv, Coherent, PageCoherent
<1> QED BY Inductive, <1>1, PTL

(* Until the touchpad is reset, a call moves the bytes of the registers it  *)
(* names, all that fit into a report if it succeeds; and after a failed     *)
(* selection that took effect those of another page, and none of its own.  *)
THEOREM Exactness == Spec => []TransferExact
<1>1. IInv => TransferExact
    <2> SUFFICES ASSUME IInv, kept, NEW t \in Client
                 PROVE  /\ ~slipped => landed[t] \subseteq Straight(t)
                        /\ ~slipped /\ pc[t] = "done" /\ Bytes(t) = req[t].len
                              => landed[t] = Straight(t)
                        /\ slipped  => landed[t] \cap Straight(t) = {}
        BY DEF TransferExact
    <2>1. CASE pc[t] # "done"
        BY <2>1 DEF IInv, Landed
    <2>2. CASE pc[t] = "done"
        <3>1. page = PageOf(req[t]) /\ landed[t] = Moved(t)
            BY <2>2 DEF IInv, Selected, Landed
        <3>2. page = devPage <=> ~slipped
            BY <2>2 DEF IInv, Coherent, Owned
        <3>3. CASE ~slipped
            <4>1. landed[t] = {<<k, req[t].addr + k>> : k \in 0 .. Bytes(t) - 1}
                BY <3>1, <3>2, <3>3, OwnPage DEF IInv
            <4>2. Bytes(t) \in Nat /\ req[t].len \in Nat /\ Bytes(t) <= req[t].len
                BY MovedType DEF IInv, Bytes, Length
            <4> QED BY <3>3, <4>1, <4>2 DEF Straight
        <3>4. CASE slipped
            BY <3>1, <3>2, <3>4, OtherPage DEF IInv
        <3> QED BY <3>3, <3>4
    <2> QED BY <2>1, <2>2
<1> QED BY Inductive, <1>1, PTL

-----------------------------------------------------------------------------
(* What the power changes rest on: there is none before the bus has opened *)
(* the transport; the gate carries out the last one, unless that was       *)
(* missed; and while it wakes the touchpad interrupts are on already.      *)
PowerInv ==
    /\ ~bus => currentPowerState = "on" /\ gate = "idle"
    /\ life \in {"mode", "page", "start"} => ~bus
    /\ heeded /\ life \in {"up", "open"} =>
          /\ gate \in {"idle", "notify"} => (enabled <=> currentPowerState = "on")
          /\ gate = "sleep" => currentPowerState = "off"
          /\ gate \in {"wake", "mode", "resume"} => currentPowerState = "on"
          /\ gate \in {"mode", "resume"} => enabled

LEMMA PowerInit == Init => PowerInv
BY DEF Init, PowerInv

LEMMA PowerStep == TypeOK /\ PowerInv /\ [Next]_vars => PowerInv'
<1> SUFFICES ASSUME TypeOK, PowerInv, [Next]_vars PROVE PowerInv'
    OBVIOUS
<1> USE DEF PowerInv, powerVars, lifeVars
<1>1. CASE Lifecycle
    <2>1. CASE ProbeMode \/ ProbeModeError \/ ProbePage
        BY <2>1 DEF ProbeMode, ProbeModeError, ProbePage
    <2>2. CASE Start
        BY <2>2 DEF Start, startInterrupt, stopInterrupt
    <2>3. CASE Open
        BY <2>3 DEF Open
    <2>4. CASE OpenInterrupt
        BY <2>4 DEF OpenInterrupt, startInterrupt
    <2>5. CASE Stop
        BY <2>5 DEF Stop, stopInterrupt
    <2> QED BY <1>1, <2>1, <2>2, <2>3, <2>4, <2>5 DEF Lifecycle
<1>2. ASSUME NEW t \in Client, NEW r \in Request, Call(t, r) PROVE PowerInv'
    BY <1>2 DEF Call
<1>3. ASSUME NEW t \in Client, ClientStep(t) PROVE PowerInv'
    <2>1. UNCHANGED <<bus, currentPowerState, enabled, gate, heeded, life>>
        BY <1>3 DEF ClientStep, LockPage, KeepPage, ChangePage, RecordPage, ChangePageError, Transfer,
                    TransferError, ReadMismatch, ResetOnly, ResetAndConfigure, Return
    <2> QED BY <2>1
<1>4. CASE GateStep
    <2>1. CASE InterruptOccured \/ MessageDone
        BY <2>1 DEF InterruptOccured, MessageDone
    <2>2. ASSUME NEW s \in {"on", "off"}, SetPowerState(s) PROVE PowerInv'
        BY <2>2 DEF SetPowerState, TypeOK
    <2>3. CASE SleepDone
        BY <2>3 DEF SleepDone, stopInterrupt
    <2>4. CASE Wake
        BY <2>4 DEF Wake, startInterrupt
    <2>5. CASE WakeMode
        BY <2>5 DEF WakeMode
    <2> QED BY <1>4, <2>1, <2>2, <2>3, <2>4, <2>5 DEF GateStep
<1>5. CASE DeviceReset
    BY <1>5 DEF DeviceReset
<1>6. CASE UNCHANGED vars
    BY <1>6 DEF vars
<1> QED BY <1>1, <1>2, <1>3, <1>4, <1>5, <1>6 DEF Next

(* Interrupts are on exactly while the touchpad is, whenever the gate is   *)
(* free and the last power change was not missed, for any threads and with *)
(* power changes at any moment of interrupts, of accesses and of open().   *)
THEOREM PowerFollowed == Spec => []InterruptsFollowPower
<1>1. PowerInv => InterruptsFollowPower
    BY DEF PowerInv, InterruptsFollowPower
<1> QED BY TypeInit, TypeStep, PowerInit, PowerStep, <1>1, PTL DEF Spec

-----------------------------------------------------------------------------
(* The refinement.  A thread's status and its cut request change only with *)
(* its own pc and req.                                                     *)
LEMMA MappedParts ==
    ASSUME TypeOK, TypeOK', NEW t \in Client,
           \A u \in Client \ {t} : pc'[u] = pc[u] /\ req'[u] = req[u]
    PROVE  /\ Status' = [Status EXCEPT ![t] = Status'[t]]
           /\ [u \in Client |-> Cut(req[u])]'
                = [[u \in Client |-> Cut(req[u])] EXCEPT ![t] = Cut(req'[t])]
<1>1. \A u \in Client \ {t} : Status'[u] = Status[u]
    BY DEF Status
<1>2. Status = [u \in Client |-> Status[u]] /\ Status' = [u \in Client |-> Status'[u]]
    BY DEF Status
<1>3. Status' = [Status EXCEPT ![t] = Status'[t]]
    <2> HIDE DEF Status
    <2> QED BY <1>1, <1>2
<1>4. \A u \in Client \ {t} : Cut(req[u])' = Cut(req[u])
    BY DEF Cut, Length
<1>5. Cut(req[t])' = Cut(req'[t])
    BY DEF Cut, Length
<1> QED BY <1>3, <1>4, <1>5

LEMMA StepKeeps ==
    IInv /\ IInv' /\ kept /\ ~slipped /\ [Next]_vars => Promise!Next \/ UNCHANGED Promise!vars
<1> SUFFICES ASSUME IInv, IInv', kept, ~slipped, [Next]_vars
             PROVE  Promise!Next \/ UNCHANGED Promise!vars
    OBVIOUS
<1>0. TypeOK /\ TypeOK'
    BY DEF IInv
<1>a. ASSUME UNCHANGED <<req, landed, page_mutex>>, UNCHANGED Status
      PROVE  UNCHANGED Promise!vars
    BY <1>a DEF Promise!vars
<1>1. ASSUME NEW t \in Client, NEW r \in Request, Call(t, r) PROVE Promise!Next
    <2>1. /\ pc[t] = "idle" /\ pc'[t] = "lock" /\ req'[t] = r /\ UNCHANGED <<landed, page_mutex>>
          /\ \A u \in Client \ {t} : pc'[u] = pc[u] /\ req'[u] = req[u]
        BY <1>0, <1>1 DEF Call, pageVars, TypeOK
    <2>2. Status[t] = "idle" /\ Status'[t] = "running"
        BY <2>1 DEF Status
    <2>3. Promise!Call(t, Cut(r))
        BY <1>0, <2>1, <2>2, MappedParts DEF Promise!Call
    <2> QED BY <2>3 DEF Promise!Next
<1>2. ASSUME NEW t \in Client, ClientStep(t) PROVE Promise!Next \/ UNCHANGED Promise!vars
    <2>0. /\ \A u \in Client \ {t} : pc'[u] = pc[u] /\ req'[u] = req[u]
          /\ landed' = [landed EXCEPT ![t] = landed'[t]]
        BY <1>0, <1>2 DEF TypeOK, ClientStep, LockPage, KeepPage, ChangePage, RecordPage,
               ChangePageError, Transfer, TransferError, ReadMismatch, ResetOnly,
               ResetAndConfigure, Return
    <2>1. CASE LockPage(t)
        <3>1. /\ pc[t] \in {"lock", "configure"} /\ pc'[t] = "select"
              /\ page_mutex = NoThread /\ page_mutex' = t /\ UNCHANGED <<req, landed>>
            BY <1>0, <2>1 DEF LockPage, TypeOK
        <3>2. Status[t] = "running" /\ UNCHANGED Status
            BY <3>1, <2>0 DEF Status
        <3>3. landed[t] = {}
            BY <3>1 DEF IInv, Landed
        <3>4. Promise!Move(t)
            BY <1>0, <3>1, <3>2, <3>3 DEF Promise!Move, TypeOK
        <3> QED BY <3>4 DEF Promise!Next
    <2>2. CASE Transfer(t)
        <3>1. pc[t] = "transfer" /\ pc'[t] = "done" /\ page_mutex = t /\ page_mutex' = t
              /\ UNCHANGED <<req, kept>>
            BY <1>0, <2>2 DEF Transfer, TypeOK, IInv, Owned, pageVars, devVars
        <3>2. Status[t] = "running" /\ Status'[t] = "success"
            BY <3>1 DEF Status
        <3>3. landed[t] = {}
            BY <3>1 DEF IInv, Landed
        <3>4. Cut(req[t]).addr = req[t].addr /\ Cut(req[t]).len = Bytes(t) /\ Bytes(t)' = Bytes(t)
            BY <1>0, <3>1, MovedType DEF Cut, Bytes
        <3>5. landed'[t] = Promise!Straight(Cut(req[t]))
            <4>1. devPage = PageOf(req[t])
                BY <1>0, <3>1 DEF IInv, Coherent, Selected, Owned
            <4>2. landed'[t] = Moved(t)
                BY <1>0, <2>2 DEF Transfer, TypeOK
            <4> QED BY <1>0, <3>4, <4>1, <4>2, OwnPage DEF Promise!Straight
        <3>6. Status' = [Status EXCEPT ![t] = "success"]
            BY <1>0, <2>0, <3>2, MappedParts
        <3>7. Promise!Move(t)
            BY <1>0, <2>0, <3>1, <3>2, <3>3, <3>5, <3>6 DEF Promise!Move
        <3> QED BY <3>7 DEF Promise!Next
    <2>3. CASE Return(t)
        <3>1. /\ pc[t] \in {"done", "exit"} /\ pc'[t] = "idle" /\ req'[t] = NoRequest
              /\ landed'[t] = {} /\ page_mutex = t /\ page_mutex' = NoThread
            BY <1>0, <2>3 DEF Return, TypeOK, IInv, Owned
        <3>2. Status[t] \in {"running", "success"} /\ Status'[t] = "idle"
            BY <3>1 DEF Status
        <3>3. Cut(NoRequest) = NoRequest
            BY DEF Cut, Length, NoRequest
        <3>4. Promise!Return(t)
            BY <1>0, <2>0, <3>1, <3>2, <3>3, MappedParts DEF Promise!Return
        <3> QED BY <3>4 DEF Promise!Next
    <2>4. CASE ~(LockPage(t) \/ Transfer(t) \/ Return(t))
        <3>1. /\ pc[t] \in {"select", "record", "transfer", "reset"}
              /\ pc'[t] \in {"record", "transfer", "reset", "configure", "exit"}
              /\ UNCHANGED <<req, landed, page_mutex>>
            BY <1>0, <1>2, <2>4 DEF TypeOK, ClientStep, KeepPage, ChangePage, RecordPage,
               ChangePageError, TransferError, ReadMismatch, ResetOnly, ResetAndConfigure, pageVars
        <3>2. UNCHANGED Status
            BY <3>1, <2>0 DEF Status
        <3> QED BY <1>a, <3>1, <3>2
    <2> QED BY <2>1, <2>2, <2>3, <2>4
<1>3. CASE Lifecycle \/ GateStep \/ DeviceReset \/ UNCHANGED vars
    <2>1. UNCHANGED <<pc, req, landed, page_mutex>>
        BY <1>3 DEF Lifecycle, ProbeMode, ProbeModeError, ProbePage, Start, Open, OpenInterrupt, Stop,
                    GateStep, InterruptOccured, SetPowerState, MessageDone, SleepDone, Wake, WakeMode,
                    DeviceReset, vars, callVars, pageVars
    <2> QED BY <1>a, <2>1 DEF Status
<1> QED BY <1>1, <1>2, <1>3 DEF Next

(* The transport implements RegisterAccess until the touchpad is reset or a *)
(* failed selection takes effect: for any threads, pages, requests and     *)
(* other errors, calls have their turn one at a time and move their bytes  *)
(* straight, those of a read up to what an input report holds.             *)
THEOREM Implements == Spec => KeepsPromise
<1>1. IInv /\ IInv' /\ [Next]_vars => [kept /\ ~slipped => Promise!Next]_(Promise!vars)
    BY StepKeeps
<1> QED BY <1>1, Inductive, PTL DEF Spec, KeepsPromise
=============================================================================
