--------------------------- MODULE FingerTracking ---------------------------
(***************************************************************************)
(* How RMITrackpadFunction turns the objects a sensor reports into fingers *)
(* for VoodooInput (Functions/Input/RMITrackpadFunction.cpp): palm         *)
(* rejection as a state per finger, and the allocation of finger types.    *)
(*                                                                         *)
(* Three threads, no lock.  The report thread runs attention() and           *)
(* handleReport(); the messages of the trackpoint and of the buttons       *)
(* arrive on it too, between reports.  The keyboard thread (VoodooPS2)     *)
(* delivers key presses, and switches the trackpad on and off, at any      *)
(* time: message() and invalidateFingers().  Both write fingerState, and   *)
(* what a data race can make of that is modelled as the interleavings of   *)
(* the read of an entry and the write that depends on it.  A third thread, *)
(* that of a program that sets properties, changes the configuration.      *)
(*                                                                         *)
(* Abstracted: of an object's coordinates, whether they lie in a reject    *)
(* zone; of its velocity, pressure and size, on which side of the          *)
(* configured limits they are; of the timestamps, their order.             *)
(***************************************************************************)
EXTENDS Integers

CONSTANTS
    FingerCount,     \* objects per report: report->fingers, at most MAX_FINGERS
    TypeCount,       \* kMT2FingerTypeCount, 7
    ThumbAt,         \* fingers from which one is taken for the thumb, 4
    GestureOver,     \* fingers above which a report is a gesture, 2
    KeyboardThread,  \* whether a keyboard delivers notifications
    ForceTouchTypes  \* values that the configuration's forceTouchType is given

ASSUME FingerAssumption ==
    /\ FingerCount \in Nat \ {0}
    /\ TypeCount \in Nat /\ TypeCount >= 4
    /\ ThumbAt \in Nat /\ GestureOver \in Nat
    /\ KeyboardThread \in BOOLEAN
    /\ ForceTouchTypes \subseteq {"DISABLE", "CLICK_AND_SIZE", "SIZE"}

Finger == 0 .. FingerCount - 1

(* MT2FingerType: the thumb, the other fingers of a hand, and last a palm. *)
Undefined   == 0
Thumb       == 1
IndexFinger == 2
Palm        == TypeCount - 1
FingerType  == 0 .. TypeCount - 1
HandType    == Thumb .. Palm - 1

State == {"LIFTED", "STARTED_IN_ZONE", "VALID", "INVALID", "FORCE_TOUCH"}

(* What matters of an object that touches the sensor: it is in a zone, it  *)
(* moves fast enough to leave it, it is too large or inaccurate, its       *)
(* pressure is above forceTouchMinPressure.                                *)
Object == [zone : BOOLEAN, fast : BOOLEAN, wide : BOOLEAN, hard : BOOLEAN]

VARIABLES
    fingerState, freeFingerTypes,   \* fields of the same name
    fingerType, active, inZone,     \* the transducers: isTransducerActive and
                                    \* checkInZone(currentCoordinates)
    lastKeyboard,      \* lastKeyboardTS against the report's timestamp
    trackpointRecent,  \* lastTrackpointTS is within its timeout
    clickpadState, trackpadEnable,  \* fields of the same name
    forceTouchType,    \* RMIBus's conf.forceTouchType
    forceAllowed,      \* history: since this report began the configuration
                       \* has at some time allowed a force touch
    pc, idx,           \* the report thread and its loop index
    discardRegions, validFingerCount,   \* its locals
    seen, verdict, zoneAfter,           \* and what the switch works out
    kpc, kidx          \* the keyboard thread in invalidateFingers

transducers == <<fingerType, active, inZone>>
messages    == <<lastKeyboard, trackpointRecent, clickpadState, trackpadEnable,
                 forceTouchType>>
locals      == <<forceAllowed, discardRegions, validFingerCount, seen, verdict, zoneAfter>>
keyboard    == <<kpc, kidx>>
vars == <<fingerState, freeFingerTypes, transducers, messages, pc, idx, locals, keyboard>>

Init ==
    /\ fingerState = [i \in Finger |-> "LIFTED"]
    /\ freeFingerTypes = [f \in FingerType |-> f # Undefined]
    /\ fingerType = [i \in Finger |-> Undefined]
    /\ active = [i \in Finger |-> FALSE]
    /\ inZone = [i \in Finger |-> TRUE]
    /\ lastKeyboard = "old" /\ trackpointRecent = FALSE
    /\ clickpadState = FALSE /\ trackpadEnable = TRUE
    /\ forceTouchType \in ForceTouchTypes /\ forceAllowed = FALSE
    /\ pc = "idle" /\ idx = 0
    /\ discardRegions = FALSE /\ validFingerCount = 0
    /\ seen = "LIFTED" /\ verdict = "LIFTED" /\ zoneAfter = FALSE
    /\ kpc = "idle" /\ kidx = 0

-----------------------------------------------------------------------------
(* attention(): the data has been read and the report gets its timestamp,  *)
(* unless it is discarded (shouldDiscardReport).  A key press the last     *)
(* report did not see is earlier than this one, and time may have passed.  *)
Stamp ==
    /\ pc = "idle" /\ trackpadEnable
    /\ pc' = "stamped"
    /\ lastKeyboard' \in IF lastKeyboard = "old" THEN {"old"} ELSE {"recent", "old"}
    /\ trackpointRecent' \in {FALSE, trackpointRecent}
    /\ UNCHANGED <<fingerState, freeFingerTypes, transducers, clickpadState, trackpadEnable,
                   forceTouchType, idx, locals, keyboard>>

(* What isForceTouch asks for besides the pressure.                        *)
AllowsForce(type) == type = "SIZE" \/ (type = "CLICK_AND_SIZE" /\ clickpadState)

(* handleReport(): report->timestamp - lastKeyboardTS < timeout, unsigned: *)
(* a key press later than the timestamp makes a huge difference.           *)
Begin ==
    /\ pc = "stamped"
    /\ pc' = "switch"
    /\ discardRegions' = (lastKeyboard = "recent" \/ trackpointRecent)
    /\ forceAllowed' = AllowsForce(forceTouchType)
    /\ UNCHANGED <<fingerState, freeFingerTypes, transducers, messages, idx,
                   validFingerCount, seen, verdict, zoneAfter, keyboard>>

(* Mutant of NextFinger: i <= maxIdx.                                      *)
NextFingerPastEnd ==
    IF idx < FingerCount THEN pc' = "switch" /\ idx' = idx + 1
                         ELSE pc' = "thumb" /\ idx' = 0

(* A report is being handled.                                              *)
InReport == pc \in {"switch", "judge", "thumb", "assign", "send"}

(* The end of the first loop's body.                                       *)
NextFinger ==
    IF idx + 1 < FingerCount THEN pc' = "switch" /\ idx' = idx + 1
                             ELSE pc' = "thumb" /\ idx' = 0

(* The object is none that is tracked: the finger is lifted.               *)
Lift ==
    /\ pc = "switch"
    /\ fingerState' = [fingerState EXCEPT ![idx] = "LIFTED"]
    /\ active' = [active EXCEPT ![idx] = FALSE]
    /\ NextFinger
    /\ UNCHANGED <<freeFingerTypes, fingerType, inZone, messages, locals, keyboard>>

(* isForceTouch(obj.z), by the configuration and the clickpad as they are. *)
isForceTouch(o) == AllowsForce(forceTouchType) /\ o.hard

(* The cases LIFTED, STARTED_IN_ZONE, VALID and their fall-throughs.       *)
Tracked(s, o) ==
    LET out == s = "VALID" \/ ~o.zone \/ o.fast
    IN  IF o.wide THEN "INVALID"
        ELSE IF ~out THEN "STARTED_IN_ZONE"
        ELSE IF isForceTouch(o) THEN "FORCE_TOUCH" ELSE "VALID"

(* Mutant of Judged: an invalid finger falls through to the other cases.   *)
JudgedAgain(s, o) ==
    IF s = "FORCE_TOUCH" THEN IF isForceTouch(o) THEN "FORCE_TOUCH" ELSE "VALID"
                         ELSE Tracked(s, o)

(* The state that the switch gives the finger.                             *)
Judged(s, o) ==
    CASE s = "INVALID"     -> "INVALID"
      [] s = "FORCE_TOUCH" -> IF isForceTouch(o) THEN "FORCE_TOUCH" ELSE "VALID"
      [] OTHER             -> Tracked(s, o)

(* The coordinates are taken over, switch (fingerState[i]) reads the state *)
(* and works out the new one.  A new touch is written down as one that     *)
(* started in a zone first, and has no velocity; a force touch will get    *)
(* the coordinates back that it had.                                       *)
Touch(o) ==
    /\ pc = "switch"
    /\ fingerState[idx] = "LIFTED" => ~o.fast
    /\ validFingerCount' = validFingerCount + 1
    /\ inZone' = [inZone EXCEPT ![idx] = o.zone]
    /\ fingerState' = [fingerState EXCEPT ![idx] = IF @ = "LIFTED" THEN "STARTED_IN_ZONE" ELSE @]
    /\ seen' = fingerState'[idx]
    /\ verdict' = Judged(fingerState[idx], o)
    /\ zoneAfter' = IF fingerState[idx] = "FORCE_TOUCH" /\ isForceTouch(o) THEN inZone[idx] ELSE o.zone
    /\ pc' = "judge"
    /\ UNCHANGED <<freeFingerTypes, fingerType, active, messages, idx, discardRegions,
                   forceAllowed, keyboard>>

(* The last of the switch's writes: a state that does not change is not     *)
(* written again, and what the entry then holds decides whether the finger *)
(* is active.                                                              *)
Judge ==
    /\ pc = "judge"
    /\ LET now == IF verdict # seen THEN verdict ELSE fingerState[idx]
       IN  /\ fingerState' = [fingerState EXCEPT ![idx] = now]
           /\ active' = [active EXCEPT ![idx] = now \notin {"STARTED_IN_ZONE", "LIFTED"}]
    /\ inZone' = [inZone EXCEPT ![idx] = zoneAfter]
    /\ NextFinger
    /\ seen' = "LIFTED" /\ verdict' = "LIFTED" /\ zoneAfter' = FALSE
    /\ UNCHANGED <<freeFingerTypes, fingerType, messages, discardRegions,
                   forceAllowed, validFingerCount, keyboard>>

(* Mutant of SetThumb: the type the finger had is not given back.          *)
SetThumbKeepType(i) ==
    /\ pc = "thumb"
    /\ validFingerCount >= ThumbAt
    /\ freeFingerTypes[Thumb]
    /\ active[i]
    /\ freeFingerTypes' = [freeFingerTypes EXCEPT ![Thumb] = FALSE]
    /\ fingerType' = [fingerType EXCEPT ![i] = Thumb]
    /\ pc' = "assign"
    /\ UNCHANGED <<fingerState, active, inZone, messages, idx, locals, keyboard>>

(* setThumbFingerType: the lowest or the largest of the active fingers     *)
(* becomes the thumb and gives back the type it had.                       *)
SetThumb(i) ==
    /\ pc = "thumb"
    /\ validFingerCount >= ThumbAt
    /\ freeFingerTypes[Thumb]
    /\ active[i]
    /\ freeFingerTypes' =
          [freeFingerTypes EXCEPT ![fingerType[i]] = @ \/ fingerType[i] # Undefined,
                                  ![Thumb] = FALSE]
    /\ fingerType' = [fingerType EXCEPT ![i] = Thumb]
    /\ pc' = "assign"
    /\ UNCHANGED <<fingerState, active, inZone, messages, idx, locals, keyboard>>

(* Too few fingers, the thumb is taken, or none that is active is told to  *)
(* touch with any pressure: setThumbFingerType has no finger to choose.    *)
KeepThumb ==
    /\ pc = "thumb"
    /\ pc' = "assign"
    /\ UNCHANGED <<fingerState, freeFingerTypes, transducers, messages, idx, locals, keyboard>>

isGesture == ~discardRegions /\ validFingerCount > GestureOver

(* getFingerType: the first free type after the thumb, or none.            *)
FreeTypes == {f \in IndexFinger .. TypeCount - 1 : freeFingerTypes[f]}

FirstFree == IF FreeTypes = {} THEN Undefined
             ELSE CHOOSE f \in FreeTypes : \A g \in FreeTypes : f <= g

(* The second loop is done with a finger.                                  *)
Assigned ==
    /\ IF idx + 1 < FingerCount THEN idx' = idx + 1 /\ UNCHANGED pc
                                ELSE idx' = 0 /\ pc' = "send"
    /\ UNCHANGED <<fingerState, inZone, messages, locals, keyboard>>

Shown == active[idx] \/ (isGesture /\ fingerState[idx] = "STARTED_IN_ZONE")

(* An active finger gets a type and keeps it; one that is invalid gives it *)
(* back and is a palm.                                                     *)
AssignType ==
    /\ pc = "assign"
    /\ Shown
    /\ active' = [active EXCEPT ![idx] = TRUE]
    /\ LET f == IF fingerType[idx] = Undefined THEN FirstFree ELSE fingerType[idx]
           palm == fingerState[idx] = "INVALID"
       IN  /\ fingerType' = [fingerType EXCEPT ![idx] = IF palm THEN Palm ELSE f]
           /\ freeFingerTypes' =
                 [freeFingerTypes EXCEPT ![f] = IF palm THEN TRUE
                                                ELSE @ /\ f = fingerType[idx]]
    /\ Assigned

(* Mutant of FreeType: the type is free again but the finger keeps it.     *)
FreeTypeKeep ==
    /\ pc = "assign"
    /\ ~Shown
    /\ freeFingerTypes' = [freeFingerTypes EXCEPT ![fingerType[idx]] = TRUE]
    /\ UNCHANGED <<fingerType, active>>
    /\ Assigned

(* Any other finger gives its type back.                                   *)
FreeType ==
    /\ pc = "assign"
    /\ ~Shown
    /\ freeFingerTypes' = [freeFingerTypes EXCEPT ![fingerType[idx]] = TRUE]
    /\ fingerType' = [fingerType EXCEPT ![idx] = Undefined]
    /\ UNCHANGED active
    /\ Assigned

(* sendVoodooInputPacket: the event is what the transducers hold.          *)
Send ==
    /\ pc = "send"
    /\ pc' = "idle"
    /\ active' = [i \in Finger |-> FALSE]
    /\ validFingerCount' = 0
    /\ discardRegions' = FALSE /\ forceAllowed' = FALSE
    /\ UNCHANGED <<fingerState, freeFingerTypes, fingerType, inZone, messages, idx,
                   seen, verdict, zoneAfter, keyboard>>

Report ==
    \/ Stamp
    \/ Begin
    \/ Lift
    \/ \E o \in Object : Touch(o)
    \/ Judge
    \/ \E i \in Finger : SetThumb(i)
    \/ KeepThumb
    \/ AssignType
    \/ FreeType
    \/ Send

-----------------------------------------------------------------------------
(* The fingers that invalidateFingers rejects.                             *)
Rejected(i) == fingerState[i] \notin {"LIFTED", "INVALID"} /\ inZone[i]

(* kHandleRMITrackpoint, sent by F03 or F17 on the report thread.          *)
TrackpointMoved ==
    /\ pc = "idle"
    /\ trackpointRecent' = TRUE
    /\ fingerState' = [i \in Finger |-> IF Rejected(i) THEN "INVALID" ELSE fingerState[i]]
    /\ UNCHANGED <<freeFingerTypes, transducers, lastKeyboard, clickpadState, trackpadEnable,
                   forceTouchType, pc, idx, locals, keyboard>>

(* kHandleRMIClickpadSet, sent by F30 or F3A on the report thread when the *)
(* clickpad's pin changes.                                                 *)
ClickpadSet ==
    /\ pc = "idle"
    /\ clickpadState' = ~clickpadState
    /\ UNCHANGED <<fingerState, freeFingerTypes, transducers, lastKeyboard, trackpointRecent,
                   trackpadEnable, forceTouchType, pc, idx, locals, keyboard>>

(* kKeyboardSetTouchStatus: a report in progress goes on.                  *)
SetTouchStatus ==
    /\ KeyboardThread
    /\ kpc = "idle"
    /\ trackpadEnable' = ~trackpadEnable
    /\ UNCHANGED <<fingerState, freeFingerTypes, transducers, lastKeyboard, trackpointRecent,
                   clickpadState, forceTouchType, pc, idx, locals, keyboard>>

(* updateConfiguration, under a gate that no report takes: forceTouchType  *)
(* changes.  The limits that objects are judged by may change with it, as  *)
(* Touch takes any verdict of them; the two timeouts are left as they are. *)
SetProperties ==
    /\ forceTouchType' \in ForceTouchTypes \ {forceTouchType}
    /\ forceAllowed' = (forceAllowed \/ (InReport /\ AllowsForce(forceTouchType')))
    /\ UNCHANGED <<fingerState, freeFingerTypes, transducers, lastKeyboard, trackpointRecent,
                   clickpadState, trackpadEnable, pc, idx, discardRegions, validFingerCount,
                   seen, verdict, zoneAfter, keyboard>>

(* kKeyboardKeyPressTime: the time is stored and the loop starts.          *)
KeyPress ==
    /\ KeyboardThread
    /\ kpc = "idle"
    /\ kpc' = "check"
    /\ lastKeyboard' = "ahead"
    /\ UNCHANGED <<fingerState, freeFingerTypes, transducers, trackpointRecent, clickpadState,
                   trackpadEnable, forceTouchType, pc, idx, locals, kidx>>

NextInvalidate ==
    IF kidx + 1 < FingerCount THEN kpc' = "check" /\ kidx' = kidx + 1
                              ELSE kpc' = "idle" /\ kidx' = 0

(* invalidateFingers, one finger: its state and coordinates are read ...   *)
CheckFinger ==
    /\ kpc = "check"
    /\ IF Rejected(kidx) THEN kpc' = "write" /\ UNCHANGED kidx ELSE NextInvalidate
    /\ UNCHANGED <<fingerState, freeFingerTypes, transducers, messages, pc, idx, locals>>

(* ... and its state is written.                                           *)
InvalidateFinger ==
    /\ kpc = "write"
    /\ fingerState' = [fingerState EXCEPT ![kidx] = "INVALID"]
    /\ NextInvalidate
    /\ UNCHANGED <<freeFingerTypes, transducers, messages, pc, idx, locals>>

Next ==
    \/ Report
    \/ TrackpointMoved
    \/ ClickpadSet
    \/ SetTouchStatus
    \/ SetProperties
    \/ KeyPress
    \/ CheckFinger
    \/ InvalidateFinger

Spec == Init /\ [][Next]_vars

-----------------------------------------------------------------------------
(* Every variable has its type.                                            *)
TypeOK ==
    /\ fingerState \in [Finger -> State]
    /\ freeFingerTypes \in [FingerType -> BOOLEAN]
    /\ fingerType \in [Finger -> FingerType]
    /\ active \in [Finger -> BOOLEAN]
    /\ inZone \in [Finger -> BOOLEAN]
    /\ lastKeyboard \in {"old", "recent", "ahead"}
    /\ trackpointRecent \in BOOLEAN
    /\ clickpadState \in BOOLEAN /\ trackpadEnable \in BOOLEAN
    /\ forceTouchType \in ForceTouchTypes /\ forceAllowed \in BOOLEAN
    /\ pc \in {"idle", "stamped", "switch", "judge", "thumb", "assign", "send"}
    /\ idx \in Finger
    /\ discardRegions \in BOOLEAN
    /\ validFingerCount \in Nat
    /\ seen \in State /\ verdict \in State /\ zoneAfter \in BOOLEAN
    /\ kpc \in {"idle", "check", "write"}
    /\ kidx \in Finger

(* The types of one hand are neither handed out twice nor lost: such a     *)
(* type is free exactly when no transducer has it, and two transducers     *)
(* never share it.  macOS takes two fingers of the same type for one; a    *)
(* lost type would leave later touches without any.                        *)
TypesExclusive ==
    /\ \A f \in HandType : freeFingerTypes[f] <=> \A i \in Finger : fingerType[i] # f
    /\ \A i, j \in Finger :
          fingerType[i] = fingerType[j] /\ fingerType[i] \in HandType => i = j

(* Every finger a packet shows has a type, and the fingers it does not     *)
(* show hold none.  This needs as many types besides the thumb's as a      *)
(* report has fingers, which F12's reports of at most five respect.        *)
PacketTyped ==
    pc = "send" => \A i \in Finger : active[i] <=> fingerType[i] # Undefined

(* "Force touch emulation only works with clickpads (button underneath     *)
(* trackpad)" (RMITrackpadFunction.cpp:218): no packet presents a finger   *)
(* as a force touch unless at some time while its report was handled the   *)
(* configuration allowed one: one from before the clickpad was released,   *)
(* or the type changed, does not outlive the next report, however the      *)
(* keyboard's thread writes over the state of the finger that is judged.   *)
ForceTouchUnderClick ==
    pc = "send" /\ ~forceAllowed => \A i \in Finger : fingerState[i] # "FORCE_TOUCH"

(* What VoodooInput is sent.                                               *)
PacketSound == PacketTyped /\ ForceTouchUnderClick

(* "Invalidate fingers which are in zones currently" (the comment of       *)
(* invalidateFingers, RMITrackpadFunction.cpp:357-361): a finger that has  *)
(* been invalidated stays so until it is lifted (170).                     *)
InvalidUntilLifted ==
    [][\A i \in Finger : fingerState[i] = "INVALID" => fingerState'[i] \in {"INVALID", "LIFTED"}]_vars

(* The one exception is a finger that is invalidated, by a key press, while *)
(* a report is judging it and has read its state before: handleReport never *)
(* lets another rejected finger back in, and not one it has read as such.   *)
InvalidUnlessJudged ==
    [][\A i \in Finger :
          fingerState[i] = "INVALID" /\ ~(pc = "judge" /\ idx = i /\ seen # "INVALID")
            => fingerState'[i] \in {"INVALID", "LIFTED"}]_vars
=============================================================================
