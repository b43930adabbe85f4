------------------------ MODULE FingerTrackingProofs ------------------------
(***************************************************************************)
(* Proofs about FingerTracking, for any number of fingers and of types,    *)
(* any limits, and whether or not a keyboard thread interferes.            *)
(***************************************************************************)
EXTENDS FingerTracking, WellFoundedInduction, FiniteSetTheorems, TLAPS

LEMMA TypeFacts ==
    /\ Undefined \in FingerType /\ Thumb \in FingerType /\ Palm \in FingerType
    /\ Undefined \notin HandType /\ Palm \notin HandType /\ Thumb \in HandType
    /\ HandType \subseteq FingerType
    /\ 0 \in Finger
BY FingerAssumption DEF Undefined, Thumb, Palm, FingerType, HandType, Finger

(* getFingerType returns a free type after the thumb, or none.             *)
LEMMA FirstFreeIsFree ==
    \/ FreeTypes = {} /\ FirstFree = Undefined
    \/ FirstFree \in FreeTypes
<1>1. CASE FreeTypes = {}
    BY <1>1 DEF FirstFree
<1>2. CASE FreeTypes # {}
    <2> DEFINE R == OpToRel(<, Nat)
    <2>1. IsWellFoundedOn(R, Nat)
        BY NatLessThanWellFounded
    <2>2. FreeTypes \subseteq Nat
        BY FingerAssumption DEF FreeTypes, IndexFinger
    <2>3. PICK f \in FreeTypes : \A g \in FreeTypes : <<g, f>> \notin R
        <3> HIDE DEF R
        <3> QED BY <1>2, <2>1, <2>2, WFMin
    <2>4. \A g \in FreeTypes : f <= g
        <3>1. R = {ss \in Nat \X Nat : ss[1] < ss[2]}
            BY Zenon DEF OpToRel
        <3> HIDE DEF R
        <3> SUFFICES ASSUME NEW g \in FreeTypes, ~(f <= g) PROVE FALSE
            OBVIOUS
        <3>2. f \in Nat /\ g \in Nat /\ g < f
            BY <2>2
        <3>3. <<g, f>> \in Nat \X Nat /\ <<g, f>>[1] < <<g, f>>[2]
            BY <3>2
        <3>4. <<g, f>> \in R
            BY ONLY <3>1, <3>3, Zenon
        <3> QED BY <2>3, <3>4
    <2> QED BY <1>2, <2>4 DEF FirstFree
<1> QED BY <1>1, <1>2

-----------------------------------------------------------------------------
(* Type correctness.                                                       *)
LEMMA JudgedType ==
    ASSUME NEW s \in State, NEW o \in Object
    PROVE  Judged(s, o) \in State
BY DEF Judged, Tracked, State

LEMMA LoopIndex ==
    /\ TypeOK /\ NextFinger => idx' \in Finger /\ pc' \in {"switch", "thumb"}
    /\ TypeOK /\ Assigned => idx' \in Finger /\ pc' \in {pc, "send"}
    /\ TypeOK /\ NextInvalidate => kidx' \in Finger /\ kpc' \in {"check", "idle"}
BY FingerAssumption DEF TypeOK, NextFinger, Assigned, NextInvalidate, Finger

LEMMA TypeStep == TypeOK /\ [Next]_vars => TypeOK'
<1> SUFFICES ASSUME TypeOK, [Next]_vars PROVE TypeOK'
    OBVIOUS
<1> USE DEF TypeOK, transducers, messages, locals, keyboard
<1>1. CASE Stamp
    BY <1>1 DEF Stamp
<1>2. CASE Begin
    <2>1. discardRegions' \in BOOLEAN
        BY <1>2 DEF Begin
    <2>2. forceAllowed' \in BOOLEAN
        BY <1>2, Zenon DEF Begin, AllowsForce
    <2> QED BY <1>2, <2>1, <2>2 DEF Begin
<1>3. CASE Lift
    BY <1>3, LoopIndex DEF Lift, State
<1>4. ASSUME NEW o \in Object, Touch(o) PROVE TypeOK'
    <2>1. o.zone \in BOOLEAN /\ o.hard \in BOOLEAN
        BY DEF Object
    <2>2. fingerState' \in [Finger -> State] /\ seen' \in State
        BY <1>4 DEF Touch, State
    <2>3. verdict' \in State
        BY <1>4, JudgedType DEF Touch
    <2>4. zoneAfter' \in BOOLEAN /\ inZone' \in [Finger -> BOOLEAN]
        BY <1>4, <2>1 DEF Touch
    <2> QED BY <1>4, <2>2, <2>3, <2>4 DEF Touch
<1>5. CASE Judge
    <2>1. fingerState' \in [Finger -> State] /\ active' \in [Finger -> BOOLEAN]
        BY <1>5 DEF Judge
    <2>2. inZone' \in [Finger -> BOOLEAN]
        BY <1>5 DEF Judge
    <2> QED BY <1>5, <2>1, <2>2, LoopIndex DEF Judge, State
<1>6. ASSUME NEW i \in Finger, SetThumb(i) PROVE TypeOK'
    <2>1. fingerType' \in [Finger -> FingerType]
        BY <1>6, TypeFacts DEF SetThumb
    <2>2. freeFingerTypes' \in [FingerType -> BOOLEAN]
        BY <1>6 DEF SetThumb
    <2> QED BY <1>6, <2>1, <2>2 DEF SetThumb
<1>7. CASE KeepThumb
    BY <1>7 DEF KeepThumb
<1>8. CASE AssignType
    <2>1. FirstFree \in FingerType
        BY FirstFreeIsFree, TypeFacts, FingerAssumption DEF FreeTypes, FingerType, IndexFinger
    <2>2. fingerType' \in [Finger -> FingerType] /\ active' \in [Finger -> BOOLEAN]
        BY <1>8, <2>1, TypeFacts DEF AssignType
    <2>3. freeFingerTypes' \in [FingerType -> BOOLEAN]
        BY <1>8 DEF AssignType
    <2> QED BY <1>8, <2>2, <2>3, LoopIndex DEF AssignType, Assigned
<1>9. CASE FreeType
    <2>1. fingerType' \in [Finger -> FingerType] /\ freeFingerTypes' \in [FingerType -> BOOLEAN]
        BY <1>9, TypeFacts DEF FreeType
    <2> QED BY <1>9, <2>1, LoopIndex DEF FreeType, Assigned
<1>10. CASE Send
    BY <1>10 DEF Send
<1>11. CASE TrackpointMoved
    BY <1>11 DEF TrackpointMoved, State
<1>12. CASE KeyPress
    BY <1>12 DEF KeyPress
<1>18. CASE SetProperties
    <2>1. InReport \in BOOLEAN /\ AllowsForce(forceTouchType') \in BOOLEAN
        BY DEF InReport, AllowsForce
    <2>2. forceAllowed' \in BOOLEAN
        <3>1. forceAllowed' = (forceAllowed \/ (InReport /\ AllowsForce(forceTouchType')))
            BY <1>18 DEF SetProperties
        <3> QED BY <2>1, <3>1, Zenon
    <2> QED BY <1>18, <2>2 DEF SetProperties
<1>17. CASE ClickpadSet \/ SetTouchStatus
    <2>1. clickpadState' \in BOOLEAN /\ trackpadEnable' \in BOOLEAN
        BY <1>17, Zenon DEF ClickpadSet, SetTouchStatus
    <2> QED BY <1>17, <2>1 DEF ClickpadSet, SetTouchStatus
<1>13. CASE CheckFinger
    BY <1>13, LoopIndex DEF CheckFinger
<1>14. CASE InvalidateFinger
    BY <1>14, LoopIndex DEF InvalidateFinger, State
<1>15. CASE UNCHANGED vars
    BY <1>15 DEF vars
<1> HIDE DEF TypeOK, transducers, messages, locals, keyboard
<1>16. CASE Report
    BY <1>1, <1>2, <1>3, <1>4, <1>5, <1>6, <1>7, <1>8, <1>9, <1>10, <1>16 DEF Report
<1> QED BY <1>11, <1>12, <1>13, <1>14, <1>15, <1>16, <1>17, <1>18 DEF Next

(* Every variable keeps its type.                                          *)
THEOREM TypeCorrect == Spec => []TypeOK
<1>1. Init => TypeOK
    <2>1. [f \in FingerType |-> f # Undefined] \in [FingerType -> BOOLEAN]
        <3>1. \A f \in FingerType : (f # Undefined) \in BOOLEAN
            OBVIOUS
        <3> QED BY <3>1
    <2> SUFFICES ASSUME Init PROVE TypeOK
        OBVIOUS
    <2>2. freeFingerTypes \in [FingerType -> BOOLEAN]
        BY <2>1 DEF Init
    <2> QED BY <2>2, TypeFacts DEF Init, TypeOK, State
<1>2. TypeOK /\ [Next]_vars => TypeOK'
    BY TypeStep
<1> QED BY <1>1, <1>2, PTL DEF Spec

-----------------------------------------------------------------------------
(* The allocation of finger types.  TypesExclusive is inductive: it does   *)
(* not depend on the states of fingers, so no interference of the keyboard *)
(* thread can disturb it.                                                  *)
LEMMA ExclusiveUntouched ==
    ASSUME TypesExclusive, UNCHANGED <<fingerType, freeFingerTypes>>
    PROVE  TypesExclusive'
BY DEF TypesExclusive

(* The finger i changes its type from f to g, which was free or is none of *)
(* the hand's; f becomes free and g is taken.                              *)
LEMMA ExclusiveExchange ==
    ASSUME TypeOK, TypesExclusive, NEW i \in Finger, NEW g \in FingerType,
           fingerType' = [fingerType EXCEPT ![i] = g],
           g = fingerType[i] \/ g \notin HandType \/ freeFingerTypes[g],
           \A h \in HandType :
              (freeFingerTypes'[h] <=> h # g /\ (h = fingerType[i] \/ freeFingerTypes[h]))
    PROVE  TypesExclusive'
<1>1. fingerType'[i] = g /\ \A j \in Finger \ {i} : fingerType'[j] = fingerType[j]
    BY DEF TypeOK
<1>2. ASSUME g \in HandType, NEW j \in Finger \ {i}
      PROVE  fingerType[j] # g
    BY <1>2 DEF TypesExclusive
<1>3. ASSUME NEW h \in HandType
      PROVE  freeFingerTypes'[h] <=> \A j \in Finger : fingerType'[j] # h
    <2>1. CASE h = g
        BY <1>1, <2>1
    <2>2. CASE h # g /\ h = fingerType[i]
        BY <1>1, <2>2 DEF TypesExclusive
    <2>3. CASE h # g /\ h # fingerType[i]
        <3>1. freeFingerTypes'[h] <=> freeFingerTypes[h]
            BY <2>3
        <3>2. (\A j \in Finger : fingerType'[j] # h) <=> (\A j \in Finger : fingerType[j] # h)
            BY <1>1, <2>3
        <3> QED BY <3>1, <3>2 DEF TypesExclusive
    <2> QED BY <2>1, <2>2, <2>3
<1>4. ASSUME NEW j \in Finger, NEW k \in Finger,
             fingerType'[j] = fingerType'[k], fingerType'[j] \in HandType
      PROVE  j = k
    BY <1>1, <1>2, <1>4 DEF TypesExclusive
<1> QED BY <1>3, <1>4 DEF TypesExclusive

LEMMA ExclusiveStep == TypeOK /\ TypesExclusive /\ [Next]_vars => TypesExclusive'
<1> SUFFICES ASSUME TypeOK, TypesExclusive, [Next]_vars PROVE TypesExclusive'
    OBVIOUS
<1> USE DEF transducers
<1>1. CASE Stamp \/ Begin \/ Lift \/ Judge \/ KeepThumb \/ Send \/ TrackpointMoved
              \/ ClickpadSet \/ SetTouchStatus \/ SetProperties \/ KeyPress \/ CheckFinger \/ InvalidateFinger
    BY <1>1, ExclusiveUntouched
    DEF Stamp, Begin, Lift, Judge, KeepThumb, Send, TrackpointMoved, ClickpadSet, SetTouchStatus, SetProperties,
        KeyPress, CheckFinger, InvalidateFinger
<1>2. ASSUME NEW o \in Object, Touch(o) PROVE TypesExclusive'
    BY <1>2, ExclusiveUntouched DEF Touch
<1>3. ASSUME NEW i \in Finger, SetThumb(i) PROVE TypesExclusive'
    <2>1. /\ fingerType' = [fingerType EXCEPT ![i] = Thumb]
          /\ freeFingerTypes[Thumb]
          /\ \A h \in HandType :
                (freeFingerTypes'[h] <=> h # Thumb /\ (h = fingerType[i] \/ freeFingerTypes[h]))
        <3> DEFINE B == freeFingerTypes[fingerType[i]] \/ fingerType[i] # Undefined
        <3>2. freeFingerTypes' =
                 [freeFingerTypes EXCEPT ![fingerType[i]] = B, ![Thumb] = FALSE]
            BY <1>3 DEF SetThumb
        <3>1. ASSUME NEW h \in HandType
              PROVE  freeFingerTypes'[h] <=> h # Thumb /\ (h = fingerType[i] \/ freeFingerTypes[h])
            <4>1. h \in FingerType /\ h # Undefined
                BY TypeFacts
            <4>2. CASE fingerType[i] # Undefined
                <5>1. B = TRUE
                    BY <4>2 DEF TypeOK
                <5> HIDE DEF B
                <5> QED BY <3>2, <4>1, <5>1, TypeFacts DEF TypeOK
            <4>3. CASE fingerType[i] = Undefined
                <5>1. h # fingerType[i]
                    BY <4>1, <4>3
                <5> HIDE DEF B
                <5> QED BY <3>2, <4>1, <5>1, TypeFacts DEF TypeOK
            <4> QED BY <4>2, <4>3
        <3> QED BY <1>3, <3>1 DEF SetThumb
    <2> QED BY <2>1, TypeFacts, ExclusiveExchange
<1>4. CASE AssignType
    <2> DEFINE f == IF fingerType[idx] = Undefined THEN FirstFree ELSE fingerType[idx]
               g == IF fingerState[idx] = "INVALID" THEN Palm ELSE f
    <2>1. idx \in Finger /\ fingerType[idx] \in FingerType
        BY DEF TypeOK
    <2>2. FirstFree \in FingerType /\ (FirstFree = Undefined \/ freeFingerTypes[FirstFree])
        BY FirstFreeIsFree, TypeFacts, FingerAssumption DEF FreeTypes, FingerType, IndexFinger
    <2>3. fingerType' = [fingerType EXCEPT ![idx] = g]
        BY <1>4 DEF AssignType
    <2>4. freeFingerTypes' = [freeFingerTypes EXCEPT
             ![f] = IF fingerState[idx] = "INVALID" THEN TRUE
                    ELSE freeFingerTypes[f] /\ f = fingerType[idx]]
        BY <1>4 DEF AssignType
    <2>5. g \in FingerType /\ f \in FingerType
        BY <2>1, <2>2, TypeFacts
    <2>6. g = fingerType[idx] \/ g \notin HandType \/ freeFingerTypes[g]
        BY <2>2, TypeFacts
    <2>7. ASSUME NEW h \in HandType
          PROVE  (freeFingerTypes'[h] <=> h # g /\ (h = fingerType[idx] \/ freeFingerTypes[h]))
        <3>1. h \in FingerType /\ h # Palm /\ h # Undefined
            BY <2>7, TypeFacts
        <3>2. CASE fingerState[idx] = "INVALID"
            <4>1. g = Palm /\ freeFingerTypes' = [freeFingerTypes EXCEPT ![f] = TRUE]
                BY <2>4, <3>2
            <4>2. CASE fingerType[idx] = Undefined
                BY <2>2, <3>1, <4>1, <4>2 DEF TypeOK
            <4>3. CASE fingerType[idx] # Undefined
                BY <3>1, <4>1, <4>3 DEF TypeOK
            <4> QED BY <4>2, <4>3
        <3>3. CASE fingerState[idx] # "INVALID"
            <4>1. CASE fingerType[idx] = Undefined
                <5>1. \A x \in FingerType \ {f} : freeFingerTypes'[x] = freeFingerTypes[x]
                    BY <2>4, <2>5 DEF TypeOK
                <5>2. CASE f = Undefined
                    BY <3>1, <3>3, <4>1, <5>1, <5>2
                <5>3. CASE f # Undefined
                    <6>1. freeFingerTypes' = [freeFingerTypes EXCEPT ![f] = FALSE]
                        BY <2>4, <3>3, <4>1, <5>3 DEF TypeOK
                    <6> QED BY <2>5, <3>1, <3>3, <4>1, <6>1 DEF TypeOK
                <5> QED BY <5>2, <5>3
            <4>2. CASE fingerType[idx] # Undefined
                <5>1. f = fingerType[idx] /\ g = f
                    BY <3>3, <4>2
                <5>2. freeFingerTypes' = freeFingerTypes
                    BY <2>4, <3>3, <4>2 DEF TypeOK
                <5>3. h = g => ~freeFingerTypes[h]
                    BY <2>1, <5>1, <2>7 DEF TypesExclusive
                <5> QED BY <3>1, <5>1, <5>2, <5>3 DEF TypeOK
            <4> QED BY <4>1, <4>2
        <3> QED BY <3>2, <3>3
    <2> HIDE DEF f, g
    <2> QED BY <2>1, <2>3, <2>5, <2>6, <2>7, ExclusiveExchange
<1>5. CASE FreeType
    <2>1. idx \in Finger
        BY DEF TypeOK
    <2>2. /\ fingerType' = [fingerType EXCEPT ![idx] = Undefined]
          /\ \A h \in HandType :
                (freeFingerTypes'[h] <=> h # Undefined /\ (h = fingerType[idx] \/ freeFingerTypes[h]))
        BY <1>5, TypeFacts DEF FreeType, TypeOK
    <2> QED BY <2>1, <2>2, TypeFacts, ExclusiveExchange
<1>6. CASE UNCHANGED vars
    BY <1>6, ExclusiveUntouched DEF vars
<1> QED BY <1>1, <1>2, <1>3, <1>4, <1>5, <1>6 DEF Next, Report

(* No two fingers share a type of the hand and no such type is lost, even  *)
(* while key presses invalidate fingers in the middle of a report.         *)
THEOREM Exclusive == Spec => []TypesExclusive
<1>1. Init => TypesExclusive
    BY TypeFacts DEF Init, TypesExclusive
<1>2. TypeOK /\ TypesExclusive /\ [Next]_vars => TypesExclusive'
    BY ExclusiveStep
<1> QED BY <1>1, <1>2, TypeCorrect, PTL DEF Spec

-----------------------------------------------------------------------------
(* Invalidation.  Without a second thread nothing comes between the read of *)
(* an entry in the switch and the write that depends on it.                 *)
Undisturbed ==
    /\ kpc = "idle"
    /\ pc = "judge" => /\ seen = fingerState[idx]
                       /\ seen = "INVALID" => verdict = "INVALID"

LEMMA UndisturbedStep ==
    ASSUME ~KeyboardThread, TypeOK, Undisturbed, [Next]_vars
    PROVE  Undisturbed'
<1> USE DEF Undisturbed
<1>1. CASE Stamp \/ Begin \/ KeepThumb \/ Send \/ TrackpointMoved \/ ClickpadSet \/ SetProperties
              \/ UNCHANGED vars
    BY <1>1 DEF Stamp, Begin, KeepThumb, Send, TrackpointMoved, ClickpadSet, SetProperties, vars, keyboard, locals,
                messages, transducers
<1>2. CASE Lift \/ Judge
    BY <1>2 DEF Lift, Judge, NextFinger, keyboard
<1>3. ASSUME NEW o \in Object, Touch(o) PROVE Undisturbed'
    BY <1>3 DEF Touch, Judged, keyboard
<1>4. CASE \E i \in Finger : SetThumb(i)
    BY <1>4 DEF SetThumb, keyboard
<1>5. CASE AssignType \/ FreeType
    BY <1>5 DEF AssignType, FreeType, Assigned, keyboard
<1>6. CASE SetTouchStatus \/ KeyPress \/ CheckFinger \/ InvalidateFinger
    BY <1>6 DEF SetTouchStatus, KeyPress, CheckFinger, InvalidateFinger
<1> QED BY <1>1, <1>2, <1>3, <1>4, <1>5, <1>6 DEF Next, Report

LEMMA InvalidStep ==
    ASSUME TypeOK, Undisturbed, Undisturbed', [Next]_vars,
           NEW i \in Finger, fingerState[i] = "INVALID"
    PROVE  fingerState'[i] \in {"INVALID", "LIFTED"}
<1>1. CASE UNCHANGED fingerState
    BY <1>1
<1>2. CASE Lift
    BY <1>2 DEF Lift, TypeOK
<1>3. CASE Judge
    BY <1>3 DEF Judge, TypeOK, Undisturbed
<1>4. CASE TrackpointMoved
    BY <1>4 DEF TrackpointMoved
<1>5. CASE InvalidateFinger
    BY <1>5 DEF InvalidateFinger, Undisturbed
<1>6. CASE \E o \in Object : Touch(o)
    BY <1>6 DEF Touch, TypeOK
<1>7. CASE Stamp \/ Begin \/ (\E j \in Finger : SetThumb(j)) \/ KeepThumb \/ AssignType
              \/ FreeType \/ Send \/ ClickpadSet \/ SetTouchStatus \/ SetProperties \/ KeyPress \/ CheckFinger \/ UNCHANGED vars
    BY <1>1, <1>7 DEF Stamp, Begin, SetThumb, KeepThumb, AssignType, FreeType,
                      Assigned, Send, ClickpadSet, SetTouchStatus, SetProperties, KeyPress, CheckFinger, vars
<1> QED BY <1>2, <1>3, <1>4, <1>5, <1>6, <1>7 DEF Next, Report

(* As long as the only invalidations are the trackpoint's, which arrive on  *)
(* the thread that also handles reports, a rejected finger stays rejected   *)
(* until it is lifted.                                                      *)
THEOREM InvalidationSticks == ASSUME ~KeyboardThread PROVE Spec => InvalidUntilLifted
<1>1. Init => Undisturbed
    BY DEF Init, Undisturbed
<1>2. TypeOK /\ Undisturbed /\ [Next]_vars => Undisturbed'
    BY UndisturbedStep
<1>3. TypeOK /\ Undisturbed /\ Undisturbed' /\ [Next]_vars
         => [\A i \in Finger : fingerState[i] = "INVALID"
                                  => fingerState'[i] \in {"INVALID", "LIFTED"}]_vars
    BY InvalidStep
<1> QED BY <1>1, <1>2, <1>3, TypeCorrect, PTL DEF Spec, InvalidUntilLifted

(* With a keyboard's thread the report may overwrite the state of the       *)
(* finger it is judging, but no other.                                      *)
ReadRejected == pc = "judge" /\ seen = "INVALID" => verdict = "INVALID"

LEMMA ReadRejectedStep == ReadRejected /\ [Next]_vars => ReadRejected'
<1> SUFFICES ASSUME ReadRejected, [Next]_vars PROVE ReadRejected'
    OBVIOUS
<1> USE DEF ReadRejected
<1>1. CASE \E o \in Object : Touch(o)
    BY <1>1 DEF Touch, Judged
<1>2. CASE UNCHANGED <<pc, seen, verdict>>
    BY <1>2
<1>3. CASE pc' # "judge"
    BY <1>3
<1>4. CASE Stamp \/ Begin \/ Lift \/ Judge \/ (\E i \in Finger : SetThumb(i)) \/ KeepThumb \/ Send
    BY <1>3, <1>4 DEF Stamp, Begin, Lift, Judge, NextFinger, SetThumb, KeepThumb, Send
<1>5. CASE AssignType \/ FreeType
    BY <1>2, <1>3, <1>5 DEF AssignType, FreeType, Assigned, locals
<1>6. CASE TrackpointMoved \/ ClickpadSet \/ SetTouchStatus \/ SetProperties \/ KeyPress \/ CheckFinger
              \/ InvalidateFinger \/ UNCHANGED vars
    BY <1>2, <1>6 DEF TrackpointMoved, ClickpadSet, SetTouchStatus, SetProperties, KeyPress, CheckFinger,
                      InvalidateFinger, vars, locals
<1> QED BY <1>1, <1>4, <1>5, <1>6 DEF Next, Report

LEMMA UnlessJudgedStep ==
    ASSUME TypeOK, ReadRejected, [Next]_vars,
           NEW i \in Finger, fingerState[i] = "INVALID",
           ~(pc = "judge" /\ idx = i /\ seen # "INVALID")
    PROVE  fingerState'[i] \in {"INVALID", "LIFTED"}
<1>1. CASE UNCHANGED fingerState
    BY <1>1
<1>2. CASE Lift
    BY <1>2 DEF Lift, TypeOK
<1>3. CASE Judge
    <2>1. fingerState \in [Finger -> State] /\ pc = "judge"
        BY <1>3 DEF Judge, TypeOK
    <2>2. CASE idx # i
        BY <1>3, <2>1, <2>2 DEF Judge
    <2>3. CASE idx = i
        BY <1>3, <2>1, <2>3 DEF Judge, ReadRejected
    <2> QED BY <2>2, <2>3
<1>4. CASE TrackpointMoved
    BY <1>4 DEF TrackpointMoved
<1>5. CASE InvalidateFinger
    BY <1>5 DEF InvalidateFinger, TypeOK
<1>6. CASE \E o \in Object : Touch(o)
    BY <1>6 DEF Touch, TypeOK
<1>7. CASE Stamp \/ Begin \/ (\E j \in Finger : SetThumb(j)) \/ KeepThumb \/ AssignType
              \/ FreeType \/ Send \/ ClickpadSet \/ SetTouchStatus \/ SetProperties \/ KeyPress \/ CheckFinger \/ UNCHANGED vars
    BY <1>1, <1>7 DEF Stamp, Begin, SetThumb, KeepThumb, AssignType, FreeType,
                      Assigned, Send, ClickpadSet, SetTouchStatus, SetProperties, KeyPress, CheckFinger, vars
<1> QED BY <1>2, <1>3, <1>4, <1>5, <1>6, <1>7 DEF Next, Report

(* Whoever invalidates fingers, and whenever: handleReport lets a rejected *)
(* finger back in only if it had read the finger's state before.           *)
THEOREM RejectionOverwritten == Spec => InvalidUnlessJudged
<1>1. Init => ReadRejected
    BY DEF Init, ReadRejected
<1>2. ReadRejected /\ [Next]_vars => ReadRejected'
    BY ReadRejectedStep
<1>3. TypeOK /\ ReadRejected /\ [Next]_vars
         => [\A i \in Finger :
               fingerState[i] = "INVALID" /\ ~(pc = "judge" /\ idx = i /\ seen # "INVALID")
                 => fingerState'[i] \in {"INVALID", "LIFTED"}]_vars
    BY UnlessJudgedStep
<1> QED BY <1>1, <1>2, <1>3, TypeCorrect, PTL DEF Spec, InvalidUnlessJudged
-----------------------------------------------------------------------------
(* Packets.  Whoever needs a type finds one: the types after the thumb are *)
(* as many as a report has fingers, and one that is not free, be it that   *)
(* of palms, is held by a finger.                                          *)
PalmHeld == ~freeFingerTypes[Palm] => \E i \in Finger : fingerType[i] = Palm

TypedUpTo(n) == \A i \in Finger : i < n => (active[i] <=> fingerType[i] # Undefined)

PacketInv ==
    /\ PalmHeld
    /\ pc = "assign" => TypedUpTo(idx)
    /\ pc = "send" => TypedUpTo(FingerCount)
    /\ pc = "thumb" => idx = 0

LEMMA FreeTypeExists ==
    ASSUME FingerCount <= TypeCount - 2, TypeOK, TypesExclusive, PalmHeld,
           NEW i \in Finger, fingerType[i] = Undefined
    PROVE  FirstFree \in FreeTypes /\ FirstFree # Undefined
<1> DEFINE L == IndexFinger .. TypeCount - 1
           S == Finger \ {i}
           g == [f \in L |-> CHOOSE j \in Finger : fingerType[j] = f]
<1>1. FreeTypes # {}
    <2> SUFFICES ASSUME FreeTypes = {} PROVE FALSE
        OBVIOUS
    <2>1. \A f \in L : ~freeFingerTypes[f]
        BY DEF FreeTypes
    <2>2. \A f \in L : f \in HandType \/ f = Palm
        BY FingerAssumption DEF HandType, Thumb, Palm, IndexFinger
    <2>3. \A f \in L : \E j \in Finger : fingerType[j] = f
        BY <2>1, <2>2 DEF TypesExclusive, PalmHeld
    <2>4. \A f \in L : g[f] \in Finger /\ fingerType[g[f]] = f
        BY <2>3
    <2>5. \A f \in L : f # Undefined
        BY FingerAssumption DEF IndexFinger, Undefined
    <2>6. g \in [L -> S]
        BY <2>4, <2>5
    <2>7. \A f, h \in L : g[f] = g[h] => f = h
        BY <2>4
    <2>8. IsFiniteSet(Finger) /\ Cardinality(Finger) = FingerCount
        <3>1. 0 \in Int /\ FingerCount - 1 \in Int
            BY FingerAssumption
        <3>2. /\ IsFiniteSet(0 .. FingerCount - 1)
              /\ Cardinality(0 .. FingerCount - 1)
                    = IF 0 > FingerCount - 1 THEN 0 ELSE FingerCount - 1 - 0 + 1
            BY <3>1, FS_Interval
        <3> QED BY <3>2, FingerAssumption DEF Finger
    <2>9. IsFiniteSet(S) /\ Cardinality(S) = FingerCount - 1
        BY <2>8, FS_RemoveElement
    <2>10. Cardinality(L) = TypeCount - 2 /\ IsFiniteSet(L)
        <3>1. 2 \in Int /\ TypeCount - 1 \in Int
            BY FingerAssumption
        <3>2. /\ IsFiniteSet(2 .. TypeCount - 1)
              /\ Cardinality(2 .. TypeCount - 1) = IF 2 > TypeCount - 1 THEN 0 ELSE TypeCount - 1 - 2 + 1
            BY <3>1, FS_Interval
        <3> QED BY <3>2, FingerAssumption DEF IndexFinger
    <2> HIDE DEF g, L, S
    <2>11. Cardinality(S) < Cardinality(L)
        BY <2>9, <2>10, FingerAssumption
    <2>12. \E f, h \in L : f # h /\ g[f] = g[h]
        BY <2>6, <2>9, <2>10, <2>11, FS_PigeonHole
    <2> QED BY <2>7, <2>12
<1>2. FirstFree \in FreeTypes
    BY <1>1, FirstFreeIsFree DEF FirstFree
<1> QED BY <1>2, FingerAssumption DEF FreeTypes, IndexFinger, Undefined

(* The second loop has dealt with the finger idx.                          *)
LEMMA LoopAdvances ==
    ASSUME TypeOK, PacketInv, pc = "assign", Assigned,
           \A i \in Finger \ {idx} : active'[i] = active[i] /\ fingerType'[i] = fingerType[i],
           active'[idx] <=> fingerType'[idx] # Undefined
    PROVE  /\ pc' \in {"assign", "send"}
           /\ pc' = "assign" => TypedUpTo(idx)'
           /\ pc' = "send" => TypedUpTo(FingerCount)'
<1>1. idx \in Nat /\ idx \in Finger /\ FingerCount \in Nat /\ \A i \in Finger : i \in Nat /\ i < FingerCount
    BY FingerAssumption DEF TypeOK, Finger
<1>2. \A i \in Finger : i < idx + 1 => (active'[i] <=> fingerType'[i] # Undefined)
    <2>1. \A i \in Finger : i < idx + 1 => i = idx \/ i < idx
        BY <1>1
    <2> QED BY <2>1 DEF PacketInv, TypedUpTo
<1>3. CASE idx + 1 < FingerCount
    BY <1>2, <1>3 DEF Assigned, TypedUpTo
<1>4. CASE ~(idx + 1 < FingerCount)
    <2>1. pc' = "send" /\ \A i \in Finger : i < idx + 1
        BY <1>1, <1>4 DEF Assigned
    <2> QED BY <1>2, <2>1 DEF TypedUpTo
<1> QED BY <1>3, <1>4

LEMMA PacketStep ==
    ASSUME FingerCount <= TypeCount - 2, TypeOK, TypesExclusive, PacketInv, [Next]_vars
    PROVE  PacketInv'
<1> USE DEF transducers
<1>1. CASE Stamp \/ Begin \/ Lift \/ Judge \/ Send \/ TrackpointMoved
    <2>1. UNCHANGED <<fingerType, freeFingerTypes>>
        BY <1>1 DEF Stamp, Begin, Lift, Judge, Send, TrackpointMoved
    <2>2. pc' \notin {"assign", "send"} /\ (pc' = "thumb" => idx' = 0)
        BY <1>1 DEF Stamp, Begin, Lift, Judge, NextFinger, Send, TrackpointMoved
    <2> QED BY <2>1, <2>2 DEF PacketInv, PalmHeld
<1>2. ASSUME NEW o \in Object, Touch(o) PROVE PacketInv'
    BY <1>2 DEF Touch, PacketInv, PalmHeld
<1>3. CASE KeepThumb
    <2>1. /\ UNCHANGED <<fingerType, freeFingerTypes, active, idx>>
          /\ pc' = "assign" /\ idx = 0
        BY <1>3 DEF KeepThumb, PacketInv
    <2>2. \A i \in Finger : ~(i < 0)
        BY DEF Finger
    <2> QED BY <2>1, <2>2 DEF PacketInv, PalmHeld, TypedUpTo
<1>4. ASSUME NEW i \in Finger, SetThumb(i) PROVE PacketInv'
    <2>1. /\ fingerType' = [fingerType EXCEPT ![i] = Thumb]
          /\ pc' = "assign" /\ idx' = 0
        BY <1>4 DEF SetThumb, PacketInv
    <2>2. \A j \in Finger : ~(j < 0)
        BY DEF Finger
    <2>3. PalmHeld'
        <3> DEFINE B == freeFingerTypes[fingerType[i]] \/ fingerType[i] # Undefined
        <3>1. freeFingerTypes' = [freeFingerTypes EXCEPT ![fingerType[i]] = B, ![Thumb] = FALSE]
            BY <1>4 DEF SetThumb
        <3>2. Palm # Thumb /\ Palm # Undefined
            BY FingerAssumption DEF Palm, Thumb, Undefined
        <3>3. CASE fingerType[i] = Palm
            <4>1. B = TRUE
                BY <3>2, <3>3 DEF TypeOK
            <4> HIDE DEF B
            <4>2. freeFingerTypes'[Palm] = TRUE
                BY <3>1, <3>2, <3>3, <4>1, TypeFacts DEF TypeOK
            <4> QED BY <4>2 DEF PalmHeld
        <3>4. CASE fingerType[i] # Palm
            <4> HIDE DEF B
            <4>1. freeFingerTypes'[Palm] = freeFingerTypes[Palm]
                BY <3>1, <3>2, <3>4, TypeFacts DEF TypeOK
            <4>2. \A j \in Finger : fingerType[j] = Palm => fingerType'[j] = Palm
                BY <2>1, <3>4 DEF TypeOK
            <4> QED BY <4>1, <4>2 DEF PacketInv, PalmHeld
        <3> QED BY <3>3, <3>4
    <2> QED BY <2>1, <2>2, <2>3 DEF PacketInv, TypedUpTo
<1>5. CASE AssignType
    <2> DEFINE f == IF fingerType[idx] = Undefined THEN FirstFree ELSE fingerType[idx]
               g == IF fingerState[idx] = "INVALID" THEN Palm ELSE f
               v == IF fingerState[idx] = "INVALID" THEN TRUE
                    ELSE freeFingerTypes[f] /\ f = fingerType[idx]
    <2>1. idx \in Finger /\ pc = "assign"
        BY <1>5 DEF TypeOK, AssignType
    <2>2. fingerType' = [fingerType EXCEPT ![idx] = g] /\ active' = [active EXCEPT ![idx] = TRUE]
        BY <1>5 DEF AssignType
    <2>3. freeFingerTypes' = [freeFingerTypes EXCEPT ![f] = v]
        BY <1>5 DEF AssignType
    <2>4. f # Undefined /\ g # Undefined /\ f \in FingerType
        <3>1. fingerType[idx] = Undefined => FirstFree # Undefined /\ FirstFree \in FreeTypes
            BY <2>1, FreeTypeExists DEF PacketInv
        <3>2. FreeTypes \subseteq FingerType /\ fingerType[idx] \in FingerType
            BY <2>1, FingerAssumption DEF FreeTypes, FingerType, IndexFinger, TypeOK
        <3>3. Palm # Undefined
            BY FingerAssumption DEF Palm, Undefined
        <3> QED BY <3>1, <3>2, <3>3
    <2>5. PalmHeld'
        <3>1. CASE g = Palm
            <4>1. fingerType'[idx] = Palm
                BY <2>1, <2>2, <3>1 DEF TypeOK
            <4> QED BY <2>1, <4>1 DEF PalmHeld
        <3>2. CASE g # Palm
            <4>1. f # Palm /\ fingerType[idx] # Palm
                <5>1. Palm # Undefined
                    BY FingerAssumption DEF Palm, Undefined
                <5>2. g = f
                    BY <3>2
                <5> QED BY <3>2, <5>1, <5>2
            <4> HIDE DEF f, g, v
            <4>2. freeFingerTypes'[Palm] = freeFingerTypes[Palm]
                BY <2>3, <2>4, <4>1, TypeFacts DEF TypeOK
            <4>3. \A j \in Finger : fingerType[j] = Palm => fingerType'[j] = Palm
                BY <2>1, <2>2, <4>1 DEF TypeOK
            <4> QED BY <4>2, <4>3 DEF PacketInv, PalmHeld
        <3> QED BY <3>1, <3>2
    <2> HIDE DEF f, g, v
    <2>6. /\ \A i \in Finger \ {idx} : active'[i] = active[i] /\ fingerType'[i] = fingerType[i]
          /\ active'[idx] <=> fingerType'[idx] # Undefined
        BY <2>1, <2>2, <2>4 DEF TypeOK
    <2>7. Assigned
        BY <1>5 DEF AssignType
    <2> QED BY <2>1, <2>5, <2>6, <2>7, LoopAdvances DEF PacketInv
<1>6. CASE FreeType
    <2>1. idx \in Finger /\ pc = "assign" /\ ~active[idx] /\ active' = active /\ Assigned
        BY <1>6 DEF TypeOK, FreeType, Shown
    <2>2. /\ fingerType' = [fingerType EXCEPT ![idx] = Undefined]
          /\ freeFingerTypes' = [freeFingerTypes EXCEPT ![fingerType[idx]] = TRUE]
        BY <1>6 DEF FreeType
    <2>3. PalmHeld'
        <3>1. CASE fingerType[idx] = Palm
            BY <2>2, <3>1, TypeFacts DEF TypeOK, PalmHeld
        <3>2. CASE fingerType[idx] # Palm
            <4>1. freeFingerTypes'[Palm] = freeFingerTypes[Palm]
                BY <2>2, <3>2, TypeFacts DEF TypeOK
            <4>2. \A j \in Finger : fingerType[j] = Palm => fingerType'[j] = Palm
                BY <2>1, <2>2, <3>2 DEF TypeOK
            <4> QED BY <4>1, <4>2 DEF PacketInv, PalmHeld
        <3> QED BY <3>1, <3>2
    <2>4. \A i \in Finger \ {idx} : active'[i] = active[i] /\ fingerType'[i] = fingerType[i]
        BY <2>1, <2>2 DEF TypeOK
    <2>5. ~active'[idx] /\ fingerType'[idx] = Undefined
        BY <2>1, <2>2 DEF TypeOK
    <2> QED BY <2>1, <2>3, <2>4, <2>5, LoopAdvances DEF PacketInv
<1>7. CASE ClickpadSet \/ SetTouchStatus \/ SetProperties \/ KeyPress \/ CheckFinger \/ InvalidateFinger \/ UNCHANGED vars
    <2>1. UNCHANGED <<fingerType, freeFingerTypes, active, idx, pc>>
        BY <1>7 DEF ClickpadSet, SetTouchStatus, SetProperties, KeyPress, CheckFinger, InvalidateFinger, vars, locals
    <2> QED BY <2>1 DEF PacketInv, PalmHeld, TypedUpTo
<1> QED BY <1>1, <1>2, <1>3, <1>4, <1>5, <1>6, <1>7 DEF Next, Report

-----------------------------------------------------------------------------
(* Force touches.  A report in progress sees the clickpad as it is, and    *)
(* what is judged while the configuration allows none stays no force touch *)
(* until the packet is sent: the keyboard's thread only rejects fingers.   *)
ForceInv ==
    /\ InReport /\ AllowsForce(forceTouchType) => forceAllowed
    /\ ~forceAllowed =>
        /\ pc \in {"switch", "judge"} => \A i \in Finger : i < idx => fingerState[i] # "FORCE_TOUCH"
        /\ pc = "judge" => verdict # "FORCE_TOUCH" /\ fingerState[idx] \in {seen, "INVALID"}
        /\ pc \in {"thumb", "assign", "send"} => \A i \in Finger : fingerState[i] # "FORCE_TOUCH"

(* Between the loops idx is back at their start.                           *)
LoopOver == pc \in {"idle", "stamped", "thumb", "send"} => idx = 0

LEMMA LoopOverStep == LoopOver /\ [Next]_vars => LoopOver'
<1> SUFFICES ASSUME LoopOver, [Next]_vars PROVE LoopOver'
    OBVIOUS
<1> USE DEF LoopOver
<1>1. CASE Stamp \/ Begin \/ (\E o \in Object : Touch(o)) \/ (\E i \in Finger : SetThumb(i)) \/ KeepThumb \/ Send
    BY <1>1 DEF Stamp, Begin, Touch, SetThumb, KeepThumb, Send
<1>2. CASE Lift \/ Judge
    BY <1>2 DEF Lift, Judge, NextFinger
<1>3. CASE AssignType \/ FreeType
    BY <1>3 DEF AssignType, FreeType, Assigned
<1>4. CASE TrackpointMoved \/ ClickpadSet \/ SetTouchStatus \/ SetProperties \/ KeyPress \/ CheckFinger
              \/ InvalidateFinger \/ UNCHANGED vars
    BY <1>4 DEF TrackpointMoved, ClickpadSet, SetTouchStatus, SetProperties, KeyPress, CheckFinger,
                InvalidateFinger, vars
<1> QED BY <1>1, <1>2, <1>3, <1>4 DEF Next, Report

LEMMA NothingForced ==
    ASSUME ForceInv, InReport, ~forceAllowed, NEW s \in State, NEW o \in Object
    PROVE  Judged(s, o) # "FORCE_TOUCH"
<1>1. \A p \in Object : ~isForceTouch(p)
    BY DEF ForceInv, isForceTouch
<1> QED BY <1>1 DEF Judged, Tracked

(* The first loop has dealt with the finger idx.                           *)
LEMMA ForceAdvances ==
    ASSUME TypeOK, ForceInv, pc \in {"switch", "judge"}, NextFinger,
           UNCHANGED <<forceTouchType, clickpadState, forceAllowed>>,
           \A i \in Finger \ {idx} : fingerState'[i] = fingerState[i],
           ~forceAllowed => fingerState'[idx] # "FORCE_TOUCH"
    PROVE  ForceInv'
<1>1. idx \in Nat /\ idx \in Finger /\ FingerCount \in Nat /\ \A i \in Finger : i \in Nat /\ i < FingerCount
    BY FingerAssumption DEF TypeOK, Finger
<1>2. ASSUME ~forceAllowed
      PROVE  \A i \in Finger : i < idx + 1 => fingerState'[i] # "FORCE_TOUCH"
    <2>1. \A i \in Finger : i < idx + 1 => i = idx \/ i < idx
        BY <1>1
    <2> QED BY <1>2, <2>1 DEF ForceInv
<1>3. InReport' /\ AllowsForce(forceTouchType)' => forceAllowed'
    BY DEF ForceInv, InReport, AllowsForce
<1>4. CASE idx + 1 < FingerCount
    BY <1>2, <1>3, <1>4 DEF NextFinger, ForceInv
<1>5. CASE ~(idx + 1 < FingerCount)
    <2>1. pc' = "thumb" /\ \A i \in Finger : i < idx + 1
        BY <1>1, <1>5 DEF NextFinger
    <2> QED BY <1>2, <1>3, <2>1 DEF ForceInv
<1> QED BY <1>4, <1>5

(* No finger that was dealt with becomes a force touch in a step that      *)
(* neither judges one nor changes what the configuration allows.           *)
LEMMA ForceKept ==
    ASSUME ForceInv, UNCHANGED <<forceTouchType, clickpadState, forceAllowed, idx, seen, verdict>>,
           pc' = pc,
           \A i \in Finger : fingerState'[i] \in {fingerState[i], "INVALID"}, idx \in Finger
    PROVE  ForceInv'
BY DEF ForceInv, InReport, AllowsForce

LEMMA ForceStep == TypeOK /\ LoopOver /\ ForceInv /\ [Next]_vars => ForceInv'
<1> SUFFICES ASSUME TypeOK, LoopOver, ForceInv, [Next]_vars PROVE ForceInv'
    OBVIOUS
<1>0. idx \in Finger
    BY DEF TypeOK
<1>1. CASE ClickpadSet
    BY <1>1 DEF ClickpadSet, ForceInv, InReport
<1>2. CASE SetProperties
    BY <1>2 DEF SetProperties, ForceInv, InReport, AllowsForce
<1>3. CASE Stamp \/ Send
    BY <1>3 DEF Stamp, Send, ForceInv, InReport
<1>4. CASE Begin
    <2>1. pc' = "switch" /\ idx' = 0 /\ forceAllowed' = AllowsForce(forceTouchType)
        BY <1>4 DEF Begin, LoopOver
    <2>2. forceTouchType' = forceTouchType /\ clickpadState' = clickpadState
        BY <1>4 DEF Begin, messages
    <2>3. \A i \in Finger : ~(i < 0)
        BY DEF Finger
    <2> QED BY <2>1, <2>2, <2>3 DEF ForceInv, AllowsForce
<1>5. CASE Lift
    BY <1>0, <1>5, ForceAdvances DEF Lift, TypeOK, messages, locals
<1>6. ASSUME NEW o \in Object, Touch(o) PROVE ForceInv'
    <2>1. ~forceAllowed => Judged(fingerState[idx], o) # "FORCE_TOUCH"
        BY <1>6, NothingForced DEF TypeOK, Touch, InReport
    <2>2. AllowsForce(forceTouchType)' <=> AllowsForce(forceTouchType)
        BY <1>6 DEF Touch, messages, AllowsForce
    <2> QED BY <1>6, <2>1, <2>2 DEF Touch, ForceInv, InReport
<1>7. CASE Judge
    <2> DEFINE now == IF verdict # seen THEN verdict ELSE fingerState[idx]
    <2>1. fingerState' = [fingerState EXCEPT ![idx] = now] /\ pc = "judge" /\ NextFinger
        BY <1>7 DEF Judge
    <2>2. ~forceAllowed => now # "FORCE_TOUCH"
        BY <2>1 DEF ForceInv
    <2>3. UNCHANGED <<forceTouchType, clickpadState, forceAllowed>>
        BY <1>7 DEF Judge, messages
    <2> HIDE DEF now
    <2> QED BY <1>0, <2>1, <2>2, <2>3, ForceAdvances DEF TypeOK
<1>8. CASE (\E i \in Finger : SetThumb(i)) \/ KeepThumb
    <2>1. UNCHANGED <<fingerState, messages, locals>> /\ pc = "thumb" /\ pc' = "assign"
        BY <1>8 DEF SetThumb, KeepThumb
    <2>2. UNCHANGED <<forceTouchType, clickpadState, forceAllowed>>
        BY <2>1 DEF messages, locals
    <2> QED BY <2>1, <2>2 DEF ForceInv, InReport, AllowsForce
<1>9. CASE AssignType \/ FreeType
    <2>1. UNCHANGED <<fingerState, messages, locals>> /\ pc = "assign" /\ pc' \in {"assign", "send"}
        BY <1>9 DEF AssignType, FreeType, Assigned
    <2>2. UNCHANGED <<forceTouchType, clickpadState, forceAllowed>>
        BY <2>1 DEF messages, locals
    <2> QED BY <2>1, <2>2 DEF ForceInv, InReport, AllowsForce
<1>10. CASE TrackpointMoved
    BY <1>0, <1>10, ForceKept DEF TrackpointMoved, TypeOK, locals
<1>11. CASE SetTouchStatus \/ KeyPress \/ CheckFinger \/ UNCHANGED vars
    <2>1. UNCHANGED <<fingerState, pc, idx, locals, forceTouchType, clickpadState>>
        BY <1>11 DEF SetTouchStatus, KeyPress, CheckFinger, vars, messages
    <2> QED BY <1>0, <2>1, ForceKept DEF locals
<1>12. CASE InvalidateFinger
    BY <1>0, <1>12, ForceKept DEF InvalidateFinger, TypeOK, locals, messages
<1> QED BY <1>1, <1>2, <1>3, <1>4, <1>5, <1>6, <1>7, <1>8, <1>9, <1>10, <1>11, <1>12 DEF Next, Report

(* No packet presents a force touch that clickpad and configuration did    *)
(* not allow while its report was handled.                                 *)
THEOREM ForceReleased == Spec => []ForceTouchUnderClick
<1>1. Init => ForceInv /\ LoopOver
    BY DEF Init, ForceInv, LoopOver, InReport
<1>2. TypeOK /\ LoopOver /\ ForceInv /\ [Next]_vars => ForceInv' /\ LoopOver'
    BY ForceStep, LoopOverStep
<1>3. ForceInv => ForceTouchUnderClick
    BY DEF ForceInv, ForceTouchUnderClick
<1> QED BY <1>1, <1>2, <1>3, TypeCorrect, PTL DEF Spec

(* A sensor that reports no more fingers than there are types besides the  *)
(* thumb's has all its fingers typed in every packet, and no force touch   *)
(* that was not allowed (PacketSound).                       *)
THEOREM Sound == ASSUME FingerCount <= TypeCount - 2 PROVE Spec => []PacketSound
<1>1. Init => PacketInv
    <2> SUFFICES ASSUME Init PROVE PacketInv
        OBVIOUS
    <2>1. freeFingerTypes[Palm]
        <3>1. Palm # Undefined
            BY FingerAssumption DEF Palm, Undefined
        <3>2. freeFingerTypes[Palm] = (Palm # Undefined)
            BY TypeFacts DEF Init
        <3> QED BY <3>1, <3>2
    <2> QED BY <2>1 DEF Init, PacketInv, PalmHeld
<1>2. TypeOK /\ TypesExclusive /\ PacketInv /\ [Next]_vars => PacketInv'
    BY PacketStep
<1>3. PacketInv /\ ForceTouchUnderClick => PacketSound
    BY FingerAssumption DEF PacketInv, TypedUpTo, PacketSound, PacketTyped, Finger
<1> QED BY <1>1, <1>2, <1>3, TypeCorrect, Exclusive, ForceReleased, PTL DEF Spec
=============================================================================
