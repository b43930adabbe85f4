--------------------------- MODULE GpioButtonsProofs ---------------------------
(***************************************************************************)
(* Proofs about GpioButtons, for any number of pins and any range: how     *)
(* buttons are numbered, that the click of a clickpad follows its pin, and *)
(* that what VoodooInput is told of the other buttons does.                *)
(***************************************************************************)
EXTENDS GpioButtons, FiniteSetTheorems, TLAPS

-----------------------------------------------------------------------------
(* Numbering the members of a set of numbers in their order.               *)
Below(S, i) == {j \in S : j < i}
Rank(S, i) == BtnLeft + Cardinality(Below(S, i))

LEMMA RankBound ==
    ASSUME NEW S \in SUBSET Nat, IsFiniteSet(S), NEW i \in S
    PROVE  /\ IsFiniteSet(Below(S, i)) /\ Cardinality(S) \in Nat
           /\ Rank(S, i) \in BtnLeft .. Cardinality(S)
<1>1. Below(S, i) \in SUBSET S /\ Below(S, i) # S
    BY DEF Below
<1>2. /\ IsFiniteSet(Below(S, i)) /\ Cardinality(Below(S, i)) <= Cardinality(S)
      /\ Cardinality(S) = Cardinality(Below(S, i)) => S = Below(S, i)
    BY <1>1, FS_Subset
<1>3. Cardinality(Below(S, i)) \in Nat /\ Cardinality(S) \in Nat
    BY <1>2, FS_CardinalityType
<1>4. Rank(S, i) \in BtnLeft .. Cardinality(S)
    BY <1>1, <1>2, <1>3 DEF Rank, BtnLeft
<1> QED BY <1>2, <1>3, <1>4

(* No two members have the same number.                                    *)
LEMMA RankLess ==
    ASSUME NEW S \in SUBSET Nat, IsFiniteSet(S), NEW i \in S, NEW j \in S, i < j
    PROVE  Rank(S, i) < Rank(S, j)
<1>0. \A k \in S : k \in Nat
    OBVIOUS
<1>1. /\ \A k \in S : k < i => k < j
      /\ ~(i < i)
    BY <1>0
<1>5. Below(S, i) \subseteq Below(S, j) /\ i \in Below(S, j) /\ i \notin Below(S, i)
    BY <1>1 DEF Below
<1>2. IsFiniteSet(Below(S, i)) /\ IsFiniteSet(Below(S, j))
    BY RankBound
<1>3. Cardinality(Below(S, i)) <= Cardinality(Below(S, j)) /\ Cardinality(Below(S, i)) # Cardinality(Below(S, j))
    BY <1>5, <1>2, FS_Subset
<1>4. Cardinality(Below(S, i)) \in Nat /\ Cardinality(Below(S, j)) \in Nat
    BY <1>2, FS_CardinalityType
<1> QED BY <1>3, <1>4 DEF Rank, BtnLeft

(* And all numbers up to the size of the set are used.                     *)
LEMMA RankDense ==
    ASSUME NEW S \in SUBSET Nat, IsFiniteSet(S)
    PROVE  {Rank(S, i) : i \in S} = BtnLeft .. Cardinality(S)
<1> DEFINE T == BtnLeft .. Cardinality(S)
           f == [i \in S |-> Rank(S, i)]
<1>1. Cardinality(S) \in Nat
    BY FS_CardinalityType
<1>2. IsFiniteSet(T) /\ Cardinality(T) = Cardinality(S)
    <2>1. Cardinality(S) \in Int /\ 1 \in Int
        BY <1>1
    <2>2. /\ IsFiniteSet(1 .. Cardinality(S))
          /\ Cardinality(1 .. Cardinality(S)) = IF 1 > Cardinality(S) THEN 0 ELSE Cardinality(S) - 1 + 1
        BY <2>1, FS_Interval
    <2> QED BY <1>1, <2>2 DEF BtnLeft
<1>3. f \in [S -> T]
    BY RankBound
<1>4. \A i, j \in S : f[i] = f[j] => i = j
    <2> SUFFICES ASSUME NEW i \in S, NEW j \in S, i < j PROVE f[i] # f[j]
        OBVIOUS
    <2>1. Rank(S, i) < Rank(S, j) /\ Rank(S, i) \in Int
        BY RankLess, RankBound, <1>1 DEF BtnLeft
    <2> QED BY <2>1
<1>5. f \in Injection(S, T)
    BY <1>3, <1>4 DEF Injection, IsInjective
<1>6. f \in Surjection(S, T)
    BY <1>2, <1>5, FS_Injection
<1>7. \A t \in T : \E i \in S : f[i] = t
    BY <1>6 DEF Surjection
<1> QED BY <1>3, <1>7

(* A finite set of numbers that is not empty has a greatest one.           *)
LEMMA MaxIn ==
    ASSUME NEW S \in SUBSET Nat, IsFiniteSet(S), S # {}
    PROVE  Max(S) \in S
<1>1. Cardinality(S) \in Nat /\ Cardinality(S) # 0
    BY FS_CardinalityType, FS_EmptySet
<1>2. Cardinality(S) \in BtnLeft .. Cardinality(S)
    BY <1>1 DEF BtnLeft
<1>3. PICK i \in S : Rank(S, i) = Cardinality(S)
    BY <1>2, RankDense
<1>4. \A j \in S : i >= j
    <2> SUFFICES ASSUME NEW j \in S, i < j PROVE FALSE
        OBVIOUS
    <2>1. Rank(S, i) < Rank(S, j) /\ Rank(S, j) \in BtnLeft .. Cardinality(S)
        BY RankLess, RankBound
    <2> QED BY <1>1, <1>3, <2>1 DEF BtnLeft
<1> QED BY <1>4 DEF Max

-----------------------------------------------------------------------------
(* The click of a clickpad.                                                *)

(* ClickFollowsPin is not inductive alone: that a click which has not      *)
(* changed need not be told is right only because the state remembered is  *)
(* the one that the trackpad function has.                                 *)
ClickInv == clickpadState = padClick /\ (attended => life = "up") /\ ClickFollowsPin

(* A report of buttons, whatever the pins were found to be.                *)
LEMMA ClickReported ==
    ASSUME ClickInv, reportButton, life' = "up", UNCHANGED <<numButtons, clickpadIndex>>
    PROVE  ClickInv'
<1>1. CASE numButtons = 1 /\ clickpadState # (clickpadIndex \in data_regs')
    <2>1. padClick' = (clickpadIndex \in data_regs') /\ clickpadState' = (clickpadIndex \in data_regs')
        BY <1>1 DEF reportButton, Click
    <2> QED BY <2>1 DEF ClickInv, ClickFollowsPin
<1>2. CASE numButtons = 1 /\ clickpadState = (clickpadIndex \in data_regs')
    <2>1. padClick' = padClick /\ clickpadState' = clickpadState
        BY <1>2 DEF reportButton, Click
    <2> QED BY <1>2, <2>1 DEF ClickInv, ClickFollowsPin
<1>3. CASE numButtons # 1
    <2>1. padClick' = padClick /\ clickpadState' = clickpadState
        BY <1>3 DEF reportButton, Click
    <2> QED BY <1>3, <2>1 DEF ClickInv, ClickFollowsPin
<1> QED BY <1>1, <1>2, <1>3

LEMMA ClickStep == ClickInv /\ [Next]_vars => ClickInv'
<1> SUFFICES ASSUME ClickInv, [Next]_vars PROVE ClickInv'
    OBVIOUS
<1>1. CASE Attach
    <2>1. ~attended'
        BY <1>1 DEF Attach, ClickInv
    <2> QED BY <1>1, <2>1 DEF Attach, outputs, ClickInv, ClickFollowsPin
<1>2. CASE AttachError
    BY <1>2 DEF AttachError, outputs, ClickInv, ClickFollowsPin
<1>3. CASE Attention
    BY <1>3, ClickReported DEF Attention, keyMap
<1>4. CASE AttentionError
    BY <1>4, ClickReported DEF AttentionError, keyMap
<1>5. CASE Report
    BY <1>5 DEF Report, device, keyMap, ClickInv, ClickFollowsPin, Pins
<1>6. ASSUME NEW i \in Pins, Press(i) PROVE ClickInv'
    BY <1>6 DEF Press, device, keyMap, outputs, ClickInv, ClickFollowsPin, Pins
<1>7. CASE PressPS2
    BY <1>7 DEF PressPS2, device, keyMap, outputs, ClickInv, ClickFollowsPin, Pins
<1>8. CASE UNCHANGED vars
    BY <1>8 DEF vars, device, keyMap, outputs, ClickInv, ClickFollowsPin, Pins
<1> QED BY <1>1, <1>2, <1>3, <1>4, <1>5, <1>6, <1>7, <1>8 DEF Next

(* From the first attention() on, the trackpad function's click is the     *)
(* clickpad's pin in data_regs, after any reads, failed ones included, and *)
(* reports of the trackpoint.                                              *)
THEOREM ClickFollows == Spec => []ClickFollowsPin
<1>1. Init => ClickInv
    BY DEF Init, ClickInv, ClickFollowsPin
<1>2. ClickInv => ClickFollowsPin
    BY DEF ClickInv
<1> QED BY <1>1, <1>2, ClickStep, PTL DEF Spec
-----------------------------------------------------------------------------
(* The numbers of the buttons.                                             *)

LEMMA PinsFinite ==
    ASSUME gpioled_count \in 0 .. MaxPins
    PROVE  /\ Pins \subseteq Nat /\ IsFiniteSet(Pins) /\ Cardinality(Pins) <= MaxPins
           /\ \A S \in SUBSET Pins : /\ IsFiniteSet(S) /\ S \in SUBSET Nat
                                     /\ Cardinality(S) \in 0 .. MaxPins
<1>1. MaxPins \in Nat /\ gpioled_count \in Nat /\ gpioled_count - 1 \in Int /\ 0 \in Int
    BY RangeAssumption
<1>2. /\ IsFiniteSet(0 .. gpioled_count - 1)
      /\ Cardinality(0 .. gpioled_count - 1) = IF 0 > gpioled_count - 1 THEN 0 ELSE gpioled_count - 1 - 0 + 1
    BY <1>1, FS_Interval
<1>3. Pins \subseteq Nat /\ IsFiniteSet(Pins) /\ Cardinality(Pins) <= MaxPins /\ Cardinality(Pins) \in Nat
    BY <1>1, <1>2 DEF Pins
<1>4. ASSUME NEW S \in SUBSET Pins
      PROVE  IsFiniteSet(S) /\ S \in SUBSET Nat /\ Cardinality(S) \in 0 .. MaxPins
    <2>1. IsFiniteSet(S) /\ Cardinality(S) <= Cardinality(Pins)
        BY <1>3, FS_Subset
    <2>2. Cardinality(S) \in Nat
        BY <2>1, FS_CardinalityType
    <2> QED BY <1>1, <1>3, <2>1, <2>2
<1> QED BY <1>3, <1>4

(* A valid pin's key is its place among the pins of its pointer.           *)
Pointer(i) == IF i \in OfTrackpoint THEN OfTrackpoint ELSE Valid \ OfTrackpoint

LEMMA KeyIsRank ==
    ASSUME NEW i \in Valid
    PROVE  KeyMap[i] = Rank(Pointer(i), i) /\ i \in Pointer(i) /\ Pointer(i) \in SUBSET Pins
<1>1. i \in buttonArr /\ Valid \subseteq Pins /\ OfTrackpoint \subseteq Valid
    BY DEF Valid, buttonArr, OfTrackpoint
<1>2. {j \in Valid : j < i /\ (j \in OfTrackpoint <=> i \in OfTrackpoint)} = Below(Pointer(i), i)
    BY <1>1 DEF Below, Pointer
<1> QED BY <1>1, <1>2 DEF KeyMap, Rank, Pointer

LEMMA KeyPositive ==
    ASSUME gpioled_count \in 0 .. MaxPins, NEW i \in Valid
    PROVE  KeyMap[i] \in Nat /\ KeyMap[i] >= BtnLeft
<1>1. Pointer(i) \in SUBSET Nat /\ IsFiniteSet(Pointer(i)) /\ Cardinality(Pointer(i)) \in Nat
    BY KeyIsRank, PinsFinite, RangeAssumption
<1> QED BY <1>1, KeyIsRank, RankBound DEF BtnLeft

(* What attach() found stays, as the device does.                          *)
KeyInv ==
    /\ gpioled_count \in 0 .. MaxPins
    /\ life = "up" =>
          /\ gpioled_key_map = KeyMap
          /\ numButtons = Cardinality(Valid \ OfTrackpoint)
          /\ clickpadIndex = IF Valid \ OfTrackpoint = {} THEN 0 ELSE Max(Valid \ OfTrackpoint)
          /\ hasTrackpointButtons = (OfTrackpoint # {})

LEMMA DeviceStays ==
    ASSUME UNCHANGED device
    PROVE  /\ Pins' = Pins /\ buttonArr' = buttonArr /\ Valid' = Valid /\ OfTrackpoint' = OfTrackpoint
           /\ KeyMap' = KeyMap
<1> QED BY DEF device, Pins, buttonArr, is_valid_button, Valid, OfTrackpoint, KeyMap

LEMMA KeyStep == KeyInv /\ [Next]_vars => KeyInv'
<1> SUFFICES ASSUME KeyInv, [Next]_vars PROVE KeyInv'
    OBVIOUS
<1>1. UNCHANGED device
    BY DEF Next, Attach, AttachError, Attention, AttentionError, Report, Press, PressPS2, vars
<1>2. gpioled_count' \in 0 .. MaxPins
    BY <1>1 DEF KeyInv, device
<1>3. CASE Attach
    BY <1>1, <1>2, <1>3, DeviceStays DEF Attach, KeyInv
<1>4. CASE ~Attach
    <2>1. UNCHANGED keyMap /\ (life' = "up" => life = "up")
        <3>1. CASE AttachError
            BY <3>1 DEF AttachError
        <3>2. CASE Attention \/ AttentionError \/ Report
            BY <3>2 DEF Attention, AttentionError, Report
        <3>3. CASE (\E i \in Pins : Press(i)) \/ PressPS2 \/ UNCHANGED vars
            BY <3>3 DEF Press, PressPS2, vars
        <3> QED BY <1>4, <3>1, <3>2, <3>3 DEF Next
    <2> QED BY <1>1, <1>2, <2>1, DeviceStays DEF KeyInv, keyMap
<1> QED BY <1>3, <1>4

LEMMA KeyInit == Init => KeyInv
    BY DEF Init, KeyInv

LEMMA DenseFrom == KeyInv => ButtonsDense
<1> SUFFICES ASSUME KeyInv, life = "up", NEW S \in {OfTrackpoint, Valid \ OfTrackpoint}
             PROVE  {gpioled_key_map[i] : i \in S} = BtnLeft .. BtnLeft + Cardinality(S) - 1
    BY DEF ButtonsDense
<1>1. S \subseteq Valid /\ S \in SUBSET Pins
    BY DEF Valid, buttonArr, OfTrackpoint
<1>2. IsFiniteSet(S) /\ S \in SUBSET Nat /\ Cardinality(S) \in Nat
    BY <1>1, PinsFinite, RangeAssumption DEF KeyInv
<1>3. \A i \in S : gpioled_key_map[i] = Rank(S, i)
    BY <1>1, KeyIsRank DEF KeyInv, Pointer
<1>4. {gpioled_key_map[i] : i \in S} = BtnLeft .. Cardinality(S)
    BY <1>2, <1>3, RankDense
<1>5. BtnLeft + Cardinality(S) - 1 = Cardinality(S)
    BY <1>2 DEF BtnLeft
<1> QED BY <1>4, <1>5

(* The buttons of each pointer share out the bits from the first on.       *)
THEOREM Dense == Spec => []ButtonsDense
<1> QED BY KeyInit, KeyStep, DenseFrom, PTL DEF Spec

-----------------------------------------------------------------------------
(* What VoodooInput was told.                                              *)

(* The buttons of some pins as last read.                                  *)
Shown(S) ==
    {Bit(i) : i \in {j \in S \cap data_regs \cap DOMAIN gpioled_key_map :
                        gpioled_key_map[j] # Reserved /\ ~IsClickpad(j)}}

RangePins == {i \in buttonArr : InRange(i)}
OtherPins == {i \in buttonArr : ~InRange(i)}

ShownInv ==
    /\ ps2 \subseteq {0}
    /\ overwrite_buttons \subseteq point /\ point \subseteq overwrite_buttons \cup {0}
    /\ overwrite_buttons # {} => life = "up" /\ hasTrackpointButtons
    /\ attended => life = "up"
    /\ attended =>
          /\ hasTrackpointButtons => overwrite_buttons = Shown(RangePins)
          /\ numButtons > 1 => relative = Shown(OtherPins)

LEMMA ButtonsShown ==
    ASSUME ShownInv, life = "up", life' = "up", reportButton, UNCHANGED <<device, keyMap, ps2>>
    PROVE  ShownInv'
<1>1. \A S : Buttons(S) = Shown(S)'
    BY DEF Buttons, Shown, Bit, IsClickpad, keyMap
<1>2. RangePins' = RangePins /\ OtherPins' = OtherPins
    BY DeviceStays DEF RangePins, OtherPins
<1>3. numButtons > 1 => relative' = Shown(OtherPins)'
    BY <1>1, <1>2 DEF reportButton, OtherPins, keyMap
<1>4. /\ hasTrackpointButtons => overwrite_buttons' = Shown(RangePins)' /\ point' = overwrite_buttons'
      /\ ~hasTrackpointButtons => overwrite_buttons' = overwrite_buttons /\ point' = point
    <2>1. hasTrackpointButtons => overwrite_buttons' = Shown(RangePins)' /\ point' = {} \cup overwrite_buttons'
        BY <1>1, <1>2 DEF reportButton, handleReport, RangePins
    <2>2. ~hasTrackpointButtons => overwrite_buttons' = overwrite_buttons /\ point' = point
        BY DEF reportButton
    <2> QED BY <2>1, <2>2
<1>5. hasTrackpointButtons' = hasTrackpointButtons /\ numButtons' = numButtons /\ ps2' = ps2
    BY DEF keyMap
<1> QED BY <1>3, <1>4, <1>5 DEF ShownInv

LEMMA ShownStep == ShownInv /\ [Next]_vars => ShownInv'
<1> SUFFICES ASSUME ShownInv, [Next]_vars PROVE ShownInv'
    OBVIOUS
<1>1. CASE Attach
    <2>1. /\ ~attended' /\ overwrite_buttons = {} /\ overwrite_buttons' = {}
          /\ point' = point /\ ps2' = ps2
        BY <1>1 DEF Attach, ShownInv, Pins, device, outputs
    <2> QED BY <2>1 DEF ShownInv
<1>2. CASE AttachError
    <2>1. /\ life' = "failed" /\ ~attended' /\ overwrite_buttons = {} /\ overwrite_buttons' = {}
          /\ point' = point /\ ps2' = ps2
        BY <1>2 DEF AttachError, ShownInv, outputs
    <2> QED BY <2>1 DEF ShownInv
<1>3. CASE Attention \/ AttentionError
    BY <1>3, ButtonsShown DEF Attention, AttentionError
<1>4. CASE Report
    <2>1. /\ point' = ps2 \cup overwrite_buttons' /\ UNCHANGED <<life, data_regs, attended>>
          /\ UNCHANGED <<ps2, overwrite_buttons, relative>>
          /\ UNCHANGED <<gpioled_key_map, numButtons, clickpadIndex, hasTrackpointButtons>>
          /\ UNCHANGED device
        BY <1>4 DEF Report, handleReport, keyMap
    <2>2. \A S : Shown(S)' = Shown(S)
        BY <2>1 DEF Shown, Bit, IsClickpad
    <2> QED BY <2>1, <2>2, DeviceStays DEF ShownInv, RangePins, OtherPins
<1>5. CASE (\E i \in Pins : Press(i)) \/ PressPS2 \/ UNCHANGED vars
    <2>1. /\ UNCHANGED <<life, data_regs, attended, overwrite_buttons, relative, point>>
          /\ UNCHANGED <<gpioled_key_map, numButtons, clickpadIndex, hasTrackpointButtons>>
          /\ UNCHANGED device
        BY <1>5 DEF Press, PressPS2, vars, outputs, keyMap
    <2>2. ps2' \subseteq {0}
        BY <1>5 DEF Press, PressPS2, vars, ShownInv
    <2>3. \A S : Shown(S)' = Shown(S)
        BY <2>1 DEF Shown, Bit, IsClickpad
    <2> QED BY <2>1, <2>2, <2>3, DeviceStays DEF ShownInv, RangePins, OtherPins
<1> QED BY <1>1, <1>2, <1>3, <1>4, <1>5 DEF Next

(* With a single button that is not the trackpoint's, the clickpad's pin   *)
(* is not one of the trackpoint's.                                         *)
LEMMA ClickpadApart ==
    ASSUME KeyInv, life = "up", NEW i \in OfTrackpoint
    PROVE  ~IsClickpad(i)
<1> SUFFICES ASSUME numButtons = 1, i = clickpadIndex PROVE FALSE
    BY DEF IsClickpad
<1> DEFINE S == Valid \ OfTrackpoint
<1>1. S \in SUBSET Pins /\ Cardinality(S) = 1
    BY DEF KeyInv, Valid, buttonArr
<1>2. IsFiniteSet(S) /\ S \in SUBSET Nat
    BY <1>1, PinsFinite DEF KeyInv
<1>3. S # {}
    BY <1>1, <1>2, FS_EmptySet
<1>4. Max(S) \in S
    BY <1>2, <1>3, MaxIn
<1> QED BY <1>3, <1>4 DEF KeyInv

(* A valid pin is shown when it is low, unless it is the clickpad's.       *)
LEMMA ValidShown ==
    ASSUME KeyInv, life = "up", NEW S, NEW i \in S \cap Valid, ~IsClickpad(i), i \in data_regs
    PROVE  Bit(i) \in Shown(S)
<1>1. i \in DOMAIN gpioled_key_map /\ gpioled_key_map[i] # Reserved
    <2>1. gpioled_key_map = KeyMap /\ KeyMap[i] \in Nat /\ KeyMap[i] >= BtnLeft
        BY KeyPositive DEF KeyInv
    <2>2. i \in DOMAIN KeyMap
        BY DEF KeyMap, Valid
    <2> QED BY <2>1, <2>2 DEF Reserved, BtnLeft
<1> QED BY <1>1 DEF Shown

(* What is shown is the button of a valid pin that is low.                 *)
LEMMA ShownValid ==
    ASSUME KeyInv, life = "up", NEW S, NEW b \in Shown(S)
    PROVE  \E i \in S \cap Valid : i \in data_regs /\ Bit(i) = b
<1>1. PICK i \in S \cap data_regs \cap DOMAIN gpioled_key_map : gpioled_key_map[i] # Reserved /\ Bit(i) = b
    BY DEF Shown
<1>2. i \in Valid
    BY <1>1 DEF KeyInv, KeyMap
<1> QED BY <1>1, <1>2

(* Two pins of the same pointer do not share a bit.                        *)
LEMMA BitsApart ==
    ASSUME KeyInv, life = "up", NEW i \in Valid, NEW j \in Valid,
           i \in OfTrackpoint <=> j \in OfTrackpoint, Bit(i) = Bit(j)
    PROVE  i = j
<1> DEFINE S == Pointer(i)
<1>1. S = Pointer(j) /\ i \in S /\ j \in S /\ S \in SUBSET Pins
    BY KeyIsRank DEF Pointer
<1>2. IsFiniteSet(S) /\ S \in SUBSET Nat /\ i \in Nat /\ j \in Nat
    BY <1>1, PinsFinite DEF KeyInv
<1>3. gpioled_key_map[i] = Rank(S, i) /\ gpioled_key_map[j] = Rank(S, j)
    BY <1>1, KeyIsRank DEF KeyInv
<1> HIDE DEF S
<1>4. Rank(S, i) \in Int /\ Rank(S, j) \in Int
    BY <1>1, <1>2, RankBound DEF BtnLeft
<1>5. Rank(S, i) = Rank(S, j)
    BY <1>3, <1>4 DEF Bit
<1>6. ~(i < j) /\ ~(j < i)
    BY <1>1, <1>2, <1>4, <1>5, RankLess
<1> QED BY <1>2, <1>6

LEMMA ReportsFrom == KeyInv /\ ShownInv => ReportsFollowPins
<1> SUFFICES ASSUME KeyInv, ShownInv, life = "up", attended
             PROVE  /\ numButtons > 1 =>
                          \A i \in Valid \ OfTrackpoint :
                              Bit(i) \in relative <=> i \in data_regs /\ ~InRange(i)
                    /\ \A i \in OfTrackpoint : i \in data_regs => Bit(i) \in point
                    /\ \A b \in point \ {0} : \E i \in OfTrackpoint : i \in data_regs /\ Bit(i) = b
    BY DEF ReportsFollowPins
<1>1. ASSUME numButtons > 1, NEW i \in Valid \ OfTrackpoint
      PROVE  Bit(i) \in relative <=> i \in data_regs /\ ~InRange(i)
    <2>1. relative = Shown(OtherPins)
        BY <1>1 DEF ShownInv
    <2>2. ASSUME i \in data_regs, ~InRange(i) PROVE Bit(i) \in relative
        <3>1. i \in OtherPins \cap Valid /\ ~IsClickpad(i)
            BY <1>1, <2>2 DEF OtherPins, Valid, IsClickpad
        <3> QED BY <2>1, <2>2, <3>1, ValidShown
    <2>3. ASSUME Bit(i) \in relative PROVE i \in data_regs /\ ~InRange(i)
        <3>1. PICK j \in OtherPins \cap Valid : j \in data_regs /\ Bit(j) = Bit(i)
            BY <2>1, <2>3, ShownValid
        <3>2. j \notin OfTrackpoint /\ ~InRange(j)
            BY <3>1 DEF OfTrackpoint, OtherPins
        <3>3. i = j
            BY <3>1, <3>2, BitsApart
        <3> QED BY <3>1, <3>2, <3>3
    <2> QED BY <2>2, <2>3
<1>2. ASSUME NEW i \in OfTrackpoint, i \in data_regs
      PROVE  Bit(i) \in point
    <2>1. hasTrackpointButtons /\ i \in RangePins \cap Valid
        BY DEF KeyInv, RangePins, OfTrackpoint, Valid
    <2>2. Bit(i) \in Shown(RangePins)
        BY <1>2, <2>1, ClickpadApart, ValidShown
    <2> QED BY <2>1, <2>2 DEF ShownInv
<1>3. ASSUME NEW b \in point \ {0}
      PROVE  \E i \in OfTrackpoint : i \in data_regs /\ Bit(i) = b
    <2>1. b \in Shown(RangePins) /\ hasTrackpointButtons
        BY DEF ShownInv
    <2>2. PICK i \in RangePins \cap Valid : i \in data_regs /\ Bit(i) = b
        BY <2>1, ShownValid
    <2>3. trackpointButtons
        BY <2>1 DEF KeyInv, OfTrackpoint
    <2>4. i \in OfTrackpoint
        BY <2>2, <2>3 DEF OfTrackpoint, RangePins
    <2> QED BY <2>2, <2>4
<1> QED BY <1>1, <1>2, <1>3

(* Of a pointer's buttons VoodooInput was told that they are down when     *)
(* data_regs has their pins low, whatever the trackpoint reports in between *)
(* and whatever reads failed; of the trackpad's buttons that lie in the    *)
(* trackpoint's range it is told nothing.                                  *)
THEOREM ReportsFollow == Spec => []ReportsFollowPins
<1>1. Init => ShownInv
    BY DEF Init, ShownInv
<1> QED BY <1>1, KeyInit, KeyStep, ShownStep, ReportsFrom, PTL DEF Spec
-----------------------------------------------------------------------------
(* Type correctness.                                                       *)
LEMMA KeyMapType ==
    ASSUME gpioled_count \in 0 .. MaxPins
    PROVE  /\ DOMAIN KeyMap \subseteq Pins \cap 0 .. RangeEnd - 1
           /\ KeyMap \in [DOMAIN KeyMap -> Reserved .. RangeEnd]
<1>1. DOMAIN KeyMap = buttonArr /\ buttonArr \subseteq Pins \cap 0 .. RangeEnd - 1
    BY RangeAssumption DEF KeyMap, buttonArr, Pins
<1>2. ASSUME NEW i \in buttonArr
      PROVE  KeyMap[i] \in Reserved .. RangeEnd
    <2>1. CASE i \notin Valid
        BY <2>1, RangeAssumption DEF KeyMap, Reserved
    <2>2. CASE i \in Valid
        <3> DEFINE S == Pointer(i)
        <3>1. i \in S /\ S \in SUBSET Pins /\ KeyMap[i] = Rank(S, i)
            BY <2>2, KeyIsRank
        <3>2. S \in SUBSET Nat /\ IsFiniteSet(S) /\ i \in 0 .. RangeEnd - 1 /\ i \in Nat
            BY <1>1, <3>1, PinsFinite, RangeAssumption
        <3> HIDE DEF S
        <3>3. Below(S, i) \in SUBSET (0 .. i - 1)
            <4>1. \A j \in S : j \in Nat
                BY <3>2
            <4>2. \A j \in S : j < i => j \in 0 .. i - 1
                BY <3>2, <4>1
            <4> QED BY <4>2 DEF Below
        <3>4. IsFiniteSet(0 .. i - 1) /\ Cardinality(0 .. i - 1) <= i
            <4>1. 0 \in Int /\ i - 1 \in Int
                BY <3>2
            <4>2. /\ IsFiniteSet(0 .. i - 1)
                  /\ Cardinality(0 .. i - 1) = IF 0 > i - 1 THEN 0 ELSE i - 1 - 0 + 1
                BY <4>1, FS_Interval
            <4> QED BY <3>2, <4>2
        <3>5. /\ IsFiniteSet(Below(S, i)) /\ Cardinality(Below(S, i)) <= Cardinality(0 .. i - 1)
            BY <3>3, <3>4, FS_Subset
        <3>6. Cardinality(Below(S, i)) \in Nat /\ Cardinality(0 .. i - 1) \in Nat
            BY <3>4, <3>5, FS_CardinalityType
        <3> QED BY <3>1, <3>2, <3>4, <3>5, <3>6, RangeAssumption DEF Rank, BtnLeft, Reserved
    <2> QED BY <2>1, <2>2
<1>3. KeyMap = [i \in DOMAIN KeyMap |-> KeyMap[i]]
    BY DEF KeyMap
<1> QED BY <1>1, <1>2, <1>3

LEMMA ButtonsType ==
    ASSUME TypeOK, UNCHANGED gpioled_key_map, NEW S
    PROVE  Buttons(S) \in SUBSET Nat
<1>1. \A j \in DOMAIN gpioled_key_map : gpioled_key_map[j] # Reserved => Bit(j) \in Nat
    BY RangeAssumption DEF TypeOK, Reserved, Bit
<1> QED BY <1>1 DEF Buttons

LEMMA TypeStep == TypeOK /\ KeyInv' /\ [Next]_vars => TypeOK'
<1> SUFFICES ASSUME TypeOK, KeyInv', [Next]_vars PROVE TypeOK'
    OBVIOUS
<1>1. UNCHANGED device
    BY DEF Next, Attach, AttachError, Attention, AttentionError, Report, Press, PressPS2, vars
<1>2. /\ gpioled_count' \in 0 .. MaxPins /\ has_gpio' \in BOOLEAN /\ trackpointButtons' \in BOOLEAN
      /\ present' \in SUBSET Pins' /\ inputs' \in SUBSET Pins' /\ Pins' = Pins
    BY <1>1, DeviceStays DEF TypeOK, device
<1>a. attended' \in BOOLEAN
    <2>1. attended' = attended \/ attended' = TRUE
        BY DEF Next, Attach, AttachError, Attention, AttentionError, Report, Press, PressPS2, vars
    <2> QED BY <2>1 DEF TypeOK
<1>3. CASE Attach
    <2>1. gpioled_key_map' = KeyMap /\ data_regs' = Pins /\ down' = down /\ life' = "up"
        BY <1>3 DEF Attach
    <2>2. Valid \ OfTrackpoint \in SUBSET Pins /\ gpioled_count \in 0 .. MaxPins
        BY DEF TypeOK, Valid, buttonArr
    <2>3. /\ IsFiniteSet(Valid \ OfTrackpoint) /\ Valid \ OfTrackpoint \in SUBSET Nat
          /\ numButtons' \in 0 .. MaxPins
        BY <1>3, <2>2, PinsFinite DEF Attach
    <2>4. clickpadIndex' \in 0 .. MaxPins
        <3>1. CASE Valid \ OfTrackpoint = {}
            BY <1>3, <3>1, RangeAssumption DEF Attach
        <3>2. CASE Valid \ OfTrackpoint # {}
            <4>1. clickpadIndex' = Max(Valid \ OfTrackpoint)
                BY <1>3, <3>2 DEF Attach
            <4>2. Max(Valid \ OfTrackpoint) \in Pins
                BY <2>2, <2>3, <3>2, MaxIn
            <4> QED BY <2>2, <4>1, <4>2, RangeAssumption DEF Pins
        <3> QED BY <3>1, <3>2
    <2>5. hasTrackpointButtons' \in BOOLEAN
        BY <1>3 DEF Attach
    <2>6. UNCHANGED <<clickpadState, padClick, overwrite_buttons, ps2, relative, point>>
        BY <1>3 DEF Attach, outputs
    <2> QED BY <1>2, <1>a, <2>1, <2>2, <2>3, <2>4, <2>5, <2>6, KeyMapType DEF TypeOK
<1>4. CASE Attention \/ AttentionError
    <2>1. UNCHANGED <<life, down, ps2, gpioled_key_map, numButtons, clickpadIndex, hasTrackpointButtons>>
        BY <1>4 DEF Attention, AttentionError, keyMap
    <2>2. data_regs' \in SUBSET Pins
        BY <1>4 DEF Attention, AttentionError, TypeOK
    <2>3. reportButton
        BY <1>4 DEF Attention, AttentionError
    <2>4. {clickpadState', padClick'} \subseteq BOOLEAN
        <3> DEFINE key_down == clickpadIndex \in data_regs'
        <3>1. key_down \in BOOLEAN
            OBVIOUS
        <3>2. \/ clickpadState' = key_down /\ padClick' = key_down
              \/ UNCHANGED <<clickpadState, padClick>>
            BY <2>3 DEF reportButton, Click
        <3> HIDE DEF key_down
        <3> QED BY <3>1, <3>2 DEF TypeOK
    <2>5. relative' \in SUBSET Nat
        BY <2>1, <2>3, ButtonsType DEF reportButton, TypeOK
    <2>6. {overwrite_buttons', point'} \subseteq SUBSET Nat
        BY <2>1, <2>3, ButtonsType DEF reportButton, handleReport, TypeOK
    <2> QED BY <1>2, <1>a, <2>1, <2>2, <2>4, <2>5, <2>6 DEF TypeOK
<1>5. CASE AttachError \/ Report \/ (\E i \in Pins : Press(i)) \/ PressPS2 \/ UNCHANGED vars
    <2>1. /\ UNCHANGED <<data_regs, gpioled_key_map, numButtons, clickpadIndex, hasTrackpointButtons>>
          /\ UNCHANGED <<clickpadState, padClick, overwrite_buttons, relative>>
        BY <1>5 DEF AttachError, Report, Press, PressPS2, vars, keyMap, outputs
    <2>2. life' \in {life, "failed"} /\ down' \in SUBSET Pins
        BY <1>5 DEF AttachError, Report, Press, PressPS2, vars, TypeOK
    <2>3. ps2' \in SUBSET Nat
        BY <1>5 DEF AttachError, Report, Press, PressPS2, vars, TypeOK
    <2>4. point' \in SUBSET Nat
        BY <1>5 DEF AttachError, Report, handleReport, Press, PressPS2, vars, outputs, TypeOK
    <2> QED BY <1>2, <1>a, <2>1, <2>2, <2>3, <2>4 DEF TypeOK
<1> QED BY <1>3, <1>4, <1>5 DEF Next

(* Every variable of the buttons keeps its type.                           *)
THEOREM TypeCorrect == Spec => []TypeOK
<1>1. Init => TypeOK
    <2> SUFFICES ASSUME Init PROVE TypeOK
        OBVIOUS
    <2>1. has_gpio \in BOOLEAN /\ trackpointButtons \in BOOLEAN
        BY DEF Init
    <2>2. {hasTrackpointButtons, clickpadState, padClick} \subseteq BOOLEAN
        BY DEF Init
    <2>3. DOMAIN gpioled_key_map = {} /\ gpioled_key_map \in [{} -> Reserved .. RangeEnd]
        BY DEF Init
    <2>4. numButtons \in 0 .. MaxPins /\ clickpadIndex \in 0 .. MaxPins
        BY RangeAssumption DEF Init
    <2> QED BY <2>1, <2>2, <2>3, <2>4 DEF Init, TypeOK
<1> QED BY <1>1, KeyInit, KeyStep, TypeStep, PTL DEF Spec
=============================================================================
