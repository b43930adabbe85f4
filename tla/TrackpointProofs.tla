--------------------------- MODULE TrackpointProofs ---------------------------
(***************************************************************************)
(* Proof that Trackpoint implements GpioButtons: the buttons behave alike  *)
(* whether the trackpoint is F03 or F17, with any sticks.  What is proved  *)
(* of GpioButtons therefore holds of the two together.  And that F17 takes *)
(* no stick's queries or data for another's, whatever data sticks have.    *)
(***************************************************************************)
EXTENDS Trackpoint, GpioButtonsProofs

(* A trackstick has no buttons of its own: nobody presses any.             *)
NoOwnButtons == function = 17 => ps2 = {}

(* The reports of a trackstick are those of a trackpoint that moves with   *)
(* none of its own buttons pressed.                                        *)
LEMMA SticksReport ==
    ASSUME NoOwnButtons, function = 17, life = "up", StickAttention
    PROVE  Report \/ UNCHANGED vars
<1>1. /\ UNCHANGED <<life, device, down, data_regs, attended, keyMap, ps2, clickpadState, padClick>>
      /\ UNCHANGED relative
      /\ UNCHANGED overwrite_buttons
    BY DEF StickAttention
<1>2. handleReport({}) \/ UNCHANGED point
    BY DEF StickAttention, ReportMoves
<1>3. CASE handleReport({})
    BY <1>1, <1>3 DEF Report, NoOwnButtons
<1>4. CASE UNCHANGED point
    BY <1>1, <1>4 DEF vars, outputs
<1> QED BY <1>2, <1>3, <1>4

LEMMA StepMaps == NoOwnButtons /\ [TrackpointNext]_trackpointVars => [Next]_vars /\ NoOwnButtons'
<1> SUFFICES ASSUME NoOwnButtons, [TrackpointNext]_trackpointVars PROVE [Next]_vars /\ NoOwnButtons'
    OBVIOUS
<1>1. CASE F03Step
    BY <1>1 DEF F03Step, stickVars, NoOwnButtons
<1>2. CASE PinStep
    <2>1. Next
        BY <1>2 DEF PinStep, Next
    <2>2. UNCHANGED <<ps2, function>>
        BY <1>2 DEF PinStep, stickVars, Attach, AttachError, Attention, AttentionError, Press
    <2> QED BY <2>1, <2>2 DEF NoOwnButtons
<1>3. CASE F17Step
    <2>1. UNCHANGED vars \/ Report
        BY <1>3, SticksReport DEF F17Step
    <2>2. UNCHANGED <<ps2, function>>
        BY <1>3, <2>1 DEF F17Step, vars, Report
    <2> QED BY <2>1, <2>2 DEF NoOwnButtons, Next
<1>4. CASE UNCHANGED trackpointVars
    BY <1>4 DEF trackpointVars, vars, stickVars, NoOwnButtons
<1> QED BY <1>1, <1>2, <1>3, <1>4 DEF TrackpointNext

(* Every behaviour of the trackpoint with the buttons is one of the        *)
(* buttons with some trackpoint.                                           *)
THEOREM Implements == TrackpointSpec => ImplementsButtons
<1>1. TrackpointInit => Init /\ NoOwnButtons
    BY DEF TrackpointInit, Init, NoOwnButtons
<1> QED BY <1>1, StepMaps, PTL DEF TrackpointSpec, ImplementsButtons, Spec

(* So the buttons are numbered without a gap, the click follows its pin    *)
(* and reports show what was read, with either trackpoint.                 *)
THEOREM ButtonsFollow ==
    TrackpointSpec => [](TypeOK /\ ButtonsDense /\ ClickFollowsPin /\ ReportsFollowPins)
<1> QED BY Implements, TypeCorrect, Dense, ClickFollows, ReportsFollow, PTL DEF ImplementsButtons

-----------------------------------------------------------------------------
(* What F17 knows of its sticks.  It stands before the queries and the     *)
(* data of the first stick that it has not looked at.                      *)
StickData == [general : SUBSET Kind, address : UNION {[K -> Nat] : K \in SUBSET Kind}]

SticksType ==
    /\ function \in {3, 17} /\ stick \in Stick
    /\ life17 \in {"query", "sticks", "up", "failed"}
    /\ number_of_sticks \in 0 .. 7
    /\ sticks \in Seq(StickData)

SticksSeen ==
    /\ Len(sticks) <= Len(stick)
    /\ \A i \in 1 .. Len(sticks) :
          /\ sticks[i].general = stick[i]
          /\ sticks[i].address = [k \in stick[i] |-> DataAddr(i, k)]

SticksCursor ==
    /\ next_query_reg \in Nat
    /\ next_data_reg = StickAddr(Len(sticks) + 1)
    /\ life17 = "query" => sticks = <<>>
    /\ life17 \in {"sticks", "up"} => number_of_sticks = Len(stick) - 1
    /\ life17 = "sticks" => Len(sticks) < Len(stick) /\ next_query_reg = QueryAddr(Len(sticks) + 1)
    /\ life17 = "up" => Len(sticks) = Len(stick)

SticksInv == SticksType /\ SticksSeen /\ SticksCursor

(* How many sticks before one have some kind of data: one more, or as      *)
(* many, as before the stick that precedes it.                             *)
LEMMA HavingCount ==
    ASSUME NEW k, NEW i \in Nat \ {0}
    PROVE  /\ IsFiniteSet(Having(k, i)) /\ Cardinality(Having(k, i)) \in Nat
           /\ Cardinality(Having(k, i + 1)) = Cardinality(Having(k, i)) + (IF k \in stick[i] THEN 1 ELSE 0)
<1>1. IsFiniteSet(1 .. i - 1)
    BY FS_Interval
<1>2. Having(k, i) \subseteq 1 .. i - 1
    BY DEF Having
<1>3. IsFiniteSet(Having(k, i)) /\ Cardinality(Having(k, i)) \in Nat
    BY <1>1, <1>2, FS_Subset, FS_CardinalityType
<1>4. Having(k, i + 1) = IF k \in stick[i] THEN Having(k, i) \cup {i} ELSE Having(k, i)
    <2>1. (1 .. (i + 1) - 1) = (1 .. i - 1) \cup {i}
        OBVIOUS
    <2> QED BY <2>1 DEF Having
<1>5. i \notin Having(k, i)
    BY DEF Having
<1>6. Cardinality(Having(k, i) \cup {i}) = Cardinality(Having(k, i)) + 1
    BY <1>3, <1>5, FS_AddElement
<1> QED BY <1>3, <1>4, <1>6

LEMMA HavingNone == ASSUME NEW k PROVE Cardinality(Having(k, 1)) = 0
<1>1. Having(k, 1) = {}
    BY DEF Having
<1> QED BY <1>1, FS_EmptySet

(* The bytes of some data, before one of them and all together.            *)
LEMMA DataSizes ==
    ASSUME NEW kinds \in SUBSET Kind
    PROVE  /\ DataSize(kinds) \in 0 .. 7
           /\ \A k \in kinds : /\ DataSize(kinds \cap Before(k)) \in Nat
                               /\ DataSize(kinds \cap Before(k)) < DataSize(kinds)
<1>1. DataSize(kinds) \in 0 .. 7
    BY DEF DataSize, Size
<1>2. ASSUME NEW k \in kinds
      PROVE  DataSize(kinds \cap Before(k)) \in Nat /\ DataSize(kinds \cap Before(k)) < DataSize(kinds)
    <2>1. CASE k = "abs"
        BY <2>1 DEF DataSize, Size, Before
    <2>2. CASE k = "rel"
        BY <2>2 DEF DataSize, Size, Before
    <2>3. CASE k = "gestures"
        BY <2>3 DEF DataSize, Size, Before
    <2> QED BY <2>1, <2>2, <2>3 DEF Kind
<1> QED BY <1>1, <1>2

(* The queries and the data of sticks follow one another.                  *)
LEMMA StickAfter ==
    ASSUME NEW i \in Nat \ {0}
    PROVE  /\ QueryAddr(i) \in Nat \ {0} /\ QueryAddr(i + 1) = QueryAddr(i) + Advance(stick[i])
           /\ StickAddr(i) \in Nat /\ StickAddr(i + 1) = StickAddr(i) + DataSize(stick[i])
<1> DEFINE c(k) == Cardinality(Having(k, i))
<1>1. \A k \in Kind : /\ c(k) \in Nat
                      /\ Cardinality(Having(k, i + 1)) = c(k) + (IF k \in stick[i] THEN 1 ELSE 0)
    BY HavingCount
<1> HIDE DEF c
<1>2. /\ QueryAddr(i) = 1 + 2 * (i - 1) + c("gestures")
      /\ QueryAddr(i + 1) = 1 + 2 * i + c("gestures") + (IF "gestures" \in stick[i] THEN 1 ELSE 0)
    BY <1>1 DEF QueryAddr, c, Kind
<1>3. /\ StickAddr(i) = 4 * c("abs") + 2 * c("rel") + c("gestures")
      /\ StickAddr(i + 1) = 4 * (c("abs") + (IF "abs" \in stick[i] THEN 1 ELSE 0))
                              + 2 * (c("rel") + (IF "rel" \in stick[i] THEN 1 ELSE 0))
                              + (c("gestures") + (IF "gestures" \in stick[i] THEN 1 ELSE 0))
    BY <1>1 DEF StickAddr, c, Kind, Size
<1>4. c("abs") \in Nat /\ c("rel") \in Nat /\ c("gestures") \in Nat
    BY <1>1 DEF Kind
<1>5. DataSize(stick[i]) = 4 * (IF "abs" \in stick[i] THEN 1 ELSE 0)
                             + 2 * (IF "rel" \in stick[i] THEN 1 ELSE 0)
                             + (IF "gestures" \in stick[i] THEN 1 ELSE 0)
    BY DEF DataSize, Size
<1> QED BY <1>2, <1>3, <1>4, <1>5 DEF Advance

LEMMA FirstStick == QueryAddr(1) = 1 /\ StickAddr(1) = 0
<1>1. \A k \in Kind : Cardinality(Having(k, 1)) = 0
    BY HavingNone
<1> QED BY <1>1 DEF QueryAddr, StickAddr, Kind, Size

LEMMA AddressesGrow ==
    ASSUME NEW i \in Nat \ {0}, NEW j \in Nat \ {0}, i <= j
    PROVE  StickAddr(i) <= StickAddr(j) /\ (i < j => QueryAddr(i) < QueryAddr(j))
<1>1. ASSUME NEW k \in Kind
      PROVE  /\ Cardinality(Having(k, i)) \in Nat /\ Cardinality(Having(k, j)) \in Nat
             /\ Cardinality(Having(k, i)) <= Cardinality(Having(k, j))
    <2>1. Having(k, i) \subseteq Having(k, j)
        BY DEF Having
    <2> QED BY <2>1, HavingCount, FS_Subset
<1> QED BY <1>1 DEF StickAddr, QueryAddr, Kind, Size

(* What is read at the address of a stick's general query is of that one.  *)
LEMMA GeneralQueryExact ==
    ASSUME stick \in Seq(SUBSET Kind), NEW i \in 1 .. Len(stick)
    PROVE  GeneralQuery(QueryAddr(i)) = stick[i]
<1>1. \A j \in DOMAIN stick : QueryAddr(j) = QueryAddr(i) => j = i
    <2> SUFFICES ASSUME NEW j \in DOMAIN stick, j # i PROVE QueryAddr(j) # QueryAddr(i)
        OBVIOUS
    <2>1. i \in Nat \ {0} /\ j \in Nat \ {0}
        OBVIOUS
    <2>2. QueryAddr(i) \in Nat /\ QueryAddr(j) \in Nat
        BY <2>1, StickAfter
    <2>3. i < j \/ j < i
        BY <2>1
    <2> QED BY <2>1, <2>2, <2>3, AddressesGrow
<1>2. {j \in DOMAIN stick : QueryAddr(j) = QueryAddr(i)} = {i}
    BY <1>1
<1> QED BY <1>2 DEF GeneralQuery

LEMMA SticksInitially == TrackpointInit => SticksInv
<1> SUFFICES ASSUME TrackpointInit PROVE SticksInv
    OBVIOUS
<1>1. stick \in Seq(SUBSET Kind) /\ Len(stick) \in 1 .. 8 /\ stick \in Stick
    BY StickAssumption DEF TrackpointInit
<1>2. SticksType
    BY <1>1 DEF TrackpointInit, SticksType
<1>3. SticksSeen
    BY <1>1 DEF TrackpointInit, SticksSeen
<1>4. SticksCursor
    BY FirstStick DEF TrackpointInit, SticksCursor
<1> QED BY <1>2, <1>3, <1>4 DEF SticksInv

LEMMA DeviceQueryKeeps == SticksInv /\ ReadDeviceQuery /\ UNCHANGED <<function, stick>> => SticksInv'
<1> SUFFICES ASSUME SticksInv, ReadDeviceQuery, UNCHANGED <<function, stick>> PROVE SticksInv'
    OBVIOUS
<1>1. stick \in Seq(SUBSET Kind) /\ Len(stick) \in 1 .. 8
    BY StickAssumption DEF SticksInv, SticksType
<1>2. sticks = <<>> /\ UNCHANGED <<function, stick, sticks, next_data_reg>>
    BY DEF SticksInv, SticksCursor, ReadDeviceQuery
<1>3. SticksType'
    BY <1>1, <1>2 DEF SticksInv, SticksType, ReadDeviceQuery
<1>4. SticksSeen'
    BY <1>1, <1>2 DEF SticksSeen
<1>5. QueryAddr(1)' = 1 /\ StickAddr(1)' = 0
    BY <1>2, FirstStick DEF QueryAddr, StickAddr, Having
<1>6. next_data_reg = 0
    BY <1>2, FirstStick DEF SticksInv, SticksCursor
<1>7. SticksCursor'
    <2>1. PICK m \in Nat : m = 1 /\ m = Len(sticks') + 1
        BY <1>2
    <2>2. QueryAddr(m)' = 1 /\ StickAddr(m)' = 0
        BY <1>5, <2>1
    <2>3. next_query_reg' = 1 /\ life17' = "sticks" /\ number_of_sticks' = Len(stick) - 1
        BY DEF ReadDeviceQuery
    <2>4. next_query_reg' = QueryAddr(m)' /\ next_data_reg' = StickAddr(m)' /\ next_query_reg' \in Nat
        BY <1>2, <1>6, <2>2, <2>3
    <2>5. Len(sticks') = 0 /\ sticks' = <<>> /\ stick' = stick
        BY <1>2
    <2>6. next_data_reg' = StickAddr(Len(sticks) + 1)'
        BY <2>1, <2>4, <2>5
    <2>7. next_query_reg' = QueryAddr(Len(sticks) + 1)'
        BY <2>1, <2>4, <2>5
    <2>8. Len(sticks)' < Len(stick)' /\ number_of_sticks' = (Len(stick) - 1)'
        <3>1. Len(sticks') = 0 /\ Len(stick') = Len(stick) /\ Len(stick) \in 1 .. 8
            BY <1>1, <2>5
        <3> QED BY <2>3, <3>1
    <2> QED BY <2>3, <2>4, <2>5, <2>6, <2>7, <2>8 DEF SticksCursor
<1> QED BY <1>3, <1>4, <1>7 DEF SticksInv

LEMMA InitStickKeeps == SticksInv /\ InitStick /\ UNCHANGED <<function, stick>> => SticksInv'
<1> SUFFICES ASSUME SticksInv, InitStick, UNCHANGED <<function, stick>> PROVE SticksInv'
    OBVIOUS
<1>1. stick \in Seq(SUBSET Kind) /\ Len(stick) \in 1 .. 8
    BY StickAssumption DEF SticksInv, SticksType
<1>2. /\ sticks \in Seq(StickData) /\ Len(sticks) < Len(stick)
      /\ life17 = "sticks" /\ number_of_sticks = Len(stick) - 1
      /\ next_query_reg = QueryAddr(Len(sticks) + 1) /\ next_data_reg = StickAddr(Len(sticks) + 1)
    BY DEF SticksInv, SticksType, SticksCursor, InitStick
<1>3. PICK n \in 1 .. Len(stick) : n = Len(sticks) + 1
    BY <1>1, <1>2
<1>4. GeneralQuery(next_query_reg) = stick[n]
    BY <1>1, <1>2, <1>3, GeneralQueryExact
<1> DEFINE new == [general |-> stick[n], address |-> [k \in stick[n] |-> DataAddr(n, k)]]
<1>5. sticks' = Append(sticks, new)
    BY <1>2, <1>3, <1>4 DEF InitStick, DataAddr
<1>6. new \in StickData
    <2>1. stick[n] \in SUBSET Kind
        BY <1>1
    <2>2. \A k \in stick[n] : DataAddr(n, k) \in Nat
        <3>1. StickAddr(n) \in Nat
            <4>1. n \in Nat \ {0}
                BY <1>1
            <4> QED BY <4>1, StickAfter
        <3>2. \A k \in stick[n] : DataSize(stick[n] \cap Before(k)) \in Nat
            BY <2>1, DataSizes
        <3> TAKE k \in stick[n]
        <3> DEFINE before == DataSize(stick[n] \cap Before(k))
        <3>3. before \in Nat /\ DataAddr(n, k) = StickAddr(n) + before
            BY <3>2 DEF DataAddr
        <3> HIDE DEF before
        <3> QED BY <3>1, <3>3
    <2>3. new.address \in [stick[n] -> Nat]
        BY <2>2
    <2> QED BY <2>1, <2>3 DEF StickData
<1> HIDE DEF new
<1>7. sticks' \in Seq(StickData) /\ Len(sticks') = n
    BY <1>2, <1>3, <1>5, <1>6
<1>8. \A i, k : QueryAddr(i)' = QueryAddr(i) /\ StickAddr(i)' = StickAddr(i) /\ DataAddr(i, k)' = DataAddr(i, k)
    BY DEF QueryAddr, StickAddr, DataAddr, Having
<1>9. SticksType'
    BY <1>7 DEF SticksInv, SticksType, InitStick
<1>10. SticksSeen'
    <2>1. ASSUME NEW i \in 1 .. n
          PROVE  sticks'[i].general = stick[i] /\ sticks'[i].address = [k \in stick[i] |-> DataAddr(i, k)]
        <3>1. CASE i = n
            BY <1>2, <1>3, <1>5, <3>1 DEF new
        <3>2. CASE i # n
            BY <1>2, <1>3, <1>5, <3>2 DEF SticksInv, SticksSeen
        <3> QED BY <3>1, <3>2
    <2> QED BY <2>1, <1>1, <1>3, <1>7, <1>8 DEF SticksSeen
<1>11. next_query_reg' = QueryAddr(n + 1) /\ next_data_reg' = StickAddr(n + 1) /\ QueryAddr(n + 1) \in Nat
    <2>1. n \in Nat \ {0} /\ n + 1 \in Nat \ {0}
        BY <1>1
    <2>2. /\ QueryAddr(n + 1) = QueryAddr(n) + Advance(stick[n]) /\ QueryAddr(n + 1) \in Nat
          /\ StickAddr(n + 1) = StickAddr(n) + DataSize(stick[n])
        BY <2>1, StickAfter
    <2> QED BY <1>2, <1>3, <1>4, <2>2 DEF InitStick
<1>12. SticksCursor'
    <2>1. life17' = IF n = Len(stick) THEN "up" ELSE "sticks"
        BY <1>1, <1>2, <1>7 DEF InitStick
    <2>2. number_of_sticks' = Len(stick) - 1 /\ stick' = stick
        BY <1>2 DEF InitStick
    <2>3. PICK m \in Nat : m = n + 1 /\ m = Len(sticks') + 1
        BY <1>3, <1>7
    <2>4. next_query_reg' = QueryAddr(m)' /\ next_data_reg' = StickAddr(m)' /\ next_query_reg' \in Nat
        BY <1>8, <1>11, <2>3
    <2> QED BY <1>1, <1>3, <1>7, <2>1, <2>2, <2>3, <2>4 DEF SticksCursor
<1> QED BY <1>9, <1>10, <1>12 DEF SticksInv

LEMMA SticksStep == SticksInv /\ [TrackpointNext]_trackpointVars => SticksInv'
<1> SUFFICES ASSUME SticksInv, [TrackpointNext]_trackpointVars PROVE SticksInv'
    OBVIOUS
<1>1. ASSUME UNCHANGED stickVars PROVE SticksInv'
    <2>1. \A i, k : QueryAddr(i)' = QueryAddr(i) /\ StickAddr(i)' = StickAddr(i) /\ DataAddr(i, k)' = DataAddr(i, k)
        BY <1>1 DEF QueryAddr, StickAddr, DataAddr, Having, stickVars
    <2> QED BY <1>1, <2>1 DEF SticksInv, SticksType, SticksSeen, SticksCursor, stickVars, f17Vars
<1>2. CASE F03Step
    BY <1>1, <1>2 DEF F03Step
<1>3. CASE PinStep
    BY <1>1, <1>3 DEF PinStep
<1>4. CASE UNCHANGED trackpointVars
    BY <1>1, <1>4 DEF trackpointVars
<1>5. CASE F17Step
    <2>1. UNCHANGED <<function, stick>>
        BY <1>5 DEF F17Step
    <2>2. CASE ReadDeviceQuery
        BY <2>1, <2>2, DeviceQueryKeeps
    <2>3. CASE InitStick
        BY <2>1, <2>3, InitStickKeeps
    <2>4. CASE InitError
        <3>1. \A i, k : QueryAddr(i)' = QueryAddr(i) /\ StickAddr(i)' = StickAddr(i) /\ DataAddr(i, k)' = DataAddr(i, k)
            BY <2>1 DEF QueryAddr, StickAddr, DataAddr, Having
        <3> QED BY <2>1, <2>4, <3>1 DEF InitError, SticksInv, SticksType, SticksSeen, SticksCursor
    <2>5. CASE StickAttention
        BY <1>1, <2>1, <2>5 DEF StickAttention, stickVars
    <2> QED BY <1>5, <2>2, <2>3, <2>4, <2>5 DEF F17Step
<1> QED BY <1>2, <1>3, <1>4, <1>5 DEF TrackpointNext

LEMMA SticksInvariant == TrackpointSpec => []SticksInv
<1> QED BY SticksInitially, SticksStep, PTL DEF TrackpointSpec

(* Every variable has its type, and no stick's data are read from beyond   *)
(* those that F17 went past.                                               *)
THEOREM TrackpointTypeCorrect == TrackpointSpec => []TrackpointTypeOK
<1>1. TypeOK /\ SticksInv => TrackpointTypeOK
    <2> SUFFICES ASSUME TypeOK, SticksInv PROVE TrackpointTypeOK
        OBVIOUS
    <2>1. stick \in Seq(SUBSET Kind) /\ sticks \in Seq(StickData) /\ Len(sticks) <= Len(stick)
        BY StickAssumption DEF SticksInv, SticksType, SticksSeen
    <2>2. Len(sticks) \in Nat /\ Len(stick) \in Nat
        BY <2>1
    <2>3. next_data_reg = StickAddr(Len(sticks) + 1) /\ next_data_reg \in Nat
        BY <2>2, StickAfter DEF SticksInv, SticksCursor
    <2>4. ASSUME NEW i \in DOMAIN sticks
          PROVE  sticks[i].general \subseteq Kind /\ sticks[i].address \in [sticks[i].general -> 0 .. next_data_reg - 1]
        <3>1. i \in Nat \ {0} /\ i <= Len(sticks) /\ i \in DOMAIN stick /\ i \in 1 .. Len(sticks)
            BY <2>1, <2>2
        <3>2. stick[i] \in SUBSET Kind
            BY <2>1, <3>1
        <3>3. StickAddr(i) \in Nat /\ StickAddr(i) + DataSize(stick[i]) <= next_data_reg
            <4>1. StickAddr(i) \in Nat /\ StickAddr(i + 1) = StickAddr(i) + DataSize(stick[i])
                BY <3>1, StickAfter
            <4>2. StickAddr(i + 1) <= StickAddr(Len(sticks) + 1)
                BY <2>2, <3>1, AddressesGrow
            <4> QED BY <2>3, <4>1, <4>2
        <3>4. \A k \in stick[i] : DataAddr(i, k) \in 0 .. next_data_reg - 1
            <4>1. \A k \in stick[i] : /\ DataSize(stick[i] \cap Before(k)) \in Nat
                                      /\ DataSize(stick[i] \cap Before(k)) < DataSize(stick[i])
                BY <3>2, DataSizes
            <4>2. DataSize(stick[i]) \in Nat
                BY <3>2, DataSizes
            <4> TAKE k \in stick[i]
            <4> DEFINE before == DataSize(stick[i] \cap Before(k))
            <4>3. before \in Nat /\ before < DataSize(stick[i]) /\ DataAddr(i, k) = StickAddr(i) + before
                BY <4>1 DEF DataAddr
            <4> HIDE DEF before
            <4> QED BY <2>3, <3>3, <4>2, <4>3
        <3>5. sticks[i].general = stick[i] /\ sticks[i].address = [k \in stick[i] |-> DataAddr(i, k)]
            BY <3>1 DEF SticksInv, SticksSeen
        <3> QED BY <3>2, <3>4, <3>5
    <2> QED BY <2>3, <2>4 DEF TrackpointTypeOK, SticksInv, SticksType, SticksCursor
<1> QED BY <1>1, ButtonsFollow, SticksInvariant, PTL

(* F17 takes no stick's queries or data for those of another one, whatever *)
(* the sticks before it have, and when attach() has succeeded has them all. *)
THEOREM SticksAreExact == TrackpointSpec => []SticksExact
<1>1. SticksInv => SticksExact
    <2> SUFFICES ASSUME SticksInv PROVE SticksExact
        OBVIOUS
    <2>1. stick \in Seq(SUBSET Kind) /\ sticks \in Seq(StickData)
        BY StickAssumption DEF SticksInv, SticksType
    <2>2. /\ DOMAIN sticks = 1 .. Len(sticks) /\ DOMAIN stick = 1 .. Len(stick)
          /\ Len(sticks) \in Nat /\ Len(stick) \in Nat
        BY <2>1
    <2>3. ASSUME NEW i \in DOMAIN sticks
          PROVE  /\ i \in DOMAIN stick /\ sticks[i].general = stick[i]
                 /\ \A k \in stick[i] : sticks[i].address[k] = DataAddr(i, k)
        <3>1. i \in 1 .. Len(sticks) /\ Len(sticks) <= Len(stick)
            BY <2>2 DEF SticksInv, SticksSeen
        <3>2. sticks[i].general = stick[i] /\ sticks[i].address = [k \in stick[i] |-> DataAddr(i, k)]
            BY <3>1 DEF SticksInv, SticksSeen
        <3> QED BY <2>2, <3>1, <3>2
    <2>4. life17 = "up" => DOMAIN sticks = DOMAIN stick
        BY <2>2 DEF SticksInv, SticksCursor
    <2> QED BY <2>3, <2>4 DEF SticksExact
<1> QED BY <1>1, SticksInvariant, PTL
=============================================================================
