----------------------- MODULE FunctionRegistersProofs -----------------------
(***************************************************************************)
(* Proofs about FunctionRegisters, for any touchpads: F11 takes no query   *)
(* register for another one and reads its packets whole; F30 and F3A find  *)
(* the registers that tell which pins are buttons; what they and F11 write *)
(* to the controls changes what it is meant to and no more; and F12 reads  *)
(* the touchpad's descriptors back, whatever they describe, and reaches    *)
(* by them the registers that it means.                                    *)
(***************************************************************************)
EXTENDS FunctionRegisters, FiniteSetTheorems, WellFoundedInduction, TLAPS

-----------------------------------------------------------------------------
(* F11Registers and ButtonRegisters count as this module does.             *)
LEMMA SameCardinality ==
    ASSUME NEW S
    PROVE  F11!Cardinality(S) = Cardinality(S) /\ Buttons!Cardinality(S) = Cardinality(S)
<1>1. F11!Cardinality(S) = Cardinality(S)
    BY DEF F11!Cardinality, Cardinality
<1>2. Buttons!Cardinality(S) = Cardinality(S)
    BY DEF Buttons!Cardinality, Cardinality
<1> QED BY <1>1, <1>2

LEMMA Interval ==
    ASSUME NEW a \in Int, NEW b \in Int, a <= b + 1
    PROVE  IsFiniteSet(a .. b) /\ Cardinality(a .. b) = b + 1 - a
<1>1. IsFiniteSet(a .. b) /\ Cardinality(a .. b) = IF a > b THEN 0 ELSE b - a + 1
    BY FS_Interval
<1> QED BY <1>1

(* Induction: a set of numbers has a least one, and so one that holds 0    *)
(* and with each number the next holds all of them.                        *)
LEMMA Least == ASSUME NEW T \in SUBSET Nat, T # {} PROVE \E x \in T : \A y \in T : x <= y
<1> DEFINE R == OpToRel(<, Nat)
<1>1. IsWellFoundedOn(R, Nat)
    BY NatLessThanWellFounded
<1>2. \A a, b \in Nat : a < b => <<a, b>> \in R
    BY DEF OpToRel
<1> HIDE DEF R
<1>3. PICK x \in T : \A y \in T : ~(<<y, x>> \in R)
    BY <1>1, WFMin
<1>4. \A y \in T : x <= y
    <2> TAKE y \in T
    <2>1. x \in Nat /\ y \in Nat
        OBVIOUS
    <2>2. ~(y < x)
        BY <1>2, <1>3, <2>1
    <2> QED BY <2>1, <2>2
<1> QED BY <1>4

LEMMA SetInduction ==
    ASSUME NEW S, 0 \in S, \A n \in Nat : n \in S => n + 1 \in S
    PROVE Nat \subseteq S
<1> DEFINE T == {n \in Nat : n \notin S}
<1> SUFFICES ASSUME T # {} PROVE FALSE
    OBVIOUS
<1>1. PICK x \in T : \A y \in T : x <= y
    BY Least
<1>2. x - 1 \in Nat /\ x - 1 \notin T
    BY <1>1
<1>3. (x - 1) + 1 = x
    BY <1>1
<1> QED BY <1>1, <1>2, <1>3

-----------------------------------------------------------------------------
(* The query registers of an F11: how many of those that a touchpad has    *)
(* come before one, and so how far from the first it is.                   *)
P11 == F11!Present(device11.query)
Preceding(r) == Cardinality({p \in P11 : p < r})

(* The registers that attach() goes past without reading them.             *)
Unread == 19 .. 27 \cup 29 .. 35

(* The register that comes next, named for the stages of attach().         *)
Reached ==
    [device |-> 0, sensor |-> 1, abs |-> 5, rel |-> 6, gestures |-> 7, pen |-> 9, shapes |-> 10,
     tuning |-> 11, tuning2 |-> 12, jitter |-> 13, misc |-> 14, size |-> 15, query27 |-> 27,
     query28 |-> 28, query36 |-> 36, limits |-> 37, construct |-> 37, control |-> 37,
     write |-> 37, ready |-> 37, configured |-> 37]

AskedBefore(r) == {p \in P11 \ Unread : p < r}

QueriesSeen ==
    /\ asked \subseteq P11
    /\ sens_query = [r \in F11!QueryReg |-> IF r \in asked THEN device11.query[r] ELSE {}]

QueriesStage ==
    /\ query_size \in 0 .. 36
    /\ life11 \in DOMAIN Reached => asked = AskedBefore(Reached[life11])
    /\ life11 = "device" => query_size = 0
    /\ life11 \in {"sensor", "abs", "rel", "gestures", "pen", "shapes", "tuning", "tuning2",
                   "jitter", "misc", "size", "query27", "query28"}
         => query_size + 1 = Preceding(Reached[life11]) /\ query_size < Reached[life11]
    /\ life11 = "query36" /\ 36 \in P11 => query_size + 1 = Preceding(36)

QueriesInv ==
    /\ device11 \in Device11
    /\ life11 \in DOMAIN Reached \cup {"failed"}
    /\ QueriesSeen
    /\ QueriesStage

(* Which query registers a touchpad has.                                   *)
LEMMA PresentMembers ==
    ASSUME NEW q
    PROVE  /\ F11!Present(q) \subseteq 0 .. 36 /\ 0 .. 4 \subseteq F11!Present(q)
           /\ 5 \in F11!Present(q) <=> F11!Has(q, F11!HAS_ABS)
           /\ 6 \in F11!Present(q) <=> F11!Has(q, F11!HAS_REL)
           /\ 7 \in F11!Present(q) <=> F11!Has(q, F11!HAS_GESTURES)
           /\ 8 \in F11!Present(q) <=> F11!Has(q, F11!HAS_GESTURES)
           /\ 9 \in F11!Present(q) <=> F11!Has(q, F11!HAS_QUERY9)
           /\ 10 \in F11!Present(q) <=> 8 \in F11!Present(q) /\ F11!Has(q, F11!HAS_TOUCH_SHAPES)
           /\ 11 \in F11!Present(q) <=> F11!Has(q, F11!HAS_QUERY11)
           /\ 12 \in F11!Present(q) <=> F11!Has(q, F11!HAS_QUERY12)
           /\ 13 \in F11!Present(q) <=> 5 \in F11!Present(q) /\ F11!Has(q, F11!HAS_JITTER_FILTER)
           /\ 14 \in F11!Present(q) <=> 12 \in F11!Present(q) /\ F11!Has(q, F11!HAS_INFO2)
           /\ \A r \in 15 .. 26 :
                 r \in F11!Present(q) <=> 12 \in F11!Present(q) /\ F11!Has(q, F11!HAS_PHYSICAL)
           /\ 27 \in F11!Present(q) <=> F11!Has(q, F11!HAS_QUERY27)
           /\ 28 \in F11!Present(q) <=> F11!Has(q, F11!HAS_QUERY28)
           /\ \A r \in {29, 36} :
                 r \in F11!Present(q) <=> 28 \in F11!Present(q) /\ F11!Has(q, F11!HAS_QUERY36)
           /\ \A r \in 30 .. 35 : r \notin F11!Present(q)
<1> QED BY DEF F11!Present

(* Every member of P11 is a number.                                        *)
LEMMA PresentNumbers == \A p \in P11 : p \in Nat /\ p <= 36
<1>1. P11 \subseteq 0 .. 36
    BY PresentMembers DEF P11
<1> QED BY <1>1

LEMMA PrecedingFinite ==
    ASSUME NEW r \in Nat
    PROVE  IsFiniteSet({p \in P11 : p < r}) /\ Preceding(r) \in Nat
<1>1. IsFiniteSet(0 .. 36)
    <2>1. 0 \in Int /\ 36 \in Int /\ 0 <= 36 + 1
        OBVIOUS
    <2> QED BY <2>1, Interval
<1>2. {p \in P11 : p < r} \subseteq 0 .. 36
    BY PresentMembers DEF P11
<1> QED BY <1>1, <1>2, FS_Subset, FS_CardinalityType DEF Preceding

(* Registers that are all there move the next one by their number, and     *)
(* such as are not there by nothing.                                       *)
LEMMA PrecedingAfter ==
    ASSUME NEW a \in Nat, NEW b \in Nat, a <= b
    PROVE  /\ a .. b - 1 \subseteq P11 => Preceding(b) = Preceding(a) + (b - a)
           /\ (\A r \in a .. b - 1 : r \notin P11) => Preceding(b) = Preceding(a)
<1> DEFINE before(r) == {p \in P11 : p < r}
<1>1. \A p \in P11 : p \in Nat
    BY PresentNumbers
<1>2. before(b) = before(a) \cup (P11 \cap (a .. b - 1))
    BY <1>1
<1>3. IsFiniteSet(a .. b - 1) /\ Cardinality(a .. b - 1) = b - a
    <2>1. PICK c \in Int : c = b - 1
        OBVIOUS
    <2>2. a \in Int /\ a <= c + 1
        BY <2>1
    <2> QED BY <2>1, <2>2, Interval
<1>4. IsFiniteSet(before(a)) /\ Cardinality(before(a)) \in Nat
    BY PrecedingFinite, FS_CardinalityType
<1>5. before(a) \cap (a .. b - 1) = {}
    BY <1>1
<1>6. ASSUME a .. b - 1 \subseteq P11 PROVE Cardinality(before(b)) = Cardinality(before(a)) + (b - a)
    <2>1. before(b) = before(a) \cup (a .. b - 1)
        BY <1>2, <1>6
    <2>2. Cardinality(before(a) \cup (a .. b - 1)) = Cardinality(before(a)) + Cardinality(a .. b - 1)
        <3>1. Cardinality(before(a) \cap (a .. b - 1)) = 0
            BY <1>5, FS_EmptySet
        <3> HIDE DEF before
        <3>2. Cardinality(before(a) \cup (a .. b - 1)) =
                Cardinality(before(a)) + Cardinality(a .. b - 1) - Cardinality(before(a) \cap (a .. b - 1))
            BY <1>3, <1>4, FS_Union
        <3> QED BY <1>3, <1>4, <3>1, <3>2
    <2> QED BY <1>3, <2>1, <2>2
<1>7. ASSUME \A r \in a .. b - 1 : r \notin P11 PROVE before(b) = before(a)
    BY <1>2, <1>7
<1> QED BY <1>6, <1>7 DEF Preceding

LEMMA PrecedingGrows ==
    ASSUME NEW a \in Nat, NEW b \in Nat, a < b, a \in P11
    PROVE  Preceding(a) < Preceding(b)
<1>1. {p \in P11 : p < a} \subseteq {p \in P11 : p < b} /\ a \in {p \in P11 : p < b} \ {p \in P11 : p < a}
    <2>1. \A p \in P11 : p < a => p < b
        BY PresentNumbers
    <2>2. ~(a < a)
        OBVIOUS
    <2> QED BY <2>1, <2>2
<1>2. Preceding(a) <= Preceding(b) /\ Preceding(a) # Preceding(b)
    BY <1>1, PrecedingFinite, FS_Subset DEF Preceding
<1>3. Preceding(a) \in Nat /\ Preceding(b) \in Nat
    BY PrecedingFinite
<1> QED BY <1>2, <1>3

LEMMA FirstPreceding == Preceding(0) = 0 /\ Preceding(1) = 1
<1>1. {p \in P11 : p < 0} = {} /\ {p \in P11 : p < 1} = {0}
    BY PresentMembers DEF P11
<1>2. Cardinality({}) = 0 /\ Cardinality({0}) = 1
    BY FS_EmptySet, FS_Singleton
<1> QED BY <1>1, <1>2 DEF Preceding

(* What is read at the address of a register that there is, is that one.   *)
LEMMA RegisterExact ==
    ASSUME device11 \in Device11, NEW r \in P11
    PROVE  F11!Register(device11.qryAddr + Preceding(r)) = device11.query[r]
<1>1. device11.qryAddr \in Nat
    BY Device11Assumption DEF F11!DeviceOK
<1>2. ASSUME NEW p \in P11, Preceding(p) = Preceding(r) PROVE p = r
    <2>1. p \in Nat /\ r \in Nat
        BY PresentNumbers
    <2>2. Preceding(p) \in Nat
        BY <2>1, PrecedingFinite
    <2>3. ~(p < r) /\ ~(r < p)
        BY <1>2, <2>1, <2>2, PrecedingGrows
    <2> QED BY <2>1, <2>3
<1>3. \A p \in P11 : device11.qryAddr + Preceding(p) = device11.qryAddr + Preceding(r) <=> p = r
    <2> TAKE p \in P11
    <2>1. Preceding(p) \in Nat /\ Preceding(r) \in Nat
        BY PrecedingFinite, PresentNumbers
    <2> QED BY <1>1, <1>2, <2>1
<1>4. \A p : F11!Cardinality({x \in P11 : x < p}) = Preceding(p)
    BY SameCardinality DEF Preceding
<1>5. {p \in P11 : device11.qryAddr + F11!Cardinality({x \in P11 : x < p})
                     = device11.qryAddr + Preceding(r)} = {r}
    BY <1>3, <1>4
<1> HIDE DEF Preceding
<1>6. F11!Register(device11.qryAddr + Preceding(r)) = UNION {device11.query[p] : p \in {r}}
    BY <1>5 DEF F11!Register, P11
<1> QED BY <1>6

(* The sensor's queries are on the page of the function's: nothing of      *)
(* their address is lost.                                                  *)
LEMMA BaseExact == device11 \in Device11 => F11!query_base_addr = device11.qryAddr + 1
<1> SUFFICES ASSUME device11 \in Device11 PROVE F11!query_base_addr = device11.qryAddr + 1
    OBVIOUS
<1>1. device11.qryAddr \in 0 .. 255 /\ device11.qryAddr + Cardinality(P11) <= 256
    <2>1. /\ Device11 \subseteq [qryAddr : 0 .. 255, query : [F11!QueryReg -> SUBSET F11!Bit],
                                control : SUBSET F11!CtrlBit]
          /\ \A d \in Device11 : d.qryAddr + Cardinality(F11!Present(d.query)) <= 256
        BY Device11Assumption, SameCardinality DEF F11!DeviceOK
    <2> QED BY <2>1 DEF P11
<1>2. Cardinality(P11) \in Nat /\ Cardinality(P11) >= 5
    <2>1. {p \in P11 : p < 37} = P11
        BY PresentNumbers
    <2>2. IsFiniteSet(P11)
        BY <2>1, PrecedingFinite
    <2>3. IsFiniteSet(0 .. 4) /\ Cardinality(0 .. 4) = 5
        <3>1. 0 \in Int /\ 4 \in Int /\ 0 <= 4 + 1 /\ 4 + 1 - 0 = 5
            OBVIOUS
        <3> QED BY <3>1, Interval
    <2>4. 0 .. 4 \subseteq P11
        BY PresentMembers DEF P11
    <2> QED BY <2>2, <2>3, <2>4, FS_Subset, FS_CardinalityType
<1> QED BY <1>1, <1>2 DEF F11!query_base_addr

-----------------------------------------------------------------------------
(* A step of attach() that goes from one register to another: those of it  *)
(* are read if the touchpad has the first.                                 *)
Reads(here, next, first, n, advance) ==
    /\ life11 = here
    /\ \/ /\ first \in P11
          /\ sens_query' = [q \in F11!QueryReg |->
                               IF q \in first .. first + n - 1
                               THEN F11!Register(F11!query_base_addr + query_size + q - first)
                               ELSE sens_query[q]]
          /\ asked' = asked \cup (first .. first + n - 1)
          /\ query_size' = query_size + advance
          /\ life11' = next
       \/ life11' = "failed" /\ UNCHANGED <<query_size, sens_query, asked>>
       \/ first \notin P11 /\ life11' = next /\ UNCHANGED <<query_size, sens_query, asked>>
    /\ UNCHANGED device11

LEMMA SamePresent ==
    ASSUME UNCHANGED device11
    PROVE  /\ P11' = P11
           /\ \A r : Preceding(r)' = Preceding(r) /\ AskedBefore(r)' = AskedBefore(r)
<1> QED BY DEF P11, Preceding, AskedBefore

(* If the cursor stands before the first of some registers, it is they     *)
(* that are read.                                                          *)
LEMMA BlockExact ==
    ASSUME device11 \in Device11, query_size \in Nat, NEW first \in 1 .. 36, NEW n \in Nat \ {0},
           query_size + 1 = Preceding(first), first .. first + n - 1 \subseteq P11,
           NEW q \in first .. first + n - 1
    PROVE  F11!Register(F11!query_base_addr + query_size + q - first) = device11.query[q]
<1>1. first \in Nat /\ q \in Nat /\ first <= q /\ q \in P11
    OBVIOUS
<1>2. Preceding(q) = Preceding(first) + (q - first)
    <2>1. first .. q - 1 \subseteq P11
        OBVIOUS
    <2> QED BY <1>1, <2>1, PrecedingAfter
<1>3. device11.qryAddr \in Nat /\ F11!query_base_addr = device11.qryAddr + 1
    BY BaseExact, Device11Assumption DEF F11!DeviceOK
<1>4. F11!query_base_addr + query_size + q - first = device11.qryAddr + Preceding(q)
    BY <1>1, <1>2, <1>3
<1> QED BY <1>1, <1>4, RegisterExact

LEMMA ReadsSee ==
    ASSUME QueriesInv, NEW here, NEW next, NEW first \in 1 .. 36, NEW n \in Nat \ {0}, NEW advance,
           Reads(here, next, first, n, advance), first \in P11 => query_size + 1 = Preceding(first),
           first \in P11 => first .. first + n - 1 \subseteq P11
    PROVE  QueriesSeen'
<1>1. device11 \in Device11 /\ query_size \in Nat /\ asked \subseteq P11
      /\ sens_query = [r \in F11!QueryReg |-> IF r \in asked THEN device11.query[r] ELSE {}]
    BY DEF QueriesInv, QueriesSeen, QueriesStage
<1>2. UNCHANGED device11 /\ P11' = P11
    BY SamePresent DEF Reads
<1>3. CASE UNCHANGED <<query_size, sens_query, asked>>
    BY <1>1, <1>2, <1>3 DEF QueriesSeen
<1>4. CASE /\ first \in P11
           /\ sens_query' = [q \in F11!QueryReg |->
                               IF q \in first .. first + n - 1
                               THEN F11!Register(F11!query_base_addr + query_size + q - first)
                               ELSE sens_query[q]]
           /\ asked' = asked \cup (first .. first + n - 1)
    <2>1. first .. first + n - 1 \subseteq P11 /\ query_size + 1 = Preceding(first)
        BY <1>4
    <2>2. \A q \in first .. first + n - 1 :
            F11!Register(F11!query_base_addr + query_size + q - first) = device11.query[q]
        BY <1>1, <2>1, BlockExact
    <2>3. sens_query' = [r \in F11!QueryReg |-> IF r \in asked' THEN device11.query[r] ELSE {}]
        BY <1>1, <1>4, <2>2
    <2>4. asked' \subseteq P11
        BY <1>1, <1>4, <2>1
    <2> QED BY <1>2, <2>3, <2>4 DEF QueriesSeen
<1> QED BY <1>3, <1>4 DEF Reads

(* The stages of attach() that have a cursor.                              *)
CursorStages ==
    {"sensor", "abs", "rel", "gestures", "pen", "shapes", "tuning", "tuning2", "jitter", "misc",
     "size", "query27", "query28"}

(* The stages that look at the registers up to the next one's.             *)
LEMMA StageKeeps ==
    ASSUME QueriesInv, NEW here \in CursorStages, NEW next \in CursorStages, NEW n \in Nat \ {0},
           NEW first \in 1 .. 36, NEW advance \in Nat \ {0},
           first = Reached[here], first + advance = Reached[next],
           Reads(here, next, first, n, advance),
           first \in P11 => first .. first + advance - 1 \subseteq P11,
           first \notin P11 => \A r \in first .. first + advance - 1 : r \notin P11,
           n <= advance, \A r \in first .. first + advance - 1 : r \in Unread <=> r >= first + n
    PROVE  QueriesInv'
<1>1. /\ query_size \in Nat /\ asked = AskedBefore(first)
      /\ query_size + 1 = Preceding(first) /\ query_size < first
    BY DEF QueriesInv, QueriesStage, CursorStages, Reached, Reads
<1>2. QueriesSeen'
    <2>1. first \in P11 => first .. first + n - 1 \subseteq P11
        OBVIOUS
    <2> QED BY <1>1, <2>1, ReadsSee
<1>3. UNCHANGED device11 /\ device11' \in Device11
    BY DEF Reads, QueriesInv
<1>4. CASE life11' = "failed" /\ UNCHANGED <<query_size, sens_query, asked>>
    BY <1>2, <1>3, <1>4 DEF QueriesInv, QueriesStage, Reached
<1>5. PICK m \in 1 .. 36 : m = first + advance /\ m = Reached[next]
    BY DEF CursorStages, Reached
<1>6. ASSUME life11' = next, asked' = AskedBefore(m), query_size' + 1 = Preceding(m),
             query_size' \in Nat, query_size' < m
      PROVE  QueriesInv'
    <2>1. life11' \in DOMAIN Reached /\ Reached[life11'] = m /\ life11' \notin {"query36", "device"}
        BY <1>5, <1>6 DEF CursorStages, Reached
    <2>2. asked' = AskedBefore(m)' /\ query_size' + 1 = Preceding(m)'
        BY <1>3, <1>6, SamePresent
    <2>3. QueriesStage'
        BY <1>6, <2>1, <2>2 DEF QueriesStage
    <2> QED BY <1>2, <1>3, <2>1, <2>3 DEF QueriesInv
<1>7. \A r \in P11 : r \in Nat /\ (r < m <=> r < first \/ r \in first .. m - 1)
    BY <1>5, PresentNumbers
<1>8. first \in Nat /\ m \in Nat /\ first <= m /\ m - first = advance
    BY <1>5
<1>9. CASE first \in P11 /\ life11' = next /\ asked' = asked \cup (first .. first + n - 1)
             /\ query_size' = query_size + advance
    <2>1. first .. m - 1 \subseteq P11 /\ \A r \in first .. m - 1 : r \in Unread <=> r >= first + n
        BY <1>5, <1>9
    <2>2. asked' = AskedBefore(m)
        <3>1. \A r \in first .. first + n - 1 : r \in first .. m - 1 /\ ~(r >= first + n)
            BY <1>5
        <3>2. \A r \in first .. m - 1 : r >= first + n \/ r \in first .. first + n - 1
            BY <1>5
        <3>3. \A r : r \in AskedBefore(m) <=> r \in AskedBefore(first) \/ r \in first .. first + n - 1
            BY <1>7, <2>1, <3>1, <3>2 DEF AskedBefore
        <3> QED BY <1>1, <1>9, <3>3
    <2>3. Preceding(m) = Preceding(first) + advance
        BY <1>8, <2>1, PrecedingAfter
    <2> QED BY <1>1, <1>5, <1>6, <1>9, <2>2, <2>3
<1>10. CASE first \notin P11 /\ life11' = next /\ UNCHANGED <<query_size, sens_query, asked>>
    <2>1. \A r \in first .. m - 1 : r \notin P11
        BY <1>5, <1>10
    <2>2. asked' = AskedBefore(m)
        BY <1>1, <1>7, <1>10, <2>1 DEF AskedBefore
    <2>3. Preceding(m) = Preceding(first)
        BY <1>8, <2>1, PrecedingAfter
    <2> QED BY <1>1, <1>5, <1>6, <1>10, <2>2, <2>3
<1> QED BY <1>4, <1>9, <1>10 DEF Reads

LEMMA OneKeeps ==
    ASSUME QueriesInv, NEW here \in CursorStages, NEW next \in CursorStages, NEW first \in 1 .. 36,
           first \notin Unread, first = Reached[here], first + 1 = Reached[next],
           Reads(here, next, first, 1, 1)
    PROVE  QueriesInv'
<1>1. /\ 1 \in Nat \ {0} /\ 1 <= 1
      /\ first \in P11 => first .. first + 1 - 1 \subseteq P11
      /\ first \notin P11 => \A r \in first .. first + 1 - 1 : r \notin P11
      /\ \A r \in first .. first + 1 - 1 : r \in Unread <=> r >= first + 1
    OBVIOUS
<1> QED BY <1>1, StageKeeps

(* What the driver has been told, it was told by a register that it read.  *)
LEMMA ToldAsked ==
    ASSUME QueriesSeen, NEW f, f[1] \in F11!QueryReg
    PROVE  F11!Told(f) <=> f[1] \in asked /\ F11!Has(device11.query, f)
<1> QED BY DEF QueriesSeen, F11!Told, F11!Has

Flags == {F11!HAS_ABS, F11!HAS_REL, F11!HAS_GESTURES, F11!HAS_QUERY9, F11!HAS_TOUCH_SHAPES, F11!HAS_QUERY11,
          F11!HAS_QUERY12, F11!HAS_JITTER_FILTER, F11!HAS_INFO2, F11!HAS_PHYSICAL, F11!HAS_QUERY27,
          F11!HAS_QUERY28, F11!HAS_QUERY36}

LEMMA ToldStage ==
    ASSUME QueriesInv, life11 \in CursorStages \cup {"query36"}, NEW f \in Flags, f[1] < Reached[life11]
    PROVE  F11!Told(f) <=> f[1] \in P11 /\ F11!Has(device11.query, f)
<1>1. f[1] \in {0, 1, 5, 8, 12, 28}
    BY DEF Flags, F11!HAS_ABS, F11!HAS_REL, F11!HAS_GESTURES, F11!HAS_QUERY9, F11!HAS_TOUCH_SHAPES,
        F11!HAS_QUERY11, F11!HAS_QUERY12, F11!HAS_JITTER_FILTER, F11!HAS_INFO2, F11!HAS_PHYSICAL,
        F11!HAS_QUERY27, F11!HAS_QUERY28, F11!HAS_QUERY36
<1>2. f[1] \in F11!QueryReg /\ f[1] \notin Unread
    BY <1>1 DEF F11!QueryReg, Unread
<1>3. asked = AskedBefore(Reached[life11])
    BY DEF QueriesInv, QueriesStage, CursorStages, Reached
<1>4. f[1] \in asked <=> f[1] \in P11
    BY <1>2, <1>3 DEF AskedBefore
<1> QED BY <1>2, <1>4, ToldAsked DEF QueriesInv

(* Which register the driver goes on to is told as the touchpad has it.    *)
LEMMA SensorKeeps == QueriesInv /\ F11!ReadSensorQuery => QueriesInv'
<1> SUFFICES ASSUME QueriesInv, F11!ReadSensorQuery PROVE QueriesInv'
    OBVIOUS
<1>1. 1 .. 4 \subseteq P11
    BY PresentMembers DEF P11
<1>2. Reads("sensor", "abs", 1, 4, 4)
    BY <1>1 DEF F11!ReadSensorQuery, F11!Query, Reads, F11!rest, F11!queryVars, F11!RMI_F11_QUERY_SIZE
<1>3. Reached["sensor"] = 1 /\ Reached["abs"] = 1 + 4 /\ {"sensor", "abs"} \subseteq CursorStages
    BY DEF Reached, CursorStages
<1>4. 1 .. 1 + 4 - 1 \subseteq P11 /\ \A r \in 1 .. 1 + 4 - 1 : r \in Unread <=> r >= 1 + 4
    BY <1>1 DEF Unread
<1>5. 1 \in P11 /\ 1 \in 1 .. 36 /\ 4 \in Nat \ {0} /\ 4 <= 4
    BY <1>1
<1> QED BY <1>2, <1>3, <1>4, <1>5, StageKeeps

LEMMA ToldPresent ==
    ASSUME QueriesInv
    PROVE  /\ life11 = "abs" => (F11!Told(F11!HAS_ABS) <=> 5 \in P11)
           /\ life11 = "rel" => (F11!Told(F11!HAS_REL) <=> 6 \in P11)
           /\ life11 = "gestures" => (F11!Told(F11!HAS_GESTURES) <=> 7 \in P11)
           /\ life11 = "pen" => (F11!Told(F11!HAS_QUERY9) <=> 9 \in P11)
           /\ life11 = "shapes" => (F11!Told(F11!HAS_TOUCH_SHAPES) <=> 10 \in P11)
           /\ life11 = "tuning" => (F11!Told(F11!HAS_QUERY11) <=> 11 \in P11)
           /\ life11 = "tuning2" => (F11!Told(F11!HAS_QUERY12) <=> 12 \in P11)
           /\ life11 = "jitter" => (F11!Told(F11!HAS_JITTER_FILTER) <=> 13 \in P11)
           /\ life11 = "misc" => (F11!Told(F11!HAS_INFO2) <=> 14 \in P11)
           /\ life11 = "size" => (F11!Told(F11!HAS_PHYSICAL) <=> 15 \in P11)
           /\ life11 = "query27" => (F11!Told(F11!HAS_QUERY27) <=> 27 \in P11)
           /\ life11 = "query28" => (F11!Told(F11!HAS_QUERY28) <=> 28 \in P11)
           /\ life11 = "query36" => (F11!Told(F11!HAS_QUERY36) <=> 36 \in P11)
<1>1. \A f \in Flags : life11 \in CursorStages \cup {"query36"} /\ f[1] < Reached[life11]
                      => (F11!Told(f) <=> f[1] \in P11 /\ F11!Has(device11.query, f))
    BY ToldStage
<1>2. 0 \in P11 /\ 1 \in P11
    BY PresentMembers DEF P11
<1>3. life11 = "abs" => (F11!Told(F11!HAS_ABS) <=> 5 \in P11)
    <2>1. F11!HAS_ABS \in Flags /\ F11!HAS_ABS[1] = 1 /\ "abs" \in CursorStages \cup {"query36"} /\ 1 < Reached["abs"]
        BY DEF Flags, F11!HAS_ABS, CursorStages, Reached
    <2> QED BY <1>1, <1>2, <2>1, PresentMembers DEF P11
<1>4. life11 = "rel" => (F11!Told(F11!HAS_REL) <=> 6 \in P11)
    <2>1. F11!HAS_REL \in Flags /\ F11!HAS_REL[1] = 1 /\ "rel" \in CursorStages \cup {"query36"} /\ 1 < Reached["rel"]
        BY DEF Flags, F11!HAS_REL, CursorStages, Reached
    <2> QED BY <1>1, <1>2, <2>1, PresentMembers DEF P11
<1>5. life11 = "gestures" => (F11!Told(F11!HAS_GESTURES) <=> 7 \in P11)
    <2>1. F11!HAS_GESTURES \in Flags /\ F11!HAS_GESTURES[1] = 1 /\ "gestures" \in CursorStages \cup {"query36"} /\ 1 < Reached["gestures"]
        BY DEF Flags, F11!HAS_GESTURES, CursorStages, Reached
    <2> QED BY <1>1, <1>2, <2>1, PresentMembers DEF P11
<1>6. life11 = "pen" => (F11!Told(F11!HAS_QUERY9) <=> 9 \in P11)
    <2>1. F11!HAS_QUERY9 \in Flags /\ F11!HAS_QUERY9[1] = 0 /\ "pen" \in CursorStages \cup {"query36"} /\ 0 < Reached["pen"]
        BY DEF Flags, F11!HAS_QUERY9, CursorStages, Reached
    <2> QED BY <1>1, <1>2, <2>1, PresentMembers DEF P11
<1>7. life11 = "shapes" => (F11!Told(F11!HAS_TOUCH_SHAPES) <=> 10 \in P11)
    <2>1. F11!HAS_TOUCH_SHAPES \in Flags /\ F11!HAS_TOUCH_SHAPES[1] = 8 /\ "shapes" \in CursorStages \cup {"query36"} /\ 8 < Reached["shapes"]
        BY DEF Flags, F11!HAS_TOUCH_SHAPES, CursorStages, Reached
    <2> QED BY <1>1, <1>2, <2>1, PresentMembers DEF P11
<1>8. life11 = "tuning" => (F11!Told(F11!HAS_QUERY11) <=> 11 \in P11)
    <2>1. F11!HAS_QUERY11 \in Flags /\ F11!HAS_QUERY11[1] = 0 /\ "tuning" \in CursorStages \cup {"query36"} /\ 0 < Reached["tuning"]
        BY DEF Flags, F11!HAS_QUERY11, CursorStages, Reached
    <2> QED BY <1>1, <1>2, <2>1, PresentMembers DEF P11
<1>9. life11 = "tuning2" => (F11!Told(F11!HAS_QUERY12) <=> 12 \in P11)
    <2>1. F11!HAS_QUERY12 \in Flags /\ F11!HAS_QUERY12[1] = 0 /\ "tuning2" \in CursorStages \cup {"query36"} /\ 0 < Reached["tuning2"]
        BY DEF Flags, F11!HAS_QUERY12, CursorStages, Reached
    <2> QED BY <1>1, <1>2, <2>1, PresentMembers DEF P11
<1>10. life11 = "jitter" => (F11!Told(F11!HAS_JITTER_FILTER) <=> 13 \in P11)
    <2>1. F11!HAS_JITTER_FILTER \in Flags /\ F11!HAS_JITTER_FILTER[1] = 5 /\ "jitter" \in CursorStages \cup {"query36"} /\ 5 < Reached["jitter"]
        BY DEF Flags, F11!HAS_JITTER_FILTER, CursorStages, Reached
    <2> QED BY <1>1, <1>2, <2>1, PresentMembers DEF P11
<1>11. life11 = "misc" => (F11!Told(F11!HAS_INFO2) <=> 14 \in P11)
    <2>1. F11!HAS_INFO2 \in Flags /\ F11!HAS_INFO2[1] = 12 /\ "misc" \in CursorStages \cup {"query36"} /\ 12 < Reached["misc"]
        BY DEF Flags, F11!HAS_INFO2, CursorStages, Reached
    <2> QED BY <1>1, <1>2, <2>1, PresentMembers DEF P11
<1>12. life11 = "size" => (F11!Told(F11!HAS_PHYSICAL) <=> 15 \in P11)
    <2>1. F11!HAS_PHYSICAL \in Flags /\ F11!HAS_PHYSICAL[1] = 12 /\ "size" \in CursorStages \cup {"query36"} /\ 12 < Reached["size"]
        BY DEF Flags, F11!HAS_PHYSICAL, CursorStages, Reached
    <2> QED BY <1>1, <1>2, <2>1, PresentMembers DEF P11
<1>13. life11 = "query27" => (F11!Told(F11!HAS_QUERY27) <=> 27 \in P11)
    <2>1. F11!HAS_QUERY27 \in Flags /\ F11!HAS_QUERY27[1] = 0 /\ "query27" \in CursorStages \cup {"query36"} /\ 0 < Reached["query27"]
        BY DEF Flags, F11!HAS_QUERY27, CursorStages, Reached
    <2> QED BY <1>1, <1>2, <2>1, PresentMembers DEF P11
<1>14. life11 = "query28" => (F11!Told(F11!HAS_QUERY28) <=> 28 \in P11)
    <2>1. F11!HAS_QUERY28 \in Flags /\ F11!HAS_QUERY28[1] = 0 /\ "query28" \in CursorStages \cup {"query36"} /\ 0 < Reached["query28"]
        BY DEF Flags, F11!HAS_QUERY28, CursorStages, Reached
    <2> QED BY <1>1, <1>2, <2>1, PresentMembers DEF P11
<1>15. life11 = "query36" => (F11!Told(F11!HAS_QUERY36) <=> 36 \in P11)
    <2>1. F11!HAS_QUERY36 \in Flags /\ F11!HAS_QUERY36[1] = 28 /\ "query36" \in CursorStages \cup {"query36"} /\ 28 < Reached["query36"]
        BY DEF Flags, F11!HAS_QUERY36, CursorStages, Reached
    <2> QED BY <1>1, <1>2, <2>1, PresentMembers DEF P11
<1> QED BY <1>3, <1>4, <1>5, <1>6, <1>7, <1>8, <1>9, <1>10, <1>11, <1>12, <1>13, <1>14, <1>15

LEMMA AbsKeeps == QueriesInv /\ F11!ReadAbs => QueriesInv'
<1> SUFFICES ASSUME QueriesInv, F11!ReadAbs PROVE QueriesInv'
    OBVIOUS
<1>1. F11!Told(F11!HAS_ABS) <=> 5 \in P11
    BY ToldPresent DEF F11!ReadAbs, F11!Query
<1>2. Reads("abs", "rel", 5, 1, 1)
    BY <1>1 DEF F11!ReadAbs, F11!Query, Reads, F11!rest, F11!queryVars
<1>3. /\ {"abs", "rel"} \subseteq CursorStages /\ 5 \in 1 .. 36 /\ 5 \notin Unread
      /\ Reached["abs"] = 5 /\ Reached["rel"] = 5 + 1
    BY DEF CursorStages, Reached, Unread
<1> QED BY <1>2, <1>3, OneKeeps

LEMMA RelKeeps == QueriesInv /\ F11!ReadRel => QueriesInv'
<1> SUFFICES ASSUME QueriesInv, F11!ReadRel PROVE QueriesInv'
    OBVIOUS
<1>1. F11!Told(F11!HAS_REL) <=> 6 \in P11
    BY ToldPresent DEF F11!ReadRel, F11!Query
<1>2. Reads("rel", "gestures", 6, 1, 1)
    BY <1>1 DEF F11!ReadRel, F11!Query, Reads, F11!rest, F11!queryVars
<1>3. /\ {"rel", "gestures"} \subseteq CursorStages /\ 6 \in 1 .. 36 /\ 6 \notin Unread
      /\ Reached["rel"] = 6 /\ Reached["gestures"] = 6 + 1
    BY DEF CursorStages, Reached, Unread
<1> QED BY <1>2, <1>3, OneKeeps

LEMMA GesturesKeeps == QueriesInv /\ F11!ReadGestures => QueriesInv'
<1> SUFFICES ASSUME QueriesInv, F11!ReadGestures PROVE QueriesInv'
    OBVIOUS
<1>1. F11!Told(F11!HAS_GESTURES) <=> 7 \in P11
    BY ToldPresent DEF F11!ReadGestures, F11!Query
<1>2. Reads("gestures", "pen", 7, 2, 2)
    BY <1>1 DEF F11!ReadGestures, F11!Query, Reads, F11!rest, F11!queryVars, F11!RMI_F11_QUERY_GESTURE_SIZE
<1>3. 7 \in P11 <=> 8 \in P11
    BY PresentMembers DEF P11
<1>4. Reached["gestures"] = 7 /\ Reached["pen"] = 7 + 2 /\ {"gestures", "pen"} \subseteq CursorStages
    BY DEF Reached, CursorStages
<1>5. /\ 7 \in P11 => 7 .. 7 + 2 - 1 \subseteq P11
      /\ 7 \notin P11 => \A r \in 7 .. 7 + 2 - 1 : r \notin P11
      /\ \A r \in 7 .. 7 + 2 - 1 : r \in Unread <=> r >= 7 + 2
    BY <1>3 DEF Unread
<1>6. 7 \in 1 .. 36 /\ 2 \in Nat \ {0} /\ 2 <= 2
    OBVIOUS
<1> QED BY <1>2, <1>4, <1>5, <1>6, StageKeeps

LEMMA PenKeeps == QueriesInv /\ F11!ReadPen => QueriesInv'
<1> SUFFICES ASSUME QueriesInv, F11!ReadPen PROVE QueriesInv'
    OBVIOUS
<1>1. F11!Told(F11!HAS_QUERY9) <=> 9 \in P11
    BY ToldPresent DEF F11!ReadPen, F11!Query
<1>2. Reads("pen", "shapes", 9, 1, 1)
    BY <1>1 DEF F11!ReadPen, F11!Query, Reads, F11!rest, F11!queryVars
<1>3. /\ {"pen", "shapes"} \subseteq CursorStages /\ 9 \in 1 .. 36 /\ 9 \notin Unread
      /\ Reached["pen"] = 9 /\ Reached["shapes"] = 9 + 1
    BY DEF CursorStages, Reached, Unread
<1> QED BY <1>2, <1>3, OneKeeps

LEMMA ShapesKeeps == QueriesInv /\ F11!ReadShapes => QueriesInv'
<1> SUFFICES ASSUME QueriesInv, F11!ReadShapes PROVE QueriesInv'
    OBVIOUS
<1>1. F11!Told(F11!HAS_TOUCH_SHAPES) <=> 10 \in P11
    BY ToldPresent DEF F11!ReadShapes, F11!Query
<1>2. Reads("shapes", "tuning", 10, 1, 1)
    BY <1>1 DEF F11!ReadShapes, F11!Query, Reads, F11!rest, F11!queryVars
<1>3. /\ {"shapes", "tuning"} \subseteq CursorStages /\ 10 \in 1 .. 36 /\ 10 \notin Unread
      /\ Reached["shapes"] = 10 /\ Reached["tuning"] = 10 + 1
    BY DEF CursorStages, Reached, Unread
<1> QED BY <1>2, <1>3, OneKeeps

LEMMA TuningKeeps == QueriesInv /\ F11!ReadTuning => QueriesInv'
<1> SUFFICES ASSUME QueriesInv, F11!ReadTuning PROVE QueriesInv'
    OBVIOUS
<1>1. F11!Told(F11!HAS_QUERY11) <=> 11 \in P11
    BY ToldPresent DEF F11!ReadTuning, F11!Query
<1>2. Reads("tuning", "tuning2", 11, 1, 1)
    BY <1>1 DEF F11!ReadTuning, F11!Query, Reads, F11!rest, F11!queryVars
<1>3. /\ {"tuning", "tuning2"} \subseteq CursorStages /\ 11 \in 1 .. 36 /\ 11 \notin Unread
      /\ Reached["tuning"] = 11 /\ Reached["tuning2"] = 11 + 1
    BY DEF CursorStages, Reached, Unread
<1> QED BY <1>2, <1>3, OneKeeps

LEMMA Tuning2Keeps == QueriesInv /\ F11!ReadTuning2 => QueriesInv'
<1> SUFFICES ASSUME QueriesInv, F11!ReadTuning2 PROVE QueriesInv'
    OBVIOUS
<1>1. F11!Told(F11!HAS_QUERY12) <=> 12 \in P11
    BY ToldPresent DEF F11!ReadTuning2, F11!Query
<1>2. Reads("tuning2", "jitter", 12, 1, 1)
    BY <1>1 DEF F11!ReadTuning2, F11!Query, Reads, F11!rest, F11!queryVars
<1>3. /\ {"tuning2", "jitter"} \subseteq CursorStages /\ 12 \in 1 .. 36 /\ 12 \notin Unread
      /\ Reached["tuning2"] = 12 /\ Reached["jitter"] = 12 + 1
    BY DEF CursorStages, Reached, Unread
<1> QED BY <1>2, <1>3, OneKeeps

LEMMA JitterKeeps == QueriesInv /\ F11!ReadJitter => QueriesInv'
<1> SUFFICES ASSUME QueriesInv, F11!ReadJitter PROVE QueriesInv'
    OBVIOUS
<1>1. F11!Told(F11!HAS_JITTER_FILTER) <=> 13 \in P11
    BY ToldPresent DEF F11!ReadJitter, F11!Query
<1>2. Reads("jitter", "misc", 13, 1, 1)
    BY <1>1 DEF F11!ReadJitter, F11!Query, Reads, F11!rest, F11!queryVars
<1>3. /\ {"jitter", "misc"} \subseteq CursorStages /\ 13 \in 1 .. 36 /\ 13 \notin Unread
      /\ Reached["jitter"] = 13 /\ Reached["misc"] = 13 + 1
    BY DEF CursorStages, Reached, Unread
<1> QED BY <1>2, <1>3, OneKeeps

LEMMA MiscKeeps == QueriesInv /\ F11!ReadMisc => QueriesInv'
<1> SUFFICES ASSUME QueriesInv, F11!ReadMisc PROVE QueriesInv'
    OBVIOUS
<1>1. F11!Told(F11!HAS_INFO2) <=> 14 \in P11
    BY ToldPresent DEF F11!ReadMisc, F11!Query
<1>2. Reads("misc", "size", 14, 1, 1)
    BY <1>1 DEF F11!ReadMisc, F11!Query, Reads, F11!rest, F11!queryVars
<1>3. /\ {"misc", "size"} \subseteq CursorStages /\ 14 \in 1 .. 36 /\ 14 \notin Unread
      /\ Reached["misc"] = 14 /\ Reached["size"] = 14 + 1
    BY DEF CursorStages, Reached, Unread
<1> QED BY <1>2, <1>3, OneKeeps

LEMMA SizeKeeps == QueriesInv /\ F11!ReadSize => QueriesInv'
<1> SUFFICES ASSUME QueriesInv, F11!ReadSize PROVE QueriesInv'
    OBVIOUS
<1>1. F11!Told(F11!HAS_PHYSICAL) <=> 15 \in P11
    BY ToldPresent DEF F11!ReadSize, F11!Query
<1>2. Reads("size", "query27", 15, 4, 12)
    BY <1>1 DEF F11!ReadSize, F11!Query, Reads, F11!rest, F11!queryVars
<1>3. \A r \in 15 .. 26 : r \in P11 <=> 15 \in P11
    BY PresentMembers DEF P11
<1>4. Reached["size"] = 15 /\ Reached["query27"] = 15 + 12 /\ {"size", "query27"} \subseteq CursorStages
    BY DEF Reached, CursorStages
<1>5. /\ 15 \in P11 => 15 .. 15 + 12 - 1 \subseteq P11
      /\ 15 \notin P11 => \A r \in 15 .. 15 + 12 - 1 : r \notin P11
      /\ \A r \in 15 .. 15 + 12 - 1 : r \in Unread <=> r >= 15 + 4
    BY <1>3 DEF Unread
<1>6. 15 \in 1 .. 36 /\ 4 \in Nat \ {0} /\ 12 \in Nat \ {0} /\ 4 <= 12
    OBVIOUS
<1> QED BY <1>2, <1>4, <1>5, <1>6, StageKeeps

LEMMA SkipKeeps == QueriesInv /\ F11!SkipQuery27 => QueriesInv'
<1> SUFFICES ASSUME QueriesInv, F11!SkipQuery27 PROVE QueriesInv'
    OBVIOUS
<1>1. /\ life11 = "query27" /\ life11' = "query28" /\ UNCHANGED <<device11, sens_query, asked>>
      /\ F11!Told(F11!HAS_QUERY27) <=> 27 \in P11
      /\ query_size' = query_size + IF F11!Told(F11!HAS_QUERY27) THEN 1 ELSE 0
    BY ToldPresent DEF F11!SkipQuery27, F11!rest
<1>2. query_size \in Nat /\ query_size + 1 = Preceding(27) /\ query_size < 27 /\ asked = AskedBefore(27)
    BY <1>1 DEF QueriesInv, QueriesStage, Reached
<1>3. Preceding(28) = Preceding(27) + IF 27 \in P11 THEN 1 ELSE 0
    <2>1. 27 \in Nat /\ 28 \in Nat /\ 27 <= 28 /\ 28 - 27 = 1
        OBVIOUS
    <2>2. (27 .. 28 - 1) = {27}
        OBVIOUS
    <2>3. /\ 27 .. 28 - 1 \subseteq P11 => Preceding(28) = Preceding(27) + (28 - 27)
          /\ (\A r \in 27 .. 28 - 1 : r \notin P11) => Preceding(28) = Preceding(27)
        BY <2>1, PrecedingAfter
    <2>4. Preceding(27) \in Nat
        BY <2>1, PrecedingFinite
    <2> QED BY <2>2, <2>3, <2>4
<1>4. AskedBefore(28) = AskedBefore(27)
    <2>1. \A r \in P11 \ Unread : r < 28 <=> r < 27
        BY PresentNumbers DEF Unread
    <2> QED BY <2>1 DEF AskedBefore
<1>5. query_size' \in Nat /\ query_size' < 28 /\ query_size' + 1 = Preceding(28) /\ asked' = AskedBefore(28)
    BY <1>1, <1>2, <1>3, <1>4
<1>6. query_size' + 1 = Preceding(28)' /\ asked' = AskedBefore(28)'
    BY <1>1, <1>5, SamePresent
<1>7. QueriesStage'
    BY <1>1, <1>5, <1>6 DEF QueriesStage, Reached
<1>8. QueriesSeen'
    BY <1>1 DEF QueriesInv, QueriesSeen, P11
<1> QED BY <1>1, <1>7, <1>8 DEF QueriesInv, Reached

(* Register 28 tells whether 29, which is gone past with it, and 36 are    *)
(* there.                                                                  *)
LEMMA Query28Keeps == QueriesInv /\ F11!ReadQuery28 => QueriesInv'
<1> SUFFICES ASSUME QueriesInv, F11!ReadQuery28 PROVE QueriesInv'
    OBVIOUS
<1> DEFINE read == [sens_query EXCEPT ![28] = F11!Register(F11!query_base_addr + query_size)]
           n == IF F11!Has(read, F11!HAS_QUERY36) THEN 2 ELSE 0
<1>1. life11 = "query28" /\ UNCHANGED device11 /\ (F11!Told(F11!HAS_QUERY28) <=> 28 \in P11)
    BY ToldPresent DEF F11!ReadQuery28, F11!Query, F11!rest
<1>2. Reads("query28", "query36", 28, 1, n)
    BY <1>1 DEF F11!ReadQuery28, F11!Query, Reads, F11!rest, F11!queryVars
<1>3. query_size \in Nat /\ query_size + 1 = Preceding(28) /\ query_size < 28 /\ asked = AskedBefore(28)
    BY <1>1 DEF QueriesInv, QueriesStage, Reached
<1>4. 28 \in 1 .. 36 /\ 1 \in Nat \ {0} /\ (28 .. 28 + 1 - 1) = {28}
    OBVIOUS
<1>5. QueriesSeen'
    <2>1. 28 \in P11 => 28 .. 28 + 1 - 1 \subseteq P11
        BY <1>4
    <2> HIDE DEF n
    <2> QED BY <1>2, <1>3, <1>4, <2>1, ReadsSee
<1>6. 28 \in P11 => (n = IF 36 \in P11 THEN 2 ELSE 0)
    <2> SUFFICES ASSUME 28 \in P11 PROVE n = IF 36 \in P11 THEN 2 ELSE 0
        OBVIOUS
    <2>1. F11!Register(F11!query_base_addr + query_size + 28 - 28) = device11.query[28]
        BY <1>3, <1>4, BlockExact DEF QueriesInv
    <2>2. F11!query_base_addr + query_size + 28 - 28 = F11!query_base_addr + query_size
        <3>1. F11!query_base_addr \in Nat
            BY BaseExact, Device11Assumption DEF F11!DeviceOK, QueriesInv
        <3> QED BY <1>3, <3>1
    <2>3. sens_query = [r \in F11!QueryReg |-> IF r \in asked THEN device11.query[r] ELSE {}]
        BY DEF QueriesInv, QueriesSeen
    <2>4. read[28] = device11.query[28]
        BY <2>1, <2>2, <2>3 DEF F11!QueryReg
    <2>5. F11!Has(read, F11!HAS_QUERY36) <=> F11!Has(device11.query, F11!HAS_QUERY36)
        BY <2>4 DEF F11!Has, F11!HAS_QUERY36
    <2> QED BY <2>5, PresentMembers DEF P11
<1> HIDE DEF n
<1>7. 36 \in P11 => 28 \in P11 /\ Preceding(36) = Preceding(28) + 2
    <2> SUFFICES ASSUME 36 \in P11 PROVE 28 \in P11 /\ Preceding(36) = Preceding(28) + 2
        OBVIOUS
    <2>1. 28 \in P11 /\ 29 \in P11 /\ \A r \in 30 .. 35 : r \notin P11
        BY PresentMembers DEF P11
    <2>2. {28, 30, 36} \subseteq Nat /\ 28 <= 30 /\ 30 <= 36 /\ 30 - 28 = 2
        OBVIOUS
    <2>3. 28 .. 30 - 1 \subseteq P11 /\ \A r \in 30 .. 36 - 1 : r \notin P11
        BY <2>1
    <2>4. Preceding(30) = Preceding(28) + (30 - 28)
        BY <2>2, <2>3, PrecedingAfter
    <2>5. Preceding(36) = Preceding(30)
        BY <2>2, <2>3, PrecedingAfter
    <2> QED BY <2>1, <2>2, <2>4, <2>5
<1>8. AskedBefore(36) = AskedBefore(28) \cup (P11 \cap {28})
    <2>1. \A r \in P11 \ Unread : r < 36 <=> r < 28 \/ r = 28
        BY PresentNumbers DEF Unread
    <2>2. 28 \notin Unread
        BY DEF Unread
    <2> QED BY <2>1, <2>2 DEF AskedBefore
<1>9. \/ life11' = "failed" /\ UNCHANGED <<query_size, asked>>
      \/ /\ life11' = "query36" /\ query_size' \in 0 .. 36 /\ asked' = AskedBefore(36)
         /\ 36 \in P11 => query_size' + 1 = Preceding(36)
    <2>1. CASE 28 \in P11 /\ life11' = "query36" /\ query_size' = query_size + n
                 /\ asked' = asked \cup (28 .. 28 + 1 - 1)
        BY <1>3, <1>4, <1>6, <1>7, <1>8, <2>1
    <2>2. CASE 28 \notin P11 /\ life11' = "query36" /\ UNCHANGED <<query_size, asked>>
        BY <1>3, <1>7, <1>8, <2>2
    <2> QED BY <1>2, <2>1, <2>2 DEF Reads
<1>10. P11' = P11 /\ AskedBefore(36)' = AskedBefore(36) /\ Preceding(36)' = Preceding(36)
    BY <1>1, SamePresent
<1>11. QueriesStage'
    <2>1. CASE life11' = "failed" /\ UNCHANGED <<query_size, asked>>
        BY <1>3, <2>1 DEF QueriesStage, Reached
    <2>2. CASE /\ life11' = "query36" /\ query_size' \in 0 .. 36 /\ asked' = AskedBefore(36)
               /\ 36 \in P11 => query_size' + 1 = Preceding(36)
        BY <1>10, <2>2 DEF QueriesStage, Reached
    <2> QED BY <1>9, <2>1, <2>2
<1> QED BY <1>1, <1>5, <1>9, <1>11 DEF QueriesInv, Reached

LEMMA Query36Keeps == QueriesInv /\ F11!ReadQuery36 => QueriesInv'
<1> SUFFICES ASSUME QueriesInv, F11!ReadQuery36 PROVE QueriesInv'
    OBVIOUS
<1>1. life11 = "query36" /\ UNCHANGED device11 /\ (F11!Told(F11!HAS_QUERY36) <=> 36 \in P11)
    BY ToldPresent DEF F11!ReadQuery36, F11!Query, F11!rest
<1>2. Reads("query36", "limits", 36, 1, 0)
    BY <1>1 DEF F11!ReadQuery36, F11!Query, Reads, F11!rest, F11!queryVars
<1>3. query_size \in 0 .. 36 /\ (36 \in P11 => query_size + 1 = Preceding(36)) /\ asked = AskedBefore(36)
    BY <1>1 DEF QueriesInv, QueriesStage, Reached
<1>4. 36 \in 1 .. 36 /\ 1 \in Nat \ {0} /\ (36 .. 36 + 1 - 1) = {36}
    OBVIOUS
<1>5. QueriesSeen'
    <2>1. 36 \in P11 => 36 .. 36 + 1 - 1 \subseteq P11
        BY <1>4
    <2> QED BY <1>2, <1>3, <1>4, <2>1, ReadsSee
<1>6. AskedBefore(37) = AskedBefore(36) \cup (P11 \cap {36})
    <2>1. \A r \in P11 : r < 37 <=> r < 36 \/ r = 36
        BY PresentNumbers
    <2>2. 36 \notin Unread
        BY DEF Unread
    <2> QED BY <2>1, <2>2 DEF AskedBefore
<1>7. /\ query_size' \in 0 .. 36
      /\ life11' = "failed" \/ (life11' = "limits" /\ asked' = AskedBefore(37))
    <2>1. CASE 36 \in P11 /\ life11' = "limits" /\ query_size' = query_size + 0
                 /\ asked' = asked \cup (36 .. 36 + 1 - 1)
        BY <1>3, <1>4, <1>6, <2>1
    <2>2. CASE 36 \notin P11 /\ life11' = "limits" /\ UNCHANGED <<query_size, asked>>
        BY <1>3, <1>6, <2>2
    <2>3. CASE life11' = "failed" /\ query_size' = query_size
        BY <1>3, <2>3
    <2> QED BY <1>2, <2>1, <2>2, <2>3 DEF Reads
<1>8. AskedBefore(37)' = AskedBefore(37)
    BY <1>1, SamePresent
<1>9. QueriesStage'
    BY <1>7, <1>8 DEF QueriesStage, Reached
<1> QED BY <1>1, <1>5, <1>7, <1>9 DEF QueriesInv, Reached

LEMMA DeviceQueryKeeps == QueriesInv /\ F11!ReadDeviceQuery => QueriesInv'
<1> SUFFICES ASSUME QueriesInv, F11!ReadDeviceQuery PROVE QueriesInv'
    OBVIOUS
<1>1. life11 = "device" /\ UNCHANGED <<device11, query_size>> /\ device11 \in Device11
    BY DEF F11!ReadDeviceQuery, F11!rest, QueriesInv
<1>2. query_size = 0 /\ asked = AskedBefore(0) /\ QueriesSeen
    BY <1>1 DEF QueriesInv, QueriesStage, Reached
<1>3. AskedBefore(0) = {} /\ AskedBefore(1) = {0} /\ 0 \in P11
    <2>1. 0 \in P11 /\ 0 \notin Unread
        BY PresentMembers DEF P11, Unread
    <2>2. \A r \in P11 : ~(r < 0) /\ (r < 1 <=> r = 0)
        BY PresentNumbers
    <2> QED BY <2>1, <2>2 DEF AskedBefore
<1>4. F11!Register(device11.qryAddr) = device11.query[0]
    <2>1. F11!Register(device11.qryAddr + Preceding(0)) = device11.query[0]
        BY <1>1, <1>3, RegisterExact
    <2>2. device11.qryAddr + Preceding(0) = device11.qryAddr
        BY <1>1, FirstPreceding, Device11Assumption DEF F11!DeviceOK
    <2> QED BY <2>1, <2>2
<1>5. P11' = P11 /\ AskedBefore(1)' = AskedBefore(1) /\ Preceding(1)' = 1
    BY <1>1, SamePresent, FirstPreceding
<1>6. CASE life11' = "sensor" /\ asked' = {0} /\ sens_query' = [sens_query EXCEPT ![0] = device11.query[0]]
    <2>1. sens_query' = [r \in F11!QueryReg |-> IF r \in asked' THEN device11.query[r] ELSE {}]
        BY <1>2, <1>3, <1>6 DEF QueriesSeen
    <2>2. QueriesSeen'
        BY <1>1, <1>3, <1>5, <1>6, <2>1 DEF QueriesSeen
    <2>3. QueriesStage'
        BY <1>1, <1>2, <1>3, <1>5, <1>6 DEF QueriesStage, Reached
    <2> QED BY <1>1, <1>6, <2>2, <2>3 DEF QueriesInv, Reached
<1>7. CASE life11' = "failed" /\ UNCHANGED <<sens_query, asked>>
    <2>1. QueriesSeen'
        BY <1>1, <1>2, <1>5, <1>7 DEF QueriesSeen
    <2>2. QueriesStage'
        BY <1>1, <1>2, <1>7 DEF QueriesStage, Reached
    <2> QED BY <1>1, <1>7, <2>1, <2>2 DEF QueriesInv
<1> QED BY <1>4, <1>6, <1>7 DEF F11!ReadDeviceQuery

(* After the queries nothing of them changes.                              *)
Attached == {"control", "write", "ready", "configured"}

LEMMA LaterKeeps ==
    ASSUME QueriesInv, UNCHANGED <<device11, query_size, sens_query, asked>>,
           life11 \in {"limits", "construct"} \cup Attached,
           life11' \in {"construct", "failed"} \cup Attached
    PROVE  QueriesInv'
<1>1. QueriesSeen'
    BY DEF QueriesInv, QueriesSeen, P11
<1>2. asked = AskedBefore(37)
    BY DEF QueriesInv, QueriesStage, Reached, Attached
<1>3. asked' = AskedBefore(37)'
    BY <1>2 DEF AskedBefore, P11
<1>4. QueriesStage'
    BY <1>3 DEF QueriesInv, QueriesStage, Reached, Attached
<1> QED BY <1>1, <1>4 DEF QueriesInv, Reached, Attached

(* The driver's copy of the control registers, and the touchpad's.         *)
ControlsInv ==
    /\ devControls \in {device11.control, device11.control \ F11!Off(sens_query)}
    /\ life11 \notin {"ready", "configured"} => devControls = device11.control
    /\ dev_controls \subseteq F11!CtrlBit
    /\ life11 \in {"write", "ready", "configured"} =>
          dev_controls = device11.control \ F11!Off(sens_query)

(* The layout of a packet, and the fingers of a report.                    *)
PacketInv ==
    /\ life11 \in {"construct"} \cup Attached => F11!Told(F11!HAS_ABS)
    /\ nbr_fingers \in 0 .. 10 /\ pkt_size11 \in Nat
    /\ life11 \in Attached =>
          /\ nbr_fingers = F11!Fingers(sens_query)
          /\ pkt_size11 = F11!DIV_ROUND_UP(nbr_fingers, 4) + 5 * nbr_fingers + F11!Trailing(sens_query)
    /\ objects \in {0, nbr_fingers}
    /\ objects # 0 => life11 \in {"ready", "configured"}
    /\ trackpadEnable \in BOOLEAN

F11Inv == QueriesInv /\ ControlsInv /\ PacketInv

LEMMA Numbers ==
    ASSUME NEW q
    PROVE  /\ \A bits, w : F11!Number(bits, w) \in 0 .. 31
           /\ F11!Fingers(q) \in 1 .. 10
           /\ F11!Trailing(q) \in Nat
<1>1. \A bits, w : F11!Number(bits, w) \in 0 .. 31
    BY DEF F11!Number
<1>2. F11!Number(q[1], 3) \in 0 .. 7
    BY DEF F11!Number
<1>3. F11!Fingers(q) \in 1 .. 10
    BY <1>2 DEF F11!Fingers
<1>4. F11!DIV_ROUND_UP(F11!Number(q[10], 5) + 1, 8) \in Nat
    <2>1. PICK n \in 0 .. 31 : n = F11!Number(q[10], 5)
        BY <1>1
    <2> QED BY <2>1 DEF F11!DIV_ROUND_UP
<1>5. \A c, n : n \in Nat => F11!SizeIf(c, n) \in Nat
    BY DEF F11!SizeIf
<1>6. F11!Trailing(q) \in Nat
    <2> DEFINE a == F11!SizeIf(F11!Has(q, F11!HAS_REL), 2 * F11!Fingers(q))
               e == F11!SizeIf(F11!Has(q, F11!HAS_TOUCH_SHAPES), F11!DIV_ROUND_UP(F11!Number(q[10], 5) + 1, 8))
    <2>1. a \in Nat
        BY <1>3 DEF F11!SizeIf
    <2>2. e \in Nat
        BY <1>4 DEF F11!SizeIf
    <2> HIDE DEF a, e
    <2>3. F11!Trailing(q) =
            a + F11!SizeIf(q[7] # {}, 1)
              + F11!SizeIf(q[7] # {} \/ q[8] # {}, 1)
              + (IF F11!Has(q, F11!HAS_PINCH) \/ F11!Has(q, F11!HAS_FLICK) \/ F11!Has(q, F11!HAS_ROTATE)
                 THEN 1 + F11!SizeIf(F11!Has(q, F11!HAS_FLICK), 1) + F11!SizeIf(F11!Has(q, F11!HAS_ROTATE), 1)
                 ELSE 0)
              + e
        BY DEF F11!Trailing, a, e
    <2> QED BY <2>1, <2>2, <2>3 DEF F11!SizeIf
<1> QED BY <1>1, <1>3, <1>6

(* While attach() reads queries nothing else changes.                      *)
LEMMA QueriesKeep ==
    ASSUME QueriesInv, F11!ReadQueries
    PROVE  /\ QueriesInv'
           /\ UNCHANGED <<device11, devControls, nbr_fingers, pkt_size11, dev_controls, trackpadEnable, objects>>
           /\ life11 \notin {"construct"} \cup Attached /\ life11' \notin {"construct"} \cup Attached
<1>1. QueriesInv'
    BY DeviceQueryKeeps, SensorKeeps, AbsKeeps, RelKeeps, GesturesKeeps, PenKeeps, ShapesKeeps, TuningKeeps,
       Tuning2Keeps, JitterKeeps, MiscKeeps, SizeKeeps, SkipKeeps, Query28Keeps, Query36Keeps DEF F11!ReadQueries
<1>2. UNCHANGED F11!rest
    BY DEF F11!ReadQueries, F11!ReadDeviceQuery, F11!ReadSensorQuery, F11!ReadAbs, F11!ReadRel, F11!ReadGestures,
       F11!ReadPen, F11!ReadShapes, F11!ReadTuning, F11!ReadTuning2, F11!ReadJitter, F11!ReadMisc, F11!ReadSize,
       F11!SkipQuery27, F11!ReadQuery28, F11!ReadQuery36, F11!Query
<1>3. life11 \notin {"construct"} \cup Attached /\ life11' \notin {"construct"} \cup Attached
    BY DEF F11!ReadQueries, F11!ReadDeviceQuery, F11!ReadSensorQuery, F11!ReadAbs, F11!ReadRel, F11!ReadGestures,
       F11!ReadPen, F11!ReadShapes, F11!ReadTuning, F11!ReadTuning2, F11!ReadJitter, F11!ReadMisc, F11!ReadSize,
       F11!SkipQuery27, F11!ReadQuery28, F11!ReadQuery36, F11!Query, Attached
<1> QED BY <1>1, <1>2, <1>3 DEF F11!rest, F11!packetVars

LEMMA F11Initially == F11!Init => F11Inv
<1> SUFFICES ASSUME F11!Init PROVE F11Inv
    OBVIOUS
<1>1. device11 \in Device11 /\ life11 = "device" /\ query_size = 0 /\ asked = {}
      /\ sens_query = [q \in F11!QueryReg |-> {}] /\ devControls = device11.control /\ dev_controls = {}
    BY DEF F11!Init
<1>2. QueriesSeen
    BY <1>1 DEF QueriesSeen
<1>3. AskedBefore(0) = {}
    <2>1. \A r \in P11 : ~(r < 0)
        BY PresentNumbers
    <2> QED BY <2>1 DEF AskedBefore
<1>4. QueriesStage
    BY <1>1, <1>3 DEF QueriesStage, Reached
<1>5. QueriesInv
    BY <1>1, <1>2, <1>4 DEF QueriesInv, Reached
<1>6. ControlsInv
    BY <1>1 DEF ControlsInv
<1>7. PacketInv
    BY <1>1 DEF F11!Init, PacketInv, Attached
<1> QED BY <1>5, <1>6, <1>7 DEF F11Inv

LEMMA QueriesStepKeeps == F11Inv /\ F11!ReadQueries => F11Inv'
<1> SUFFICES ASSUME F11Inv, F11!ReadQueries PROVE F11Inv'
    OBVIOUS
<1>1. /\ QueriesInv'
      /\ UNCHANGED <<device11, devControls, nbr_fingers, pkt_size11, dev_controls, trackpadEnable, objects>>
      /\ life11 \notin {"construct"} \cup Attached /\ life11' \notin {"construct"} \cup Attached
    BY QueriesKeep DEF F11Inv
<1>2. ControlsInv'
    BY <1>1 DEF F11Inv, ControlsInv, Attached
<1>3. PacketInv'
    BY <1>1 DEF F11Inv, PacketInv, Attached
<1> QED BY <1>1, <1>2, <1>3 DEF F11Inv

LEMMA LimitsKeep == F11Inv /\ F11!ReadLimits => F11Inv'
<1> SUFFICES ASSUME F11Inv, F11!ReadLimits PROVE F11Inv'
    OBVIOUS
<1>1. /\ UNCHANGED <<device11, query_size, sens_query, asked>>
      /\ UNCHANGED <<devControls, nbr_fingers, pkt_size11, dev_controls, trackpadEnable, objects>>
      /\ life11 = "limits" /\ life11' \in {"construct", "failed"}
      /\ life11' = "construct" => F11!Told(F11!HAS_ABS)
    BY DEF F11!ReadLimits, F11!queryVars, F11!rest, F11!packetVars
<1>2. QueriesInv'
    BY <1>1, LaterKeeps DEF F11Inv
<1>3. ControlsInv'
    BY <1>1 DEF F11Inv, ControlsInv
<1>4. F11!Told(F11!HAS_ABS)' <=> F11!Told(F11!HAS_ABS)
    BY <1>1 DEF F11!Told, F11!Has
<1>5. PacketInv'
    BY <1>1, <1>4 DEF F11Inv, PacketInv, Attached
<1> QED BY <1>2, <1>3, <1>5 DEF F11Inv

LEMMA ConstructKeeps == F11Inv /\ F11!ConstructData => F11Inv'
<1> SUFFICES ASSUME F11Inv, F11!ConstructData PROVE F11Inv'
    OBVIOUS
<1>1. /\ UNCHANGED <<device11, query_size, sens_query, asked>>
      /\ UNCHANGED <<devControls, dev_controls, trackpadEnable, objects>>
      /\ life11 = "construct" /\ life11' \in {"control", "failed"}
    BY DEF F11!ConstructData, F11!queryVars
<1>2. QueriesInv'
    BY <1>1, LaterKeeps DEF F11Inv, Attached
<1>3. ControlsInv'
    BY <1>1 DEF F11Inv, ControlsInv
<1>4. F11!Told(F11!HAS_ABS) /\ F11!Told(F11!HAS_ABS)'
    BY <1>1 DEF F11Inv, PacketInv, F11!Told, F11!Has
<1>5. nbr_fingers' = F11!Fingers(sens_query) /\ nbr_fingers' \in 1 .. 10
    BY Numbers DEF F11!ConstructData
<1>6. pkt_size11' = F11!DIV_ROUND_UP(nbr_fingers', 4) + 5 * nbr_fingers' + F11!Trailing(sens_query)
    BY <1>4, <1>5 DEF F11!ConstructData, F11!SizeIf, F11!RMI_F11_ABS_BYTES
<1>7. pkt_size11' \in Nat
    <2>1. PICK n \in 1 .. 10 : n = nbr_fingers'
        BY <1>5
    <2>2. F11!DIV_ROUND_UP(n, 4) \in Nat
        BY DEF F11!DIV_ROUND_UP
    <2>3. PICK t \in Nat : t = F11!Trailing(sens_query)
        BY Numbers
    <2> QED BY <1>6, <2>1, <2>2, <2>3
<1>8. objects' = 0
    BY <1>1 DEF F11Inv, PacketInv
<1>9. sens_query' = sens_query
    BY <1>1
<1>10. PacketInv'
    BY <1>1, <1>4, <1>5, <1>6, <1>7, <1>8, <1>9 DEF F11Inv, PacketInv
<1> QED BY <1>2, <1>3, <1>10 DEF F11Inv

LEMMA ReadControlsKeeps == F11Inv /\ F11!ReadControls => F11Inv'
<1> SUFFICES ASSUME F11Inv, F11!ReadControls PROVE F11Inv'
    OBVIOUS
<1>1. /\ UNCHANGED <<device11, query_size, sens_query, asked>>
      /\ UNCHANGED <<devControls, nbr_fingers, pkt_size11, trackpadEnable, objects>>
      /\ life11 = "control" /\ life11' \in {"write", "failed"}
      /\ \/ life11' = "write" /\ dev_controls' = devControls \ F11!Off(sens_query)
         \/ life11' = "failed" /\ dev_controls' = dev_controls
    BY DEF F11!ReadControls, F11!queryVars, F11!packetVars
<1>2. QueriesInv'
    BY <1>1, LaterKeeps DEF F11Inv, Attached
<1>3. devControls = device11.control /\ device11.control \subseteq F11!CtrlBit
    BY <1>1, Device11Assumption DEF F11Inv, ControlsInv, QueriesInv, F11!DeviceOK
<1>4. F11!Off(sens_query)' = F11!Off(sens_query)
    BY <1>1
<1>5. ControlsInv'
    BY <1>1, <1>3, <1>4 DEF F11Inv, ControlsInv
<1>6. PacketInv'
    BY <1>1 DEF F11Inv, PacketInv, Attached, F11!Told
<1> QED BY <1>2, <1>5, <1>6 DEF F11Inv

LEMMA WriteControlsKeeps == F11Inv /\ F11!WriteControls => F11Inv'
<1> SUFFICES ASSUME F11Inv, F11!WriteControls PROVE F11Inv'
    OBVIOUS
<1>1. /\ UNCHANGED <<device11, query_size, sens_query, asked>>
      /\ UNCHANGED <<dev_controls, nbr_fingers, pkt_size11, trackpadEnable, objects>>
      /\ life11 = "write" /\ life11' = "ready" /\ devControls' \in {dev_controls, devControls}
    BY DEF F11!WriteControls, F11!queryVars, F11!packetVars
<1>2. QueriesInv'
    BY <1>1, LaterKeeps DEF F11Inv, Attached
<1>3. ControlsInv'
    BY <1>1 DEF F11Inv, ControlsInv
<1>4. PacketInv'
    BY <1>1 DEF F11Inv, PacketInv, Attached, F11!Told
<1> QED BY <1>2, <1>3, <1>4 DEF F11Inv

(* Once attached: reports, the keyboard's message, and resets.             *)
LEMMA AttachedKeeps ==
    F11Inv /\ (F11!Config \/ F11!Attention \/ F11!SetTouchStatus \/ F11!DeviceReset) => F11Inv'
<1> SUFFICES ASSUME F11Inv, F11!Config \/ F11!Attention \/ F11!SetTouchStatus \/ F11!DeviceReset PROVE F11Inv'
    OBVIOUS
<1>1. /\ UNCHANGED <<device11, query_size, sens_query, asked>>
      /\ UNCHANGED <<dev_controls, nbr_fingers, pkt_size11>>
      /\ life11 \in {"ready", "configured"} /\ life11' \in {"ready", "configured"}
      /\ devControls' \in {device11.control, devControls}
      /\ objects' \in {objects, nbr_fingers}
      /\ trackpadEnable' = trackpadEnable \/ trackpadEnable' = ~trackpadEnable
    BY DEF F11!Config, F11!Attention, F11!SetTouchStatus, F11!DeviceReset, F11!queryVars, F11!packetVars
<1>2. QueriesInv'
    BY <1>1, LaterKeeps DEF F11Inv, Attached
<1>3. ControlsInv'
    BY <1>1 DEF F11Inv, ControlsInv
<1>4. trackpadEnable' \in BOOLEAN
    BY <1>1 DEF F11Inv, PacketInv
<1>5. PacketInv'
    BY <1>1, <1>4 DEF F11Inv, PacketInv, Attached, F11!Told
<1> QED BY <1>2, <1>3, <1>5 DEF F11Inv

LEMMA F11Keeps == F11Inv /\ F11!Next => F11Inv'
<1> QED BY QueriesStepKeeps, LimitsKeep, ConstructKeeps, ReadControlsKeeps, WriteControlsKeeps, AttachedKeeps DEF F11!Next

(* The other functions leave F11 as it is; F12 has trackpadEnable too.     *)
LEMMA OthersKeepF11 ==
    F11Inv /\ UNCHANGED f11Vars /\ (trackpadEnable' = trackpadEnable \/ trackpadEnable' = ~trackpadEnable)
        => F11Inv'
<1> SUFFICES ASSUME F11Inv, UNCHANGED f11Vars,
                    trackpadEnable' = trackpadEnable \/ trackpadEnable' = ~trackpadEnable
             PROVE  F11Inv'
    OBVIOUS
<1>1. UNCHANGED <<device11, devControls, life11, query_size, sens_query, asked, nbr_fingers, pkt_size11,
                  dev_controls, objects>>
    BY DEF f11Vars
<1>2. QueriesInv'
    BY <1>1 DEF F11Inv, QueriesInv, QueriesSeen, QueriesStage, P11, AskedBefore, Preceding
<1>3. ControlsInv'
    BY <1>1 DEF F11Inv, ControlsInv
<1>4. trackpadEnable' \in BOOLEAN
    BY DEF F11Inv, PacketInv
<1>5. PacketInv'
    BY <1>1, <1>4 DEF F11Inv, PacketInv, F11!Told
<1> QED BY <1>2, <1>3, <1>5 DEF F11Inv

LEMMA TrackpadSteps == F12Step => trackpadEnable' = trackpadEnable \/ trackpadEnable' = ~trackpadEnable
<1> QED BY DEF F12Step, Next, ReadGeneral, ReadGeneralError, ReadDescriptor, ReadDescriptorError, AllocatePacket,
                ReadTuning, ReadTuningError, Layout, Config, ConfigPanics, Attention, SetTouchStatus

LEMMA F11InvStep == F11Inv /\ [FunctionNext]_functionVars => F11Inv'
<1> SUFFICES ASSUME F11Inv, [FunctionNext]_functionVars PROVE F11Inv'
    OBVIOUS
<1>1. CASE F11Step
    BY <1>1, F11Keeps DEF F11Step
<1>2. CASE F12Step
    BY <1>2, OthersKeepF11, TrackpadSteps DEF F12Step
<1>3. CASE ButtonStep
    BY <1>3, OthersKeepF11 DEF ButtonStep
<1>4. CASE UNCHANGED functionVars
    BY <1>4, OthersKeepF11 DEF functionVars
<1> QED BY <1>1, <1>2, <1>3, <1>4 DEF FunctionNext

LEMMA F11Always == FunctionSpec => []F11Inv
<1>1. FunctionInit => F11Inv
    BY F11Initially DEF FunctionInit
<1> QED BY <1>1, F11InvStep, PTL DEF FunctionSpec

(* F11's attach() takes no query register for another one, whichever of    *)
(* them the touchpad announces: the cursor is never one off.               *)
THEOREM F11QueriesAreExact == FunctionSpec => []F11QueriesExact
<1>1. F11Inv => F11QueriesExact
    <2>1. P11 \subseteq F11!QueryReg
        BY PresentMembers DEF P11, F11!QueryReg
    <2> QED BY <2>1 DEF F11Inv, QueriesInv, QueriesSeen, P11, F11QueriesExact, F11!QueriesExact
<1> QED BY <1>1, F11Always, PTL

(* F11's part of ReportsWhole: the fingers of a report are those that the  *)
(* touchpad can tell apart, and its packet is read whole.                  *)
THEOREM F11ReportsAreWhole == FunctionSpec => []F11!ObjectsWhole
<1>1. F11Inv => F11!ObjectsWhole
    <2> SUFFICES ASSUME F11Inv, objects # 0 PROVE F11!ObjectsWhole
        BY DEF F11!ObjectsWhole
    <2> DEFINE seen == [r \in F11!QueryReg |-> IF r \in P11 THEN device11.query[r] ELSE {}]
    <2>1. /\ life11 \in Attached /\ objects = F11!Fingers(sens_query)
          /\ pkt_size11 = F11!DIV_ROUND_UP(objects, 4) + 5 * objects + F11!Trailing(sens_query)
        BY DEF F11Inv, PacketInv, Attached
    <2>2. asked = AskedBefore(37) /\ QueriesSeen
        BY <2>1 DEF F11Inv, QueriesInv, QueriesStage, Reached, Attached
    <2>3. \A r \in P11 : r < 37
        BY PresentNumbers
    <2>4. \A r \in F11!QueryReg \ Unread : sens_query[r] = seen[r]
        BY <2>2, <2>3 DEF QueriesSeen, AskedBefore
    <2>5. /\ 1 \in P11 /\ {1, 7, 8, 10} \subseteq F11!QueryReg \ Unread
        BY PresentMembers DEF P11, F11!QueryReg, Unread
    <2>6. /\ sens_query[1] = device11.query[1] /\ seen[1] = device11.query[1]
          /\ sens_query[7] = seen[7] /\ sens_query[8] = seen[8] /\ sens_query[10] = seen[10]
        BY <2>4, <2>5
    <2> HIDE DEF seen
    <2>7. F11!Fingers(sens_query) = F11!Fingers(device11.query) /\ F11!Fingers(seen) = F11!Fingers(device11.query)
        BY <2>6 DEF F11!Fingers
    <2>8. F11!Trailing(sens_query) = F11!Trailing(seen)
        BY <2>6, <2>7 DEF F11!Trailing, F11!Has, F11!HAS_REL, F11!HAS_PINCH, F11!HAS_FLICK, F11!HAS_ROTATE,
                          F11!HAS_TOUCH_SHAPES
    <2>9. PICK n \in 1 .. 10 : n = F11!Fingers(device11.query)
        BY Numbers
    <2>10. PICK t \in Nat : t = F11!Trailing(seen)
        BY Numbers
    <2>11. F11!DIV_ROUND_UP(n, 4) \in Nat
        BY DEF F11!DIV_ROUND_UP
    <2>12. /\ pkt_size11 = F11!DIV_ROUND_UP(n, 4) + 5 * n + t
           /\ F11!DIV_ROUND_UP(n, 4) + 5 * n <= pkt_size11
        BY <2>1, <2>7, <2>8, <2>9, <2>10, <2>11
    <2>13. objects = IF F11!Number(device11.query[1], 3) = 5 THEN 10 ELSE F11!Number(device11.query[1], 3) + 1
        BY <2>1, <2>7 DEF F11!Fingers
    <2> QED BY <2>9, <2>10, <2>12, <2>13 DEF F11!ObjectsWhole, F11!RMI_F11_ABS_BYTES, P11, seen
<1> QED BY <1>1, F11Always, PTL

LEMMA F11Kept == F11Inv => F11!ControlsKept
<1> SUFFICES ASSUME F11Inv PROVE F11!ControlsKept
    OBVIOUS
<1>1. /\ devControls \subseteq device11.control
      /\ device11.control \ devControls \subseteq F11!Off(sens_query)
    BY DEF F11Inv, ControlsInv
<1>2. ASSUME NEW f, f[1] \in F11!QueryReg, F11!Has(sens_query, f)
      PROVE  f[1] \in P11 /\ F11!Has(device11.query, f)
    BY <1>2, ToldAsked DEF F11Inv, QueriesInv, QueriesSeen, F11!Told
<1>3. 5 \in F11!QueryReg /\ 8 \in F11!QueryReg /\ F11!HAS_DRIBBLE[1] = 5 /\ F11!HAS_PALM_DET[1] = 8
    BY DEF F11!QueryReg, F11!HAS_DRIBBLE, F11!HAS_PALM_DET
<1>4. /\ F11!Has(sens_query, F11!HAS_DRIBBLE) => 5 \in P11 /\ F11!Has(device11.query, F11!HAS_DRIBBLE)
      /\ F11!Has(sens_query, F11!HAS_PALM_DET) => 8 \in P11 /\ F11!Has(device11.query, F11!HAS_PALM_DET)
    BY <1>2, <1>3
<1>5. F11!DRIBBLE # F11!PALM_DET
    BY DEF F11!DRIBBLE, F11!PALM_DET
<1> QED BY <1>1, <1>4, <1>5 DEF F11!ControlsKept, F11!Off, P11

(* The objects of an F11 fit into their array, and its state has its type. *)
LEMMA F11Typed == F11Inv => F11!TypeOK
<1> SUFFICES ASSUME F11Inv PROVE F11!TypeOK
    OBVIOUS
<1>1. device11.control \subseteq F11!CtrlBit /\ device11.query \in [F11!QueryReg -> SUBSET F11!Bit]
    BY Device11Assumption DEF F11Inv, QueriesInv, F11!DeviceOK
<1>2. devControls \subseteq F11!CtrlBit /\ dev_controls \subseteq F11!CtrlBit
    BY <1>1 DEF F11Inv, ControlsInv
<1>3. sens_query \in [F11!QueryReg -> SUBSET F11!Bit]
    BY <1>1 DEF F11Inv, QueriesInv, QueriesSeen
<1>4. asked \subseteq F11!QueryReg /\ query_size \in 0 .. 36
    BY PresentMembers DEF F11Inv, QueriesInv, QueriesSeen, QueriesStage, P11, F11!QueryReg
<1>5. life11 \in DOMAIN Reached \cup {"failed"}
    BY DEF F11Inv, QueriesInv
<1>6. nbr_fingers \in 0 .. 10 /\ pkt_size11 \in Nat /\ objects \in {0, nbr_fingers} /\ trackpadEnable \in BOOLEAN
    BY DEF F11Inv, PacketInv
<1>7. nbr_fingers \in Nat /\ objects \in 0 .. 10
    BY <1>6
<1> QED BY <1>2, <1>3, <1>4, <1>5, <1>6, <1>7 DEF F11!TypeOK, Reached, F11!MAX_FINGERS

-----------------------------------------------------------------------------
(* The fields of a buttons' function say what its touchpad has.            *)
Learnt ==
    /\ has = deviceButtons.has
    /\ gpioled_count = deviceButtons.count
    /\ register_count = Buttons!DIV_ROUND_UP(deviceButtons.count, 8)

(* How many control registers come before a block.                         *)
PrecedingBlock(b) == Cardinality({r \in Buttons!Own : r[1] < b})

LEMMA ButtonDevice ==
    ASSUME deviceButtons \in DeviceButtons
    PROVE  /\ deviceButtons.function \in {"F30", "F3A"}
           /\ deviceButtons.has \subseteq Buttons!Flag
           /\ deviceButtons.function = "F3A" => deviceButtons.has = {"gpio"}
           /\ deviceButtons.count \in 0 .. 127
           /\ deviceButtons.function = "F30" => deviceButtons.count <= 31
           /\ deviceButtons.present \subseteq 0 .. deviceButtons.count - 1
           /\ deviceButtons.maxInput \in Nat \ 1 .. 16
<1> QED BY DeviceButtonsAssumption DEF Buttons!DeviceOK

(* A bit for each pin takes a register for every eight that are begun.     *)
LEMMA GroupsExact ==
    ASSUME deviceButtons \in DeviceButtons
    PROVE  /\ Buttons!DIV_ROUND_UP(deviceButtons.count, 8) \in 0 .. 16
           /\ deviceButtons.count <= 31 => Buttons!DIV_ROUND_UP(deviceButtons.count, 8) <= 4
           /\ Buttons!Groups = 0 .. Buttons!DIV_ROUND_UP(deviceButtons.count, 8) - 1
<1>1. PICK n \in 0 .. 127 : n = deviceButtons.count
    BY ButtonDevice
<1>2. Buttons!DIV_ROUND_UP(n, 8) \in 0 .. 16 /\ (n <= 31 => Buttons!DIV_ROUND_UP(n, 8) <= 4)
    BY DEF Buttons!DIV_ROUND_UP
<1>3. ASSUME NEW i \in 0 .. n - 1 PROVE i \div 8 \in 0 .. Buttons!DIV_ROUND_UP(n, 8) - 1
    BY DEF Buttons!DIV_ROUND_UP
<1>4. ASSUME NEW k \in 0 .. Buttons!DIV_ROUND_UP(n, 8) - 1 PROVE 8 * k \in 0 .. n - 1 /\ (8 * k) \div 8 = k
    BY DEF Buttons!DIV_ROUND_UP
<1>5. Buttons!Groups = 0 .. Buttons!DIV_ROUND_UP(n, 8) - 1
    BY <1>1, <1>3, <1>4 DEF Buttons!Groups, Buttons!Pins
<1> QED BY <1>1, <1>2, <1>5

(* rmi_f30_calc_ctrl_data takes every block to be as long as it is.        *)
LEMMA LengthsExact ==
    ASSUME deviceButtons \in DeviceButtons, Learnt
    PROVE  \A b \in 0 .. 10 : Buttons!ctrl[b] \in Nat /\ Buttons!RegistersOf(b) = 0 .. Buttons!ctrl[b] - 1
<1>1. /\ register_count \in 0 .. 16 /\ Buttons!Groups = 0 .. register_count - 1
      /\ gpioled_count \in 0 .. 127 /\ Buttons!Pins = 0 .. gpioled_count - 1
    BY GroupsExact, ButtonDevice DEF Learnt, Buttons!Pins
<1>2. /\ 0 .. 0 - 1 = {} /\ 0 .. 1 - 1 = {0} /\ 0 .. 2 - 1 = 0 .. 1 /\ 0 .. 6 - 1 = 0 .. 5
      /\ 0 .. 5 = (0 .. 1) \cup (2 .. 5)
    OBVIOUS
<1> SUFFICES ASSUME NEW b \in 0 .. 10
             PROVE  Buttons!ctrl[b] \in Nat /\ Buttons!RegistersOf(b) = 0 .. Buttons!ctrl[b] - 1
    OBVIOUS
<1>3. CASE deviceButtons.function = "F3A"
    <2>1. Buttons!ctrl[b] = IF b = 0 THEN 1 ELSE IF b = 1 THEN register_count ELSE 0
        BY <1>3 DEF Buttons!ctrl, Buttons!Block
    <2>2. Buttons!RegistersOf(b) = IF b = 0 THEN {0} ELSE IF b = 1 THEN Buttons!Groups ELSE {}
        BY <1>3 DEF Buttons!RegistersOf
    <2>3. CASE b = 0
        BY <1>2, <2>1, <2>2, <2>3
    <2>4. CASE b = 1
        BY <1>1, <2>1, <2>2, <2>4
    <2>5. CASE b > 1
        BY <1>2, <2>1, <2>2, <2>5
    <2> QED BY <2>3, <2>4, <2>5
<1>4. CASE deviceButtons.function = "F30"
    <2> DEFINE Has(flags) == flags \subseteq deviceButtons.has
               Of(flags, n) == IF Has(flags) THEN n ELSE 0
    <2>1. CASE b = 0
        <3>1. Buttons!ctrl[b] = Of({"led", "gpio"}, register_count)
            BY <1>4, <2>1 DEF Buttons!ctrl, Buttons!Block, Buttons!If, Buttons!LedLength, Learnt
        <3>2. Buttons!RegistersOf(b) = IF Has({"led", "gpio"}) THEN Buttons!Groups ELSE {}
            BY <1>2, <1>4, <2>1 DEF Buttons!RegistersOf
        <3> QED BY <1>1, <1>2, <3>1, <3>2
    <2>2. CASE b = 1
        <3>1. Buttons!ctrl[b] = 1
            BY <1>4, <2>2 DEF Buttons!ctrl, Buttons!Block, Buttons!If, Learnt
        <3>2. Buttons!RegistersOf(b) = {0}
            BY <1>2, <1>4, <2>2 DEF Buttons!RegistersOf
        <3> QED BY <1>1, <1>2, <3>1, <3>2
    <2>3. CASE b \in {2, 3}
        <3>1. Buttons!ctrl[b] = Of({"gpio"}, register_count)
            BY <1>4, <2>3 DEF Buttons!ctrl, Buttons!Block, Buttons!If, Learnt
        <3>2. Buttons!RegistersOf(b) = IF Has({"gpio"}) THEN Buttons!Groups ELSE {}
            BY <1>2, <1>4, <2>3 DEF Buttons!RegistersOf
        <3> QED BY <1>1, <1>2, <3>1, <3>2
    <2>4. CASE b = 4
        <3>1. Buttons!ctrl[b] = Of({"led"}, register_count)
            BY <1>4, <2>4 DEF Buttons!ctrl, Buttons!Block, Buttons!If, Learnt
        <3>2. Buttons!RegistersOf(b) = IF Has({"led"}) THEN Buttons!Groups ELSE {}
            BY <1>2, <1>4, <2>4 DEF Buttons!RegistersOf
        <3> QED BY <1>1, <1>2, <3>1, <3>2
    <2>5. CASE b = 5
        <3>1. Buttons!ctrl[b] = IF Has({"led"}) THEN IF Has({"led", "extended_pattern"}) THEN 6 ELSE 2 ELSE 0
            BY <1>4, <2>5 DEF Buttons!ctrl, Buttons!Block, Buttons!If, Learnt
        <3>2. Buttons!RegistersOf(b) = IF Has({"led"}) THEN IF Has({"led", "extended_pattern"}) THEN 0 .. 5 ELSE 0 .. 1 ELSE {}
            BY <1>2, <1>4, <2>5 DEF Buttons!RegistersOf
        <3> HIDE DEF Has
        <3>3. CASE ~Has({"led"})
            BY <1>2, <3>1, <3>2, <3>3
        <3>4. CASE Has({"led"}) /\ ~Has({"led", "extended_pattern"})
            BY <1>2, <3>1, <3>2, <3>4
        <3>5. CASE Has({"led"}) /\ Has({"led", "extended_pattern"})
            BY <1>2, <3>1, <3>2, <3>5
        <3> QED BY <3>3, <3>4, <3>5
    <2>6. CASE b = 6
        <3>1. Buttons!ctrl[b] = IF Has({"led"}) \/ Has({"gpio_driver_control"}) THEN gpioled_count ELSE 0
            BY <1>4, <2>6 DEF Buttons!ctrl, Buttons!Block, Buttons!If, Learnt
        <3>2. Buttons!RegistersOf(b) = IF Has({"led"}) \/ Has({"gpio_driver_control"}) THEN Buttons!Pins ELSE {}
            BY <1>2, <1>4, <2>6 DEF Buttons!RegistersOf
        <3> QED BY <1>1, <1>2, <3>1, <3>2
    <2>7. CASE b = 7
        <3>1. Buttons!ctrl[b] = Of({"mappable_buttons"}, gpioled_count)
            BY <1>4, <2>7 DEF Buttons!ctrl, Buttons!Block, Buttons!If, Learnt
        <3>2. Buttons!RegistersOf(b) = IF Has({"mappable_buttons"}) THEN Buttons!Pins ELSE {}
            BY <1>2, <1>4, <2>7 DEF Buttons!RegistersOf
        <3> QED BY <1>1, <1>2, <3>1, <3>2
    <2>8. CASE b = 8
        <3>1. Buttons!ctrl[b] = Of({"haptic"}, register_count)
            BY <1>4, <2>8 DEF Buttons!ctrl, Buttons!Block, Buttons!If, Learnt
        <3>2. Buttons!RegistersOf(b) = IF Has({"haptic"}) THEN Buttons!Groups ELSE {}
            BY <1>2, <1>4, <2>8 DEF Buttons!RegistersOf
        <3> QED BY <1>1, <1>2, <3>1, <3>2
    <2>9. CASE b = 9
        <3>1. Buttons!ctrl[b] = Of({"haptic"}, 1)
            BY <1>4, <2>9 DEF Buttons!ctrl, Buttons!Block, Buttons!If, Learnt
        <3>2. Buttons!RegistersOf(b) = IF Has({"haptic"}) THEN {0} ELSE {}
            BY <1>2, <1>4, <2>9 DEF Buttons!RegistersOf
        <3>3. CASE Has({"haptic"})
            BY <1>2, <3>1, <3>2, <3>3
        <3>4. CASE ~Has({"haptic"})
            BY <1>2, <3>1, <3>2, <3>4
        <3> QED BY <3>3, <3>4
    <2>10. CASE b = 10
        <3>1. Buttons!ctrl[b] = Of({"mech_mouse_btns"}, 1)
            BY <1>4, <2>10 DEF Buttons!ctrl, Buttons!Block, Buttons!If, Learnt
        <3>2. Buttons!RegistersOf(b) = IF Has({"mech_mouse_btns"}) THEN {0} ELSE {}
            BY <1>2, <1>4, <2>10 DEF Buttons!RegistersOf
        <3>3. CASE Has({"mech_mouse_btns"})
            BY <1>2, <3>1, <3>2, <3>3
        <3>4. CASE ~Has({"mech_mouse_btns"})
            BY <1>2, <3>1, <3>2, <3>4
        <3> QED BY <3>3, <3>4
    <2> QED BY <2>1, <2>2, <2>3, <2>4, <2>5, <2>6, <2>7, <2>8, <2>9, <2>10
<1> QED BY <1>3, <1>4, ButtonDevice

(* There are not more control registers than the model has addresses, and  *)
(* the ones that tell of pins are among the first.                         *)
LEMMA LengthsBound ==
    ASSUME deviceButtons \in DeviceButtons, Learnt
    PROVE  /\ Buttons!ctrl_regs_size \in 1 .. 99
           /\ deviceButtons.function = "F30" => Buttons!Offset(2) <= 5 /\ Buttons!Offset(3) <= 9
           /\ deviceButtons.function = "F3A" => Buttons!Offset(1) = 1
<1>1. /\ register_count \in 0 .. 16 /\ gpioled_count \in 0 .. 127
      /\ deviceButtons.function = "F30" => register_count <= 4 /\ gpioled_count <= 31
    BY GroupsExact, ButtonDevice DEF Learnt
<1>2. CASE deviceButtons.function = "F3A"
    <2>1. /\ Buttons!ctrl[0] = 1 /\ Buttons!ctrl[1] = register_count
          /\ \A b \in 2 .. 10 : Buttons!ctrl[b] = 0
        BY <1>2 DEF Buttons!ctrl, Buttons!Block
    <2> QED BY <1>1, <1>2, <2>1 DEF Buttons!Offset, Buttons!ctrl_regs_size
<1>3. CASE deviceButtons.function = "F30"
    <2>1. Buttons!ctrl[0] \in 0 .. 4
        BY <1>1, <1>3 DEF Buttons!ctrl, Buttons!Block, Buttons!If, Buttons!LedLength
    <2>2. Buttons!ctrl[1] = 1
        BY <1>3 DEF Buttons!ctrl, Buttons!Block
    <2>3. Buttons!ctrl[2] \in 0 .. 4 /\ Buttons!ctrl[3] \in 0 .. 4
        BY <1>1, <1>3 DEF Buttons!ctrl, Buttons!Block, Buttons!If
    <2>4. Buttons!ctrl[4] \in 0 .. 4 /\ Buttons!ctrl[8] \in 0 .. 4
        BY <1>1, <1>3 DEF Buttons!ctrl, Buttons!Block, Buttons!If
    <2>5. Buttons!ctrl[5] \in 0 .. 6
        BY <1>1, <1>3 DEF Buttons!ctrl, Buttons!Block, Buttons!If
    <2>6. Buttons!ctrl[6] \in 0 .. 31 /\ Buttons!ctrl[7] \in 0 .. 31
        BY <1>1, <1>3 DEF Buttons!ctrl, Buttons!Block, Buttons!If
    <2>7. Buttons!ctrl[9] \in 0 .. 1 /\ Buttons!ctrl[10] \in 0 .. 1
        BY <1>1, <1>3 DEF Buttons!ctrl, Buttons!Block, Buttons!If
    <2> QED BY <1>3, <2>1, <2>2, <2>3, <2>4, <2>5, <2>6, <2>7 DEF Buttons!Offset, Buttons!ctrl_regs_size
<1> QED BY <1>2, <1>3, ButtonDevice

(* Where the driver takes a block to begin is after the ones before it.    *)
LEMMA OffsetNext ==
    ASSUME deviceButtons \in DeviceButtons, Learnt, NEW b \in 0 .. 10
    PROVE  /\ Buttons!Offset(0) = 0
           /\ Buttons!Offset(b) \in Nat
           /\ Buttons!Offset(b + 1) = Buttons!Offset(b) + Buttons!ctrl[b]
<1>1. \A i \in 0 .. 10 : Buttons!ctrl[i] \in Nat
    BY LengthsExact
<1> QED BY <1>1 DEF Buttons!Offset

LEMMA OwnMembers ==
    ASSUME deviceButtons \in DeviceButtons, Learnt
    PROVE  \A r : r \in Buttons!Own <=> \E c \in 0 .. 10 : \E k \in 0 .. Buttons!ctrl[c] - 1 : r = <<c, k>>
<1>1. \A r : r \in Buttons!Own <=> \E c \in 0 .. 10 : \E k \in Buttons!RegistersOf(c) : r = <<c, k>>
    BY DEF Buttons!Own, Buttons!Block
<1>2. \A c \in 0 .. 10 : Buttons!RegistersOf(c) = 0 .. Buttons!ctrl[c] - 1
    BY LengthsExact
<1> QED BY <1>1, <1>2

LEMMA BlockNext ==
    ASSUME deviceButtons \in DeviceButtons, Learnt, NEW b \in 0 .. 10,
           IsFiniteSet({r \in Buttons!Own : r[1] < b})
    PROVE  /\ IsFiniteSet({r \in Buttons!Own : r[1] < b + 1})
           /\ PrecedingBlock(b + 1) = PrecedingBlock(b) + Buttons!ctrl[b]
<1> DEFINE before(c) == {r \in Buttons!Own : r[1] < c}
           block == {b} \X (0 .. Buttons!ctrl[b] - 1)
<1>1. \A r : r \in Buttons!Own <=> \E c \in 0 .. 10 : \E k \in 0 .. Buttons!ctrl[c] - 1 : r = <<c, k>>
    BY OwnMembers
<1>2. before(b + 1) = before(b) \cup block
    BY <1>1
<1>3. before(b) \cap block = {}
    OBVIOUS
<1>4. IsFiniteSet(block) /\ Cardinality(block) = Buttons!ctrl[b]
    <2>1. PICK n \in Int : n = Buttons!ctrl[b] - 1 /\ n + 1 = Buttons!ctrl[b] /\ n + 1 >= 0
        <3>1. Buttons!ctrl[b] \in Nat
            BY LengthsExact
        <3> QED BY <3>1
    <2>2. IsFiniteSet(0 .. n) /\ Cardinality(0 .. n) = n + 1
        <3>1. 0 \in Int /\ 0 <= n + 1
            BY <2>1
        <3> QED BY <3>1, Interval
    <2>3. IsFiniteSet({b}) /\ Cardinality({b}) = 1
        BY FS_Singleton
    <2>4. IsFiniteSet({b} \X (0 .. n)) /\ Cardinality({b} \X (0 .. n)) = 1 * (n + 1)
        BY <2>2, <2>3, FS_Product
    <2> QED BY <2>1, <2>4
<1> HIDE DEF before, block
<1>5. IsFiniteSet(before(b)) /\ Cardinality(before(b)) \in Nat
    BY FS_CardinalityType DEF before
<1>6. IsFiniteSet(before(b) \cup block)
      /\ Cardinality(before(b) \cup block) = Cardinality(before(b)) + Buttons!ctrl[b]
    <2>1. Cardinality(before(b) \cap block) = 0
        BY <1>3, FS_EmptySet
    <2>2. IsFiniteSet(before(b) \cup block)
          /\ Cardinality(before(b) \cup block) =
                Cardinality(before(b)) + Cardinality(block) - Cardinality(before(b) \cap block)
        BY <1>4, <1>5, FS_Union
    <2>3. Buttons!ctrl[b] \in Nat
        BY LengthsExact
    <2> QED BY <1>4, <1>5, <2>1, <2>2, <2>3
<1> QED BY <1>2, <1>6 DEF PrecedingBlock, before

LEMMA OffsetsExact ==
    ASSUME deviceButtons \in DeviceButtons, Learnt
    PROVE  \A b \in 0 .. 11 : /\ IsFiniteSet({r \in Buttons!Own : r[1] < b})
                             /\ PrecedingBlock(b) = Buttons!Offset(b)
<1> DEFINE Good(b) == /\ IsFiniteSet({r \in Buttons!Own : r[1] < b})
                      /\ PrecedingBlock(b) = Buttons!Offset(b)
           S == {n \in Nat : n <= 11 => Good(n)}
<1>1. Good(0)
    <2>1. {r \in Buttons!Own : r[1] < 0} = {}
        BY DEF Buttons!Own, Buttons!Block
    <2> QED BY <2>1, FS_EmptySet, OffsetNext DEF PrecedingBlock
<1>2. ASSUME NEW n \in 0 .. 10, Good(n) PROVE Good(n + 1)
    BY <1>2, BlockNext, OffsetNext
<1> HIDE DEF Good
<1>3. 0 \in S /\ \A n \in Nat : n \in S => n + 1 \in S
    BY <1>1, <1>2
<1>4. Nat \subseteq S
    BY <1>3, SetInduction
<1> QED BY <1>4 DEF Good

LEMMA OwnCounted ==
    ASSUME deviceButtons \in DeviceButtons, Learnt
    PROVE  /\ Buttons!Cardinality(Buttons!Own) = Buttons!ctrl_regs_size
           /\ Buttons!ctrl_regs_size \in 1 .. 99
<1>1. {r \in Buttons!Own : r[1] < 11} = Buttons!Own
    BY DEF Buttons!Own, Buttons!Block
<1>2. PrecedingBlock(11) = Buttons!Offset(11)
    BY OffsetsExact
<1> QED BY <1>1, <1>2, SameCardinality, LengthsBound DEF PrecedingBlock, Buttons!ctrl_regs_size

(* What a control register holds after a reset, at its address: itself.    *)
LEMMA ResetExact ==
    ASSUME deviceButtons \in DeviceButtons, Learnt, NEW b \in 0 .. 10, NEW k \in Buttons!RegistersOf(b)
    PROVE  /\ Buttons!Offset(b) + k \in 0 .. Buttons!ctrl_regs_size - 1
           /\ Buttons!Reset[Buttons!Offset(b) + k] = <<b, k>>
           /\ <<b, k>> \in Buttons!Own
<1> DEFINE Place(r) == Buttons!Offset(r[1]) + r[2]
<1>1. \A c \in 0 .. 10 : /\ Buttons!RegistersOf(c) = 0 .. Buttons!ctrl[c] - 1
                         /\ Buttons!ctrl[c] \in Nat
                         /\ Buttons!Offset(c) \in Nat /\ Buttons!Offset(c + 1) = Buttons!Offset(c) + Buttons!ctrl[c]
    BY LengthsExact, OffsetNext
<1>2. \A c, d \in 0 .. 11 : c <= d => Buttons!Offset(c) <= Buttons!Offset(d)
    <2>1. \A i \in 0 .. 10 : Buttons!ctrl[i] \in Nat
        BY <1>1
    <2> SUFFICES ASSUME NEW c \in 0 .. 11, NEW d \in 0 .. 11, c <= d
                 PROVE  Buttons!Offset(c) <= Buttons!Offset(d)
        OBVIOUS
    <2> DEFINE Before(i, x) == IF i < x THEN Buttons!ctrl[i] ELSE 0
    <2>2. \A i \in 0 .. 10 : Before(i, c) \in Nat /\ Before(i, d) \in Nat /\ Before(i, c) <= Before(i, d)
        BY <2>1
    <2>3. \A x : Buttons!Offset(x) = Before(0, x) + Before(1, x) + Before(2, x) + Before(3, x) + Before(4, x)
                    + Before(5, x) + Before(6, x) + Before(7, x) + Before(8, x) + Before(9, x) + Before(10, x)
        BY DEF Buttons!Offset
    <2> HIDE DEF Before
    <2> QED BY <2>2, <2>3
<1>3. \A r : r \in Buttons!Own <=> \E c \in 0 .. 10 : \E m \in 0 .. Buttons!ctrl[c] - 1 : r = <<c, m>>
    BY OwnMembers
<1>4. <<b, k>> \in Buttons!Own /\ k \in 0 .. Buttons!ctrl[b] - 1
    BY <1>1, <1>3
<1>5. Place(<<b, k>>) \in 0 .. Buttons!ctrl_regs_size - 1
    <2>1. PICK n \in 1 .. 11 : n = b + 1
        OBVIOUS
    <2>2. PICK x \in Nat, y \in Nat, z \in Nat :
            x = Buttons!Offset(b) /\ y = Buttons!ctrl[b] /\ z = Buttons!ctrl_regs_size
        <3>1. Buttons!Offset(b) \in Nat /\ Buttons!ctrl[b] \in Nat
            BY <1>1
        <3>2. Buttons!ctrl_regs_size \in Nat
            BY OwnCounted
        <3> QED BY <3>1, <3>2
    <2>3. Buttons!Offset(n) = x + y
        BY <1>1, <2>1, <2>2
    <2>4. Buttons!Offset(n) <= Buttons!Offset(11)
        BY <1>2
    <2> QED BY <1>4, <2>2, <2>3, <2>4 DEF Buttons!ctrl_regs_size
<1>6. \A r \in Buttons!Own : Place(r) = Place(<<b, k>>) <=> r = <<b, k>>
    <2> SUFFICES ASSUME NEW r \in Buttons!Own, Place(r) = Place(<<b, k>>) PROVE r = <<b, k>>
        OBVIOUS
    <2>1. PICK c \in 0 .. 10 : \E m \in 0 .. Buttons!ctrl[c] - 1 : r = <<c, m>>
        BY <1>3
    <2> PICK m \in 0 .. Buttons!ctrl[c] - 1 : r = <<c, m>>
        BY <2>1
    <2>2. Buttons!Offset(c) + m = Buttons!Offset(b) + k
        OBVIOUS
    <2>3. ASSUME NEW d \in 0 .. 10, NEW e \in 0 .. 10, d < e
          PROVE  Buttons!Offset(d) + Buttons!ctrl[d] <= Buttons!Offset(e)
        <3>1. PICK n \in 0 .. 11 : n = d + 1
            OBVIOUS
        <3>2. Buttons!Offset(n) <= Buttons!Offset(e)
            BY <1>2, <2>3, <3>1
        <3> QED BY <1>1, <3>1, <3>2
    <2>4. /\ Buttons!Offset(b) \in Nat /\ Buttons!ctrl[b] \in Nat /\ k \in 0 .. Buttons!ctrl[b] - 1
          /\ Buttons!Offset(c) \in Nat /\ Buttons!ctrl[c] \in Nat
        BY <1>1, <1>4
    <2>5. ~(c < b)
        <3>1. c < b => Buttons!Offset(c) + Buttons!ctrl[c] <= Buttons!Offset(b)
            BY <2>3
        <3> QED BY <2>2, <2>4, <3>1
    <2>6. ~(b < c)
        <3>1. b < c => Buttons!Offset(b) + Buttons!ctrl[b] <= Buttons!Offset(c)
            BY <2>3
        <3> QED BY <2>2, <2>4, <3>1
    <2>7. c = b
        BY <2>5, <2>6
    <2> QED BY <2>2, <2>4, <2>7
<1>7. \A r \in Buttons!Own : Buttons!Cardinality({s \in Buttons!Own : s[1] < r[1]}) + r[2] = Place(r)
    <2> SUFFICES ASSUME NEW r \in Buttons!Own
                 PROVE  Buttons!Cardinality({s \in Buttons!Own : s[1] < r[1]}) = Buttons!Offset(r[1])
        OBVIOUS
    <2>1. r[1] \in 0 .. 11
        BY <1>3
    <2>2. PrecedingBlock(r[1]) = Buttons!Offset(r[1])
        BY <2>1, OffsetsExact
    <2> QED BY <2>2, SameCardinality DEF PrecedingBlock
<1>8. PICK a : a = Buttons!Offset(b) + k /\ a = Place(<<b, k>>)
    OBVIOUS
<1>9. a \in Buttons!Address /\ ~(a >= Buttons!Cardinality(Buttons!Own))
    BY <1>5, <1>8, OwnCounted DEF Buttons!Address
<1> HIDE DEF Place
<1>10. Buttons!Reset[a] = CHOOSE r \in Buttons!Own : Place(r) = a
    BY <1>7, <1>9 DEF Buttons!Reset
<1>11. Buttons!Reset[a] = <<b, k>>
    BY <1>4, <1>6, <1>8, <1>10
<1> QED BY <1>4, <1>5, <1>8, <1>11

-----------------------------------------------------------------------------
(* What attach() reads of the control registers, and what config() leaves  *)
(* in them.                                                                *)
Seen ==
    [a \in 0 .. Buttons!Cardinality(Buttons!Own) - 1 |->
        IF deviceButtons.maxInput = 0 \/ a < deviceButtons.maxInput THEN Buttons!Reset[a] ELSE Buttons!Zero]

Restored ==
    [a \in Buttons!Address |->
        IF a \in 0 .. Buttons!Cardinality(Buttons!Own) - 1 THEN Seen[a] ELSE Buttons!Reset[a]]

ButtonsInv ==
    /\ deviceButtons \in DeviceButtons
    /\ lifeButtons \in {"query", "control", "map", "ready", "failed"}
    /\ Learnt \/ (has = {"gpio"} /\ gpioled_count = 0 /\ register_count = 0)
    /\ lifeButtons \in {"control", "map", "ready"} => Learnt
    /\ lifeButtons \in {"map", "ready"} => ctrl_regs = Seen
    /\ devControlsButtons \in {Buttons!Reset, Restored}
    /\ lifeButtons # "ready" => devControlsButtons = Buttons!Reset
    /\ buttons \subseteq 0 .. 5
    /\ lifeButtons = "ready" => buttons = deviceButtons.present \cap deviceButtons.inputs \cap 0 .. 5

LEMMA SameReset ==
    ASSUME UNCHANGED deviceButtons
    PROVE  Buttons!Reset' = Buttons!Reset /\ Seen' = Seen /\ Restored' = Restored
<1>1. \A b : Buttons!RegistersOf(b)' = Buttons!RegistersOf(b)
    BY DEF Buttons!RegistersOf, Buttons!Groups, Buttons!Pins
<1>2. Buttons!Own' = Buttons!Own
    BY <1>1 DEF Buttons!Own
<1>3. Buttons!Reset' = Buttons!Reset
    BY <1>2 DEF Buttons!Reset
<1>4. Seen' = Seen
    BY <1>2, <1>3 DEF Seen
<1> QED BY <1>2, <1>3, <1>4 DEF Restored

LEMMA ButtonsInitially == Buttons!Init => ButtonsInv
<1> QED BY DEF Buttons!Init, ButtonsInv

LEMMA ButtonQueriesKeep == ButtonsInv /\ Buttons!ReadQueries => ButtonsInv'
<1> SUFFICES ASSUME ButtonsInv, Buttons!ReadQueries PROVE ButtonsInv'
    OBVIOUS
<1>1. UNCHANGED <<deviceButtons, devControlsButtons, ctrl_regs, buttons>> /\ Learnt'
      /\ lifeButtons = "query" /\ lifeButtons' = "control"
    BY DEF Buttons!ReadQueries, Learnt, Buttons!DIV_ROUND_UP
<1> QED BY <1>1, SameReset DEF ButtonsInv

LEMMA ButtonErrorKeeps == ButtonsInv /\ Buttons!AttachError => ButtonsInv'
<1> SUFFICES ASSUME ButtonsInv, Buttons!AttachError PROVE ButtonsInv'
    OBVIOUS
<1>1. UNCHANGED <<deviceButtons, devControlsButtons, has, gpioled_count, register_count, ctrl_regs, buttons>>
      /\ lifeButtons \in {"query", "control", "map"} /\ lifeButtons' = "failed"
    BY DEF Buttons!AttachError, Buttons!fieldVars
<1>2. Learnt' <=> Learnt
    BY <1>1 DEF Learnt, Buttons!DIV_ROUND_UP
<1> QED BY <1>1, <1>2, SameReset DEF ButtonsInv

LEMMA ButtonReadKeeps == ButtonsInv /\ Buttons!ReadControls => ButtonsInv'
<1> SUFFICES ASSUME ButtonsInv, Buttons!ReadControls PROVE ButtonsInv'
    OBVIOUS
<1>1. UNCHANGED <<deviceButtons, devControlsButtons, has, gpioled_count, register_count, buttons>>
      /\ lifeButtons = "control" /\ lifeButtons' = "map"
    BY DEF Buttons!ReadControls, Buttons!fieldVars
<1>2. Learnt /\ Learnt'
    BY <1>1 DEF ButtonsInv, Learnt, Buttons!DIV_ROUND_UP
<1>3. ctrl_regs' = Seen
    <2>1. Buttons!Cardinality(Buttons!Own) = Buttons!ctrl_regs_size /\ devControlsButtons = Buttons!Reset
        BY <1>1, <1>2, OwnCounted DEF ButtonsInv
    <2> QED BY <2>1 DEF Buttons!ReadControls, Seen
<1> QED BY <1>1, <1>2, <1>3, SameReset DEF ButtonsInv

(* mapGpios() finds the directions and the buttons where they are.         *)
LEMMA ButtonMapKeeps == ButtonsInv /\ Buttons!MapGpios => ButtonsInv'
<1> SUFFICES ASSUME ButtonsInv, Buttons!MapGpios PROVE ButtonsInv'
    OBVIOUS
<1>1. UNCHANGED <<deviceButtons, devControlsButtons, has, gpioled_count, register_count, ctrl_regs>>
      /\ lifeButtons = "map" /\ lifeButtons' \in {"ready", "failed"}
    BY DEF Buttons!MapGpios, Buttons!fieldVars
<1>2. Learnt /\ Learnt' /\ ctrl_regs = Seen /\ deviceButtons \in DeviceButtons
    BY <1>1 DEF ButtonsInv, Learnt, Buttons!DIV_ROUND_UP
<1>3. ASSUME "gpio" \in has, NEW i \in 0 .. 5, i < deviceButtons.count
      PROVE  Buttons!is_valid_button(i) <=> i \in deviceButtons.present /\ i \in deviceButtons.inputs
    <2>1. i \div 8 = 0 /\ i % 8 = i /\ 8 * 0 + i = i
        OBVIOUS
    <2>2. 0 \in Buttons!Groups
        <3>1. i \in Buttons!Pins
            BY <1>3, <1>2, ButtonDevice DEF Buttons!Pins
        <3> QED BY <2>1, <3>1 DEF Buttons!Groups
    <2>3. ASSUME NEW b \in {1, 2, 3}, 0 \in Buttons!RegistersOf(b), Buttons!Offset(b) < 17
          PROVE  Buttons!PinBit(b, i) <=> Buttons!IsSet(<<b, 0>>, i)
        <3>1. PICK k \in Buttons!RegistersOf(b) : k = 0
            BY <2>3
        <3>2. b \in 0 .. 10 /\ Buttons!Offset(b) \in Nat /\ Buttons!Offset(b) + k = Buttons!Offset(b)
            BY <1>2, <3>1, OffsetNext
        <3>3. /\ Buttons!Offset(b) + k \in 0 .. Buttons!ctrl_regs_size - 1
              /\ Buttons!Reset[Buttons!Offset(b) + k] = <<b, k>>
            BY <1>2, <3>2, ResetExact
        <3>4. deviceButtons.maxInput = 0 \/ Buttons!Offset(b) < deviceButtons.maxInput
            BY <1>2, <2>3, <3>2, ButtonDevice
        <3>5. ctrl_regs[Buttons!Offset(b)] = <<b, 0>>
            BY <1>2, <3>1, <3>2, <3>4, <3>3, OwnCounted DEF Seen
        <3> QED BY <2>1, <3>2, <3>5 DEF Buttons!PinBit
    <2>4. ASSUME NEW b \in {1, 2, 3}, 0 \in Buttons!RegistersOf(b) PROVE <<b, 0>> \in Buttons!Own /\ <<b, 0>> # Buttons!Zero
        BY <2>4 DEF Buttons!Own, Buttons!Block, Buttons!Zero
    <2>5. CASE deviceButtons.function = "F30"
        <3>1. 0 \in Buttons!RegistersOf(2) /\ 0 \in Buttons!RegistersOf(3)
            BY <1>2, <1>3, <2>2, <2>5 DEF Buttons!RegistersOf, Learnt
        <3>2. Buttons!Offset(2) < 17 /\ Buttons!Offset(3) < 17
            BY <1>2, <2>5, LengthsBound, OffsetNext
        <3>3. Buttons!IsSet(<<2, 0>>, i) <=> i \notin deviceButtons.inputs
            BY <2>1, <2>4, <2>5, <3>1 DEF Buttons!IsSet
        <3>4. Buttons!IsSet(<<3, 0>>, i) <=> i \in deviceButtons.present
            BY <2>1, <2>4, <2>5, <3>1 DEF Buttons!IsSet
        <3> QED BY <2>3, <2>5, <3>1, <3>2, <3>3, <3>4 DEF Buttons!is_valid_button
    <2>6. CASE deviceButtons.function = "F3A"
        <3>1. 0 \in Buttons!RegistersOf(1)
            BY <2>2, <2>6 DEF Buttons!RegistersOf
        <3>2. Buttons!Offset(1) < 17
            BY <1>2, <2>6, LengthsBound
        <3>3. Buttons!IsSet(<<1, 0>>, i) <=> i \notin deviceButtons.inputs
            BY <2>1, <2>4, <2>6, <3>1 DEF Buttons!IsSet
        <3> QED BY <2>3, <2>6, <3>1, <3>2, <3>3 DEF Buttons!is_valid_button
    <2> QED BY <1>2, <2>5, <2>6, ButtonDevice
<1>4. CASE "gpio" \in has
    <2>1. PICK n \in 0 .. 127 : n = deviceButtons.count /\ n = gpioled_count
        BY <1>2, ButtonDevice DEF Learnt
    <2>2. buttons' = {i \in 0 .. n - 1 : i < 6 /\ Buttons!is_valid_button(i)}
        BY <1>4, <2>1 DEF Buttons!MapGpios, Buttons!RangeEnd
    <2>3. deviceButtons.present \subseteq 0 .. n - 1
        BY <1>2, <2>1, ButtonDevice
    <2>4. \A i \in 0 .. n - 1 : i < 6 => i \in 0 .. 5 /\ i < deviceButtons.count
        BY <2>1
    <2>5. buttons' = deviceButtons.present \cap deviceButtons.inputs \cap 0 .. 5
        BY <1>3, <1>4, <2>2, <2>3, <2>4
    <2> QED BY <1>1, <1>2, <2>5, SameReset DEF ButtonsInv
<1>5. CASE "gpio" \notin has
    BY <1>1, <1>2, <1>5, SameReset DEF ButtonsInv, Buttons!MapGpios
<1> QED BY <1>4, <1>5

LEMMA ButtonConfigKeeps == ButtonsInv /\ (Buttons!Config \/ Buttons!DeviceReset) => ButtonsInv'
<1> SUFFICES ASSUME ButtonsInv, Buttons!Config \/ Buttons!DeviceReset PROVE ButtonsInv'
    OBVIOUS
<1>1. UNCHANGED <<deviceButtons, lifeButtons, has, gpioled_count, register_count, ctrl_regs, buttons>>
      /\ lifeButtons = "ready"
      /\ devControlsButtons' \in {Buttons!Reset, Buttons!Written, devControlsButtons}
    BY DEF Buttons!Config, Buttons!DeviceReset, Buttons!fieldVars
<1>2. Learnt' <=> Learnt
    BY <1>1 DEF Learnt, Buttons!DIV_ROUND_UP
<1>3. Buttons!Written = Restored
    <2>1. ctrl_regs = Seen /\ devControlsButtons \in {Buttons!Reset, Restored}
        BY <1>1 DEF ButtonsInv
    <2>2. DOMAIN Seen = 0 .. Buttons!Cardinality(Buttons!Own) - 1
        BY DEF Seen
    <2> QED BY <2>1, <2>2 DEF Buttons!Written, Restored
<1> QED BY <1>1, <1>2, <1>3, SameReset DEF ButtonsInv

LEMMA OthersKeepButtons == ButtonsInv /\ UNCHANGED buttonVars => ButtonsInv'
<1> SUFFICES ASSUME ButtonsInv, UNCHANGED buttonVars PROVE ButtonsInv'
    OBVIOUS
<1>1. UNCHANGED <<deviceButtons, devControlsButtons, lifeButtons, has, gpioled_count, register_count, ctrl_regs,
                  buttons>>
    BY DEF buttonVars
<1>2. Learnt' <=> Learnt
    BY <1>1 DEF Learnt, Buttons!DIV_ROUND_UP
<1> QED BY <1>1, <1>2, SameReset DEF ButtonsInv

LEMMA ButtonsInvStep == ButtonsInv /\ [FunctionNext]_functionVars => ButtonsInv'
<1> SUFFICES ASSUME ButtonsInv, [FunctionNext]_functionVars PROVE ButtonsInv'
    OBVIOUS
<1>1. CASE ButtonStep
    BY <1>1, ButtonQueriesKeep, ButtonErrorKeeps, ButtonReadKeeps, ButtonMapKeeps, ButtonConfigKeeps
       DEF ButtonStep, Buttons!Next
<1>2. CASE F11Step \/ F12Step
    BY <1>2, OthersKeepButtons DEF F11Step, F12Step
<1>3. CASE UNCHANGED functionVars
    BY <1>3, OthersKeepButtons DEF functionVars
<1> QED BY <1>1, <1>2, <1>3 DEF FunctionNext

LEMMA ButtonsAlways == FunctionSpec => []ButtonsInv
<1>1. FunctionInit => ButtonsInv
    BY ButtonsInitially DEF FunctionInit
<1> QED BY <1>1, ButtonsInvStep, PTL DEF FunctionSpec

(* F30 and F3A take the touchpad's inputs for buttons and no other pin,    *)
(* whichever blocks of control registers there are before the two that     *)
(* tell.                                                                   *)
THEOREM PinsAreExact == FunctionSpec => []PinsExact
<1>1. ButtonsInv => PinsExact
    BY DEF ButtonsInv, PinsExact, Buttons!PinsExact, Buttons!RangeEnd
<1> QED BY <1>1, ButtonsAlways, PTL

LEMMA ButtonsKept == ButtonsInv => Buttons!ControlsKept
<1> SUFFICES ASSUME ButtonsInv, NEW a \in Buttons!Address, devControlsButtons[a] # Buttons!Reset[a]
             PROVE  /\ deviceButtons.maxInput # 0 /\ a >= deviceButtons.maxInput
                    /\ a < Buttons!Cardinality(Buttons!Own)
                    /\ devControlsButtons[a] = Buttons!Zero
    BY DEF Buttons!ControlsKept
<1>1. devControlsButtons = Restored /\ lifeButtons = "ready" /\ Learnt /\ deviceButtons \in DeviceButtons
    BY DEF ButtonsInv
<1>2. PICK n \in 1 .. 99 : n = Buttons!Cardinality(Buttons!Own)
    BY <1>1, OwnCounted
<1>3. a \in 0 .. n - 1 /\ Seen[a] # Buttons!Reset[a] /\ devControlsButtons[a] = Seen[a]
    BY <1>1, <1>2 DEF Restored
<1>4. ~(deviceButtons.maxInput = 0 \/ a < deviceButtons.maxInput) /\ Seen[a] = Buttons!Zero
    BY <1>2, <1>3 DEF Seen
<1> QED BY <1>1, <1>2, <1>3, <1>4, ButtonDevice

LEMMA ButtonsTyped == ButtonsInv => Buttons!TypeOK
<1> SUFFICES ASSUME ButtonsInv PROVE Buttons!TypeOK
    OBVIOUS
<1>1. DOMAIN devControlsButtons = Buttons!Address
    BY DEF ButtonsInv, Restored, Buttons!Reset
<1>2. has \subseteq Buttons!Flag /\ gpioled_count \in 0 .. 127 /\ register_count \in 0 .. 16
    <2>1. CASE Learnt
        BY <2>1, ButtonDevice, GroupsExact DEF ButtonsInv, Learnt
    <2>2. CASE has = {"gpio"} /\ gpioled_count = 0 /\ register_count = 0
        BY <2>2 DEF Buttons!Flag
    <2> QED BY <2>1, <2>2 DEF ButtonsInv
<1>3. buttons \subseteq 0 .. Buttons!RangeEnd - 1
    BY DEF ButtonsInv, Buttons!RangeEnd
<1> QED BY <1>1, <1>2, <1>3 DEF ButtonsInv, Buttons!TypeOK

-----------------------------------------------------------------------------
(* F11 and the buttons' functions write to all of their control registers, *)
(* but change in them only what they mean to.                              *)
THEOREM ControlsAreKept == FunctionSpec => []ControlsKept
<1>1. F11Inv /\ ButtonsInv => ControlsKept
    BY F11Kept, ButtonsKept DEF ControlsKept
<1> QED BY <1>1, F11Always, ButtonsAlways, PTL

-----------------------------------------------------------------------------
(* The least and the greatest of a set of numbers.                         *)
LEMMA LeastIs ==
    ASSUME NEW T \in SUBSET Nat, NEW m \in T, \A y \in T : m <= y
    PROVE  Min(T) = m
<1>1. Min(T) \in T /\ \A y \in T : Min(T) <= y
    BY DEF Min
<1>2. Min(T) \in Nat /\ m \in Nat
    BY <1>1
<1> QED BY <1>1, <1>2

LEMMA Greatest ==
    ASSUME NEW T \in SUBSET Nat, T # {}, NEW b \in Nat, \A x \in T : x <= b
    PROVE  Max(T) \in T /\ \A y \in T : y <= Max(T)
<1> DEFINE U == {b - x : x \in T}
<1>1. U \in SUBSET Nat /\ U # {}
    <2>1. \A x \in T : b - x \in Nat
        <3> TAKE x \in T
        <3>1. x \in Nat /\ x <= b
            OBVIOUS
        <3> QED BY <3>1
    <2> QED BY <2>1
<1>2. PICK u \in U : \A v \in U : u <= v
    BY <1>1, Least
<1>3. PICK m \in T : u = b - m
    BY <1>2
<1>4. \A y \in T : m >= y
    <2> TAKE y \in T
    <2>1. u <= b - y
        BY <1>2
    <2> QED BY <2>1, <1>3
<1>5. Max(T) \in T /\ \A y \in T : Max(T) >= y
    BY <1>4 DEF Max
<1> QED BY <1>5

(* The place of a number in the order of a set.                            *)
Rank(S, r) == Cardinality({x \in S : x <= r})

LEMMA RankOrder ==
    ASSUME NEW S \in SUBSET Nat, IsFiniteSet(S), NEW q \in S, NEW r \in S
    PROVE  /\ Rank(S, r) \in 1 .. Cardinality(S)
           /\ q < r => Rank(S, q) < Rank(S, r)
           /\ q <= r <=> Rank(S, q) <= Rank(S, r)
<1> DEFINE Upto(x) == {y \in S : y <= x}
<1>0. q \in Nat /\ r \in Nat
    OBVIOUS
<1>1. \A x \in S : IsFiniteSet(Upto(x)) /\ Cardinality(Upto(x)) \in Nat /\ Cardinality(Upto(x)) <= Cardinality(S)
    <2> TAKE x \in S
    <2>1. Upto(x) \subseteq S
        OBVIOUS
    <2> QED BY <2>1, FS_Subset, FS_CardinalityType
<1>2. Cardinality(S) \in Nat
    BY FS_CardinalityType
<1>3. Cardinality(Upto(r)) # 0
    <2>1. r \in Upto(r)
        BY <1>0
    <2> QED BY <2>1, <1>1, FS_EmptySet
<1>4. \A x, y \in S : x < y => Cardinality(Upto(x)) < Cardinality(Upto(y))
    <2> TAKE x, y \in S
    <2> HAVE x < y
    <2>1. x \in Nat /\ y \in Nat
        OBVIOUS
    <2>2. Upto(x) \subseteq Upto(y)
        <3> SUFFICES ASSUME NEW z \in S, z <= x PROVE z <= y
            OBVIOUS
        <3>1. z \in Nat
            OBVIOUS
        <3> QED BY <2>1, <3>1
    <2>4. y \in Upto(y) /\ y \notin Upto(x)
        BY <2>1
    <2>3. Cardinality(Upto(x)) <= Cardinality(Upto(y)) /\ Cardinality(Upto(x)) # Cardinality(Upto(y))
        BY <2>2, <2>4, <1>1, FS_Subset
    <2> QED BY <2>3, <1>1
<1>5. \A x \in S : Rank(S, x) = Cardinality(Upto(x))
    BY DEF Rank
<1> HIDE DEF Upto
<1>6. Rank(S, r) \in Nat /\ Rank(S, q) \in Nat
    BY <1>1, <1>5
<1>7. q < r => Rank(S, q) < Rank(S, r)
    BY <1>4, <1>5
<1>8. r < q => Rank(S, r) < Rank(S, q)
    BY <1>4, <1>5
<1>9. Rank(S, r) \in 1 .. Cardinality(S)
    BY <1>1, <1>2, <1>3, <1>5
<1> QED BY <1>0, <1>6, <1>7, <1>8, <1>9

(* There is a member for every place: the least of those whose place is    *)
(* not before it.                                                          *)
LEMMA SortedMember ==
    ASSUME NEW S \in SUBSET Nat, IsFiniteSet(S), NEW i \in 1 .. Cardinality(S),
           NEW b \in Nat, \A x \in S : x <= b
    PROVE  Sorted(S)[i] \in S /\ Rank(S, Sorted(S)[i]) = i
<1> DEFINE T == {r \in S : i <= Rank(S, r)}
<1>0. Cardinality(S) \in Nat /\ i \in Nat /\ i >= 1 /\ i <= Cardinality(S)
    BY FS_CardinalityType
<1>1. S # {}
    BY <1>0, FS_EmptySet
<1>2. Max(S) \in S /\ \A y \in S : y <= Max(S)
    BY <1>1, Greatest
<1>3. Rank(S, Max(S)) = Cardinality(S)
    <2>1. {x \in S : x <= Max(S)} = S
        BY <1>2
    <2> QED BY <2>1 DEF Rank
<1>4. Max(S) \in T
    BY <1>0, <1>2, <1>3
<1>5. T \in SUBSET Nat
    OBVIOUS
<1>6. PICK r \in T : \A y \in T : r <= y
    BY <1>4, <1>5, Least
<1>7. r \in S /\ r \in Nat /\ i <= Rank(S, r) /\ Rank(S, r) \in Nat
    BY <1>6, RankOrder
<1>8. Rank(S, r) = i
    <2> SUFFICES ASSUME Rank(S, r) # i PROVE FALSE
        OBVIOUS
    <2> DEFINE B == {x \in S : x <= r} \ {r}
    <2>1. IsFiniteSet({x \in S : x <= r})
        BY FS_Subset
    <2>2. Cardinality(B) = Rank(S, r) - 1 /\ IsFiniteSet(B)
        <3> DEFINE U == {x \in S : x <= r}
        <3>1. r \in U /\ Rank(S, r) = Cardinality(U)
            BY <1>7 DEF Rank
        <3>2. IsFiniteSet(U) /\ B = U \ {r}
            BY <2>1
        <3> HIDE DEF U
        <3> QED BY <3>1, <3>2, FS_RemoveElement
    <2>3. Cardinality(B) >= i
        BY <2>2, <1>7, <1>0
    <2>4. B # {}
        BY <2>3, <1>0, FS_EmptySet
    <2>5. B \in SUBSET Nat /\ \A x \in B : x <= r /\ x # r /\ x \in S
        OBVIOUS
    <2>6. Max(B) \in B /\ \A y \in B : y <= Max(B)
        BY <2>4, <2>5, <1>7, Greatest
    <2>7. Max(B) \in S /\ Max(B) \in Nat /\ Max(B) < r
        BY <2>5, <2>6, <1>7
    <2>8. {x \in S : x <= Max(B)} = B
        <3>1. B \subseteq {x \in S : x <= Max(B)}
            BY <2>5, <2>6
        <3>2. ASSUME NEW x \in S, x <= Max(B) PROVE x \in B
            <4>1. x \in Nat
                OBVIOUS
            <4>2. x <= r /\ x # r
                BY <4>1, <3>2, <2>7, <1>7
            <4> QED BY <4>2
        <3> HIDE DEF B
        <3> QED BY <3>1, <3>2
    <2>9. i <= Rank(S, Max(B))
        BY <2>3, <2>8 DEF Rank
    <2>10. r <= Max(B)
        BY <2>7, <2>9, <1>6
    <2> QED BY <2>7, <2>10, <1>7
<1>9. Sorted(S)[i] = CHOOSE x \in S : Cardinality({y \in S : y <= x}) = i
    BY DEF Sorted
<1>10. \E x \in S : Cardinality({y \in S : y <= x}) = i
    BY <1>7, <1>8 DEF Rank
<1> QED BY <1>9, <1>10 DEF Rank

LEMMA SortedOrder ==
    ASSUME NEW S \in SUBSET Nat, IsFiniteSet(S), NEW i \in 1 .. Cardinality(S),
           NEW b \in Nat, \A x \in S : x <= b, NEW x \in S
    PROVE  /\ Sorted(S)[i] <= x <=> i <= Rank(S, x)
           /\ x <= Sorted(S)[i] <=> Rank(S, x) <= i
           /\ x = Sorted(S)[i] <=> Rank(S, x) = i
<1>1. Sorted(S)[i] \in S /\ Rank(S, Sorted(S)[i]) = i
    BY SortedMember
<1> DEFINE s == Sorted(S)[i]
<1> HIDE DEF s
<1>2. s \in S /\ Rank(S, s) = i
    BY <1>1 DEF s
<1>3. s <= x <=> i <= Rank(S, x)
    BY <1>2, RankOrder
<1>4. x <= s <=> Rank(S, x) <= i
    BY <1>2, RankOrder
<1>5. s \in Nat /\ x \in Nat /\ Rank(S, x) \in Nat /\ i \in Nat
    BY <1>2, RankOrder, FS_CardinalityType
<1>6. x = s <=> Rank(S, x) = i
    BY <1>3, <1>4, <1>5
<1> QED BY <1>3, <1>4, <1>6 DEF s

(* find_next_bit goes from each to the next.                               *)
LEMMA SortedNext ==
    ASSUME NEW S \in SUBSET Nat, IsFiniteSet(S), NEW i \in 1 .. Cardinality(S),
           NEW b \in Nat, \A x \in S : x < b
    PROVE  /\ i = 1 => Sorted(S)[i] = Min(S)
           /\ i > 1 => Sorted(S)[i] = Min({x \in S : x >= Sorted(S)[i - 1] + 1} \cup {b})
<1>0. \A x \in S : x <= b
    OBVIOUS
<1>a. i \in Nat /\ Cardinality(S) \in Nat /\ i >= 1 /\ i <= Cardinality(S)
    BY FS_CardinalityType
<1>1. PICK s \in S : s = Sorted(S)[i] /\ \A x \in S : s <= x <=> i <= Rank(S, x)
    BY <1>0, SortedMember, SortedOrder
<1>2. ASSUME i = 1 PROVE s = Min(S)
    <2>1. \A x \in S : s <= x
        BY <1>1, <1>2, RankOrder, FS_CardinalityType
    <2> QED BY <2>1, LeastIs
<1>3. ASSUME i > 1 PROVE s = Min({x \in S : x >= Sorted(S)[i - 1] + 1} \cup {b})
    <2>1. i - 1 \in 1 .. Cardinality(S) /\ i - 1 \in Nat
        BY <1>3, <1>a
    <2>2. PICK j \in 1 .. Cardinality(S) : j = i - 1
        BY <2>1
    <2>3. PICK p \in S : p = Sorted(S)[j] /\ \A x \in S : x <= p <=> Rank(S, x) <= j
        BY <1>0, SortedMember, SortedOrder
    <2> DEFINE T == {x \in S : x >= p + 1} \cup {b}
    <2>4. \A x \in S : Rank(S, x) \in Nat /\ x \in Nat
        BY RankOrder, FS_CardinalityType
    <2>5. \A x \in S : s <= x <=> x >= p + 1
        <3> TAKE x \in S
        <3>1. s <= x <=> i <= Rank(S, x)
            BY <1>1
        <3>2. x <= p <=> Rank(S, x) <= j
            BY <2>3
        <3>3. Rank(S, x) \in Nat /\ x \in Nat /\ p \in Nat
            BY <2>4
        <3> QED BY <3>1, <3>2, <3>3, <2>2, <2>1, <1>a
    <2>6. s \in T /\ T \in SUBSET Nat /\ \A y \in T : s <= y
        <3>1. s \in Nat /\ s <= s /\ s <= b
            BY <2>4, <1>0
        <3>2. s \in T
            BY <2>5, <3>1
        <3>3. T \in SUBSET Nat
            BY <2>4
        <3>4. \A y \in T : s <= y
            BY <2>5, <3>1
        <3> QED BY <3>2, <3>3, <3>4
    <2>7. Min(T) = s
        <3> HIDE DEF T
        <3> QED BY <2>6, LeastIs
    <2> QED BY <2>7, <2>2, <2>3
<1> QED BY <1>1, <1>2, <1>3

-----------------------------------------------------------------------------
(* A byte is read as the bits it is written from.                          *)
LEMMA BitsOfByte ==
    ASSUME NEW bits \in SUBSET (0 .. 7)
    PROVE  /\ ByteOf(bits) \in 0 .. 255
           /\ Bits(ByteOf(bits)) = bits
           /\ 7 \notin bits => ByteOf(bits) < 128
<1> DEFINE t(i) == IF i \in bits THEN 1 ELSE 0
<1>1. \A i \in 0 .. 7 : t(i) \in 0 .. 1 /\ (i \in bits <=> t(i) = 1)
    OBVIOUS
<1>2. ByteOf(bits) = t(0) + 2 * t(1) + 4 * t(2) + 8 * t(3) + 16 * t(4) + 32 * t(5) + 64 * t(6)
                       + 128 * t(7)
    BY DEF ByteOf, WEIGHTS
<1> HIDE DEF t
<1>3. /\ t(0) \in 0 .. 1 /\ t(1) \in 0 .. 1 /\ t(2) \in 0 .. 1 /\ t(3) \in 0 .. 1
      /\ t(4) \in 0 .. 1 /\ t(5) \in 0 .. 1 /\ t(6) \in 0 .. 1 /\ t(7) \in 0 .. 1
    BY <1>1
<1> DEFINE n == ByteOf(bits)
<1>n. n = ByteOf(bits)
    OBVIOUS
<1> HIDE DEF n
<1>4. /\ n \in 0 .. 255
      /\ (n \div 1) % 2 = t(0) /\ (n \div 2) % 2 = t(1) /\ (n \div 4) % 2 = t(2)
      /\ (n \div 8) % 2 = t(3) /\ (n \div 16) % 2 = t(4) /\ (n \div 32) % 2 = t(5)
      /\ (n \div 64) % 2 = t(6) /\ (n \div 128) % 2 = t(7)
      /\ t(7) = 0 => n < 128
    <2>1. PICK a \in 0 .. 1, b \in 0 .. 1, c \in 0 .. 1, d \in 0 .. 1, e \in 0 .. 1, f \in 0 .. 1,
               g \in 0 .. 1, h \in 0 .. 1 :
                  /\ a = t(0) /\ b = t(1) /\ c = t(2) /\ d = t(3)
                  /\ e = t(4) /\ f = t(5) /\ g = t(6) /\ h = t(7)
        BY <1>3
    <2>2. n = a + 2 * b + 4 * c + 8 * d + 16 * e + 32 * f + 64 * g + 128 * h
        BY <1>n, <1>2, <2>1
    <2>3. n \in 0 .. 255 /\ (h = 0 => n < 128)
        BY <2>2
    <2>4. (n \div 1) % 2 = a
        BY <2>2
    <2>5. (n \div 2) % 2 = b
        BY <2>2
    <2>6. (n \div 4) % 2 = c
        BY <2>2
    <2>7. (n \div 8) % 2 = d
        BY <2>2
    <2>8. (n \div 16) % 2 = e
        BY <2>2
    <2>9. (n \div 32) % 2 = f
        BY <2>2
    <2>10. (n \div 64) % 2 = g
        BY <2>2
    <2>11. (n \div 128) % 2 = h
        BY <2>2
    <2> QED BY <2>1, <2>3, <2>4, <2>5, <2>6, <2>7, <2>8, <2>9, <2>10, <2>11
<1>5. \A i \in 0 .. 7 : (n \div WEIGHTS[i + 1]) % 2 = t(i)
    <2> SUFFICES ASSUME NEW i \in 0 .. 7 PROVE (n \div WEIGHTS[i + 1]) % 2 = t(i)
        OBVIOUS
    <2>1. i \in {0, 1, 2, 3, 4, 5, 6, 7}
        OBVIOUS
    <2>2. /\ WEIGHTS[0 + 1] = 1 /\ WEIGHTS[1 + 1] = 2 /\ WEIGHTS[2 + 1] = 4 /\ WEIGHTS[3 + 1] = 8
          /\ WEIGHTS[4 + 1] = 16 /\ WEIGHTS[5 + 1] = 32 /\ WEIGHTS[6 + 1] = 64
          /\ WEIGHTS[7 + 1] = 128
        BY DEF WEIGHTS
    <2> QED BY <2>1, <2>2, <1>4
<1>6. Bits(n) = {i \in 0 .. 7 : t(i) = 1}
    BY <1>5 DEF Bits
<1>7. Bits(n) = bits
    BY <1>1, <1>6
<1>8. 7 \notin bits => n < 128
    BY <1>1, <1>3, <1>4
<1> QED BY <1>4, <1>7, <1>8, <1>n

(* The eighth bit of a byte.                                               *)
(* With the eighth bit, which tells that another byte follows, too.        *)
LEMMA BitsOfMore ==
    ASSUME NEW bits \in SUBSET (0 .. 6)
    PROVE  /\ ByteOf(bits) \in 0 .. 127 /\ Bits(ByteOf(bits)) \ {7} = bits
           /\ ByteOf(bits) + 128 \in 128 .. 255 /\ Bits(ByteOf(bits) + 128) \ {7} = bits
<1>1. bits \in SUBSET (0 .. 7) /\ bits \cup {7} \in SUBSET (0 .. 7) /\ 7 \notin bits
    OBVIOUS
<1>2. ByteOf(bits) \in 0 .. 255 /\ ByteOf(bits) < 128 /\ Bits(ByteOf(bits)) = bits
    BY <1>1, BitsOfByte
<1>3. ByteOf(bits \cup {7}) = ByteOf(bits) + 128
    <2> DEFINE t(i, S) == IF i \in S THEN WEIGHTS[i + 1] ELSE 0
    <2>1. \A S : ByteOf(S) = t(0, S) + t(1, S) + t(2, S) + t(3, S) + t(4, S) + t(5, S) + t(6, S)
                               + t(7, S)
        BY DEF ByteOf
    <2>2. \A i \in 0 .. 6 : t(i, bits \cup {7}) = t(i, bits) /\ t(i, bits) \in Int
        BY DEF WEIGHTS
    <2>3. t(7, bits \cup {7}) = 128 /\ t(7, bits) = 0
        BY <1>1 DEF WEIGHTS
    <2> HIDE DEF t
    <2>4. /\ t(0, bits \cup {7}) = t(0, bits) /\ t(0, bits) \in Int
          /\ t(1, bits \cup {7}) = t(1, bits) /\ t(1, bits) \in Int
          /\ t(2, bits \cup {7}) = t(2, bits) /\ t(2, bits) \in Int
          /\ t(3, bits \cup {7}) = t(3, bits) /\ t(3, bits) \in Int
          /\ t(4, bits \cup {7}) = t(4, bits) /\ t(4, bits) \in Int
          /\ t(5, bits \cup {7}) = t(5, bits) /\ t(5, bits) \in Int
          /\ t(6, bits \cup {7}) = t(6, bits) /\ t(6, bits) \in Int
        BY <2>2
    <2> QED BY <2>1, <2>3, <2>4
<1>4. Bits(ByteOf(bits) + 128) = bits \cup {7}
    BY <1>1, <1>3, BitsOfByte
<1> QED BY <1>1, <1>2, <1>4

-----------------------------------------------------------------------------
(* FlattenSeq: where each of some sequences is in their concatenation.     *)
LEMMA Flattening ==
    ASSUME NEW s, NEW N \in Nat, N >= 1
    PROVE  \E f : f = [i \in 1 .. N |-> IF i = 1 THEN s[i] ELSE f[i - 1] \o s[i]]
<1> DEFINE Step(f, i) == IF i = 1 THEN s[i] ELSE f[i - 1] \o s[i]
           P(m) == \E f : f = [i \in 1 .. m |-> Step(f, i)]
           S == {m \in Nat : P(m)}
<1>1. 0 \in S
    <2> DEFINE g == [i \in 1 .. 0 |-> s[i]]
    <2>1. g = [i \in 1 .. 0 |-> Step(g, i)]
        OBVIOUS
    <2> HIDE DEF g
    <2>2. P(0)
        BY <2>1
    <2> QED BY <2>2
<1>2. ASSUME NEW m \in Nat, m \in S PROVE m + 1 \in S
    <2>1. PICK f : f = [i \in 1 .. m |-> Step(f, i)]
        BY <1>2
    <2>2. PICK k \in Nat : k = m + 1
        OBVIOUS
    <2> DEFINE g == [i \in 1 .. k |-> IF i = k THEN Step(f, i) ELSE f[i]]
    <2>3. ASSUME NEW i \in 1 .. k PROVE g[i] = Step(g, i)
        <3>0. g[i] = IF i = k THEN Step(f, i) ELSE f[i]
            OBVIOUS
        <3>1. i # 1 => g[i - 1] = f[i - 1]
            <4> SUFFICES ASSUME i # 1 PROVE g[i - 1] = f[i - 1]
                OBVIOUS
            <4>1. PICK j \in 1 .. k : j = i - 1 /\ j # k
                BY <2>2
            <4> QED BY <4>1
        <3>2. Step(g, i) = Step(f, i)
            BY <3>1
        <3>3. i # k => f[i] = Step(f, i)
            <4>1. i # k => i \in 1 .. m
                BY <2>2
            <4> HIDE DEF Step
            <4> QED BY <2>1, <4>1
        <3> HIDE DEF g, Step
        <3> QED BY <3>0, <3>2, <3>3
    <2>4. g = [i \in 1 .. k |-> g[i]]
        OBVIOUS
    <2> HIDE DEF g, Step
    <2>5. g = [i \in 1 .. k |-> Step(g, i)]
        BY <2>3, <2>4
    <2>6. P(k)
        BY <2>5
    <2> HIDE DEF P
    <2> QED BY <2>2, <2>6
<1> HIDE DEF P
<1>3. Nat \subseteq S
    BY <1>1, <1>2, SetInduction
<1>4. P(N)
    BY <1>3
<1> QED BY <1>4 DEF P

(* Where the i-th ends.                                                    *)
Ends(s, N, end) ==
    /\ end[0] = 0 /\ end[N] = Len(FlattenSeq(s))
    /\ \A i \in 1 .. N :
          /\ end[i] = end[i - 1] + Len(s[i]) /\ end[i] <= end[N]
          /\ \A p \in 1 .. Len(s[i]) : FlattenSeq(s)[end[i - 1] + p] = s[i][p]

LEMMA Flattened ==
    ASSUME NEW V, NEW N \in Nat, N >= 1, NEW s \in [1 .. N -> Seq(V)]
    PROVE  FlattenSeq(s) \in Seq(V) /\ \E end \in [0 .. N -> Nat] : Ends(s, N, end)
<1>1. s \in Seq(Seq(V)) /\ Len(s) = N /\ Len(s) # 0
    OBVIOUS
<1> DEFINE f == CHOOSE f : f = [i \in 1 .. N |-> IF i = 1 THEN s[i] ELSE f[i - 1] \o s[i]]
<1>2. f = [i \in 1 .. N |-> IF i = 1 THEN s[i] ELSE f[i - 1] \o s[i]]
    BY Flattening
<1>3. FlattenSeq(s) = f[N]
    BY <1>1 DEF FlattenSeq
<1> HIDE DEF f
<1>4. \A m \in Nat : m + 1 <= N => f[m + 1] \in Seq(V)
    <2> DEFINE S == {m \in Nat : m + 1 <= N => f[m + 1] \in Seq(V)}
    <2>1. 0 \in S
        BY <1>2
    <2>2. ASSUME NEW m \in Nat, m \in S PROVE m + 1 \in S
        <3> SUFFICES ASSUME m + 1 + 1 <= N PROVE f[m + 1 + 1] \in Seq(V)
            OBVIOUS
        <3>1. f[m + 1] \in Seq(V) /\ m + 1 + 1 \in 1 .. N
            BY <2>2
        <3>2. PICK k \in 1 .. N : k = m + 1 + 1
            BY <3>1
        <3>3. k # 1 /\ k - 1 = m + 1 /\ s[k] \in Seq(V)
            BY <3>2
        <3>4. f[k] = f[m + 1] \o s[k]
            BY <1>2, <3>3
        <3> QED BY <3>1, <3>2, <3>3, <3>4
    <2> HIDE DEF S
    <2>3. Nat \subseteq S
        BY <2>1, <2>2, SetInduction
    <2> QED BY <2>3 DEF S
<1>5. \A i \in 1 .. N : f[i] \in Seq(V)
    <2> TAKE i \in 1 .. N
    <2>1. i - 1 \in Nat /\ (i - 1) + 1 = i /\ i <= N
        OBVIOUS
    <2> QED BY <2>1, <1>4
<1> DEFINE Prefix(a, b) == Len(a) <= Len(b) /\ \A p \in 1 .. Len(a) : b[p] = a[p]
<1>6. ASSUME NEW i \in 1 .. N, NEW m \in Nat, i <= m, m <= N PROVE Prefix(f[i], f[m])
    <2> DEFINE S == {n \in Nat : i + n <= N => Prefix(f[i], f[i + n])}
    <2>0. i \in Nat /\ f[i] \in Seq(V)
        BY <1>5
    <2>1. 0 \in S
        BY <2>0
    <2>2. ASSUME NEW n \in Nat, n \in S PROVE n + 1 \in S
        <3> SUFFICES ASSUME i + (n + 1) <= N PROVE Prefix(f[i], f[i + (n + 1)])
            OBVIOUS
        <3>1. PICK j \in 1 .. N : j = i + n
            BY <2>0
        <3>2. PICK k \in 1 .. N : k = i + (n + 1) /\ k = j + 1 /\ k # 1 /\ k - 1 = j
            BY <2>0, <3>1
        <3>3. Prefix(f[i], f[j])
            BY <2>2, <3>1
        <3>4. f[k] = f[j] \o s[k]
            BY <1>2, <3>2
        <3>5. f[i] \in Seq(V) /\ f[j] \in Seq(V) /\ s[k] \in Seq(V)
            BY <1>5
        <3>6. Len(f[k]) = Len(f[j]) + Len(s[k]) /\ Len(s[k]) \in Nat /\ Len(f[j]) \in Nat
              /\ Len(f[i]) \in Nat /\ \A p \in 1 .. Len(f[j]) : f[k][p] = f[j][p]
            BY <3>4, <3>5
        <3>7. Len(f[i]) <= Len(f[j]) /\ \A p \in 1 .. Len(f[i]) : f[j][p] = f[i][p]
            BY <3>3
        <3>8. \A p \in 1 .. Len(f[i]) : p \in 1 .. Len(f[j])
            BY <3>6, <3>7
        <3>9. Len(f[i]) <= Len(f[k])
            BY <3>6, <3>7
        <3>10. \A p \in 1 .. Len(f[i]) : f[k][p] = f[i][p]
            BY <3>6, <3>7, <3>8
        <3> QED BY <3>2, <3>9, <3>10
    <2> HIDE DEF S, Prefix
    <2>3. Nat \subseteq S
        BY <2>1, <2>2, SetInduction
    <2>4. m - i \in S /\ m - i \in Nat /\ i + (m - i) = m
        BY <2>0, <2>3, <1>6
    <2> QED BY <2>4, <1>6 DEF S
<1> DEFINE end == [i \in 0 .. N |-> IF i = 0 THEN 0 ELSE Len(f[i])]
<1>7. end \in [0 .. N -> Nat]
    BY <1>5
<1>8. end[0] = 0 /\ end[N] = Len(FlattenSeq(s)) /\ FlattenSeq(s) \in Seq(V)
    BY <1>3, <1>5
<1>9. ASSUME NEW i \in 1 .. N
      PROVE /\ end[i] = end[i - 1] + Len(s[i]) /\ end[i] <= end[N]
            /\ \A p \in 1 .. Len(s[i]) : FlattenSeq(s)[end[i - 1] + p] = s[i][p]
    <2>1. i \in Nat /\ i <= N /\ N \in 1 .. N /\ f[i] \in Seq(V) /\ f[N] \in Seq(V) /\ s[i] \in Seq(V)
        BY <1>5
    <2>2. Prefix(f[i], f[N])
        BY <2>1, <1>6
    <2>3. end[i] <= end[N] /\ end[i] = Len(f[i]) /\ end[i] \in Nat
        BY <2>1, <2>2
    <2>4. CASE i = 1
        <3>1. f[i] = s[i] /\ end[i - 1] = 0
            BY <1>2, <2>4
        <3> HIDE DEF end
        <3>2. \A p \in 1 .. Len(s[i]) : FlattenSeq(s)[p] = s[i][p]
            BY <3>1, <2>2, <1>3
        <3>3. \A p \in 1 .. Len(s[i]) : end[i - 1] + p = p
            BY <3>1, <2>1
        <3>4. end[i] = end[i - 1] + Len(s[i])
            BY <3>1, <2>3
        <3> QED BY <3>2, <3>3, <3>4, <2>3
    <2>5. CASE i # 1
        <3>1. PICK j \in 1 .. N : j = i - 1
            BY <2>1, <2>5
        <3>2. f[i] = f[j] \o s[i] /\ f[j] \in Seq(V)
            BY <1>2, <1>5, <2>5, <3>1
        <3>3. end[j] = Len(f[j]) /\ Len(f[j]) \in Nat /\ Len(s[i]) \in Nat
            BY <3>1, <3>2, <2>1
        <3>4. Len(f[i]) = Len(f[j]) + Len(s[i])
              /\ \A p \in 1 .. Len(s[i]) : f[i][Len(f[j]) + p] = s[i][p]
            <4>1. PICK u \in Seq(V), v \in Seq(V) : u = f[j] /\ v = s[i]
                BY <3>2, <2>1
            <4>2. Len(u \o v) = Len(u) + Len(v)
                OBVIOUS
            <4>3. \A p \in 1 .. Len(v) : (u \o v)[Len(u) + p] = v[p]
                OBVIOUS
            <4> QED BY <4>1, <4>2, <4>3, <3>2
        <3>5. \A p \in 1 .. Len(s[i]) : Len(f[j]) + p \in 1 .. Len(f[i])
            BY <3>3, <3>4
        <3>6. \A p \in 1 .. Len(s[i]) : FlattenSeq(s)[end[i - 1] + p] = s[i][p]
            <4>1. end[i - 1] = Len(f[j])
                BY <3>1, <3>3
            <4>2. \A p \in 1 .. Len(s[i]) : FlattenSeq(s)[Len(f[j]) + p] = f[i][Len(f[j]) + p]
                BY <3>5, <2>2, <1>3
            <4> HIDE DEF end
            <4> QED BY <4>1, <4>2, <3>4
        <3> QED BY <3>1, <3>3, <3>4, <3>6, <2>3
    <2> QED BY <2>4, <2>5
<1> HIDE DEF end
<1>10. Ends(s, N, end)
    BY <1>8, <1>9 DEF Ends
<1> QED BY <1>7, <1>8, <1>10

-----------------------------------------------------------------------------
(* The size of a register is read as it is written, in each of its forms.  *)
LEMMA SizeIsRead ==
    ASSUME NEW s, NEW o \in Nat, NEW n \in 1 .. MAX_SIZE,
           \A p \in 1 .. Len(SizeBytes(n)) : s[o + p] = SizeBytes(n)[p]
    PROVE  /\ SizeBytes(n) \in Seq(Nat) /\ Len(SizeBytes(n)) \in 1 .. 7
           /\ RegSize(s, o) = [size |-> n, next |-> o + Len(SizeBytes(n))]
<1>0. n \in Nat /\ n # 0
    OBVIOUS
<1>1. CASE n < 256
    <2>1. SizeBytes(n) = <<n>>
        BY <1>1 DEF SizeBytes
    <2>2. s[o + 1] = n
        BY <2>1
    <2>3. RegSize(s, o) = [size |-> n, next |-> o + 1]
        BY <2>2, <1>0 DEF RegSize, At
    <2> QED BY <2>1, <2>3, <1>0
<1>2. CASE n >= 256 /\ n < 65536
    <2>1. SizeBytes(n) = <<0, n % 256, n \div 256>>
        BY <1>2 DEF SizeBytes
    <2>2. s[o + 1] = 0 /\ s[o + 2] = n % 256 /\ s[o + 3] = n \div 256
        BY <2>1
    <2>3. (n % 256) + 256 * (n \div 256) = n /\ n % 256 \in Nat /\ n \div 256 \in Nat
        BY <1>0
    <2>4. o + 1 + 1 = o + 2 /\ o + 2 + 1 = o + 3
        OBVIOUS
    <2>5. At(s, o) = 0 /\ At(s, o + 1) + 256 * At(s, o + 2) = n
        BY <2>2, <2>3, <2>4 DEF At
    <2>6. RegSize(s, o) = [size |-> n, next |-> o + 3]
        BY <2>5, <1>0 DEF RegSize
    <2> QED BY <2>1, <2>3, <2>6
<1>3. CASE n >= 65536
    <2>1. SizeBytes(n) = <<0, 0, 0, n % 256, (n \div 256) % 256, (n \div 65536) % 256, n \div 16777216>>
        BY <1>3 DEF SizeBytes
    <2>2. /\ s[o + 1] = 0 /\ s[o + 2] = 0 /\ s[o + 3] = 0 /\ s[o + 4] = n % 256
          /\ s[o + 5] = (n \div 256) % 256 /\ s[o + 6] = (n \div 65536) % 256
          /\ s[o + 7] = n \div 16777216
        BY <2>1
    <2>3. /\ (n % 256) + 256 * ((n \div 256) % 256) + 65536 * ((n \div 65536) % 256)
               + 16777216 * (n \div 16777216) = n
          /\ n % 256 \in Nat /\ (n \div 256) % 256 \in Nat /\ (n \div 65536) % 256 \in Nat
          /\ n \div 16777216 \in Nat
        BY <1>0
    <2>4. /\ o + 1 + 1 = o + 2 /\ o + 2 + 1 = o + 3 /\ o + 3 + 1 = o + 4 /\ o + 4 + 1 = o + 5
          /\ o + 5 + 1 = o + 6 /\ o + 6 + 1 = o + 7
        OBVIOUS
    <2>5. /\ At(s, o) = 0 /\ At(s, o + 1) = 0 /\ At(s, o + 2) = 0 /\ At(s, o + 3) = n % 256
          /\ At(s, o + 4) = (n \div 256) % 256 /\ At(s, o + 5) = (n \div 65536) % 256
          /\ At(s, o + 6) = n \div 16777216
        BY <2>2, <2>4 DEF At
    <2>6. At(s, o + 3) + 256 * At(s, o + 4) + 65536 * At(s, o + 5) + 16777216 * At(s, o + 6) = n
        BY <2>5, <2>3
    <2>7. RegSize(s, o) = [size |-> n, next |-> o + 7]
        BY <2>5, <2>6 DEF RegSize
    <2> QED BY <2>1, <2>3, <2>7
<1> QED BY <1>0, <1>1, <1>2, <1>3

(* The bytes of a bitmap of subpackets.                                    *)
LEMMA MapIsWritten ==
    ASSUME NEW subs \in SUBSET (0 .. PRESENSE_BITS - 2)
    PROVE  LET B == MapBytes(subs)
           IN  /\ B \in Seq(Nat) /\ Len(B) \in Nat /\ Len(B) >= 1
               /\ B[Len(B)] < 128
               /\ \A k \in 1 .. Len(B) :
                     /\ k # Len(B) => B[k] >= 128
                     /\ Bits(B[k]) \ {7} = {b \in 0 .. 6 : 7 * (k - 1) + b \in subs}
               /\ \A x \in subs : x \div 7 < Len(B)
<1> DEFINE S == subs \cup {0}
           last == Max(S) \div 7
           T(k) == {b \in 0 .. 6 : 7 * (k - 1) + b \in subs}
           B == MapBytes(subs)
<1>1. S \in SUBSET Nat /\ S # {} /\ 255 \in Nat /\ \A x \in S : x <= 255
    BY DEF PRESENSE_BITS
<1>2. Max(S) \in S /\ \A y \in S : y <= Max(S)
    BY <1>1, Greatest
<1>3. Max(S) \in Nat
    BY <1>1, <1>2
<1>4. last \in Nat
    BY <1>3
<1>5. \A x \in subs : x \div 7 <= last
    <2> SUFFICES ASSUME NEW x \in subs PROVE x \div 7 <= Max(S) \div 7
        OBVIOUS
    <2>1. x \in Nat /\ x <= Max(S)
        BY <1>1, <1>2
    <2>2. PICK y \in Nat : y = Max(S)
        BY <1>3
    <2>3. x \div 7 <= y \div 7
        BY <2>1, <2>2
    <2> QED BY <2>2, <2>3
<1>6. B = [k \in 1 .. last + 1 |-> ByteOf(T(k)) + IF k <= last THEN 128 ELSE 0]
    BY DEF MapBytes
<1> HIDE DEF last, B, S
<1>7. ASSUME NEW k \in 1 .. last + 1
      PROVE /\ B[k] \in Nat /\ (k # last + 1 => B[k] >= 128) /\ (k = last + 1 => B[k] < 128)
            /\ Bits(B[k]) \ {7} = T(k)
    <2>1. B[k] = ByteOf(T(k)) + IF k <= last THEN 128 ELSE 0
        BY <1>6
    <2>2. T(k) \in SUBSET (0 .. 6)
        OBVIOUS
    <2> HIDE DEF T
    <2>3. PICK t \in SUBSET (0 .. 6) : t = T(k)
        BY <2>2
    <2>4. /\ ByteOf(t) \in 0 .. 127 /\ Bits(ByteOf(t)) \ {7} = t
          /\ ByteOf(t) + 128 \in 128 .. 255 /\ Bits(ByteOf(t) + 128) \ {7} = t
        BY BitsOfMore
    <2>5. CASE k <= last
        <3>1. B[k] = ByteOf(t) + 128 /\ k # last + 1
            BY <2>1, <2>3, <2>5, <1>4
        <3> QED BY <3>1, <2>3, <2>4
    <2>6. CASE ~(k <= last)
        <3>1. B[k] = ByteOf(t) /\ k = last + 1
            BY <2>1, <2>3, <2>4, <2>6, <1>4
        <3> QED BY <3>1, <2>3, <2>4
    <2> QED BY <2>5, <2>6
<1>8. B \in Seq(Nat) /\ Len(B) = last + 1
    BY <1>4, <1>6, <1>7
<1>9. \A x \in subs : x \div 7 < last + 1
    <2> TAKE x \in subs
    <2>1. x \div 7 <= last /\ x \in Nat
        BY <1>1, <1>5
    <2> QED BY <2>1, <1>4
<1>10. last + 1 \in Nat /\ last + 1 >= 1 /\ last + 1 \in 1 .. last + 1
    BY <1>4
<1> QED BY <1>7, <1>8, <1>9, <1>10 DEF B

-----------------------------------------------------------------------------
(* How the size and the subpackets of a register come, byte by byte.       *)
LEMMA SizeIsWritten ==
    ASSUME NEW n \in 1 .. MAX_SIZE
    PROVE  SizeBytes(n) \in Seq(Nat) /\ Len(SizeBytes(n)) \in 1 .. 7
<1>0. n \in Nat
    OBVIOUS
<1>1. /\ n % 256 \in Nat /\ (n \div 256) % 256 \in Nat /\ (n \div 65536) % 256 \in Nat
      /\ n \div 256 \in Nat /\ n \div 16777216 \in Nat
    BY <1>0
<1>2. CASE n < 256
    BY <1>0, <1>2 DEF SizeBytes
<1>3. CASE n >= 256 /\ n < 65536
    BY <1>0, <1>1, <1>3 DEF SizeBytes
<1>4. CASE n >= 65536
    BY <1>0, <1>1, <1>4 DEF SizeBytes
<1> QED BY <1>0, <1>2, <1>3, <1>4

(* The bytes of an item are read as what they describe.                    *)
ItemBytes(n, subs) == SizeBytes(n) \o MapBytes(subs)

(* The bytes of a register are bytes, the size's before the subpackets'.   *)
LEMMA ItemIsWritten ==
    ASSUME NEW n \in 1 .. MAX_SIZE, NEW subs \in SUBSET (0 .. PRESENSE_BITS - 2)
    PROVE  ItemBytes(n, subs) \in Seq(Nat) /\ Len(ItemBytes(n, subs)) >= 1
<1>1. PICK A \in Seq(Nat) : A = SizeBytes(n) /\ Len(A) \in 1 .. 7
    BY SizeIsWritten
<1>2. PICK B \in Seq(Nat) : B = MapBytes(subs) /\ Len(B) \in Nat /\ Len(B) >= 1
    BY MapIsWritten
<1>3. Len(A \o B) = Len(A) + Len(B) /\ A \o B \in Seq(Nat)
    OBVIOUS
<1>4. Len(A \o B) >= 1
    BY <1>1, <1>2, <1>3
<1>5. ItemBytes(n, subs) = A \o B
    BY <1>1, <1>2 DEF ItemBytes
<1> QED BY <1>3, <1>4, <1>5

(* s has these bytes from s[o] on.                                         *)
Holds(s, o, bytes) ==
    /\ Len(s) \in Nat /\ o + Len(bytes) <= Len(s)
    /\ \A p \in 1 .. Len(bytes) : s[o + p] = bytes[p]

(* Where s has the bytes of a register, that register is read.             *)
LEMMA ItemIsRead ==
    ASSUME NEW s, NEW o \in Nat, NEW reg, NEW n \in 1 .. MAX_SIZE,
           NEW subs \in SUBSET (0 .. PRESENSE_BITS - 2), Holds(s, o, ItemBytes(n, subs))
    PROVE  ReadItem(s, o, reg) = [reg |-> reg, reg_size |-> n, subpackets |-> subs,
                                  next |-> o + Len(ItemBytes(n, subs))]
<1> DEFINE I == ItemBytes(n, subs)
<1>0. /\ I = ItemBytes(n, subs) /\ Len(s) \in Nat /\ o + Len(I) <= Len(s)
      /\ \A p \in 1 .. Len(I) : s[o + p] = I[p]
    BY DEF Holds
<1> HIDE DEF I
<1>1. PICK A \in Seq(Nat) : A = SizeBytes(n) /\ Len(A) \in 1 .. 7
    BY SizeIsWritten
<1>2. PICK B \in Seq(Nat) : B = MapBytes(subs)
    BY MapIsWritten
<1>3. /\ Len(B) \in Nat /\ Len(B) >= 1 /\ B[Len(B)] < 128
      /\ \A k \in 1 .. Len(B) :
            /\ k # Len(B) => B[k] >= 128
            /\ Bits(B[k]) \ {7} = {b \in 0 .. 6 : 7 * (k - 1) + b \in subs}
      /\ \A x \in subs : x \div 7 < Len(B)
    BY <1>2, MapIsWritten
<1>4. /\ Len(I) = Len(A) + Len(B)
      /\ \A p \in 1 .. Len(A) : I[p] = A[p]
      /\ \A p \in 1 .. Len(B) : I[Len(A) + p] = B[p]
    <2>1. I = A \o B
        BY <1>0, <1>1, <1>2 DEF ItemBytes
    <2> QED BY <2>1
<1>5. PICK z \in Nat : z = o + Len(A)
    BY <1>1
<1>6. PICK end \in Nat : end = z + Len(B) /\ end = o + Len(I) /\ end >= z + 1 /\ end <= Len(s)
    BY <1>0, <1>3, <1>4, <1>5
<1>7. RegSize(s, o) = [size |-> n, next |-> z]
    <2>1. \A p \in 1 .. Len(A) : p \in 1 .. Len(I)
        BY <1>1, <1>3, <1>4
    <2>2. \A p \in 1 .. Len(SizeBytes(n)) : s[o + p] = SizeBytes(n)[p]
        BY <2>1, <1>0, <1>4, <1>1
    <2> QED BY <2>2, <1>1, <1>5, SizeIsRead
<1>8. \A k \in z .. end - 1 : k - z + 1 \in 1 .. Len(B) /\ At(s, k) = B[k - z + 1]
    <2> SUFFICES ASSUME NEW k \in z .. end - 1
                 PROVE  k - z + 1 \in 1 .. Len(B) /\ At(s, k) = B[k - z + 1]
        OBVIOUS
    <2>1. PICK p \in 1 .. Len(B) : p = k - z + 1
        BY <1>6, <1>3
    <2>2. PICK q \in 1 .. Len(I) : q = Len(A) + p
        BY <1>1, <1>3, <1>4
    <2>3. o + q = k + 1
        BY <2>1, <2>2, <1>5, <1>1
    <2>4. s[k + 1] = B[p]
        BY <2>2, <2>3, <1>0, <1>4
    <2> QED BY <2>1, <2>4 DEF At
<1>9. /\ end - 1 \in z .. Len(s) - 1 /\ At(s, end - 1) < 128
      /\ \A j \in z .. end - 1 - 1 : At(s, j) >= 128
    <2>1. end - 1 \in z .. end - 1 /\ end - 1 \in z .. Len(s) - 1 /\ (end - 1) - z + 1 = Len(B)
        BY <1>6, <1>3
    <2>2. At(s, end - 1) < 128
        BY <2>1, <1>8, <1>3
    <2>3. ASSUME NEW j \in z .. end - 1 - 1 PROVE At(s, j) >= 128
        <3>1. j \in z .. end - 1 /\ j - z + 1 # Len(B)
            BY <1>6, <1>3
        <3> QED BY <3>1, <1>8, <1>3
    <2> QED BY <2>1, <2>2, <2>3
<1>10. \A k \in z .. Len(s) - 1 :
          At(s, k) < 128 /\ (\A j \in z .. k - 1 : At(s, j) >= 128) => k = end - 1
    <2> SUFFICES ASSUME NEW k \in z .. Len(s) - 1, At(s, k) < 128,
                        \A j \in z .. k - 1 : At(s, j) >= 128
                 PROVE  k = end - 1
        OBVIOUS
    <2>1. k \in Int /\ end \in Int /\ z \in Int
        BY <1>6
    <2>2. ~(k < end - 1)
        <3> SUFFICES ASSUME k < end - 1 PROVE FALSE
            OBVIOUS
        <3>1. k \in z .. end - 1 - 1
            BY <2>1
        <3>2. At(s, k) >= 128
            BY <3>1, <1>9
        <3>3. k \in z .. end - 1
            BY <2>1
        <3>4. At(s, k) \in Nat
            <4>1. PICK p \in 1 .. Len(B) : At(s, k) = B[p]
                BY <3>3, <1>8
            <4> QED BY <4>1, <1>2
        <3> QED BY <3>2, <3>4
    <2>3. ~(k > end - 1)
        <3> SUFFICES ASSUME k > end - 1 PROVE FALSE
            OBVIOUS
        <3>1. end - 1 \in z .. k - 1 /\ end - 1 \in z .. end - 1
            BY <2>1, <1>6
        <3>2. At(s, end - 1) >= 128 /\ At(s, end - 1) < 128
            BY <3>1, <1>9
        <3>3. PICK p \in 1 .. Len(B) : At(s, end - 1) = B[p]
            BY <3>1, <1>8
        <3>4. B[p] \in Nat
            BY <1>2
        <3> QED BY <3>2, <3>3, <3>4
    <2> QED BY <2>1, <2>2, <2>3
<1>11. end - 1 = CHOOSE k \in z .. Len(s) - 1 :
                    At(s, k) < 128 /\ \A j \in z .. k - 1 : At(s, j) >= 128
    BY <1>9, <1>10
<1>12. Subpackets(s, z, end - 1) = subs
    <2>1. Subpackets(s, z, end - 1)
            = UNION {{7 * (k - z) + b : b \in Bits(At(s, k)) \ {7}} : k \in z .. end - 1}
        BY DEF Subpackets
    <2>2. \A k \in z .. end - 1 : Bits(At(s, k)) \ {7} = {b \in 0 .. 6 : 7 * (k - z) + b \in subs}
        <3> TAKE k \in z .. end - 1
        <3>1. PICK p \in 1 .. Len(B) : p = k - z + 1 /\ At(s, k) = B[p] /\ p - 1 = k - z
            BY <1>8, <1>6
        <3> QED BY <3>1, <1>3
    <2>3. ASSUME NEW k \in z .. end - 1, NEW b \in Bits(At(s, k)) \ {7} PROVE 7 * (k - z) + b \in subs
        BY <2>2
    <2>4. ASSUME NEW x \in subs
          PROVE  \E k \in z .. end - 1 : \E b \in Bits(At(s, k)) \ {7} : x = 7 * (k - z) + b
        <3>1. x \in Nat /\ x \div 7 < Len(B)
            BY <1>3
        <3>2. PICK q \in Nat : q = x \div 7 /\ x - 7 * q \in 0 .. 6 /\ q < Len(B)
            BY <3>1
        <3>3. PICK k \in z .. end - 1 : k = z + q /\ k - z = q
            BY <3>2, <1>6, <1>3
        <3>4. PICK b \in 0 .. 6 : b = x - 7 * q /\ x = 7 * q + b
            BY <3>1, <3>2
        <3>5. 7 * (k - z) + b = x
            BY <3>3, <3>4
        <3>6. b \in Bits(At(s, k)) \ {7}
            BY <2>2, <3>4, <3>5
        <3> QED BY <3>5, <3>6
    <2>5. subs \subseteq Subpackets(s, z, end - 1)
        <3> SUFFICES ASSUME NEW x \in subs PROVE x \in Subpackets(s, z, end - 1)
            OBVIOUS
        <3>1. PICK k \in z .. end - 1 : \E b \in Bits(At(s, k)) \ {7} : x = 7 * (k - z) + b
            BY <2>4
        <3>2. x \in {7 * (k - z) + b : b \in Bits(At(s, k)) \ {7}}
            BY <3>1
        <3> QED BY <3>2, <2>1
    <2>6. Subpackets(s, z, end - 1) \subseteq subs
        <3> SUFFICES ASSUME NEW x \in Subpackets(s, z, end - 1) PROVE x \in subs
            OBVIOUS
        <3>1. PICK k \in z .. end - 1 : x \in {7 * (k - z) + b : b \in Bits(At(s, k)) \ {7}}
            BY <2>1
        <3>2. PICK b \in Bits(At(s, k)) \ {7} : x = 7 * (k - z) + b
            BY <3>1
        <3> QED BY <3>2, <2>3
    <2> QED BY <2>5, <2>6
<1>13. ReadItem(s, o, reg) = [reg |-> reg, reg_size |-> n, subpackets |-> Subpackets(s, z, end - 1),
                              next |-> (end - 1) + 1]
    <2>1. RegSize(s, o).next = z /\ RegSize(s, o).size = n
        BY <1>7
    <2>2. end - 1 = CHOOSE k \in RegSize(s, o).next .. Len(s) - 1 :
                      /\ At(s, k) < 128
                      /\ \A j \in RegSize(s, o).next .. k - 1 : At(s, j) >= 128
        BY <2>1, <1>11, Zenon
    <2> QED BY <2>1, <2>2, Zenon DEF ReadItem
<1>14. (end - 1) + 1 = o + Len(I)
    BY <1>6
<1> QED BY <1>0, <1>12, <1>13, <1>14

-----------------------------------------------------------------------------
(* What DeviceAssumption says of the registers of one kind.                *)
LEMMA Described ==
    ASSUME NEW d \in Device, NEW k \in Kind
    PROVE  /\ DOMAIN d[k] \in SUBSET Nat /\ DOMAIN d[k] # {} /\ \A r \in DOMAIN d[k] : r <= 255
           /\ IsFiniteSet(DOMAIN d[k])
           /\ Cardinality(DOMAIN d[k]) \in Nat /\ Cardinality(DOMAIN d[k]) >= 1
           /\ Cardinality(DOMAIN d[k]) < 256
           /\ Min(DOMAIN d[k]) \in DOMAIN d[k] /\ Min(DOMAIN d[k]) < 31
           /\ \A r \in DOMAIN d[k] :
                 /\ d[k][r].size \in 1 .. MAX_SIZE
                 /\ d[k][r].subpackets \in SUBSET (0 .. PRESENSE_BITS - 2)
<1> DEFINE D == DOMAIN d[k]
<1>1. /\ D # {} /\ D \subseteq 0 .. PRESENSE_BITS - 1 /\ Min(D) < BITS_PER_INT - 1
      /\ Cardinality(D) < 256
      /\ \A r \in D : d[k][r].size \in 1 .. MAX_SIZE /\ d[k][r].subpackets \subseteq 0 .. PRESENSE_BITS - 2
    BY DeviceAssumption
<1> HIDE DEF D
<1>2. D \in SUBSET (0 .. 255)
    BY <1>1 DEF PRESENSE_BITS
<1>3. IsFiniteSet(0 .. 255)
    <2>1. 0 \in Int /\ 255 \in Int /\ 0 <= 255 + 1
        OBVIOUS
    <2> QED BY <2>1, Interval
<1>4. IsFiniteSet(D) /\ Cardinality(D) \in Nat /\ Cardinality(D) # 0
    <2>1. IsFiniteSet(D)
        BY <1>2, <1>3, FS_Subset
    <2> QED BY <1>1, <2>1, FS_CardinalityType, FS_EmptySet
<1>5. D \in SUBSET Nat /\ \A r \in D : r <= 255
    BY <1>2
<1>6. PICK m \in D : \A y \in D : m <= y
    BY <1>1, <1>5, Least
<1>7. Min(D) \in D
    BY <1>5, <1>6, LeastIs
<1>8. Min(D) < 31
    BY <1>1 DEF BITS_PER_INT
<1> QED BY <1>1, <1>4, <1>5, <1>7, <1>8 DEF D

(* The bytes of each register, in the order of their numbers.              *)
Parts(regs) ==
    [i \in 1 .. Cardinality(DOMAIN regs) |->
        ItemBytes(regs[Sorted(DOMAIN regs)[i]].size, regs[Sorted(DOMAIN regs)[i]].subpackets)]

(* The i-th register in the order of their numbers.                        *)
InOrder(S, i) ==
    /\ Sorted(S)[i] \in S
    /\ \A r \in S : r = Sorted(S)[i] <=> Rank(S, r) = i
    /\ i = 1 => Sorted(S)[i] = Min(S)
    /\ i > 1 => Sorted(S)[i] = Min({x \in S : x >= Sorted(S)[i - 1] + 1} \cup {256})

LEMMA SortedDescribed ==
    ASSUME NEW d \in Device, NEW k \in Kind, NEW i \in 1 .. Cardinality(DOMAIN d[k])
    PROVE  InOrder(DOMAIN d[k], i)
<1> DEFINE D == DOMAIN d[k]
<1>1. D \in SUBSET Nat /\ IsFiniteSet(D) /\ \A r \in D : r <= 255
    BY Described
<1>2. 255 \in Nat /\ 256 \in Nat /\ \A r \in D : r < 256
    BY <1>1
<1>3. i \in 1 .. Cardinality(D)
    OBVIOUS
<1> HIDE DEF D
<1>4. Sorted(D)[i] \in D
    BY <1>1, <1>2, <1>3, SortedMember
<1>5. \A r \in D : r = Sorted(D)[i] <=> Rank(D, r) = i
    <2> TAKE r \in D
    <2>1. PICK b \in Nat : \A x \in D : x <= b
        BY <1>1, <1>2
    <2> QED BY <1>1, <1>3, <2>1, SortedOrder
<1>6. /\ i = 1 => Sorted(D)[i] = Min(D)
      /\ i > 1 => Sorted(D)[i] = Min({x \in D : x >= Sorted(D)[i - 1] + 1} \cup {256})
    BY <1>1, <1>2, <1>3, SortedNext
<1> QED BY <1>4, <1>5, <1>6 DEF D, InOrder

(* The bytes of a structure: where the item of each register ends.         *)
LEMMA StructIsWritten ==
    ASSUME NEW d \in Device, NEW k \in Kind
    PROVE  LET N == Cardinality(DOMAIN d[k])
               s == StructBytes(d[k])
           IN  \E end \in [0 .. N -> Nat] :
                  /\ s \in Seq(Nat) /\ Len(s) \in Nat /\ Len(s) >= 1
                  /\ end[0] = 0 /\ end[N] = Len(s)
                  /\ \A i \in 1 .. N :
                        /\ end[i] = end[i - 1] + Len(Parts(d[k])[i]) /\ end[i] <= Len(s)
                        /\ \A p \in 1 .. Len(Parts(d[k])[i]) : s[end[i - 1] + p] = Parts(d[k])[i][p]
<1> DEFINE N == Cardinality(DOMAIN d[k])
           P == Parts(d[k])
           s == StructBytes(d[k])
<1>1. N \in Nat /\ N >= 1
    BY Described
<1>2. \A i \in 1 .. N : P[i] \in Seq(Nat) /\ Len(P[i]) >= 1
    <2> TAKE i \in 1 .. N
    <2>1. PICK r \in DOMAIN d[k] : r = Sorted(DOMAIN d[k])[i]
        BY SortedDescribed DEF InOrder
    <2>2. PICK n \in 1 .. MAX_SIZE, subs \in SUBSET (0 .. PRESENSE_BITS - 2) :
              n = d[k][r].size /\ subs = d[k][r].subpackets
        BY Described
    <2>3. P[i] = ItemBytes(n, subs)
        BY <2>1, <2>2 DEF Parts
    <2> QED BY <2>3, ItemIsWritten
<1>3. s = FlattenSeq(P)
    BY DEF StructBytes, Parts, ItemBytes
<1>4. P \in [1 .. N -> Seq(Nat)]
    BY <1>2 DEF Parts
<1> HIDE DEF N, P, s
<1>9. FlattenSeq(P) \in Seq(Nat) /\ \E end \in [0 .. N -> Nat] : Ends(P, N, end)
    BY <1>1, <1>4, Flattened
<1>5. PICK end \in [0 .. N -> Nat] :
              /\ FlattenSeq(P) \in Seq(Nat) /\ end[0] = 0 /\ end[N] = Len(FlattenSeq(P))
              /\ \A i \in 1 .. N :
                    /\ end[i] = end[i - 1] + Len(P[i]) /\ end[i] <= end[N]
                    /\ \A p \in 1 .. Len(P[i]) : FlattenSeq(P)[end[i - 1] + p] = P[i][p]
    BY <1>9 DEF Ends
<1>6. Len(s) >= 1
    <2>1. 1 \in 1 .. N /\ 1 - 1 = 0
        BY <1>1
    <2>2. end[1] = 0 + Len(P[1]) /\ end[1] <= Len(s) /\ Len(P[1]) >= 1 /\ Len(P[1]) \in Nat
        BY <2>1, <1>2, <1>3, <1>5
    <2>3. Len(s) \in Nat
        BY <1>3, <1>5
    <2> QED BY <2>2, <2>3
<1>7. /\ s \in Seq(Nat) /\ Len(s) \in Nat
      /\ end[0] = 0 /\ end[N] = Len(s)
      /\ \A i \in 1 .. N :
            /\ end[i] = end[i - 1] + Len(P[i]) /\ end[i] <= Len(s)
            /\ \A p \in 1 .. Len(P[i]) : s[end[i - 1] + p] = P[i][p]
    BY <1>3, <1>5
<1> QED BY <1>6, <1>7 DEF N, P, s

(* The bytes of presence are read as the registers that there are.         *)
LEMMA PresenceIsRead ==
    ASSUME NEW d \in Device, NEW k \in Kind, NEW long \in BOOLEAN
    PROVE  /\ PresenceMap(PresenceBytes(d[k], long)) = DOMAIN d[k]
           /\ StructSize(PresenceBytes(d[k], long)) = Len(StructBytes(d[k]))
<1> DEFINE D == DOMAIN d[k]
           n == Len(StructBytes(d[k]))
           head == IF long \/ n > 255 THEN <<0, n % 256, n \div 256>> ELSE <<n>>
           T(q) == {b \in 0 .. 7 : 8 * (q - 1) + b \in D}
           tail == [q \in 1 .. Max(D) \div 8 + 1 |-> ByteOf(T(q))]
           P == PresenceBytes(d[k], long)
           first == IF long \/ n > 255 THEN 3 ELSE 1
<1>1. n \in Nat /\ n >= 1
    BY StructIsWritten
<1>2. D \in SUBSET Nat /\ D # {} /\ \A r \in D : r <= 255
    BY Described
<1>3. Max(D) \in D /\ \A y \in D : y <= Max(D)
    <2>1. 255 \in Nat
        OBVIOUS
    <2> HIDE DEF D
    <2> QED BY <1>2, <2>1, Greatest
<1>4. PICK m \in Nat : m = Max(D) \div 8
    <2>1. PICK x \in Nat : x = Max(D)
        BY <1>2, <1>3
    <2>2. x \div 8 \in Nat
        OBVIOUS
    <2> HIDE DEF D
    <2> QED BY <2>1, <2>2
<1>5. P = head \o tail
    BY DEF PresenceBytes
<1>6. ASSUME NEW q \in 1 .. m + 1 PROVE tail[q] \in Nat /\ Bits(tail[q]) = T(q)
    <2>1. tail[q] = ByteOf(T(q))
        BY <1>4
    <2>2. PICK t \in SUBSET (0 .. 7) : t = T(q)
        OBVIOUS
    <2>3. ByteOf(t) \in 0 .. 255 /\ Bits(ByteOf(t)) = t
        BY BitsOfByte
    <2> HIDE DEF T, tail
    <2> QED BY <2>1, <2>2, <2>3
<1>7. tail \in Seq(Nat) /\ Len(tail) = m + 1
    <2>1. tail = [q \in 1 .. m + 1 |-> ByteOf(T(q))]
        BY <1>4
    <2> HIDE DEF T, tail
    <2>2. \A q \in 1 .. m + 1 : tail[q] \in Nat
        BY <1>6
    <2> QED BY <2>1, <2>2
<1>8. /\ head \in Seq(Nat) /\ Len(head) = first
      /\ first = 3 => head[1] = 0 /\ head[2] = n % 256 /\ head[3] = n \div 256
      /\ first = 1 => head[1] = n
    <2>1. n % 256 \in Nat /\ n \div 256 \in Nat
        BY <1>1
    <2> HIDE DEF n
    <2> QED BY <1>1, <2>1
<1>9. first \in {1, 3}
    OBVIOUS
<1> HIDE DEF n, head, tail, P, first, T, D
<1>10. /\ Len(P) = first + (m + 1)
       /\ \A q \in 1 .. first : P[q] = head[q]
       /\ \A q \in 1 .. m + 1 : P[first + q] = tail[q]
    <2>1. PICK u \in Seq(Nat), v \in Seq(Nat) : u = head /\ v = tail
        BY <1>7, <1>8
    <2>2. /\ Len(u \o v) = Len(u) + Len(v)
          /\ \A q \in 1 .. Len(u) : (u \o v)[q] = u[q]
          /\ \A q \in 1 .. Len(v) : (u \o v)[Len(u) + q] = v[q]
        OBVIOUS
    <2> QED BY <2>1, <2>2, <1>5, <1>7, <1>8
<1>11. /\ (At(P, 0) = 0) <=> first = 3
       /\ first = 3 => At(P, 1) = n % 256 /\ At(P, 2) = n \div 256
       /\ first = 1 => At(P, 0) = n
    <2>1. first = 3 => P[1] = 0 /\ P[2] = n % 256 /\ P[3] = n \div 256
        BY <1>8, <1>10
    <2>2. first = 1 => P[1] = n
        BY <1>8, <1>10
    <2>3. At(P, 0) = P[1] /\ At(P, 1) = P[2] /\ At(P, 2) = P[3]
        BY DEF At
    <2> QED BY <2>1, <2>2, <2>3, <1>1, <1>9
<1>12. StructSize(P) = n
    <2>1. (n % 256) + 256 * (n \div 256) = n
        BY <1>1
    <2> QED BY <2>1, <1>9, <1>11 DEF StructSize
<1>13. PresenceMap(P) = UNION {{8 * (i - first) + b : b \in Bits(At(P, i))} : i \in first .. Len(P) - 1}
    <2>1. (IF At(P, 0) = 0 THEN 3 ELSE 1) = first
        BY <1>9, <1>11
    <2> QED BY <2>1 DEF PresenceMap
<1>14. \A i \in first .. Len(P) - 1 : Bits(At(P, i)) = {b \in 0 .. 7 : 8 * (i - first) + b \in D}
    <2> TAKE i \in first .. Len(P) - 1
    <2>1. PICK q \in 1 .. m + 1 : q = i - first + 1 /\ first + q = i + 1 /\ q - 1 = i - first
        BY <1>9, <1>10
    <2>2. At(P, i) = tail[q]
        BY <2>1, <1>10 DEF At
    <2>3. Bits(At(P, i)) = T(q)
        BY <2>2, <1>6
    <2> QED BY <2>1, <2>3 DEF T
<1>15. PresenceMap(P) \subseteq D
    <2> SUFFICES ASSUME NEW x \in PresenceMap(P) PROVE x \in D
        OBVIOUS
    <2>1. PICK i \in first .. Len(P) - 1 : x \in {8 * (i - first) + b : b \in Bits(At(P, i))}
        BY <1>13
    <2>2. PICK b \in Bits(At(P, i)) : x = 8 * (i - first) + b
        BY <2>1
    <2> QED BY <2>2, <1>14
<1>16. D \subseteq PresenceMap(P)
    <2> SUFFICES ASSUME NEW x \in D PROVE x \in PresenceMap(P)
        OBVIOUS
    <2>1. x \in Nat /\ Max(D) \in Nat /\ x <= Max(D)
        BY <1>2, <1>3
    <2>2. PICK q \in Nat : q = x \div 8 /\ x - 8 * q \in 0 .. 7 /\ q <= m
        <3>1. PICK y \in Nat : y = Max(D)
            BY <2>1
        <3>2. x \div 8 \in Nat /\ x \div 8 <= y \div 8 /\ x - 8 * (x \div 8) \in 0 .. 7
            BY <2>1, <3>1
        <3> QED BY <3>1, <3>2, <1>4
    <2>3. PICK i \in first .. Len(P) - 1 : i = first + q /\ i - first = q
        BY <2>2, <1>9, <1>10
    <2>4. PICK b \in 0 .. 7 : b = x - 8 * q /\ x = 8 * q + b
        BY <2>1, <2>2
    <2>5. 8 * (i - first) + b = x
        BY <2>3, <2>4
    <2>6. b \in Bits(At(P, i))
        BY <2>4, <2>5, <1>14
    <2>7. x \in {8 * (i - first) + c : c \in Bits(At(P, i))}
        BY <2>5, <2>6
    <2> QED BY <2>7, <1>13
<1> QED BY <1>12, <1>15, <1>16 DEF P, n, D

-----------------------------------------------------------------------------
(* find_first_bit finds the first register.                                *)
LEMMA FirstBit ==
    ASSUME NEW d \in Device, NEW k \in Kind
    PROVE  find_first_bit(DOMAIN d[k]) = Min(DOMAIN d[k])
<1> DEFINE D == DOMAIN d[k]
           B == D \cap 0 .. BITS_PER_LONG - 1
           m == Min(D)
<1>1. D \in SUBSET Nat /\ m \in D /\ m < 31
    BY Described
<1>2. \A y \in D : m <= y
    <2>1. PICK x \in D : \A y \in D : x <= y
        BY <1>1, Least
    <2> HIDE DEF D
    <2>2. m = x
        BY <1>1, <2>1, LeastIs
    <2> QED BY <2>1, <2>2
<1> HIDE DEF D, m
<1>3. m \in B
    BY <1>1 DEF BITS_PER_LONG
<1>4. B # {} /\ ffsll(B) = Min(B \cup {31})
    BY <1>3 DEF ffsll, BITS_PER_INT
<1>5. B \cup {31} \in SUBSET Nat /\ m \in B \cup {31} /\ \A y \in B \cup {31} : m <= y
    BY <1>1, <1>2, <1>3
<1> HIDE DEF B
<1>6. Min(B \cup {31}) = m
    BY <1>5, LeastIs
<1> QED BY <1>4, <1>6 DEF find_first_bit, B, D, m

(* Descriptors are read as they are written: presence, then structure.     *)
LEMMA RegistersAreRead ==
    ASSUME NEW d \in Device, NEW k \in Kind, NEW long \in BOOLEAN
    PROVE  LET presence == PresenceBytes(d[k], long)
           IN  Registers(presence, SubSeq(StructBytes(d[k]), 1, StructSize(presence)))
                 = Descriptor(d[k])
<1> DEFINE D == DOMAIN d[k]
           N == Cardinality(D)
           P == Parts(d[k])
           presence == PresenceBytes(d[k], long)
           s == StructBytes(d[k])
<1>1. PresenceMap(presence) = D /\ StructSize(presence) = Len(s)
    BY PresenceIsRead
<1>2. N \in Nat /\ N >= 1 /\ N < 256
    BY Described
<1>3. PICK end \in [0 .. N -> Nat] :
              /\ s \in Seq(Nat) /\ Len(s) \in Nat /\ Len(s) >= 1
              /\ end[0] = 0 /\ end[N] = Len(s)
              /\ \A i \in 1 .. N :
                    /\ end[i] = end[i - 1] + Len(P[i]) /\ end[i] <= Len(s)
                    /\ \A p \in 1 .. Len(P[i]) : s[end[i - 1] + p] = P[i][p]
    BY StructIsWritten
<1>4. SubSeq(s, 1, Len(s)) = s
    <2> HIDE DEF s
    <2> QED BY <1>3
<1> DEFINE Step(f, i) ==
               IF i = 1 THEN ReadItem(s, 0, find_first_bit(D))
               ELSE ReadItem(s, f[i - 1].next, find_next_bit(D, f[i - 1].reg + 1))
           f == CHOOSE f : f = [i \in 1 .. N |-> Step(f, i)]
           g == [i \in 1 .. N |-> [reg |-> Sorted(D)[i], reg_size |-> d[k][Sorted(D)[i]].size,
                                   subpackets |-> d[k][Sorted(D)[i]].subpackets, next |-> end[i]]]
<1>5. Registers(presence, s) = [i \in DOMAIN f |-> [reg |-> f[i].reg, reg_size |-> f[i].reg_size,
                                                  subpackets |-> f[i].subpackets]]
    <2>1. N % 256 = N
        <3> HIDE DEF N
        <3> QED BY <1>2
    <2> DEFINE F(n, map) ==
                  CHOOSE item : item = [i \in 1 .. n |->
                      IF i = 1 THEN ReadItem(s, 0, find_first_bit(map))
                      ELSE ReadItem(s, item[i - 1].next, find_next_bit(map, item[i - 1].reg + 1))]
               Out(item) == [i \in DOMAIN item |-> [reg |-> item[i].reg, reg_size |-> item[i].reg_size,
                                                    subpackets |-> item[i].subpackets]]
    <2>2. Registers(presence, s) = Out(F(Cardinality(PresenceMap(presence)) % 256, PresenceMap(presence)))
        <3> HIDE DEF s, presence
        <3> QED BY DEF Registers
    <2>3. f = F(N, D)
        OBVIOUS
    <2>4. PresenceMap(presence) = D /\ Cardinality(D) % 256 = N
        BY <1>1, <2>1
    <2>5. Registers(presence, s) = Out(f)
        <3> HIDE DEF F, Out, f, N, D, s, presence
        <3> QED BY <2>2, <2>3, <2>4
    <2> QED BY <2>5
<1>6. ASSUME NEW i \in 1 .. N PROVE g[i] = Step(g, i)
    <2>1. /\ Sorted(D)[i] \in D
          /\ i = 1 => Sorted(D)[i] = Min(D)
          /\ i > 1 => Sorted(D)[i] = Min({x \in D : x >= Sorted(D)[i - 1] + 1} \cup {256})
        <3>1. InOrder(D, i)
            BY SortedDescribed
        <3> HIDE DEF D
        <3> QED BY <3>1 DEF InOrder
    <2>2. PICK r \in D : r = Sorted(D)[i]
        BY <2>1
    <2>3. PICK n \in 1 .. MAX_SIZE, subs \in SUBSET (0 .. PRESENSE_BITS - 2) :
              n = d[k][r].size /\ subs = d[k][r].subpackets
        BY Described
    <2>4. P[i] = ItemBytes(n, subs)
        BY <2>2, <2>3 DEF Parts
    <2>5. i - 1 \in 0 .. N /\ i \in 0 .. N
        BY <1>2
    <2>6. PICK o \in Nat : o = end[i - 1]
        BY <2>5, <1>3
    <2>7. end[i] = o + Len(P[i]) /\ o + Len(P[i]) <= Len(s)
        BY <1>3, <2>6
    <2>8. \A p \in 1 .. Len(P[i]) : s[o + p] = P[i][p]
        BY <1>3, <2>6
    <2>9. \A reg : ReadItem(s, o, reg) = [reg |-> reg, reg_size |-> n, subpackets |-> subs,
                                          next |-> end[i]]
        <3> TAKE reg
        <3> HIDE DEF s, P
        <3>1. o + Len(P[i]) <= Len(s) /\ Len(s) \in Nat
            BY <1>3, <2>7
        <3>2. ReadItem(s, o, reg) = [reg |-> reg, reg_size |-> n, subpackets |-> subs,
                                     next |-> o + Len(P[i])]
            <4>1. Holds(s, o, ItemBytes(n, subs))
                BY <2>4, <2>8, <3>1 DEF Holds
            <4> QED BY <2>4, <4>1, ItemIsRead
        <3> QED BY <2>7, <3>2
    <2>10. g[i] = [reg |-> r, reg_size |-> n, subpackets |-> subs, next |-> end[i]]
        BY <2>2, <2>3
    <2> HIDE DEF s, P
    <2>11. CASE i = 1
        <3>1. o = 0
            BY <2>6, <2>11, <1>3
        <3>2. find_first_bit(D) = r
            BY <2>1, <2>2, <2>11, FirstBit
        <3>3. Step(g, i) = ReadItem(s, 0, find_first_bit(D))
            BY <2>11
        <3> HIDE DEF g, Step, D
        <3> QED BY <3>1, <3>2, <3>3, <2>9, <2>10
    <2>12. CASE i # 1
        <3>1. PICK j \in 1 .. N : j = i - 1
            BY <2>12, <1>2
        <3>2. g[j].next = o /\ g[j].reg = Sorted(D)[j]
            BY <3>1, <2>6
        <3>3. find_next_bit(D, g[j].reg + 1) = r
            <4>1. r = Min({x \in D : x >= Sorted(D)[j] + 1} \cup {256})
                BY <2>1, <2>2, <2>12, <3>1, <1>2
            <4> HIDE DEF g, D
            <4> QED BY <4>1, <3>2 DEF find_next_bit, PRESENSE_BITS
        <3>4. Step(g, i) = ReadItem(s, g[j].next, find_next_bit(D, g[j].reg + 1))
            <4> HIDE DEF g, D
            <4> QED BY <2>12, <3>1
        <3> HIDE DEF g, Step, D
        <3> QED BY <3>2, <3>3, <3>4, <2>9, <2>10
    <2> QED BY <2>11, <2>12
<1>7. g = [i \in 1 .. N |-> g[i]]
    OBVIOUS
<1>8. /\ DOMAIN g = 1 .. N
      /\ Descriptor(d[k]) = [i \in 1 .. N |-> [reg |-> g[i].reg, reg_size |-> g[i].reg_size,
                                              subpackets |-> g[i].subpackets]]
    BY DEF Descriptor
<1> HIDE DEF g, s, P, N, D
<1>9. g = [i \in 1 .. N |-> Step(g, i)]
    <2> HIDE DEF Step
    <2> QED BY <1>6, <1>7
<1>10. f = [i \in 1 .. N |-> Step(f, i)]
    <2> HIDE DEF Step
    <2> QED BY <1>9
<1> HIDE DEF f
<1>11. \A i \in 1 .. N : f[i] = g[i]
    <2> DEFINE S == {m \in Nat : m <= N => \A i \in 1 .. m : f[i] = g[i]}
    <2>1. 0 \in S
        OBVIOUS
    <2>2. ASSUME NEW m \in Nat, m \in S PROVE m + 1 \in S
        <3> SUFFICES ASSUME m + 1 <= N, NEW i \in 1 .. m + 1 PROVE f[i] = g[i]
            OBVIOUS
        <3>1. m <= N /\ \A j \in 1 .. m : f[j] = g[j]
            BY <2>2, <1>2
        <3>2. i \in 1 .. N
            BY <1>2
        <3>3. f[i] = Step(f, i) /\ g[i] = Step(g, i)
            <4> HIDE DEF Step
            <4> QED BY <3>2, <1>6, <1>10
        <3>4. i # 1 => f[i - 1] = g[i - 1]
            <4> SUFFICES ASSUME i # 1 PROVE f[i - 1] = g[i - 1]
                OBVIOUS
            <4>1. i - 1 \in 1 .. m
                OBVIOUS
            <4> QED BY <4>1, <3>1
        <3>5. Step(f, i) = Step(g, i)
            BY <3>4
        <3> HIDE DEF Step
        <3> QED BY <3>3, <3>5
    <2> HIDE DEF S
    <2>3. Nat \subseteq S
        BY <2>1, <2>2, SetInduction
    <2>4. N \in S
        BY <2>3, <1>2
    <2> QED BY <2>4, <1>2 DEF S
<1>12. DOMAIN f = 1 .. N
    <2> HIDE DEF Step
    <2> QED BY <1>10
<1>13. Registers(presence, s) = Descriptor(d[k])
    BY <1>5, <1>8, <1>11, <1>12
<1>14. SubSeq(s, 1, StructSize(presence)) = s
    BY <1>1, <1>4
<1> QED BY <1>13, <1>14 DEF s

-----------------------------------------------------------------------------
(* What there is of a register in a descriptor, and where.                 *)
LEMMA ItemIsFound ==
    ASSUME NEW d \in Device, NEW k \in Kind, device = d, reg_desc[k] = Descriptor(d[k]), NEW r \in Nat
    PROVE  /\ r \in DOMAIN d[k] =>
                 /\ Item(k, r) = {[reg |-> r, reg_size |-> d[k][r].size,
                                   subpackets |-> d[k][r].subpackets]}
                 /\ RegOffset(k, r) = Cardinality({x \in DOMAIN d[k] : x < r})
           /\ r \notin DOMAIN d[k] => Item(k, r) = {}
<1> DEFINE D == DOMAIN d[k]
           N == Cardinality(D)
           E == Descriptor(d[k])
           J == {j \in DOMAIN E : E[j].reg = r}
<1>1. D \in SUBSET Nat /\ IsFiniteSet(D) /\ N \in Nat
    BY Described
<1>2. E = [i \in 1 .. N |-> [reg |-> Sorted(D)[i], reg_size |-> d[k][Sorted(D)[i]].size,
                             subpackets |-> d[k][Sorted(D)[i]].subpackets]]
    BY DEF Descriptor
<1>3. \A i \in 1 .. N : Sorted(D)[i] \in D /\ \A x \in D : x = Sorted(D)[i] <=> Rank(D, x) = i
    <2> TAKE i \in 1 .. N
    <2>1. InOrder(D, i)
        BY SortedDescribed
    <2> HIDE DEF D
    <2> QED BY <2>1 DEF InOrder
<1>4. Item(k, r) = {E[i] : i \in J}
    BY DEF Item
<1>5. DOMAIN E = 1 .. N /\ Len(E) = N
    <2> HIDE DEF E, N
    <2> QED BY <1>1, <1>2
<1>6. SelectInSeq(E, LAMBDA item : item.reg = r) = IF J # {} THEN Min(J) ELSE 0
    <2> DEFINE I == {i \in 1 .. Len(E) : E[i].reg = r}
    <2>1. I = J
        BY <1>5
    <2> HIDE DEF E
    <2>2. SelectInSeq(E, LAMBDA item : item.reg = r) = IF I # {} THEN Min(I) ELSE 0
        BY DEF SelectInSeq
    <2> QED BY <2>1, <2>2
<1> HIDE DEF E, N, D
<1>7. ASSUME r \notin D PROVE Item(k, r) = {}
    BY <1>2, <1>3, <1>4, <1>5, <1>7
<1>8. ASSUME r \in D
      PROVE  /\ Item(k, r) = {[reg |-> r, reg_size |-> d[k][r].size, subpackets |-> d[k][r].subpackets]}
             /\ RegOffset(k, r) = Cardinality({x \in D : x < r})
    <2>1. Rank(D, r) \in 1 .. N /\ Rank(D, r) \in Nat
        <3>1. Rank(D, r) \in 1 .. Cardinality(D)
            BY <1>1, <1>8, RankOrder
        <3> QED BY <3>1 DEF N
    <2>2. PICK i \in 1 .. N : i = Rank(D, r)
        BY <2>1
    <2>3. J = {i}
        BY <1>2, <1>3, <1>5, <1>8, <2>2
    <2>4. E[i] = [reg |-> r, reg_size |-> d[k][r].size, subpackets |-> d[k][r].subpackets]
        BY <1>2, <1>3, <1>8, <2>2
    <2>5. Item(k, r) = {E[i]}
        BY <1>4, <2>3
    <2>6. Min({i}) = i
        <3>1. {i} \in SUBSET Nat /\ i \in {i} /\ \A y \in {i} : i <= y
            BY <2>1, <2>2
        <3> QED BY <3>1, LeastIs
    <2>7. RegOffset(k, r) = i - 1
        <3>1. SelectInSeq(reg_desc[k], LAMBDA item : item.reg = r) = i
            BY <1>6, <2>3, <2>6 DEF E
        <3> QED BY <3>1 DEF RegOffset
    <2>8. Cardinality({x \in D : x < r}) = Rank(D, r) - 1
        <3> DEFINE U == {x \in D : x <= r}
        <3>1. {x \in D : x < r} = U \ {r}
            <4>1. \A x \in D : x < r <=> x <= r /\ x # r
                <5> TAKE x \in D
                <5>1. x \in Nat
                    BY <1>1
                <5> QED BY <5>1
            <4> QED BY <4>1
        <3>2. IsFiniteSet(U)
            BY <1>1, FS_Subset
        <3>3. r \in U
            BY <1>8
        <3>4. Rank(D, r) = Cardinality(U)
            BY DEF Rank
        <3> HIDE DEF U
        <3> QED BY <3>1, <3>2, <3>3, <3>4, FS_RemoveElement
    <2> QED BY <2>2, <2>4, <2>5, <2>7, <2>8
<1> QED BY <1>7, <1>8 DEF D

(* Control register 8 has its receivers where rmi_f12_read_sensor_tuning   *)
(* looks for them.                                                         *)
Joins(V, u, v, x) ==
    /\ x \in Seq(V) /\ Len(x) = Len(u) + Len(v)
    /\ \A p \in 1 .. Len(u) : x[p] = u[p]
    /\ \A p \in 1 .. Len(v) : x[Len(u) + p] = v[p]

LEMMA Concatenated ==
    ASSUME NEW V, NEW u \in Seq(V), NEW v \in Seq(V)
    PROVE  Joins(V, u, v, u \o v)
<1>1. u \o v \in Seq(V) /\ Len(u \o v) = Len(u) + Len(v)
    OBVIOUS
<1>2. \A p \in 1 .. Len(u) : (u \o v)[p] = u[p]
    OBVIOUS
<1>3. \A p \in 1 .. Len(v) : (u \o v)[Len(u) + p] = v[p]
    OBVIOUS
<1> QED BY <1>1, <1>2, <1>3 DEF Joins

(* Of the bytes of control register 8: u, what may be left out, and w.     *)
Laid(T, u, v, w) ==
    /\ SubSeq(T, 1, Len(T)) = T /\ SubSeq(T, 1, 8) = u
    /\ T[8 + Len(v) + 1] = w[1] /\ T[8 + Len(v) + 2] = w[2]

LEMMA Joined ==
    ASSUME NEW V, NEW u \in Seq(V), NEW v \in Seq(V), NEW w \in Seq(V), NEW tail \in Seq(V),
           Len(u) = 8, Len(w) = 2
    PROVE  Laid(u \o v \o w \o tail, u, v, w)
<1> DEFINE x == u \o v
           y == x \o w
           T == y \o tail
<1>0. Len(u) = 8 /\ Len(w) = 2 /\ Len(v) \in Nat /\ Len(tail) \in Nat
    OBVIOUS
<1>a. Joins(V, u, v, x)
    BY Concatenated
<1> HIDE DEF x
<1>1. /\ x \in Seq(V) /\ Len(x) = Len(u) + Len(v)
      /\ \A p \in 1 .. Len(u) : x[p] = u[p]
      /\ \A p \in 1 .. Len(v) : x[Len(u) + p] = v[p]
    BY <1>a DEF Joins
<1>b. Joins(V, x, w, y)
    BY <1>1, Concatenated
<1> HIDE DEF y
<1>2. /\ y \in Seq(V) /\ Len(y) = Len(x) + Len(w)
      /\ \A p \in 1 .. Len(x) : y[p] = x[p]
      /\ \A p \in 1 .. Len(w) : y[Len(x) + p] = w[p]
    BY <1>b DEF Joins
<1>c. Joins(V, y, tail, T)
    BY <1>2, Concatenated
<1> HIDE DEF T
<1>6. /\ T \in Seq(V) /\ Len(T) = Len(y) + Len(tail)
      /\ \A p \in 1 .. Len(y) : T[p] = y[p]
      /\ \A p \in 1 .. Len(tail) : T[Len(y) + p] = tail[p]
    BY <1>c DEF Joins
<1>3. Len(x) = 8 + Len(v) /\ Len(y) = Len(x) + 2
    BY <1>0, <1>1, <1>2
<1>4. y[Len(x) + 1] = w[1] /\ y[Len(x) + 2] = w[2]
    <2>1. 1 \in 1 .. Len(w) /\ 2 \in 1 .. Len(w)
        BY <1>0
    <2> QED BY <2>1, <1>2
<1>7. \A p \in 1 .. 8 : p \in 1 .. Len(x) /\ p \in 1 .. Len(y)
    BY <1>0, <1>3
<1>8. Len(x) + 1 \in 1 .. Len(y) /\ Len(x) + 2 \in 1 .. Len(y)
    BY <1>0, <1>3
<1>9. \A p \in 1 .. 8 : T[p] = u[p]
    BY <1>0, <1>1, <1>2, <1>6, <1>7
<1>10. T[8 + Len(v) + 1] = w[1] /\ T[8 + Len(v) + 2] = w[2]
    BY <1>3, <1>4, <1>6, <1>8
<1>11. Len(T) >= 8
    BY <1>0, <1>3, <1>6
<1>12. SubSeq(T, 1, Len(T)) = T
    BY <1>6
<1>13. SubSeq(T, 1, 8) = u
    <2>1. SubSeq(T, 1, 8) \in Seq(V) /\ Len(SubSeq(T, 1, 8)) = 8
        BY <1>6, <1>11
    <2>2. \A p \in 1 .. 8 : SubSeq(T, 1, 8)[p] = T[p]
        BY <1>6, <1>11
    <2> QED BY <2>1, <2>2, <1>9
<1>14. Laid(T, u, v, w)
    BY <1>10, <1>12, <1>13 DEF Laid
<1> QED BY <1>14 DEF T, y, x

(* The size and the pitch of the sensor, and its receivers.                *)
Sensor == <<<<0, 0>>, <<0, 1>>, <<0, 2>>, <<0, 3>>, <<1, 0>>, <<1, 1>>, <<1, 2>>, <<1, 3>>,
            <<3, 0>>, <<3, 1>>>>

LEMMA TuningIsRead ==
    ASSUME NEW subs \in SUBSET (0 .. 4), {0, 1, 3} \subseteq subs, NEW item, item.subpackets = subs
    PROVE  LET buf == SubSeq(Tuning(subs), 1, Len(Tuning(subs)))
           IN  SubSeq(buf, 1, 8) \o <<At(buf, Receivers(item)), At(buf, Receivers(item) + 1)>> = Sensor
<1> DEFINE V == (0 .. 4) \X (0 .. 3)
           B(s, b) == <<s, b>>
           Part(s) == IF s \in subs THEN [b \in 1 .. WIDTHS[s + 1] |-> B(s, b - 1)] ELSE <<>>
           T == Tuning(subs)
<1>1. T = Part(0) \o Part(1) \o Part(2) \o Part(3) \o Part(4)
    BY DEF Tuning
<1>2. \A s \in 0 .. 4, b \in 0 .. 3 : B(s, b) \in V
    OBVIOUS
<1>3. Sensor = <<B(0, 0), B(0, 1), B(0, 2), B(0, 3), B(1, 0), B(1, 1), B(1, 2), B(1, 3), B(3, 0), B(3, 1)>>
    BY DEF Sensor
<1> HIDE DEF B, V, T
<1>4. WIDTHS[0 + 1] = 4 /\ WIDTHS[1 + 1] = 4 /\ WIDTHS[2 + 1] = 4 /\ WIDTHS[3 + 1] = 2 /\ WIDTHS[4 + 1] = 1
    BY DEF WIDTHS
<1>5. \A s \in 0 .. 4 : Part(s) = IF s \in subs THEN [b \in 1 .. WIDTHS[s + 1] |-> B(s, b - 1)] ELSE <<>>
    OBVIOUS
<1>6. \A s \in 0 .. 4 : Part(s) \in Seq(V) /\ Len(Part(s)) = IF s \in subs THEN WIDTHS[s + 1] ELSE 0
    <2> TAKE s \in 0 .. 4
    <2>1. s \in {0, 1, 2, 3, 4}
        OBVIOUS
    <2>2. PICK n \in 1 .. 4 : n = WIDTHS[s + 1]
        BY <2>1, <1>4
    <2>3. \A b \in 1 .. n : B(s, b - 1) \in V
        <3> TAKE b \in 1 .. n
        <3>1. b - 1 \in 0 .. 3
            OBVIOUS
        <3> QED BY <3>1, <1>2
    <2>4. [b \in 1 .. n |-> B(s, b - 1)] \in Seq(V) /\ Len([b \in 1 .. n |-> B(s, b - 1)]) = n
        BY <2>3
    <2> QED BY <2>2, <2>4, <1>5
<1>7. /\ \A b \in 1 .. 4 : Part(0)[b] = B(0, b - 1) /\ Part(1)[b] = B(1, b - 1)
      /\ \A b \in 1 .. 2 : Part(3)[b] = B(3, b - 1)
    BY <1>4
<1> HIDE DEF Part
<1>8. /\ Part(0) \in Seq(V) /\ Part(1) \in Seq(V) /\ Part(2) \in Seq(V) /\ Part(3) \in Seq(V) /\ Part(4) \in Seq(V)
      /\ Len(Part(0)) = 4 /\ Len(Part(1)) = 4 /\ Len(Part(3)) = 2
      /\ Len(Part(2)) = IF 2 \in subs THEN 4 ELSE 0
    <2>1. 0 \in 0 .. 4 /\ 1 \in 0 .. 4 /\ 2 \in 0 .. 4 /\ 3 \in 0 .. 4 /\ 4 \in 0 .. 4
        OBVIOUS
    <2>2. Part(0) \in Seq(V) /\ Len(Part(0)) = WIDTHS[0 + 1]
        BY <2>1, <1>6
    <2>3. Part(1) \in Seq(V) /\ Len(Part(1)) = WIDTHS[1 + 1]
        BY <2>1, <1>6
    <2>4. Part(2) \in Seq(V) /\ Len(Part(2)) = IF 2 \in subs THEN WIDTHS[2 + 1] ELSE 0
        BY <2>1, <1>6
    <2>5. Part(3) \in Seq(V) /\ Len(Part(3)) = WIDTHS[3 + 1]
        BY <2>1, <1>6
    <2>6. Part(4) \in Seq(V)
        BY <2>1, <1>6
    <2> QED BY <2>2, <2>3, <2>4, <2>5, <2>6, <1>4
<1>9. PICK u : /\ u = Part(0) \o Part(1) /\ u \in Seq(V) /\ Len(u) = 8
               /\ \A b \in 1 .. 4 : u[b] = Part(0)[b] /\ u[4 + b] = Part(1)[b]
    <2>1. Joins(V, Part(0), Part(1), Part(0) \o Part(1))
        BY <1>8, Concatenated
    <2>2. PICK u : u = Part(0) \o Part(1)
        OBVIOUS
    <2>3. /\ u \in Seq(V) /\ Len(u) = Len(Part(0)) + Len(Part(1))
          /\ \A b \in 1 .. Len(Part(0)) : u[b] = Part(0)[b]
          /\ \A b \in 1 .. Len(Part(1)) : u[Len(Part(0)) + b] = Part(1)[b]
        BY <2>1, <2>2 DEF Joins
    <2>4. Len(Part(0)) = 4 /\ Len(Part(1)) = 4
        BY <1>8
    <2>5. Len(u) = 8
        <3>1. Len(u) = Len(Part(0)) + Len(Part(1))
            BY <2>3
        <3>2. Len(u) = 4 + 4
            BY <3>1, <2>4
        <3> QED BY <3>2
    <2>6. \A b \in 1 .. 4 : u[b] = Part(0)[b]
        BY <2>3, <2>4
    <2>7. \A b \in 1 .. 4 : u[4 + b] = Part(1)[b]
        BY <2>3, <2>4
    <2> QED BY <2>2, <2>3, <2>5, <2>6, <2>7
<1>10. PICK v \in Seq(V), w \in Seq(V), tail \in Seq(V) : v = Part(2) /\ w = Part(3) /\ tail = Part(4)
    BY <1>8
<1>11. T = u \o v \o w \o tail
    BY <1>1, <1>9, <1>10
<1>12. /\ SubSeq(T, 1, Len(T)) = T /\ SubSeq(T, 1, 8) = u
       /\ T[8 + Len(v) + 1] = w[1] /\ T[8 + Len(v) + 2] = w[2]
    <2>1. Laid(u \o v \o w \o tail, u, v, w)
        BY <1>8, <1>9, <1>10, Joined
    <2>2. Laid(T, u, v, w)
        BY <2>1, <1>11
    <2> QED BY <2>2 DEF Laid
<1>13. Receivers(item) = 8 + Len(v) /\ Len(v) \in Nat
    <2>1. Len(v) = IF 2 \in subs THEN 4 ELSE 0
        BY <1>8, <1>10
    <2>2. Receivers(item) = IF 2 \in subs THEN 12 ELSE 8
        BY DEF Receivers
    <2> QED BY <2>1, <2>2
<1>14. 8 + Len(v) + 1 + 1 = 8 + Len(v) + 2
    BY <1>13
<1>15. At(T, Receivers(item)) = w[1] /\ At(T, Receivers(item) + 1) = w[2]
    BY <1>12, <1>13, <1>14 DEF At
<1>16. w[1] = B(3, 0) /\ w[2] = B(3, 1)
    <2>1. 1 \in 1 .. 2 /\ 2 \in 1 .. 2 /\ 1 - 1 = 0 /\ 2 - 1 = 1
        OBVIOUS
    <2> QED BY <2>1, <1>7, <1>10
<1>17. /\ u[1] = B(0, 0) /\ u[2] = B(0, 1) /\ u[3] = B(0, 2) /\ u[4] = B(0, 3)
       /\ u[5] = B(1, 0) /\ u[6] = B(1, 1) /\ u[7] = B(1, 2) /\ u[8] = B(1, 3)
    <2>1. \A b \in 1 .. 4 : u[b] = B(0, b - 1) /\ u[4 + b] = B(1, b - 1)
        BY <1>7, <1>9
    <2>2. u[1] = B(0, 1 - 1) /\ u[4 + 1] = B(1, 1 - 1)
        BY <2>1
    <2>3. u[2] = B(0, 2 - 1) /\ u[4 + 2] = B(1, 2 - 1)
        BY <2>1
    <2>4. u[3] = B(0, 3 - 1) /\ u[4 + 3] = B(1, 3 - 1)
        BY <2>1
    <2>5. u[4] = B(0, 4 - 1) /\ u[4 + 4] = B(1, 4 - 1)
        BY <2>1
    <2>6. 1 - 1 = 0 /\ 2 - 1 = 1 /\ 3 - 1 = 2 /\ 4 - 1 = 3 /\ 4 + 1 = 5 /\ 4 + 2 = 6 /\ 4 + 3 = 7 /\ 4 + 4 = 8
        OBVIOUS
    <2> QED BY <2>2, <2>3, <2>4, <2>5, <2>6
<1>18. u \o <<w[1], w[2]>> = Sensor
    <2>1. B(3, 0) \in V /\ B(3, 1) \in V
        BY <1>2
    <2>2. PICK z : z = <<w[1], w[2]>> /\ z \in Seq(V) /\ Len(z) = 2 /\ z[1] = B(3, 0) /\ z[2] = B(3, 1)
        <3>1. PICK z : z = <<w[1], w[2]>>
            OBVIOUS
        <3>2. w[1] \in V /\ w[2] \in V
            BY <2>1, <1>16
        <3>3. z \in Seq(V) /\ Len(z) = 2 /\ z[1] = w[1] /\ z[2] = w[2]
            BY <3>1, <3>2
        <3> QED BY <3>1, <3>3, <1>16
    <2>3. Joins(V, u, z, u \o z)
        BY <2>2, <1>9, Concatenated
    <2>4. PICK t : t = u \o z
        OBVIOUS
    <2>5. t \in Seq(V) /\ Len(t) = 10 /\ t[8 + 1] = B(3, 0) /\ t[8 + 2] = B(3, 1)
        <3>1. /\ t \in Seq(V) /\ Len(t) = Len(u) + Len(z)
              /\ \A p \in 1 .. Len(z) : t[Len(u) + p] = z[p]
            BY <2>3, <2>4 DEF Joins
        <3>2. Len(u) = 8 /\ Len(z) = 2
            BY <2>2, <1>9
        <3>3. \A p \in 1 .. 2 : t[8 + p] = z[p]
            BY <3>1, <3>2
        <3>4. t[8 + 1] = z[1] /\ t[8 + 2] = z[2]
            BY <3>3
        <3>5. Len(t) = Len(u) + Len(z)
            BY <3>1
        <3>6. Len(t) = 8 + 2
            BY <3>5, <3>2
        <3>7. Len(t) = 10
            BY <3>6
        <3> QED BY <3>1, <3>4, <3>7, <2>2
    <2>6. \A p \in 1 .. 8 : t[p] = u[p]
        BY <2>3, <2>4, <1>9 DEF Joins
    <2>7. /\ t[1] = u[1] /\ t[2] = u[2] /\ t[3] = u[3] /\ t[4] = u[4]
          /\ t[5] = u[5] /\ t[6] = u[6] /\ t[7] = u[7] /\ t[8] = u[8]
        BY <2>6
    <2>8. 8 + 1 = 9 /\ 8 + 2 = 10
        OBVIOUS
    <2>9. t = <<t[1], t[2], t[3], t[4], t[5], t[6], t[7], t[8], t[9], t[10]>>
        BY <2>5
    <2>10. t = Sensor
        BY <2>5, <2>7, <2>8, <2>9, <1>3, <1>17
    <2> QED BY <2>2, <2>4, <2>10
<1> QED BY <1>12, <1>15, <1>18 DEF T

-----------------------------------------------------------------------------
(* rmi_register_desc_calc_size: what the packet has room for.              *)
LEMMA Summing ==
    ASSUME NEW items, NEW N \in Nat
    PROVE  \E f : f = [i \in 0 .. N |-> IF i = 0 THEN 0 ELSE f[i - 1] + items[i].reg_size]
<1> DEFINE Step(f, i) == IF i = 0 THEN 0 ELSE f[i - 1] + items[i].reg_size
           P(m) == \E f : f = [i \in 0 .. m |-> Step(f, i)]
           S == {m \in Nat : P(m)}
<1>1. 0 \in S
    <2> DEFINE g == [i \in 0 .. 0 |-> 0]
    <2>1. g = [i \in 0 .. 0 |-> Step(g, i)]
        OBVIOUS
    <2> HIDE DEF g
    <2>2. P(0)
        BY <2>1
    <2> QED BY <2>2
<1>2. ASSUME NEW m \in Nat, m \in S PROVE m + 1 \in S
    <2>1. PICK f : f = [i \in 0 .. m |-> Step(f, i)]
        BY <1>2
    <2>2. PICK k \in Nat : k = m + 1
        OBVIOUS
    <2> DEFINE g == [i \in 0 .. k |-> IF i = k THEN Step(f, i) ELSE f[i]]
    <2>3. ASSUME NEW i \in 0 .. k PROVE g[i] = Step(g, i)
        <3>0. g[i] = IF i = k THEN Step(f, i) ELSE f[i]
            OBVIOUS
        <3>1. i # 0 => g[i - 1] = f[i - 1]
            <4> SUFFICES ASSUME i # 0 PROVE g[i - 1] = f[i - 1]
                OBVIOUS
            <4>1. PICK j \in 0 .. k : j = i - 1 /\ j # k
                BY <2>2
            <4> QED BY <4>1
        <3>2. Step(g, i) = Step(f, i)
            BY <3>1
        <3>3. i # k => f[i] = Step(f, i)
            <4>1. i # k => i \in 0 .. m
                BY <2>2
            <4> HIDE DEF Step
            <4> QED BY <2>1, <4>1
        <3> HIDE DEF g, Step
        <3> QED BY <3>0, <3>2, <3>3
    <2>4. g = [i \in 0 .. k |-> g[i]]
        OBVIOUS
    <2> HIDE DEF g, Step
    <2>5. g = [i \in 0 .. k |-> Step(g, i)]
        BY <2>3, <2>4
    <2>6. P(k)
        BY <2>5
    <2> HIDE DEF P
    <2> QED BY <2>2, <2>6
<1> HIDE DEF P
<1>3. Nat \subseteq S
    BY <1>1, <1>2, SetInduction
<1>4. P(N)
    BY <1>3
<1> QED BY <1>4 DEF P

(* total[i] is the size of the first i of N items.                         *)
Sums(items, N, total) ==
    /\ total[N] = CalcSize(items)
    /\ \A i \in 0 .. N : total[i] \in Nat
    /\ \A i \in 1 .. N : total[i] = total[i - 1] + items[i].reg_size
    /\ \A i, j \in 0 .. N : i <= j => total[i] <= total[j]

LEMMA Summed ==
    ASSUME NEW N \in Nat, NEW items, Len(items) = N, \A i \in 1 .. N : items[i].reg_size \in Nat
    PROVE  \E total : Sums(items, N, total)
<1> DEFINE f == CHOOSE f : f = [i \in 0 .. N |-> IF i = 0 THEN 0 ELSE f[i - 1] + items[i].reg_size]
<1>1. f = [i \in 0 .. N |-> IF i = 0 THEN 0 ELSE f[i - 1] + items[i].reg_size]
    BY Summing
<1>2. CalcSize(items) = f[N]
    BY DEF CalcSize
<1> HIDE DEF f
<1>3. f[0] = 0 /\ \A i \in 1 .. N : f[i] = f[i - 1] + items[i].reg_size
    <2>1. f[0] = 0
        BY <1>1
    <2>2. ASSUME NEW i \in 1 .. N PROVE f[i] = f[i - 1] + items[i].reg_size
        <3>1. i \in 0 .. N /\ i # 0
            OBVIOUS
        <3> QED BY <1>1, <3>1
    <2> QED BY <2>1, <2>2
<1>4. \A i \in 0 .. N : f[i] \in Nat
    <2> DEFINE S == {m \in Nat : m <= N => f[m] \in Nat}
    <2>1. 0 \in S
        BY <1>3
    <2>2. ASSUME NEW m \in Nat, m \in S PROVE m + 1 \in S
        <3> SUFFICES ASSUME m + 1 <= N PROVE f[m + 1] \in Nat
            OBVIOUS
        <3>1. f[m] \in Nat
            BY <2>2
        <3>2. PICK k \in 1 .. N : k = m + 1 /\ k - 1 = m
            OBVIOUS
        <3>3. f[k] = f[m] + items[k].reg_size /\ items[k].reg_size \in Nat
            BY <1>3, <3>2
        <3> QED BY <3>1, <3>2, <3>3
    <2> HIDE DEF S
    <2>3. Nat \subseteq S
        BY <2>1, <2>2, SetInduction
    <2> QED BY <2>3 DEF S
<1>5. \A i, j \in 0 .. N : i <= j => f[i] <= f[j]
    <2> SUFFICES ASSUME NEW i \in 0 .. N PROVE \A j \in 0 .. N : i <= j => f[i] <= f[j]
        OBVIOUS
    <2> DEFINE S == {m \in Nat : m <= N /\ i <= m => f[i] <= f[m]}
    <2>1. 0 \in S
        BY <1>4
    <2>2. ASSUME NEW m \in Nat, m \in S PROVE m + 1 \in S
        <3> SUFFICES ASSUME m + 1 <= N, i <= m + 1 PROVE f[i] <= f[m + 1]
            OBVIOUS
        <3>1. PICK k \in 1 .. N : k = m + 1 /\ k - 1 = m
            OBVIOUS
        <3>2. f[k] = f[m] + items[k].reg_size /\ items[k].reg_size \in Nat /\ f[m] \in Nat /\ f[i] \in Nat
            BY <1>3, <1>4, <3>1
        <3>3. i <= m => f[i] <= f[m]
            BY <2>2
        <3>4. i = m + 1 \/ i <= m
            OBVIOUS
        <3>5. f[m + 1] \in Nat /\ f[m + 1] = f[m] + items[k].reg_size
            BY <3>1, <3>2
        <3> QED BY <3>2, <3>3, <3>4, <3>5
    <2> HIDE DEF S
    <2>3. Nat \subseteq S
        BY <2>1, <2>2, SetInduction
    <2> QED BY <2>3 DEF S
<1>6. Sums(items, N, f)
    BY <1>2, <1>3, <1>4, <1>5 DEF Sums
<1> QED BY <1>6

(* What comes before data register 1 in a packet.                          *)
Before(d) == IF 0 \in DOMAIN d.data THEN d.data[0].size ELSE 0

LEMMA PacketSize ==
    ASSUME NEW d \in Device
    PROVE  /\ CalcSize(Descriptor(d.data)) \in Nat
           /\ 1 \in DOMAIN d.data => Before(d) + d.data[1].size <= CalcSize(Descriptor(d.data))
<1>0. PICK k \in Kind : k = "data" /\ d[k] = d.data
    BY DEF Kind
<1> DEFINE D == DOMAIN d[k]
           N == Cardinality(D)
           E == Descriptor(d[k])
<1>1. /\ D \in SUBSET Nat /\ IsFiniteSet(D) /\ N \in Nat /\ N >= 1
      /\ \A r \in D : d[k][r].size \in Nat
    <2>1. \A r \in D : d[k][r].size \in 1 .. MAX_SIZE
        BY Described
    <2>2. \A r \in D : d[k][r].size \in Nat
        BY <2>1
    <2> QED BY <2>2, Described
<1>2. E = [i \in 1 .. N |-> [reg |-> Sorted(D)[i], reg_size |-> d[k][Sorted(D)[i]].size,
                             subpackets |-> d[k][Sorted(D)[i]].subpackets]]
    BY DEF Descriptor
<1>3. \A i \in 1 .. N : Sorted(D)[i] \in D /\ \A x \in D : x = Sorted(D)[i] <=> Rank(D, x) = i
    <2> TAKE i \in 1 .. N
    <2>1. InOrder(D, i)
        BY SortedDescribed
    <2> HIDE DEF D
    <2> QED BY <2>1 DEF InOrder
<1> HIDE DEF E, D
<1>4. Len(E) = N /\ \A i \in 1 .. N : E[i].reg_size = d[k][Sorted(D)[i]].size
    <2> HIDE DEF N
    <2> QED BY <1>1, <1>2
<1>5. \A i \in 1 .. N : E[i].reg_size \in Nat
    BY <1>1, <1>3, <1>4
<1>6. PICK total : Sums(E, N, total)
    <2> HIDE DEF N
    <2> QED BY <1>1, <1>4, <1>5, Summed
<1>7. N \in 0 .. N /\ 0 \in 0 .. N
    BY <1>1
<1>8. CalcSize(E) \in Nat
    BY <1>6, <1>7 DEF Sums
<1>9. ASSUME NEW r \in D
      PROVE  /\ Rank(D, r) \in 1 .. N
             /\ total[Rank(D, r)] = total[Rank(D, r) - 1] + d[k][r].size
    <2>1. Rank(D, r) \in 1 .. N
        BY <1>1, RankOrder
    <2>2. PICK i \in 1 .. N : i = Rank(D, r)
        BY <2>1
    <2>3. E[i].reg_size = d[k][r].size
        BY <1>3, <1>4, <2>2
    <2> QED BY <1>6, <2>2, <2>3 DEF Sums
<1>10. ASSUME 1 \in D PROVE Before(d) + d[k][1].size <= CalcSize(E)
    <2> HIDE DEF N
    <2>1. PICK i \in 1 .. N : i = Rank(D, 1) /\ total[i] = total[i - 1] + d[k][1].size
        BY <1>9, <1>10
    <2>2. i \in 0 .. N /\ i - 1 \in 0 .. N /\ i <= N /\ i \in Nat
        BY <1>1
    <2>3. PICK t \in Nat, b \in Nat, c \in Nat, s \in Nat :
              t = total[i] /\ b = total[i - 1] /\ c = CalcSize(E) /\ s = d[k][1].size
        BY <1>1, <1>6, <1>8, <1>10, <2>2 DEF Sums
    <2>4. t = b + s /\ t <= c
        BY <2>1, <2>2, <2>3, <1>6, <1>7 DEF Sums
    <2>5. Before(d) \in Nat /\ Before(d) <= b
        <3>1. CASE 0 \in D
            <4>1. PICK j \in 1 .. N : j = Rank(D, 0) /\ total[j] = total[j - 1] + d[k][0].size
                BY <1>9, <3>1
            <4>2. Rank(D, 0) < Rank(D, 1)
                BY <1>1, <1>10, <3>1, RankOrder
            <4>3. j \in 0 .. N /\ j - 1 \in 0 .. N /\ j <= i - 1
                BY <4>1, <4>2, <2>1, <2>2, <1>1
            <4>4. total[j] <= b /\ total[j - 1] \in Nat /\ total[j] \in Nat
                BY <4>3, <2>2, <2>3, <1>6 DEF Sums
            <4>5. d[k][0].size \in Nat /\ Before(d) = d[k][0].size
                BY <1>0, <1>1, <3>1 DEF Before, D
            <4> QED BY <4>1, <4>4, <4>5
        <3>2. CASE 0 \notin D
            <4>1. Before(d) = 0
                BY <1>0, <3>2 DEF Before, D
            <4> QED BY <4>1, <2>3
        <3> QED BY <3>1, <3>2
    <2>6. Before(d) + s <= c
        BY <2>4, <2>5
    <2> QED BY <2>3, <2>6
<1> QED BY <1>0, <1>8, <1>10 DEF E, D

-----------------------------------------------------------------------------
(* What attach() of F12 has learnt when it has got somewhere.  A           *)
(* descriptor that could not be read is nothing, or nothing but zeros.     *)
Zeros(regs) ==
    [i \in 1 .. Cardinality(DOMAIN regs) |-> [reg |-> 0, reg_size |-> 0, subpackets |-> {}]]

(* attach() goes on only with the descriptors before.                      *)
DescriptorsInv ==
    /\ reg_desc = [k \in Kind |-> reg_desc[k]]
    /\ \A k \in Kind : reg_desc[k] \in {<<>>, Zeros(device[k]), Descriptor(device[k])}
    /\ life \in {"data", "packet", "tuning", "layout"} =>
         reg_desc["control"] = Descriptor(device["control"])
    /\ life \in {"packet", "tuning", "layout"} => reg_desc["data"] = Descriptor(device["data"])

(* What the data registers take, and how many fingers there are.           *)
Room == CalcSize(Descriptor(device.data))

Fingers == Cardinality(device.data[1].subpackets)

(* The packet and the sensor, when attach() knows them; if the layout is   *)
(* known attach() has come all the way.                                    *)
LayoutInv ==
    /\ pkt_size \in Nat
    /\ life \in {"tuning", "layout"} => pkt_size = Room
    /\ sensor \in {<<>>, Sensor}
    /\ life = "layout" => sensor = Sensor
    /\ data1 # Nothing =>
         /\ life = "ready" /\ sensor = Sensor /\ pkt_size = Room
         /\ 1 \in DOMAIN device.data
         /\ data1 = [offset |-> Before(device), fingers |-> Fingers % 256]
    /\ report # <<>> =>
         /\ data1 # Nothing
         /\ report = [i \in 1 .. Reported |-> data1.offset + BYTES_PER_OBJ * (i - 1)]

(* The inductive invariant of F12.                                         *)
F12Inv ==
    /\ device \in Device
    /\ life \in Kind \cup {"general", "packet", "tuning", "layout", "ready", "failed",
                          "unallocated", "panicked"}
    /\ has_dribble \in BOOLEAN
    /\ DescriptorsInv
    /\ LayoutInv
    /\ ConfigReaches20

(* Each action of F12 keeps it.                                            *)
LEMMA F12Initially == Init => F12Inv
<1> SUFFICES ASSUME Init PROVE F12Inv
    OBVIOUS
<1>1. DescriptorsInv
    BY DEF Init, DescriptorsInv, Kind
<1>2. LayoutInv
    BY DEF Init, LayoutInv
<1>3. ConfigReaches20
    BY DEF Init, ConfigReaches20
<1> QED BY <1>1, <1>2, <1>3 DEF Init, F12Inv

LEMMA GeneralKeeps == F12Inv /\ (ReadGeneral \/ ReadGeneralError) => F12Inv'
<1> SUFFICES ASSUME F12Inv, ReadGeneral \/ ReadGeneralError PROVE F12Inv'
    OBVIOUS
<1>1. /\ UNCHANGED <<device, reg_desc, pkt_size, sensor, data1, report, written>>
      /\ life = "general" /\ life' \in {"query", "failed"}
    BY DEF ReadGeneral, ReadGeneralError, fieldVars
<1>2. has_dribble' \in BOOLEAN
    BY DeviceAssumption DEF F12Inv, ReadGeneral, ReadGeneralError, fieldVars
<1>3. DescriptorsInv'
    BY <1>1 DEF F12Inv, DescriptorsInv
<1>4. LayoutInv'
    BY <1>1 DEF F12Inv, LayoutInv, Room, Fingers, Before, Reported, Nothing, Sensor
<1>5. ConfigReaches20'
    BY <1>1 DEF F12Inv, ConfigReaches20
<1> QED BY <1>1, <1>2, <1>3, <1>4, <1>5 DEF F12Inv, Kind

LEMMA ReadDescriptorKeeps ==
    ASSUME F12Inv, NEW k \in Kind, ReadDescriptor(k)
    PROVE  F12Inv'
<1>1. /\ UNCHANGED <<device, has_dribble, pkt_size, sensor, data1, report, written>>
      /\ life = k /\ life' = Following(k)
    BY DEF ReadDescriptor
<1>2. reg_desc' = [reg_desc EXCEPT ![k] = Descriptor(device[k])]
    <2> DEFINE presence == PresenceBytes(device[k], device.long)
               read == Registers(presence, SubSeq(StructBytes(device[k]), 1, StructSize(presence)))
    <2>1. reg_desc' = [reg_desc EXCEPT ![k] = read]
        BY DEF ReadDescriptor
    <2>2. device \in Device /\ device.long \in BOOLEAN
        BY DeviceAssumption DEF F12Inv
    <2>3. read = Descriptor(device[k])
        BY <2>2, RegistersAreRead
    <2> HIDE DEF read
    <2> QED BY <2>1, <2>3
<1>3. DescriptorsInv'
    BY <1>1, <1>2 DEF F12Inv, DescriptorsInv, Kind, Following
<1>4. life' \in {"control", "data", "packet"} /\ life \notin {"layout", "tuning", "ready"}
    BY <1>1 DEF Kind, Following
<1>5. LayoutInv'
    BY <1>1, <1>4 DEF F12Inv, LayoutInv, Room, Fingers, Before, Reported, Nothing, Sensor
<1>6. ConfigReaches20'
    BY <1>1 DEF F12Inv, ConfigReaches20
<1> QED BY <1>1, <1>3, <1>4, <1>5, <1>6 DEF F12Inv, Kind

LEMMA DescriptorErrorKeeps ==
    ASSUME F12Inv, NEW k \in Kind, ReadDescriptorError(k)
    PROVE  F12Inv'
<1>1. /\ UNCHANGED <<device, has_dribble, pkt_size, sensor, data1, report, written>>
      /\ life = k /\ life' \in {"ready", "unallocated"}
    BY DEF ReadDescriptorError
<1>2. UNCHANGED reg_desc \/ reg_desc' = [reg_desc EXCEPT ![k] = Zeros(device[k])]
    BY DEF ReadDescriptorError, Zeros
<1>3. DescriptorsInv'
    BY <1>1, <1>2 DEF F12Inv, DescriptorsInv, Kind
<1>4. life \notin {"layout", "tuning", "ready"}
    BY <1>1 DEF Kind
<1>5. LayoutInv'
    BY <1>1, <1>4 DEF F12Inv, LayoutInv, Room, Fingers, Before, Reported, Nothing, Sensor
<1>6. ConfigReaches20'
    BY <1>1 DEF F12Inv, ConfigReaches20
<1> QED BY <1>1, <1>3, <1>5, <1>6 DEF F12Inv

(* Where the descriptors of the control and the data registers are known.  *)
LEMMA KindsAre == "control" \in Kind /\ "data" \in Kind
<1> QED BY DEF Kind

LEMMA AllocateKeeps == F12Inv /\ AllocatePacket => F12Inv'
<1> SUFFICES ASSUME F12Inv, AllocatePacket PROVE F12Inv'
    OBVIOUS
<1>1. /\ UNCHANGED <<device, has_dribble, reg_desc, sensor, data1, report, written>>
      /\ life = "packet" /\ life' \in {"tuning", "ready"} /\ pkt_size' = CalcSize(reg_desc["data"])
    BY DEF AllocatePacket
<1>2. pkt_size' = Room /\ Room \in Nat
    BY <1>1, PacketSize DEF F12Inv, DescriptorsInv, Room
<1>3. DescriptorsInv'
    BY <1>1 DEF F12Inv, DescriptorsInv
<1>4. data1 = Nothing /\ report = <<>>
    BY <1>1 DEF F12Inv, LayoutInv
<1>5. LayoutInv'
    BY <1>1, <1>2, <1>4 DEF F12Inv, LayoutInv, Room, Nothing, Sensor
<1>6. ConfigReaches20'
    BY <1>1 DEF F12Inv, ConfigReaches20
<1> QED BY <1>1, <1>3, <1>5, <1>6 DEF F12Inv

LEMMA TuningKeepsF12 == F12Inv /\ ReadTuning => F12Inv'
<1> SUFFICES ASSUME F12Inv, ReadTuning PROVE F12Inv'
    OBVIOUS
<1>1. /\ UNCHANGED <<device, has_dribble, reg_desc, pkt_size, data1, report, written>>
      /\ life = "tuning" /\ life' = "layout"
    BY DEF ReadTuning
<1>2. PICK item \in Item("control", 8) :
          /\ {0, 1, 3} \subseteq item.subpackets
          /\ LET buf == SubSeq(Tuning(device.control[8].subpackets), 1, item.reg_size)
                 at  == Receivers(item)
             IN  sensor' = SubSeq(buf, 1, 8) \o <<At(buf, at), At(buf, at + 1)>>
    BY DEF ReadTuning
<1>3. /\ device \in Device /\ reg_desc["control"] = Descriptor(device["control"])
    BY <1>1 DEF F12Inv, DescriptorsInv
<1>4. 8 \in Nat
    OBVIOUS
<1>5. 8 \in DOMAIN device["control"]
    BY <1>2, <1>3, <1>4, KindsAre, ItemIsFound
<1>6. item = [reg |-> 8, reg_size |-> device["control"][8].size,
              subpackets |-> device["control"][8].subpackets]
    <2>1. Item("control", 8) = {[reg |-> 8, reg_size |-> device["control"][8].size,
                                 subpackets |-> device["control"][8].subpackets]}
        BY <1>3, <1>4, <1>5, KindsAre, ItemIsFound
    <2> QED BY <1>2, <2>1
<1>7. PICK subs \in SUBSET (0 .. 4) :
          /\ subs = device.control[8].subpackets /\ item.subpackets = subs
          /\ item.reg_size = Len(Tuning(subs))
    BY <1>3, <1>5, <1>6, DeviceAssumption
<1>8. {0, 1, 3} \subseteq subs
    BY <1>2, <1>7
<1>9. sensor' = Sensor
    <2>1. LET buf == SubSeq(Tuning(subs), 1, Len(Tuning(subs)))
          IN  sensor' = SubSeq(buf, 1, 8) \o <<At(buf, Receivers(item)), At(buf, Receivers(item) + 1)>>
        BY <1>2, <1>7
    <2> QED BY <2>1, <1>7, <1>8, TuningIsRead
<1>10. DescriptorsInv'
    BY <1>1 DEF F12Inv, DescriptorsInv
<1>11. data1 = Nothing /\ report = <<>>
    BY <1>1 DEF F12Inv, LayoutInv
<1>12. LayoutInv'
    BY <1>1, <1>9, <1>11 DEF F12Inv, LayoutInv, Room, Nothing, Sensor
<1>13. ConfigReaches20'
    BY <1>1 DEF F12Inv, ConfigReaches20
<1> QED BY <1>1, <1>10, <1>12, <1>13 DEF F12Inv

LEMMA TuningErrorKeeps == F12Inv /\ ReadTuningError => F12Inv'
<1> SUFFICES ASSUME F12Inv, ReadTuningError PROVE F12Inv'
    OBVIOUS
<1>1. /\ UNCHANGED <<device, has_dribble, reg_desc, pkt_size, sensor, data1, report, written>>
      /\ life = "tuning" /\ life' = "failed"
    BY DEF ReadTuningError, fieldVars
<1>2. DescriptorsInv'
    BY <1>1 DEF F12Inv, DescriptorsInv
<1>3. data1 = Nothing /\ report = <<>>
    BY <1>1 DEF F12Inv, LayoutInv
<1>4. LayoutInv'
    BY <1>1, <1>3 DEF F12Inv, LayoutInv, Room, Nothing, Sensor
<1>5. ConfigReaches20'
    BY <1>1 DEF F12Inv, ConfigReaches20
<1> QED BY <1>1, <1>2, <1>4, <1>5 DEF F12Inv

(* data_offset is where data register 1 begins: its 16 bits are enough.    *)
LEMMA DataIsFound ==
    ASSUME device \in Device, reg_desc["data"] = Descriptor(device["data"])
    PROVE  /\ DataOffset = Before(device)
           /\ Item("data", 1) # {} => 1 \in DOMAIN device.data
           /\ \A item \in Item("data", 1) : item.subpackets = device.data[1].subpackets
<1>0. device["data"] = device.data
    OBVIOUS
<1>1. 0 \in Nat /\ 1 \in Nat
    OBVIOUS
<1>2. ASSUME 0 \in DOMAIN device["data"] PROVE DataOffset = Before(device)
    <2>1. Item("data", 0) = {[reg |-> 0, reg_size |-> device["data"][0].size,
                              subpackets |-> device["data"][0].subpackets]}
        BY <1>1, <1>2, KindsAre, ItemIsFound
    <2> DEFINE it == [reg |-> 0, reg_size |-> device["data"][0].size,
                      subpackets |-> device["data"][0].subpackets]
    <2>2. it.reg_size = device.data[0].size
        BY <1>0
    <2> HIDE DEF it
    <2>3. PICK n \in Nat : n = device.data[0].size /\ n < 65536
        <3>1. device.data[0].size < 65536
            BY <1>2, DeviceAssumption
        <3>2. device["data"][0].size \in 1 .. MAX_SIZE
            BY <1>2, KindsAre, Described
        <3>3. device.data[0].size \in Nat
            BY <3>2
        <3> QED BY <3>1, <3>3
    <2>4. n % 65536 = n
        BY <2>3
    <2>5. Item("data", 0) # {} /\ Found("data", 0) = it
        BY <2>1 DEF it, Found
    <2>6. DataOffset = it.reg_size % 65536
        BY <2>5 DEF DataOffset
    <2>7. DataOffset = n
        BY <2>2, <2>3, <2>4, <2>6
    <2>8. Before(device) = n
        BY <1>0, <1>2, <2>3 DEF Before
    <2> QED BY <2>7, <2>8
<1>3. ASSUME 0 \notin DOMAIN device["data"] PROVE DataOffset = Before(device)
    <2>1. Item("data", 0) = {}
        BY <1>1, <1>3, KindsAre, ItemIsFound
    <2>2. DataOffset = 0
        BY <2>1 DEF DataOffset
    <2>3. Before(device) = 0
        BY <1>0, <1>3 DEF Before
    <2> QED BY <2>2, <2>3
<1>4. Item("data", 1) # {} => 1 \in DOMAIN device["data"]
    BY <1>1, KindsAre, ItemIsFound
<1>5. ASSUME 1 \in DOMAIN device["data"]
      PROVE  \A item \in Item("data", 1) : item.subpackets = device["data"][1].subpackets
    <2>1. Item("data", 1) = {[reg |-> 1, reg_size |-> device["data"][1].size,
                              subpackets |-> device["data"][1].subpackets]}
        BY <1>1, <1>5, KindsAre, ItemIsFound
    <2> QED BY <2>1
<1> QED BY <1>2, <1>3, <1>4, <1>5

LEMMA LayoutKeeps == F12Inv /\ Layout => F12Inv'
<1> SUFFICES ASSUME F12Inv, Layout PROVE F12Inv'
    OBVIOUS
<1>1. /\ UNCHANGED <<device, has_dribble, reg_desc, pkt_size, sensor, report, written>>
      /\ life = "layout" /\ life' \in {"ready", "failed"}
    BY DEF Layout
<1>2. device \in Device /\ reg_desc["data"] = Descriptor(device["data"])
    BY <1>1 DEF F12Inv, DescriptorsInv
<1>3. \/ UNCHANGED data1
      \/ /\ life' = "ready" /\ 1 \in DOMAIN device.data
         /\ data1' = [offset |-> Before(device), fingers |-> Fingers % 256]
    BY <1>2, DataIsFound DEF Layout, Fingers
<1>4. data1 = Nothing /\ report = <<>> /\ sensor = Sensor /\ pkt_size = Room
    BY <1>1 DEF F12Inv, LayoutInv
<1>5. DescriptorsInv'
    BY <1>1 DEF F12Inv, DescriptorsInv
<1>6. Room' = Room /\ Before(device)' = Before(device) /\ Fingers' = Fingers /\ Sensor' = Sensor
    BY <1>1 DEF Room, Before, Fingers, Sensor
<1>7. LayoutInv'
    BY <1>1, <1>3, <1>4, <1>6 DEF F12Inv, LayoutInv, Nothing
<1>8. ConfigReaches20'
    BY <1>1 DEF F12Inv, ConfigReaches20
<1> QED BY <1>1, <1>5, <1>7, <1>8 DEF F12Inv

(* Nothing of what attach() learnt changes afterwards.                     *)
LEMMA LearntKeeps ==
    ASSUME F12Inv, UNCHANGED <<device, life, fieldVars, report>>, ConfigReaches20'
    PROVE  F12Inv'
<1>1. UNCHANGED <<device, life, has_dribble, reg_desc, pkt_size, sensor, data1, report>>
    BY DEF fieldVars
<1>2. DescriptorsInv'
    BY <1>1 DEF F12Inv, DescriptorsInv
<1>3. LayoutInv'
    BY <1>1 DEF F12Inv, LayoutInv, Room, Fingers, Before, Reported, Nothing, Sensor
<1> QED BY <1>1, <1>2, <1>3 DEF F12Inv

LEMMA ConfigKeeps == F12Inv /\ Config => F12Inv'
<1> SUFFICES ASSUME F12Inv, Config PROVE F12Inv'
    OBVIOUS
<1>1. /\ UNCHANGED <<device, life, fieldVars, report>>
      /\ Item("control", 20) # {} /\ written' = written \cup {ControlOffset}
    BY DEF Config
<1>2. device \in Device /\ reg_desc["control"] \in {<<>>, Zeros(device["control"]), Descriptor(device["control"])}
    BY KindsAre DEF F12Inv, DescriptorsInv
<1>3. reg_desc["control"] = Descriptor(device["control"])
    <2>1. \E i \in DOMAIN reg_desc["control"] : reg_desc["control"][i].reg = 20
        BY <1>1 DEF Item
    <2>2. reg_desc["control"] # <<>>
        BY <2>1
    <2>3. \A regs : \A i \in DOMAIN Zeros(regs) : Zeros(regs)[i].reg = 0
        BY DEF Zeros
    <2>4. reg_desc["control"] # Zeros(device["control"])
        BY <2>1, <2>3
    <2> QED BY <1>2, <2>2, <2>4
<1>4. 20 \in Nat
    OBVIOUS
<1>5. /\ 20 \in DOMAIN device["control"]
      /\ ControlOffset = Cardinality({r \in DOMAIN device["control"] : r < 20})
    <2>1. 20 \in DOMAIN device["control"]
        BY <1>1, <1>2, <1>3, <1>4, KindsAre, ItemIsFound
    <2> QED BY <2>1, <1>2, <1>3, <1>4, KindsAre, ItemIsFound DEF ControlOffset
<1>6. ConfigReaches20'
    BY <1>1, <1>5 DEF F12Inv, ConfigReaches20
<1> QED BY <1>1, <1>6, LearntKeeps

LEMMA PanicKeeps == F12Inv /\ ConfigPanics => F12Inv'
<1> SUFFICES ASSUME F12Inv, ConfigPanics PROVE F12Inv'
    OBVIOUS
<1>1. /\ UNCHANGED <<device, has_dribble, reg_desc, pkt_size, sensor, data1, report, written>>
      /\ life = "unallocated" /\ life' = "panicked"
    BY DEF ConfigPanics, fieldVars
<1>2. DescriptorsInv'
    BY <1>1 DEF F12Inv, DescriptorsInv
<1>3. data1 = Nothing
    BY <1>1 DEF F12Inv, LayoutInv
<1>4. LayoutInv'
    BY <1>1, <1>3 DEF F12Inv, LayoutInv, Room, Fingers, Before, Reported, Nothing, Sensor
<1>5. ConfigReaches20'
    BY <1>1 DEF F12Inv, ConfigReaches20
<1> QED BY <1>1, <1>2, <1>4, <1>5 DEF F12Inv

LEMMA AttentionKeeps == F12Inv /\ Attention => F12Inv'
<1> SUFFICES ASSUME F12Inv, Attention PROVE F12Inv'
    OBVIOUS
<1>1. /\ UNCHANGED <<device, life, has_dribble, reg_desc, pkt_size, sensor, data1, written>>
      /\ data1 # Nothing
      /\ report' = [i \in 1 .. Reported |-> data1.offset + BYTES_PER_OBJ * (i - 1)]
    BY DEF Attention, fieldVars
<1>2. DescriptorsInv'
    BY <1>1 DEF F12Inv, DescriptorsInv
<1>3. Reported' = Reported /\ data1.offset' = data1.offset
    BY <1>1 DEF Reported
<1>4. LayoutInv'
    BY <1>1, <1>3 DEF F12Inv, LayoutInv, Room, Fingers, Before, Nothing, Sensor
<1>5. ConfigReaches20'
    BY <1>1 DEF F12Inv, ConfigReaches20
<1> QED BY <1>1, <1>2, <1>4, <1>5 DEF F12Inv

LEMMA OthersKeepF12 == F12Inv /\ (UNCHANGED f12Vars \/ SetTouchStatus) => F12Inv'
<1> SUFFICES ASSUME F12Inv, UNCHANGED <<device, life, fieldVars, report, written>> PROVE F12Inv'
    BY DEF f12Vars, SetTouchStatus
<1>1. ConfigReaches20'
    BY DEF F12Inv, ConfigReaches20
<1> QED BY <1>1, LearntKeeps

(* And so does every step of the functions.                                *)
LEMMA F12InvStep == F12Inv /\ [FunctionNext]_functionVars => F12Inv'
<1> SUFFICES ASSUME F12Inv, [FunctionNext]_functionVars PROVE F12Inv'
    OBVIOUS
<1>1. CASE F12Step
    BY <1>1, GeneralKeeps, ReadDescriptorKeeps, DescriptorErrorKeeps, AllocateKeeps, TuningKeepsF12,
       TuningErrorKeeps, LayoutKeeps, ConfigKeeps, PanicKeeps, AttentionKeeps, OthersKeepF12
       DEF F12Step, Next
<1>2. CASE F11Step \/ ButtonStep
    BY <1>2, OthersKeepF12 DEF F11Step, ButtonStep
<1>3. CASE UNCHANGED functionVars
    BY <1>3, OthersKeepF12 DEF functionVars
<1> QED BY <1>1, <1>2, <1>3 DEF FunctionNext

LEMMA F12Always == FunctionSpec => []F12Inv
<1>1. FunctionInit => F12Inv
    BY F12Initially DEF FunctionInit
<1> QED BY <1>1, F12InvStep, PTL DEF FunctionSpec

-----------------------------------------------------------------------------
(* The data of a touchpad that the packet consists of.                     *)
LEMMA ObjectsOf ==
    ASSUME NEW d \in Device, 1 \in DOMAIN d.data
    PROVE  /\ Before(d) \in Nat /\ Cardinality(d.data[1].subpackets) \in Nat
           /\ d.data[1].size = BYTES_PER_OBJ * Cardinality(d.data[1].subpackets)
<1>0. d["data"] = d.data
    OBVIOUS
<1>1. 1 \in DOMAIN d["data"] /\ \A r \in DOMAIN d["data"] :
          /\ d["data"][r].size \in 1 .. MAX_SIZE
          /\ d["data"][r].subpackets \in SUBSET (0 .. PRESENSE_BITS - 2)
    BY <1>0, KindsAre, Described
<1>2. \A r \in DOMAIN d.data : d.data[r].size \in Nat
    BY <1>0, <1>1
<1>3. Before(d) \in Nat
    BY <1>2 DEF Before
<1>4. d.data[1].subpackets \in SUBSET (0 .. 254)
    BY <1>0, <1>1 DEF PRESENSE_BITS
<1>5. IsFiniteSet(0 .. 254)
    <2>1. 0 \in Int /\ 254 \in Int /\ 0 <= 254 + 1
        OBVIOUS
    <2> QED BY <2>1, Interval
<1>6. Cardinality(d.data[1].subpackets) \in Nat
    BY <1>4, <1>5, FS_Subset, FS_CardinalityType
<1>7. d.data[1].size = BYTES_PER_OBJ * Cardinality(d.data[1].subpackets)
    BY DeviceAssumption
<1> QED BY <1>3, <1>6, <1>7

LEMMA FewReported ==
    ASSUME NEW n \in Nat, data1.fingers = n
    PROVE  Reported \in Nat /\ Reported <= n /\ Reported <= MAX_REPORTED
<1>1. {n, 5} \in SUBSET Nat
    OBVIOUS
<1>2. PICK m \in {n, 5} : \A y \in {n, 5} : m <= y
    BY <1>1, Least
<1>3. Min({n, 5}) = m
    BY <1>1, <1>2, LeastIs
<1> QED BY <1>2, <1>3 DEF Reported, MAX_REPORTED

LEMMA Layouted ==
    ASSUME F12Inv, data1 # Nothing
    PROVE  \E n, b, f \in Nat :
              /\ n = Cardinality(device.data[1].subpackets) /\ b = Before(device)
              /\ f <= n /\ f < 256 /\ data1 = [offset |-> b, fingers |-> f]
              /\ 1 \in DOMAIN device.data /\ sensor = Sensor
              /\ pkt_size \in Nat /\ b + BYTES_PER_OBJ * n <= pkt_size
<1>1. /\ device \in Device /\ 1 \in DOMAIN device.data /\ sensor = Sensor /\ pkt_size = Room
      /\ data1 = [offset |-> Before(device), fingers |-> Fingers % 256]
    BY DEF F12Inv, LayoutInv
<1>2. PICK n \in Nat, b \in Nat : n = Cardinality(device.data[1].subpackets) /\ b = Before(device)
    BY <1>1, ObjectsOf
<1>3. n % 256 \in Nat /\ n % 256 <= n /\ n % 256 < 256
    OBVIOUS
<1>4. Room \in Nat /\ b + device.data[1].size <= Room
    BY <1>1, <1>2, PacketSize DEF Room
<1>5. device.data[1].size = BYTES_PER_OBJ * n
    BY <1>1, <1>2, ObjectsOf
<1>6. data1 = [offset |-> b, fingers |-> n % 256]
    BY <1>1, <1>2 DEF Fingers
<1>7. b + BYTES_PER_OBJ * n <= pkt_size /\ pkt_size \in Nat
    BY <1>1, <1>4, <1>5
<1> HIDE DEF Fingers
<1>8. PICK f \in Nat : f = n % 256
    BY <1>3
<1> QED BY <1>1, <1>2, <1>3, <1>6, <1>7, <1>8

LEMMA ObjectsAreWhole == F12Inv => ObjectsWhole
<1> SUFFICES ASSUME F12Inv, NEW i \in DOMAIN report
             PROVE  /\ 1 \in DOMAIN device.data /\ sensor # <<>>
                    /\ \E s \in 0 .. Cardinality(device.data[1].subpackets) - 1 :
                         report[i] = Before(device) + BYTES_PER_OBJ * s
                    /\ report[i] + BYTES_PER_OBJ <= pkt_size
    BY DEF ObjectsWhole, Before
<1>1. report # <<>>
    OBVIOUS
<1>2. data1 # Nothing /\ report = [p \in 1 .. Reported |-> data1.offset + BYTES_PER_OBJ * (p - 1)]
    BY <1>1 DEF F12Inv, LayoutInv
<1>3. PICK n, b, f \in Nat :
          /\ n = Cardinality(device.data[1].subpackets) /\ b = Before(device)
          /\ f <= n /\ f < 256 /\ data1 = [offset |-> b, fingers |-> f]
          /\ 1 \in DOMAIN device.data /\ sensor = Sensor
          /\ pkt_size \in Nat /\ b + BYTES_PER_OBJ * n <= pkt_size
    BY <1>2, Layouted
<1>4. data1.fingers = f /\ data1.offset = b
    BY <1>3
<1>5. Reported \in Nat /\ Reported <= f
    BY <1>4, FewReported
<1>6. i \in 1 .. Reported /\ report[i] = b + BYTES_PER_OBJ * (i - 1)
    BY <1>2, <1>4
<1>7. PICK s \in Nat : s = i - 1 /\ s + 1 <= n
    BY <1>3, <1>5, <1>6
<1>8. report[i] = b + BYTES_PER_OBJ * s /\ s \in 0 .. n - 1
    BY <1>6, <1>7
<1>9. report[i] + BYTES_PER_OBJ <= pkt_size
    BY <1>3, <1>7, <1>8 DEF BYTES_PER_OBJ
<1>10. sensor # <<>>
    BY <1>3 DEF Sensor
<1> QED BY <1>3, <1>8, <1>9, <1>10

(* The sets of registers and subpackets that reg_desc consists of.         *)
LEMMA DescriptorTyped ==
    ASSUME NEW d \in Device, NEW k \in Kind
    PROVE  {<<>>, Zeros(d[k]), Descriptor(d[k])} \subseteq
              Seq([reg : 0 .. PRESENSE_BITS, reg_size : Nat, subpackets : SUBSET (0 .. PRESENSE_BITS - 2)])
<1> DEFINE D == DOMAIN d[k]
           N == Cardinality(D)
           I == [reg : 0 .. PRESENSE_BITS, reg_size : Nat, subpackets : SUBSET (0 .. PRESENSE_BITS - 2)]
           Of(r) == [reg |-> r, reg_size |-> d[k][r].size, subpackets |-> d[k][r].subpackets]
<1>1. /\ D \in SUBSET Nat /\ N \in Nat
      /\ \A r \in D : r <= 255 /\ d[k][r].size \in 1 .. MAX_SIZE /\ d[k][r].subpackets \in SUBSET (0 .. PRESENSE_BITS - 2)
    BY Described
<1>2. \A r \in D : Of(r) \in I
    <2> TAKE r \in D
    <2>1. d[k][r].size \in Nat /\ r \in 0 .. PRESENSE_BITS
        BY <1>1 DEF PRESENSE_BITS
    <2> QED BY <2>1, <1>1
<1>3. \A i \in 1 .. N : Sorted(D)[i] \in D
    <2> TAKE i \in 1 .. N
    <2>1. InOrder(DOMAIN d[k], i)
        BY SortedDescribed
    <2> QED BY <2>1 DEF InOrder
<1>4. [reg |-> 0, reg_size |-> 0, subpackets |-> {}] \in I
    BY DEF PRESENSE_BITS
<1> HIDE DEF I
<1>5. Descriptor(d[k]) = [i \in 1 .. N |-> Of(Sorted(D)[i])]
    BY DEF Descriptor
<1>6. Zeros(d[k]) = [i \in 1 .. N |-> [reg |-> 0, reg_size |-> 0, subpackets |-> {}]]
    BY DEF Zeros
<1> HIDE DEF Of, N, D
<1>7. Descriptor(d[k]) \in Seq(I)
    <2>1. \A i \in 1 .. N : Of(Sorted(D)[i]) \in I
        BY <1>2, <1>3
    <2> DEFINE e(i) == Of(Sorted(D)[i])
    <2>2. Descriptor(d[k]) = [i \in 1 .. N |-> e(i)] /\ \A i \in 1 .. N : e(i) \in I
        BY <1>5, <2>1
    <2> HIDE DEF e
    <2> QED BY <1>1, <2>2
<1>8. Zeros(d[k]) \in Seq(I)
    BY <1>1, <1>4, <1>6
<1>9. <<>> \in Seq(I)
    OBVIOUS
<1> QED BY <1>7, <1>8, <1>9 DEF I

LEMMA SensorTyped == Sensor \in Seq((0 .. 4) \X (0 .. 3))
<1> DEFINE V == (0 .. 4) \X (0 .. 3)
           B(s, b) == <<s, b>>
<1>1. \A s \in 0 .. 4, b \in 0 .. 3 : B(s, b) \in V
    OBVIOUS
<1>2. Sensor = <<B(0, 0), B(0, 1), B(0, 2), B(0, 3), B(1, 0), B(1, 1), B(1, 2), B(1, 3), B(3, 0), B(3, 1)>>
    BY DEF Sensor
<1> HIDE DEF B, V
<1>3. {B(0, 0), B(0, 1), B(0, 2), B(0, 3), B(1, 0), B(1, 1), B(1, 2), B(1, 3), B(3, 0), B(3, 1)} \subseteq V
    BY <1>1
<1>4. Sensor \in Seq(V)
    BY <1>2, <1>3
<1> QED BY <1>4 DEF V

LEMMA F12Typed == F12Inv /\ trackpadEnable \in BOOLEAN => TypeOK
<1> SUFFICES ASSUME F12Inv, trackpadEnable \in BOOLEAN PROVE TypeOK
    OBVIOUS
<1> DEFINE S == Seq([reg : 0 .. PRESENSE_BITS, reg_size : Nat, subpackets : SUBSET (0 .. PRESENSE_BITS - 2)])
<1>1. reg_desc \in [Kind -> S]
    <2>1. /\ device \in Device /\ reg_desc = [k \in Kind |-> reg_desc[k]]
          /\ \A k \in Kind : reg_desc[k] \in {<<>>, Zeros(device[k]), Descriptor(device[k])}
        BY DEF F12Inv, DescriptorsInv
    <2>2. \A k \in Kind : {<<>>, Zeros(device[k]), Descriptor(device[k])} \subseteq S
        BY <2>1, DescriptorTyped
    <2> HIDE DEF S
    <2> QED BY <2>1, <2>2
<1>2. sensor \in Seq((0 .. 4) \X (0 .. 3))
    <2>1. <<>> \in Seq((0 .. 4) \X (0 .. 3))
        OBVIOUS
    <2> QED BY <2>1, SensorTyped DEF F12Inv, LayoutInv
<1>3. data1 \in [offset : Nat, fingers : 0 .. 255]
    <2>1. ASSUME data1 # Nothing PROVE data1 \in [offset : Nat, fingers : 0 .. 255]
        BY <2>1, Layouted
    <2>2. Nothing \in [offset : Nat, fingers : 0 .. 255]
        BY DEF Nothing
    <2> QED BY <2>1, <2>2
<1>4. report \in Seq(Nat) /\ Len(report) <= MAX_REPORTED
    <2>1. CASE report = <<>>
        BY <2>1 DEF MAX_REPORTED
    <2>2. CASE report # <<>>
        <3>1. report = [i \in 1 .. Reported |-> data1.offset + BYTES_PER_OBJ * (i - 1)]
            BY <2>2 DEF F12Inv, LayoutInv
        <3>2. PICK f \in Nat, b \in Nat : f = data1.fingers /\ b = data1.offset
            BY <1>3
        <3>3. PICK m \in Nat : m = Reported /\ m <= MAX_REPORTED
            BY <3>2, FewReported
        <3>4. \A i \in 1 .. m : b + BYTES_PER_OBJ * (i - 1) \in Nat
            BY DEF BYTES_PER_OBJ
        <3>5. report = [i \in 1 .. m |-> b + BYTES_PER_OBJ * (i - 1)]
            BY <3>1, <3>2, <3>3
        <3> QED BY <3>3, <3>4, <3>5
    <2> QED BY <2>1, <2>2
<1>5. written \subseteq 0 .. PRESENSE_BITS
    <2> SUFFICES ASSUME NEW address \in written PROVE address \in 0 .. PRESENSE_BITS
        OBVIOUS
    <2> DEFINE U == {r \in DOMAIN device["control"] : r < 20}
    <2>1. address = Cardinality(U) /\ DOMAIN device["control"] \in SUBSET Nat
        BY KindsAre, Described DEF F12Inv, ConfigReaches20
    <2>2. U \in SUBSET (0 .. 19)
        BY <2>1
    <2>3. IsFiniteSet(0 .. 19) /\ Cardinality(0 .. 19) = 20
        <3>1. 0 \in Int /\ 19 \in Int /\ 0 <= 19 + 1 /\ 19 + 1 - 0 = 20
            OBVIOUS
        <3> QED BY <3>1, Interval
    <2> HIDE DEF U
    <2>4. Cardinality(U) \in Nat /\ Cardinality(U) <= 20
        BY <2>2, <2>3, FS_Subset, FS_CardinalityType
    <2> QED BY <2>1, <2>4 DEF PRESENSE_BITS
<1>6. pkt_size \in Nat
    BY DEF F12Inv, LayoutInv
<1> QED BY <1>1, <1>2, <1>3, <1>4, <1>5, <1>6 DEF F12Inv, TypeOK

(* A descriptor that attach() went past is the touchpad's: F12 takes no    *)
(* byte of it for another one, whatever registers, sizes and subpackets    *)
(* there are.                                                              *)
THEOREM DescriptorsAreExact == FunctionSpec => []DescriptorsExact
<1>1. F12Inv => DescriptorsExact
    <2> SUFFICES ASSUME F12Inv, NEW k \in Kind, reg_desc[k] # <<>>, reg_desc[k][1].reg_size # 0
                 PROVE  reg_desc[k] = Descriptor(device[k])
        BY DEF DescriptorsExact
    <2>1. device \in Device /\ reg_desc[k] \in {Zeros(device[k]), Descriptor(device[k])}
        BY DEF F12Inv, DescriptorsInv
    <2>2. Cardinality(DOMAIN device[k]) \in Nat /\ Cardinality(DOMAIN device[k]) >= 1
        BY <2>1, Described
    <2>3. Zeros(device[k])[1].reg_size = 0
        BY <2>2 DEF Zeros
    <2> QED BY <2>1, <2>3
<1> QED BY <1>1, F12Always, PTL

(* F12 takes the right bytes for the size, the pitch and the receivers of  *)
(* the sensor, borders before them or not.                                 *)
THEOREM TuningIsExact == FunctionSpec => []TuningExact
<1>1. F12Inv => TuningExact
    BY DEF F12Inv, LayoutInv, TuningExact, Sensor
<1> QED BY <1>1, F12Always, PTL

(* config() writes to control register 20 and to no other, however far     *)
(* attach() got.                                                           *)
THEOREM ConfigReachesRegister20 == FunctionSpec => []ConfigReaches20
<1>1. F12Inv => ConfigReaches20
    BY DEF F12Inv
<1> QED BY <1>1, F12Always, PTL

(* What a sensor reports, F11's or F12's, lies within its packets and is   *)
(* where the touchpad put it.                                              *)
THEOREM ReportsAreWhole == FunctionSpec => []ReportsWhole
<1>1. F12Inv /\ F11!ObjectsWhole => ReportsWhole
    BY ObjectsAreWhole DEF ReportsWhole
<1> QED BY <1>1, F12Always, F11ReportsAreWhole, PTL

LEMMA FunctionIs == FunctionSpec => [](function \in {"F11", "F12", "buttons"})
<1>1. FunctionInit => function \in {"F11", "F12", "buttons"}
    BY DEF FunctionInit
<1>2. function \in {"F11", "F12", "buttons"} /\ [FunctionNext]_functionVars => (function \in {"F11", "F12", "buttons"})'
    BY DEF FunctionNext, F11Step, F12Step, ButtonStep, functionVars
<1> QED BY <1>1, <1>2, PTL DEF FunctionSpec

(* Every variable of the functions has its type; no report has more        *)
(* objects than its array holds.                                           *)
THEOREM FunctionsTypeCorrect == FunctionSpec => []FunctionTypeOK
<1>1. F11Inv => trackpadEnable \in BOOLEAN
    BY DEF F11Inv, PacketInv
<1>2. function \in {"F11", "F12", "buttons"} /\ F11Inv /\ F12Inv /\ ButtonsInv => FunctionTypeOK
    BY <1>1, F11Typed, F12Typed, ButtonsTyped DEF FunctionTypeOK
<1> QED BY <1>2, FunctionIs, F11Always, F12Always, ButtonsAlways, PTL
=============================================================================
