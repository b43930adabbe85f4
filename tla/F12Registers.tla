---------------------------- MODULE F12Registers ----------------------------
(***************************************************************************)
(* Function F12 of VoodooRMI, the touchpad's sensor: attach() learns from  *)
(* three register descriptors which packet registers there are, how long   *)
(* they are and what they consist of; from then on config() and            *)
(* attention() reach registers by what it learnt (Functions/F12.cpp).      *)
(* What becomes of a report is FingerTracking's.                           *)
(*                                                                         *)
(* A descriptor is modelled byte by byte, since its format is what can go  *)
(* wrong; a bitmap is the set of its bits.                                 *)
(***************************************************************************)
EXTENDS Integers, Sequences, SequencesExt, FiniteSetsExt

CONSTANTS
    Device        \* the touchpads: records of the registers of each kind, with
                  \* size and subpackets, of the form of the descriptors, and of
                  \* what the general query says

Kind   == {"query", "control", "data"}

BITS_PER_LONG   == 64
BITS_PER_INT    == 32
PRESENSE_BITS   == 256    \* RMI_REG_DESC_PRESENSE_BITS
BYTES_PER_OBJ   == 8      \* F12_DATA1_BYTES_PER_OBJ
MAX_REPORTED    == 5
MAX_SIZE        == 2147483647           \* of a register: reg_size is an int
WIDTHS          == <<4, 4, 4, 2, 1>>    \* of the subpackets of control register 8

(* What control register 8 consists of: <<3, 0>> is the first byte of its  *)
(* subpacket 3.                                                            *)
Tuning(subpackets) ==
    LET Part(s) == IF s \in subpackets THEN [b \in 1 .. WIDTHS[s + 1] |-> <<s, b - 1>>] ELSE <<>>
    IN  Part(0) \o Part(1) \o Part(2) \o Part(3) \o Part(4)

(* Registers have subpackets and a size, and data register 1 has an object *)
(* in each, at an offset that 16 bits tell.  The first register of a kind  *)
(* is one of those that find_first_bit finds: its mask is an int's         *)
(* (ffsll); num_registers, of 8 bits, tells how many of them there are.    *)
(* F12's reads are assumed to be read whole: what RMII2C cuts of a packet  *)
(* or of a descriptor longer than the touchpad's largest report is not     *)
(* modelled here, and every property below is said of touchpads whose      *)
(* reports are long enough.                                                *)
ASSUME DeviceAssumption ==
    \A d \in Device :
        /\ {d.long, d.dribble, d.described} \subseteq BOOLEAN
        /\ \A k \in Kind :
             /\ DOMAIN d[k] # {} /\ DOMAIN d[k] \subseteq 0 .. PRESENSE_BITS - 1
             /\ Min(DOMAIN d[k]) < BITS_PER_INT - 1
             /\ Cardinality(DOMAIN d[k]) < 256
             /\ \A r \in DOMAIN d[k] :
                  d[k][r].size \in 1 .. MAX_SIZE /\ d[k][r].subpackets \subseteq 0 .. PRESENSE_BITS - 2
        /\ 0 \in DOMAIN d.data => d.data[0].size < 65536
        /\ 1 \in DOMAIN d.data =>
             /\ d.data[1].subpackets # {}
             /\ d.data[1].size = BYTES_PER_OBJ * Cardinality(d.data[1].subpackets)
        /\ 8 \in DOMAIN d.control =>
             /\ d.control[8].subpackets \subseteq 0 .. 4
             /\ d.control[8].size = Len(Tuning(d.control[8].subpackets))

VARIABLES
    device,
    life,          \* how far attach() is; "ready" and "failed" are what it returned;
                   \* "unallocated": ready, with a null pointer for the control
                   \* registers' items; "panicked": it was followed
    has_dribble, reg_desc, pkt_size, sensor, data1,   \* fields of F12; reg_desc:
                   \* the registers of each kind; sensor: what it takes for the
                   \* bytes of control register 8; data1: where in a packet data
                   \* register 1 begins, and its number of fingers
    trackpadEnable,
    report,        \* where in the packet the objects last reported were
    written        \* what config() has written to, counted from the address of
                   \* the control registers

fieldVars  == <<has_dribble, reg_desc, pkt_size, sensor, data1>>
vars == <<device, life, fieldVars, trackpadEnable, report, written>>

-----------------------------------------------------------------------------
(* The bits of a byte, and the byte of some bits.                          *)
WEIGHTS == <<1, 2, 4, 8, 16, 32, 64, 128>>

Bits(byte) == {b \in 0 .. 7 : (byte \div WEIGHTS[b + 1]) % 2 = 1}

ByteOf(bits) ==
    LET weight(b) == IF b \in bits THEN WEIGHTS[b + 1] ELSE 0
    IN  weight(0) + weight(1) + weight(2) + weight(3) + weight(4) + weight(5) + weight(6) + weight(7)

(* C's s[o].                                                               *)
At(s, o) == s[o + 1]

(* The members of a set of numbers in order: the i-th has i up to it.      *)
Sorted(S) == [i \in 1 .. Cardinality(S) |-> CHOOSE r \in S : Cardinality({x \in S : x <= r}) = i]

(* How a touchpad describes a register: its size, in one, two or four      *)
(* bytes, longer forms after a zero of the shorter; then its subpackets,   *)
(* seven to a byte, whose eighth bit tells that another one follows.       *)
SizeBytes(n) ==
    IF n < 256 THEN <<n>>
    ELSE IF n < 65536 THEN <<0, n % 256, n \div 256>>
    ELSE <<0, 0, 0, n % 256, (n \div 256) % 256, (n \div 65536) % 256, n \div 16777216>>

MapBytes(subpackets) ==
    LET last == Max(subpackets \cup {0}) \div 7
    IN  [k \in 1 .. last + 1 |->
            ByteOf({b \in 0 .. 6 : 7 * (k - 1) + b \in subpackets}) + IF k <= last THEN 128 ELSE 0]

StructBytes(regs) ==
    FlattenSeq([i \in 1 .. Cardinality(DOMAIN regs) |->
        LET r == Sorted(DOMAIN regs)[i]
        IN  SizeBytes(regs[r].size) \o MapBytes(regs[r].subpackets)])

(* And which registers there are: the length of that structure, in a byte  *)
(* or in two after a zero, and a bitmap.                                   *)
PresenceBytes(regs, long) ==
    LET n == Len(StructBytes(regs))
    IN  (IF long \/ n > 255 THEN <<0, n % 256, n \div 256>> ELSE <<n>>)
          \o [k \in 1 .. Max(DOMAIN regs) \div 8 + 1 |->
                ByteOf({b \in 0 .. 7 : 8 * (k - 1) + b \in DOMAIN regs})]

-----------------------------------------------------------------------------
(* LinuxCompat.h: the first bit of an unsigned long, with an int's mask    *)
(* (whose sign bit covers all bits from its own on), of a bitmap, of which *)
(* it is the first long's, and of a bitmap from some bit on.               *)
ffsll(bits) == IF bits = {} THEN BITS_PER_LONG ELSE Min(bits \cup {BITS_PER_INT - 1})

find_first_bit(map) == ffsll(map \cap 0 .. BITS_PER_LONG - 1)

find_next_bit(map, from) == Min({b \in map : b >= from} \cup {PRESENSE_BITS})

(* Mutant of RegSize: the four bytes are taken to begin after one zero.    *)
RegSizeNoSkip(s, o) ==
    IF At(s, o) # 0 THEN [size |-> At(s, o), next |-> o + 1]
    ELSE [size |-> At(s, o + 1) + 256 * At(s, o + 2), next |-> o + 3]

(* The size of a register at s[o], and where its subpackets' bitmap begins. *)
RegSize(s, o) ==
    IF At(s, o) # 0 THEN [size |-> At(s, o), next |-> o + 1]
    ELSE LET two == At(s, o + 1) + 256 * At(s, o + 2)
         IN  IF two # 0 THEN [size |-> two, next |-> o + 3]
             ELSE [size |-> At(s, o + 3) + 256 * At(s, o + 4) + 65536 * At(s, o + 5)
                              + 16777216 * At(s, o + 6),
                   next |-> o + 7]

(* Descriptors, as rmi_read_register_desc takes them from the registers:   *)
(* the bytes of presence, and those of the structure.                      *)
PresenceMap(presence) ==
    LET first == IF At(presence, 0) = 0 THEN 3 ELSE 1
    IN  UNION {{8 * (i - first) + b : b \in Bits(At(presence, i))} : i \in first .. Len(presence) - 1}

StructSize(presence) ==
    IF At(presence, 0) = 0 THEN At(presence, 1) + 256 * At(presence, 2) ELSE At(presence, 0)

(* The subpackets in the bytes from s[o] to s[last].                       *)
Subpackets(s, o, last) ==
    UNION {{7 * (k - o) + b : b \in Bits(At(s, k)) \ {7}} : k \in o .. last}

(* The item of a register; "next" is where the one after it begins.        *)
ReadItem(s, o, reg) ==
    LET size == RegSize(s, o)
        last == CHOOSE k \in size.next .. Len(s) - 1 :
                    /\ At(s, k) < 128
                    /\ \A j \in size.next .. k - 1 : At(s, j) >= 128
    IN  [reg |-> reg, reg_size |-> size.size, subpackets |-> Subpackets(s, size.next, last),
         next |-> last + 1]

Registers(presence, s) ==
    LET map == PresenceMap(presence)
        item[i \in 1 .. Cardinality(map) % 256] ==
            IF i = 1 THEN ReadItem(s, 0, find_first_bit(map))
            ELSE ReadItem(s, item[i - 1].next, find_next_bit(map, item[i - 1].reg + 1))
    IN  [i \in DOMAIN item |-> [reg        |-> item[i].reg,
                                reg_size   |-> item[i].reg_size,
                                subpackets |-> item[i].subpackets]]

(* rmi_get_register_desc_item: the items of a register, one or none, and   *)
(* the one that there is.                                                  *)
Item(k, r) == {reg_desc[k][i] : i \in {j \in DOMAIN reg_desc[k] : reg_desc[k][j].reg = r}}

Found(k, r) == CHOOSE item \in Item(k, r) : TRUE

(* rmi_register_desc_calc_reg_offset: every register has one address.      *)
RegOffset(k, r) == SelectInSeq(reg_desc[k], LAMBDA item : item.reg = r) - 1

(* rmi_register_desc_calc_size, of the items of some registers.            *)
CalcSize(items) ==
    LET size[i \in 0 .. Len(items)] == IF i = 0 THEN 0 ELSE size[i - 1] + items[i].reg_size
    IN  size[Len(items)]

-----------------------------------------------------------------------------
Nothing == [offset |-> 0, fingers |-> 0]

Init ==
    /\ device \in Device
    /\ life = "general"
    /\ has_dribble = FALSE /\ reg_desc = [k \in Kind |-> <<>>] /\ pkt_size = 0
    /\ sensor = <<>> /\ data1 = Nothing
    /\ trackpadEnable = TRUE
    /\ report = <<>> /\ written = {}

(* attach(): the general query.                                            *)
ReadGeneral ==
    /\ life = "general"
    /\ IF device.described
         THEN life' = "query" /\ has_dribble' = device.dribble
         ELSE life' = "failed" /\ UNCHANGED has_dribble
    /\ UNCHANGED <<device, reg_desc, pkt_size, sensor, data1, trackpadEnable, report, written>>

ReadGeneralError ==
    /\ life = "general"
    /\ life' = "failed"
    /\ UNCHANGED <<device, fieldVars, trackpadEnable, report, written>>

Following(k) == CASE k = "query" -> "control" [] k = "control" -> "data" [] k = "data" -> "packet"

ReadDescriptor(k) ==
    /\ life = k
    /\ LET presence == PresenceBytes(device[k], device.long)
           struct   == SubSeq(StructBytes(device[k]), 1, StructSize(presence))
       IN  reg_desc' = [reg_desc EXCEPT ![k] = Registers(presence, struct)]
    /\ life' = Following(k)
    /\ UNCHANGED <<device, has_dribble, pkt_size, sensor, data1, trackpadEnable, report, written>>

(* "return ret" of an error makes the attachment succeed.  If it is the    *)
(* structure that could not be read there are items, of nothing but zeros; *)
(* if there was no memory for the items num_registers is set, registers is *)
(* null, and only the control registers' are looked at again.              *)
ReadDescriptorError(k) ==
    /\ life = k
    /\ \/ life' = "ready" /\ UNCHANGED reg_desc
       \/ /\ life' = "ready"
          /\ reg_desc' = [reg_desc EXCEPT ![k] =
                             [i \in 1 .. Cardinality(DOMAIN device[k]) |->
                                 [reg |-> 0, reg_size |-> 0, subpackets |-> {}]]]
       \/ life' = (IF k = "control" THEN "unallocated" ELSE "ready") /\ UNCHANGED reg_desc
    /\ UNCHANGED <<device, has_dribble, pkt_size, sensor, data1, trackpadEnable, report, written>>

(* The memory of a packet, or "return -ENOMEM", which succeeds too.        *)
AllocatePacket ==
    /\ life = "packet"
    /\ pkt_size' = CalcSize(reg_desc["data"])
    /\ life' \in {"tuning", "ready"}
    /\ UNCHANGED <<device, has_dribble, reg_desc, sensor, data1, trackpadEnable, report, written>>

(* Mutant of Receivers: subpacket 2 is not skipped.                        *)
ReceiversAtOnce(item) == 8

(* The receivers come after the borders, if there are any.                 *)
Receivers(item) == IF 2 \in item.subpackets THEN 12 ELSE 8

(* rmi_f12_read_sensor_tuning: the size of the sensor and the pitch, and   *)
(* the numbers of receivers.                                               *)
ReadTuning ==
    /\ life = "tuning"
    /\ \E item \in Item("control", 8) :
         /\ item.reg_size <= 15
         /\ {0, 1, 3} \subseteq item.subpackets
         /\ LET buf == SubSeq(Tuning(device.control[8].subpackets), 1, item.reg_size)
                at  == Receivers(item)
            IN  sensor' = SubSeq(buf, 1, 8) \o <<At(buf, at), At(buf, at + 1)>>
    /\ life' = "layout"
    /\ UNCHANGED <<device, has_dribble, reg_desc, pkt_size, data1, trackpadEnable, report, written>>

(* The register, or a subpacket that is needed, is missing, or not read.   *)
ReadTuningError ==
    /\ life = "tuning"
    /\ life' = "failed"
    /\ UNCHANGED <<device, fieldVars, trackpadEnable, report, written>>

(* Mutant of DataOffset: data register 0 is taken to have one byte.        *)
DataOffsetByIndex == RegOffset("data", 1)

(* data_offset, of 16 bits, when data register 1 is looked at.             *)
DataOffset ==
    IF Item("data", 0) = {} THEN 0 ELSE Found("data", 0).reg_size % 65536

Layout ==
    /\ life = "layout"
    /\ IF Item("data", 1) = {}
         THEN life' = "failed" /\ UNCHANGED data1
         ELSE /\ life' = "ready"
              /\ \E item \in Item("data", 1) :
                   data1' = [offset |-> DataOffset, fingers |-> Cardinality(item.subpackets) % 256]
    /\ UNCHANGED <<device, has_dribble, reg_desc, pkt_size, sensor, trackpadEnable, report, written>>

(* Mutant of ControlOffset: registers are as far apart as they are long.   *)
ControlOffsetBySize == CalcSize(SelectSeq(reg_desc["control"], LAMBDA item : item.reg < 20))

ControlOffset == RegOffset("control", 20)

(* config(): the dribble bit of control register 20 is turned off.  Errors *)
(* leave it as it is.                                                      *)
Config ==
    /\ life = "ready"
    /\ has_dribble /\ Item("control", 20) # {}
    /\ written' = written \cup {ControlOffset}
    /\ UNCHANGED <<device, life, fieldVars, trackpadEnable, report>>

(* The lookup of register 20 goes through num_registers items at null.     *)
ConfigPanics ==
    /\ life = "unallocated"
    /\ has_dribble
    /\ life' = "panicked"
    /\ UNCHANGED <<device, fieldVars, trackpadEnable, report, written>>

(* Mutant of Reported: all fingers that the touchpad can tell apart.       *)
ReportedAll == data1.fingers

Reported == Min({data1.fingers, MAX_REPORTED})

(* attention(): the packet is read and its objects are reported, unless    *)
(* the trackpad is disabled or attach() did not get as far as its layout.  *)
Attention ==
    /\ life = "ready"
    /\ data1 # Nothing
    /\ trackpadEnable
    /\ report' = [i \in 1 .. Reported |-> data1.offset + BYTES_PER_OBJ * (i - 1)]
    /\ UNCHANGED <<device, life, fieldVars, trackpadEnable, written>>

(* message(kKeyboardSetTouchStatus).                                       *)
SetTouchStatus ==
    /\ life \in {"ready", "unallocated"}
    /\ trackpadEnable' = ~trackpadEnable
    /\ UNCHANGED <<device, life, fieldVars, report, written>>

Next ==
    \/ ReadGeneral
    \/ ReadGeneralError
    \/ \E k \in Kind : ReadDescriptor(k) \/ ReadDescriptorError(k)
    \/ AllocatePacket
    \/ ReadTuning
    \/ ReadTuningError
    \/ Layout
    \/ Config
    \/ ConfigPanics
    \/ Attention
    \/ SetTouchStatus

Spec == Init /\ [][Next]_vars

-----------------------------------------------------------------------------
(* Every variable has its type; a report has no more than five objects,    *)
(* whatever number of them a touchpad can tell apart.                      *)
TypeOK ==
    /\ life \in Kind \cup {"general", "packet", "tuning", "layout", "ready", "failed",
                          "unallocated", "panicked"}
    /\ has_dribble \in BOOLEAN
    /\ reg_desc \in [Kind -> Seq([reg : 0 .. PRESENSE_BITS, reg_size : Nat,
                                  subpackets : SUBSET (0 .. PRESENSE_BITS - 2)])]
    /\ pkt_size \in Nat
    /\ sensor \in Seq((0 .. 4) \X (0 .. 3))
    /\ data1 \in [offset : Nat, fingers : 0 .. 255]
    /\ trackpadEnable \in BOOLEAN
    /\ report \in Seq(Nat) /\ Len(report) <= MAX_REPORTED
    /\ written \subseteq 0 .. PRESENSE_BITS

(* What a touchpad means by a descriptor.                                  *)
Descriptor(regs) ==
    [i \in 1 .. Cardinality(DOMAIN regs) |->
        [reg |-> Sorted(DOMAIN regs)[i], reg_size |-> regs[Sorted(DOMAIN regs)[i]].size,
         subpackets |-> regs[Sorted(DOMAIN regs)[i]].subpackets]]

(* A descriptor that was read is the touchpad's: in order, each register   *)
(* with its size and its subpackets, in whichever form sizes come.         *)
(* A descriptor is read when attach() goes past it.                        *)
DescriptorsExact ==
    \A k \in Kind : reg_desc[k] # <<>> /\ reg_desc[k][1].reg_size # 0 =>
                        reg_desc[k] = Descriptor(device[k])

(* What is taken for the size, the pitch and the receivers of the sensor   *)
(* are these, whether or not the touchpad tells of borders before them.    *)
TuningExact ==
    sensor # <<>> =>
        sensor = <<<<0, 0>>, <<0, 1>>, <<0, 2>>, <<0, 3>>, <<1, 0>>, <<1, 1>>, <<1, 2>>, <<1, 3>>,
                   <<3, 0>>, <<3, 1>>>>

(* Every object reported is one that the touchpad put into the packet,     *)
(* after whatever register 0 has there, and all of it was read; no report  *)
(* comes of an attach() that succeeded only because it returned its error. *)
ObjectsWhole ==
    LET before == IF 0 \in DOMAIN device.data THEN device.data[0].size ELSE 0
    IN  \A i \in DOMAIN report :
          /\ 1 \in DOMAIN device.data /\ sensor # <<>>
          /\ \E s \in 0 .. Cardinality(device.data[1].subpackets) - 1 :
               report[i] = before + BYTES_PER_OBJ * s
          /\ report[i] + BYTES_PER_OBJ <= pkt_size

(* config() writes to control register 20 and to no other, at the address  *)
(* after those of the registers before it, even if attach() gave up after  *)
(* or while reading the descriptor.                                        *)
ConfigReaches20 ==
    \A address \in written :
        /\ 20 \in DOMAIN device.control
        /\ address = Cardinality({r \in DOMAIN device.control : r < 20})
=============================================================================
