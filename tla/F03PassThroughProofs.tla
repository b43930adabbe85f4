------------------------- MODULE F03PassThroughProofs -------------------------
(***************************************************************************)
(* Proofs about F03PassThrough, for any commands, any bytes that arrive    *)
(* and any order of the worker's statements, timeouts and bytes.           *)
(***************************************************************************)
EXTENDS F03PassThrough, SequenceTheorems, TLAPS

AnyByte == {"ack", "bat", "zero", "move"}

LEMMA ScriptFacts ==
    ASSUME NEW k \in 1 .. Len(Script)
    PROVE  /\ Script[k].send \in 0 .. 15 /\ Script[k].receive \in 0 .. 8
           /\ Script[k].param \in Seq(AnyByte) /\ Len(Script[k].param) \in {0, Script[k].receive}
<1>1. Script[k] \in [send : 0 .. 15, receive : 0 .. 8, param : Seq(AnyByte)]
    BY ScriptAssumption, ElementOfSeq DEF AnyByte
<1>2. Len(Script[k].param) \in {0, Script[k].receive}
    BY ScriptAssumption
<1> QED BY <1>1, <1>2

LEMMA ScriptLength == Len(Script) \in Nat /\ Len(Script) >= 1
<1> DEFINE R == [send : 0 .. 15, receive : 0 .. 8, param : Seq(AnyByte)]
<1>1. Script \in Seq(R) /\ Script # <<>>
    BY ScriptAssumption DEF AnyByte
<1> HIDE DEF R
<1> QED BY <1>1, EmptySeq

(* Of the command at hand.                                                 *)
LEMMA CommandFacts ==
    ASSUME TypeOK
    PROVE  /\ cmd \in 1 .. Len(Script) /\ cmd \in Nat
           /\ receive \in 0 .. 8 /\ Bytes \in 1 .. 16
           /\ Script[cmd].param \in Seq(AnyByte) /\ Len(Script[cmd].param) \in {0, receive}
<1>1. cmd \in 1 .. Len(Script) /\ cmd \in Nat
    BY ScriptLength DEF TypeOK
<1>2. /\ Script[cmd].send \in 0 .. 15 /\ Script[cmd].receive \in 0 .. 8
      /\ Script[cmd].param \in Seq(AnyByte)
      /\ Len(Script[cmd].param) \in {0, Script[cmd].receive}
    BY <1>1, ScriptFacts
<1>3. receive = Script[cmd].receive
    BY DEF receive
<1>4. Bytes = 1 + Script[cmd].send
    BY DEF Bytes
<1>5. receive \in 0 .. 8 /\ Len(Script[cmd].param) \in {0, receive}
    BY <1>2, <1>3
<1>6. Bytes \in 1 .. 16
    <2> DEFINE s == Script[cmd].send
    <2>1. s \in 0 .. 15 /\ Bytes = 1 + s
        BY <1>2, <1>4
    <2> HIDE DEF s
    <2> QED BY <2>1
<1> QED BY <1>1, <1>2, <1>5, <1>6

(* What a byte makes of the exchange.                                      *)
LEMMA HeardFacts ==
    ASSUME TypeOK, NEW b \in AnyByte, Heard(b)
    PROVE  \/ answer' = Lost
           \/ /\ answer # Lost /\ answer \in Seq(AnyByte) /\ Due(b)
              /\ answer' = Append(answer, b) /\ answer' \in Seq(AnyByte)
              /\ Len(answer') = Len(answer) + 1 /\ Len(answer) \in Nat
              /\ \A j \in 1 .. Len(answer) : answer'[j] = answer[j]
              /\ answer'[Len(answer) + 1] = b
<1> SUFFICES ASSUME answer' # Lost
             PROVE  /\ answer # Lost /\ answer \in Seq(AnyByte) /\ Due(b)
                    /\ answer' = Append(answer, b) /\ answer' \in Seq(AnyByte)
                    /\ Len(answer') = Len(answer) + 1 /\ Len(answer) \in Nat
                    /\ \A j \in 1 .. Len(answer) : answer'[j] = answer[j]
                    /\ answer'[Len(answer) + 1] = b
    OBVIOUS
<1>1. answer # Lost /\ Due(b) /\ answer' = Append(answer, b)
    BY DEF Heard
<1>2. answer \in Seq(AnyByte)
    BY <1>1 DEF TypeOK, AnyByte
<1>3. Len(answer) \in Nat
    BY <1>2, LenProperties
<1>4. /\ answer' \in Seq(AnyByte) /\ Len(answer') = Len(answer) + 1
      /\ \A j \in 1 .. Len(answer) : answer'[j] = answer[j]
      /\ answer'[Len(answer) + 1] = b
    BY <1>1, <1>2, AppendProperties
<1> QED BY <1>1, <1>2, <1>3, <1>4

-----------------------------------------------------------------------------
(* Type correctness needs to know where in a command the worker is.        *)
Control ==
    /\ pc \in {"byte", "write", "sleep", "asleep", "acked"} => sent < Bytes
    /\ pc \in {"write", "sleep", "asleep"} => tries <= 1

HandType ==
    /\ hand \in {"none", "packet", "reply", "finish", "load", "store", "wake"}
    /\ byte \in AnyByte /\ count \in 0 .. 8
    /\ bit \in {"ACK", "CMD"} /\ seen \subseteq {"ACK", "CMD"}

LEMMA BooleanStep ==
    ASSUME TypeOK, [Next]_vars
    PROVE  armed' \in BOOLEAN /\ announced' \in BOOLEAN /\ late' \in BOOLEAN
<1> USE DEF TypeOK, packetVars, history
<1>1. armed \in BOOLEAN /\ announced \in BOOLEAN /\ late \in BOOLEAN
    OBVIOUS
<1>2. CASE UNCHANGED vars
    BY <1>1, <1>2 DEF vars
<1>3. CASE Attach \/ Start \/ Stop \/ PowerOn
    BY <1>1, <1>3, Zenon DEF Attach, Start, Stop, PowerOn
<1>4. CASE Worker
    BY <1>1, <1>4, Zenon DEF Worker, TimerFires, ResetIndex, StartCommand, ExpectAck, WriteByte, WriteError,
       SleepForAck, AckTimeout, ByteDone, ExpectReply, SleepForReply, ReplyTimeout, CopyReply, EndCommand,
       EndInit
<1>5. CASE handleByte
    BY <1>1, <1>5, Zenon DEF handleByte, SortByte, HandlesPacket, SkipByte, PacketByte, Announces, LastByte,
       AskReinit, Overrun, StoreByte, ReplyGoesOn, ReplyEnds, LoadFlags, StoreFlags, WakeWorker
<1> QED BY <1>2, <1>3, <1>4, <1>5 DEF Next

LEMMA LifeType == TypeOK /\ Control /\ (Attach \/ Start \/ Stop \/ PowerOn) => TypeOK' /\ Control'
<1> SUFFICES ASSUME TypeOK, Control, Attach \/ Start \/ Stop \/ PowerOn PROVE TypeOK' /\ Control'
    OBVIOUS
<1>1. life' \in {"new", "attached", "up", "dead"} /\ rx_queue_length' \in 0 .. 15
    BY DEF TypeOK, Attach, Start, Stop, PowerOn, lifeVars
<1>2. armed' \in BOOLEAN
    BY Zenon DEF TypeOK, Attach, Start, Stop, PowerOn
<1>3. /\ UNCHANGED <<pc, cmd, sent, tries, flags, cmdcnt, cmdbuf, param, reinit, index, announced>>
      /\ UNCHANGED <<handVars, answer, late>>
    BY DEF Attach, Start, Stop, PowerOn, workVars, flagVars, packetVars, history
<1> QED BY <1>1, <1>2, <1>3 DEF TypeOK, Control, Bytes, handVars

LEMMA ReversedType ==
    ASSUME TypeOK, NEW p \in Seq(AnyByte)
    PROVE  Reversed(p) \in [0 .. 7 -> AnyByte]
<1>1. ASSUME NEW i \in 0 .. 7, i < Len(p) PROVE p[Len(p) - i] \in AnyByte
    <2>1. Len(p) \in Nat
        BY LenProperties
    <2>2. Len(p) - i \in 1 .. Len(p)
        BY <1>1, <2>1
    <2> QED BY <2>2, ElementOfSeq
<1>2. \A i \in 0 .. 7 : cmdbuf[i] \in AnyByte
    BY DEF TypeOK, AnyByte
<1> QED BY <1>1, <1>2 DEF Reversed

LEMMA ParamType ==
    ASSUME TypeOK
    PROVE  [i \in 1 .. Len(Script[cmd].param) |-> cmdbuf[receive - i]] \in Seq(AnyByte)
<1> DEFINE n == Len(Script[cmd].param)
<1>1. n \in Nat /\ n <= receive /\ receive \in 0 .. 8
    BY CommandFacts
<1>2. \A i \in 1 .. n : receive - i \in 0 .. 7
    BY <1>1
<1>3. \A i \in 1 .. n : cmdbuf[receive - i] \in AnyByte
    BY <1>2 DEF TypeOK, AnyByte
<1> HIDE DEF n
<1>4. [i \in 1 .. n |-> cmdbuf[receive - i]] \in [1 .. n -> AnyByte]
    BY <1>3
<1>5. [i \in 1 .. n |-> cmdbuf[receive - i]] \in Seq(AnyByte)
    BY <1>1, <1>4
<1> QED BY <1>5 DEF n

LEMMA WorkerType == TypeOK /\ Control /\ Worker => TypeOK' /\ Control'
<1> SUFFICES ASSUME TypeOK, Control, Worker PROVE TypeOK' /\ Control'
    OBVIOUS
<1>0. receive \in 0 .. 8 /\ Bytes \in 1 .. 16 /\ Len(Script) \in Nat /\ Len(Script) >= 1
    BY CommandFacts, ScriptLength
<1>b. armed' \in BOOLEAN /\ announced' \in BOOLEAN /\ late' \in BOOLEAN
    BY BooleanStep DEF Next
<1> USE DEF TypeOK, Control, lifeVars, workVars, flagVars, packetVars, handVars, history
<1>1. CASE TimerFires
    BY <1>0, <1>1, <1>b DEF TimerFires
<1>2. CASE ResetIndex
    <2>1. index' \in 0 .. Beyond
        BY <1>2, BoundsAssumption DEF ResetIndex
    <2> QED BY <1>2, <1>b, <2>1 DEF ResetIndex
<1>3. CASE StartCommand
    <2>1. cmdbuf' \in [0 .. 7 -> AnyByte]
        BY <1>3, CommandFacts, ReversedType DEF StartCommand
    <2>2. Bytes' = Bytes /\ (answer' = Lost \/ answer' \in Seq(AnyByte))
        BY <1>3, EmptySeq DEF StartCommand, Bytes
    <2> QED BY <1>0, <1>3, <1>b, <2>1, <2>2 DEF StartCommand, AnyByte
<1>4. CASE ExpectAck \/ WriteByte \/ SleepForAck
    <2>1. Bytes' = Bytes
        BY <1>4 DEF ExpectAck, WriteByte, SleepForAck, Bytes
    <2>2. answer' = Lost \/ answer' \in Seq({"ack", "bat", "zero", "move"})
        BY <1>4 DEF ExpectAck, WriteByte, SleepForAck
    <2>3. /\ pc \in {"byte", "write", "sleep"} /\ pc' \in {"write", "sleep", "asleep"}
          /\ tries' \in 0 .. 2 /\ tries' <= 1
        BY <1>4 DEF ExpectAck, WriteByte, SleepForAck
    <2>4. flags' \subseteq {"ACK", "CMD"}
        BY <1>4 DEF ExpectAck, WriteByte, SleepForAck
    <2>5. UNCHANGED <<life, rx_queue_length, armed, cmd, sent, cmdcnt, cmdbuf, param, reinit, index, handVars>>
        BY <1>4 DEF ExpectAck, WriteByte, SleepForAck
    <2> QED BY <1>0, <1>b, <2>1, <2>2, <2>3, <2>4, <2>5
<1>5. CASE WriteError \/ AckTimeout
    <2>1. Bytes' = Bytes
        BY <1>5 DEF WriteError, AckTimeout, Bytes
    <2>2. answer' = Lost \/ answer' \in Seq({"ack", "bat", "zero", "move"})
        BY <1>5 DEF WriteError, AckTimeout, Lost
    <2>3. pc \in {"write", "asleep"} /\ pc' \in {"write", "acked"} /\ tries' = tries + 1 /\ (pc' = "write" => tries < 1)
        BY <1>5 DEF WriteError, AckTimeout, TryAgain
    <2>4. UNCHANGED <<life, rx_queue_length, armed, cmd, sent, flags, cmdcnt, cmdbuf, param, reinit, index, handVars>>
        BY <1>5 DEF WriteError, AckTimeout
    <2> QED BY <1>0, <1>b, <2>1, <2>2, <2>3, <2>4
<1>6. CASE ByteDone
    <2>1. Bytes' = Bytes
        BY <1>6 DEF ByteDone, Bytes
    <2>2. sent' = sent + 1 /\ sent < Bytes
        BY <1>6 DEF ByteDone
    <2>3. sent' <= Bytes /\ sent' \in 0 .. 16
        BY <1>0, <2>2
    <2>4. pc' = IF sent' < Bytes THEN "byte" ELSE "reply"
        BY <1>6, <2>2 DEF ByteDone
    <2> QED BY <1>0, <1>6, <1>b, <2>1, <2>3, <2>4 DEF ByteDone
<1>7. CASE ExpectReply \/ SleepForReply \/ ReplyTimeout
    BY <1>7, <1>b DEF ExpectReply, SleepForReply, ReplyTimeout
<1>8. CASE CopyReply
    <2>1. param' \in Seq(AnyByte)
        BY <1>8, ParamType DEF CopyReply
    <2>2. answer' = Lost \/ answer' = answer
        BY <1>8 DEF CopyReply
    <2> QED BY <1>8, <1>b, <2>1, <2>2 DEF CopyReply, AnyByte
<1>9. CASE EndCommand
    <2>1. cmd' \in 1 .. Len(Script) /\ pc' \in {"end", "index", "command"}
        BY <1>0, <1>9 DEF EndCommand
    <2> QED BY <1>9, <1>b, <2>1 DEF EndCommand
<1>10. CASE EndInit
    BY <1>0, <1>10, <1>b, BoundsAssumption DEF EndInit
<1> QED BY <1>1, <1>2, <1>3, <1>4, <1>5, <1>6, <1>7, <1>8, <1>9, <1>10 DEF Worker

LEMMA ByteType == TypeOK /\ Control /\ handleByte => TypeOK' /\ Control'
<1> SUFFICES ASSUME TypeOK, Control, handleByte PROVE TypeOK' /\ Control'
    OBVIOUS
<1>b. armed' \in BOOLEAN /\ announced' \in BOOLEAN /\ late' \in BOOLEAN
    BY BooleanStep DEF Next
<1>1. UNCHANGED <<life, rx_queue_length, cmd, sent, tries, param>> /\ Bytes' = Bytes
    BY DEF handleByte, SortByte, SkipByte, PacketByte, LastByte, AskReinit, Overrun, HandlesPacket, StoreByte,
           ReplyGoesOn, ReplyEnds, LoadFlags, StoreFlags, WakeWorker, lifeVars, workVars, Bytes
<1>2. answer' = Lost \/ answer' \in Seq(AnyByte)
    <2>1. ASSUME NEW b \in Byte, SortByte(b) PROVE answer' = Lost \/ answer' \in Seq(AnyByte)
        BY <2>1, ByteAssumption, HeardFacts DEF SortByte, AnyByte
    <2>2. CASE UNCHANGED answer
        BY <2>2 DEF TypeOK, AnyByte
    <2> QED BY <2>1, <2>2 DEF handleByte, SkipByte, PacketByte, LastByte, AskReinit, Overrun, HandlesPacket,
            StoreByte, ReplyGoesOn, ReplyEnds, LoadFlags, StoreFlags, WakeWorker, history
<1>3. pc' = pc \/ (pc = "asleep" /\ pc' = "acked") \/ pc' = "copy"
    BY DEF handleByte, SortByte, SkipByte, PacketByte, LastByte, AskReinit, Overrun, HandlesPacket, StoreByte,
           ReplyGoesOn, ReplyEnds, LoadFlags, StoreFlags, WakeWorker, workVars
<1>4. HandType'
    <2>1. HandType
        BY DEF TypeOK, HandType, AnyByte
    <2>2. CASE \E b \in Byte : SortByte(b)
        BY <2>1, <2>2, ByteAssumption DEF TypeOK, SortByte, HandType, AnyByte
    <2>3. CASE ByteHandled
        BY <2>3 DEF ByteHandled, HandType, AnyByte
    <2>4. CASE StoreByte \/ ReplyEnds \/ LoadFlags \/ StoreFlags
        BY <2>1, <2>4 DEF TypeOK, StoreByte, ReplyEnds, LoadFlags, StoreFlags, HandType
    <2> QED BY <2>2, <2>3, <2>4 DEF handleByte, SkipByte, PacketByte, LastByte, AskReinit, Overrun,
            HandlesPacket, ReplyGoesOn, WakeWorker
<1>5. flags' \subseteq {"ACK", "CMD"} /\ cmdcnt' \in 0 .. 8 /\ cmdbuf' \in [0 .. 7 -> AnyByte]
    <2>1. CASE UNCHANGED flagVars
        BY <2>1 DEF TypeOK, AnyByte, flagVars
    <2>2. CASE StoreByte
        <3>1. count = 0 \/ count - 1 \in 0 .. 7
            BY DEF TypeOK
        <3>2. cmdcnt' \in 0 .. 8 /\ flags' = flags
            <4>1. cmdcnt \in 0 .. 8
                BY DEF TypeOK
            <4>2. flags' = flags /\ (cmdcnt' = cmdcnt \/ (count > 0 /\ cmdcnt' = count - 1))
                BY <2>2, Zenon DEF StoreByte
            <4> QED BY <3>1, <4>1, <4>2
        <3>3. cmdbuf' \in [0 .. 7 -> AnyByte]
            <4>1. cmdbuf \in [0 .. 7 -> AnyByte] /\ byte \in AnyByte
                BY DEF TypeOK, AnyByte
            <4>2. cmdbuf' = cmdbuf \/ (count # 0 /\ cmdbuf' = [cmdbuf EXCEPT ![count - 1] = byte])
                <5>1. count > 0 => count # 0
                    BY DEF TypeOK
                <5> QED BY <2>2, <5>1 DEF StoreByte
            <4> QED BY <3>1, <4>1, <4>2
        <3> QED BY <3>2, <3>3 DEF TypeOK
    <2>3. CASE StoreFlags
        BY <2>3 DEF StoreFlags, TypeOK, AnyByte
    <2> QED BY <2>1, <2>2, <2>3 DEF handleByte, SortByte, SkipByte, PacketByte, LastByte, AskReinit, Overrun,
            HandlesPacket, ReplyGoesOn, ReplyEnds, LoadFlags, WakeWorker, flagVars
<1>6. index' \in 0 .. Beyond /\ reinit' \in 0 .. maxReinit
    <2>1. CASE UNCHANGED <<reinit, index>>
        BY <2>1 DEF TypeOK
    <2>2. CASE PacketByte \/ LastByte \/ Overrun
        <3>1. reinit' = reinit /\ (index' = 0 \/ (index < 2 /\ index' = index + 1) \/ index' \in 0 .. Beyond)
            BY <2>2, Zenon DEF PacketByte, LastByte, Overrun
        <3> QED BY <3>1, BoundsAssumption DEF TypeOK
    <2>3. CASE AskReinit
        BY <2>3, BoundsAssumption DEF TypeOK, AskReinit
    <2> QED BY <2>1, <2>2, <2>3 DEF handleByte, SortByte, SkipByte, StoreByte, ReplyGoesOn, ReplyEnds, LoadFlags,
            StoreFlags, WakeWorker, packetVars
<1> QED BY <1>b, <1>1, <1>2, <1>3, <1>4, <1>5, <1>6 DEF TypeOK, Control, HandType, AnyByte

LEMMA TypeStep == TypeOK /\ Control /\ [Next]_vars => TypeOK' /\ Control'
<1>1. TypeOK /\ Control /\ UNCHANGED vars => TypeOK' /\ Control'
    BY DEF TypeOK, Control, vars, lifeVars, workVars, flagVars, packetVars, handVars, history, Bytes
<1> QED BY <1>1, LifeType, WorkerType, ByteType DEF Next

LEMMA InitType == Init => TypeOK /\ Control
<1> SUFFICES ASSUME Init PROVE TypeOK /\ Control
    OBVIOUS
<1>1. param \in Seq(AnyByte)
    BY EmptySeq DEF Init
<1>2. armed \in BOOLEAN /\ announced \in BOOLEAN /\ late \in BOOLEAN
    BY DEF Init
<1>3. cmd \in 1 .. Len(Script) /\ index \in 0 .. Beyond /\ reinit \in 0 .. maxReinit
    BY ScriptLength, BoundsAssumption DEF Init
<1>4. cmdbuf \in [0 .. 7 -> AnyByte]
    BY DEF Init, AnyByte
<1> QED BY <1>1, <1>2, <1>3, <1>4 DEF Init, TypeOK, Control, AnyByte

(* Every variable keeps its type: index too, which goes past databuf.      *)
THEOREM TypeCorrect == Spec => []TypeOK
<1> QED BY InitType, TypeStep, PTL DEF Spec

-----------------------------------------------------------------------------
(* When no command is in progress nothing is waited for.  That initPS2's   *)
(* last command, ENABLE, has no reply is what leaves cmdcnt at zero: also  *)
(* a byte that handleByte sorts then finds no count to store.              *)
InCommand == {"byte", "write", "sleep", "asleep", "acked", "reply", "replysleep", "replyasleep",
              "copy", "exit"}

NoCount == cmdcnt = 0 /\ (hand = "reply" => count = 0)
NoFlags == flags = {} /\ (hand = "store" => seen = {})

Quiet ==
    /\ pc \in InCommand /\ cmd = Len(Script) /\ ~late => NoCount
    /\ pc \in {"idle", "end"} /\ ~late => NoCount /\ NoFlags

LEMMA QuietWorker ==
    ASSUME Script[Len(Script)].receive = 0, TypeOK, Quiet, Worker
    PROVE  Quiet'
<1> USE DEF InCommand, NoCount, NoFlags, lifeVars, workVars, flagVars, handVars, history
<1>1. CASE TimerFires \/ ResetIndex
    BY <1>1 DEF Quiet, TimerFires, ResetIndex
<1>2. CASE StartCommand
    <2>1. pc' = "byte" /\ cmd' = cmd /\ cmdcnt' = receive /\ UNCHANGED <<hand, count>>
        BY <1>2 DEF StartCommand
    <2>2. ~late' /\ hand = "reply" => ~(count > 0)
        BY <1>2 DEF StartCommand
    <2>3. ~late' /\ hand = "reply" => count = 0
        BY <2>2 DEF TypeOK
    <2>4. cmd = Len(Script) => cmdcnt' = 0
        BY <2>1 DEF receive
    <2> QED BY <2>1, <2>3, <2>4 DEF Quiet
<1>3. CASE ExpectAck \/ WriteByte \/ WriteError \/ SleepForAck \/ AckTimeout
    BY <1>3 DEF Quiet, ExpectAck, WriteByte, WriteError, SleepForAck, AckTimeout, TryAgain
<1>4. CASE ByteDone
    BY <1>4 DEF Quiet, ByteDone
<1>5. CASE ExpectReply \/ SleepForReply \/ ReplyTimeout \/ CopyReply
    BY <1>5 DEF Quiet, ExpectReply, SleepForReply, ReplyTimeout, CopyReply
<1>6. CASE EndCommand
    <2>1. /\ pc = "exit" /\ flags' = {} /\ UNCHANGED <<cmdcnt, hand, count, seen>>
          /\ pc' = "end" => cmd = Len(Script)
          /\ pc' \in {"end", "index", "command"}
        BY <1>6 DEF EndCommand
    <2>2. ~late' => ~late /\ hand # "store"
        BY <1>6 DEF EndCommand
    <2> QED BY <2>1, <2>2 DEF Quiet
<1>7. CASE EndInit
    BY <1>7 DEF Quiet, EndInit
<1> QED BY <1>1, <1>2, <1>3, <1>4, <1>5, <1>6, <1>7 DEF Worker

LEMMA QuietByte == TypeOK /\ Quiet /\ handleByte => Quiet'
<1> SUFFICES ASSUME TypeOK, Quiet, handleByte PROVE Quiet'
    OBVIOUS
<1> USE DEF lifeVars, workVars, flagVars, handVars, history
<1>1. UNCHANGED <<cmd, late>>
    BY DEF handleByte, SortByte, SkipByte, PacketByte, LastByte, AskReinit, Overrun, HandlesPacket, StoreByte,
           ReplyGoesOn, ReplyEnds, LoadFlags, StoreFlags, WakeWorker
<1>2. pc' = pc \/ (pc = "asleep" /\ pc' = "acked") \/ (pc = "replyasleep" /\ pc' = "copy")
    BY DEF handleByte, SortByte, SkipByte, PacketByte, LastByte, AskReinit, Overrun, HandlesPacket, StoreByte,
           ReplyGoesOn, ReplyEnds, LoadFlags, StoreFlags, WakeWorker
<1>3. NoCount => NoCount'
    <2>1. ASSUME NEW b \in Byte, SortByte(b), NoCount PROVE NoCount'
        BY <2>1 DEF SortByte, NoCount
    <2>2. CASE StoreByte
        BY <2>2 DEF StoreByte, NoCount
    <2>3. CASE UNCHANGED cmdcnt /\ hand' # "reply"
        BY <2>3 DEF NoCount
    <2> QED BY <2>1, <2>2, <2>3
            DEF handleByte, SkipByte, PacketByte, LastByte, AskReinit, Overrun, HandlesPacket, ByteHandled,
                ReplyGoesOn, ReplyEnds, LoadFlags, StoreFlags, WakeWorker
<1>4. NoFlags => NoFlags'
    <2>1. CASE LoadFlags \/ StoreFlags
        BY <2>1 DEF LoadFlags, StoreFlags, NoFlags
    <2>2. CASE UNCHANGED flags /\ hand' # "store"
        BY <2>2 DEF NoFlags
    <2> QED BY <2>1, <2>2
            DEF handleByte, SortByte, SkipByte, PacketByte, LastByte, AskReinit, Overrun, HandlesPacket,
                ByteHandled, StoreByte, ReplyGoesOn, ReplyEnds, WakeWorker
<1> QED BY <1>1, <1>2, <1>3, <1>4 DEF Quiet, InCommand

(* Bytes that arrive when no initialisation is in progress are those of    *)
(* packets (PacketMode), if the last command has no reply, as ENABLE.      *)
THEOREM Packets ==
    ASSUME Script[Len(Script)].receive = 0
    PROVE  Spec => []PacketMode
<1>1. Init => Quiet
    BY DEF Init, Quiet, InCommand, NoCount, NoFlags
<1>2. TypeOK /\ Quiet /\ [Next]_vars => Quiet'
    <2>1. Quiet /\ (Attach \/ Start \/ Stop \/ PowerOn \/ UNCHANGED vars) => Quiet'
        BY DEF Quiet, NoCount, NoFlags, InCommand, Attach, Start, Stop, PowerOn, vars, workVars, flagVars,
               handVars, history
    <2> QED BY <2>1, QuietWorker, QuietByte DEF Next
<1>3. Quiet => PacketMode
    BY DEF Quiet, PacketMode, NoCommand, NoCount, NoFlags
<1> QED BY <1>1, <1>2, <1>3, TypeCorrect, PTL DEF Spec

-----------------------------------------------------------------------------
(* As long as the trackpoint keeps to the protocol, what it acknowledged   *)
(* bounds the byte the worker can be at, and what is missing of the reply  *)
(* is what cmdcnt says, but for the byte that handleByte is to store.      *)
Unlost == pc \in InCommand /\ answer # Lost

Clears(f) == hand \in {"load", "store"} /\ bit = f

Paced(n) ==
    /\ pc = "byte" => n <= sent
    /\ pc \in {"write", "sleep", "asleep", "acked"} => n <= sent + 1 \/ sent + 1 = Bytes
    /\ pc \in {"sleep", "asleep"} => tries = 0

(* The acknowledgement of a byte is expected from when it is about to be   *)
(* written; that of the last byte is cleared before a reply is sorted.     *)
Flagged(n) ==
    /\ pc \in {"write", "sleep", "asleep"} /\ n = sent => "ACK" \in flags
    /\ n >= Bytes /\ ~Clears("ACK") => "ACK" \notin flags
    /\ "CMD" \in flags => pc \in {"replysleep", "replyasleep", "copy", "exit"}

(* While handleByte clears a flag, the worker leaves flags alone.          *)
Cleared(n) ==
    /\ Clears("ACK") => /\ n = sent + 1 /\ n <= Bytes /\ "ACK" \in flags
                        /\ pc \in {"write", "sleep", "asleep"}
    /\ Clears("CMD") => n > Bytes /\ pc \in {"replysleep", "replyasleep", "copy", "exit"}
    /\ hand = "store" => seen = flags \/ (bit = "CMD" /\ "ACK" \notin seen)
    /\ hand = "finish" => n > Bytes

(* What is stored of a reply of which r bytes are.                         *)
Stored(r) ==
    /\ r \in 0 .. receive /\ cmdcnt = receive - r
    /\ \A j \in 1 .. r : cmdbuf[receive - j] = answer[Bytes + j]

Filled(n) ==
    /\ n < Bytes => cmdcnt = receive
    /\ n >= Bytes /\ hand # "reply" => Stored(n - Bytes)
    /\ hand = "reply" => /\ n > Bytes /\ n <= Bytes + receive
                         /\ Stored(n - Bytes - 1) /\ count = cmdcnt /\ byte = answer[n]

Copied ==
    pc = "exit" => /\ hand # "reply"
                   /\ param = [i \in 1 .. Len(Script[cmd].param) |-> cmdbuf[receive - i]]

Kept(n) == Paced(n) /\ Flagged(n) /\ Cleared(n) /\ Filled(n) /\ Copied

Exchange == Unlost => Kept(Len(answer))

(* Of a step that leaves the command and what was heard alone.             *)
LEMMA SameCommand ==
    ASSUME UNCHANGED cmd
    PROVE  Bytes' = Bytes /\ receive' = receive
BY DEF Bytes, receive

LEMMA AnswerLength == TypeOK /\ answer # Lost => answer \in Seq(AnyByte) /\ Len(answer) \in Nat
BY LenProperties DEF TypeOK, AnyByte

LEMMA ExchangeStart == TypeOK /\ StartCommand => Exchange'
<1> SUFFICES ASSUME TypeOK, StartCommand, Unlost' PROVE Exchange'
    BY DEF Exchange
<1>1. /\ cmd' = cmd /\ pc' = "byte" /\ sent' = 0 /\ cmdcnt' = receive /\ flags' = {}
      /\ answer' = <<>> /\ hand' = "none"
    BY DEF StartCommand, workVars, handVars, Unlost
<1>2. Bytes' = Bytes /\ receive' = receive /\ Bytes \in 1 .. 16 /\ receive \in 0 .. 8
    BY <1>1, SameCommand, CommandFacts
<1>3. Len(answer') = 0
    BY <1>1, EmptySeq
<1>4. Kept(0)'
    BY <1>1, <1>2 DEF Kept, Paced, Flagged, Cleared, Clears, Filled, Copied
<1> QED BY <1>3, <1>4 DEF Exchange

LEMMA ExchangeWorker == TypeOK /\ Control /\ Exchange /\ Worker => Exchange'
<1> SUFFICES ASSUME TypeOK, Control, Exchange, Worker, Unlost', ~StartCommand PROVE Exchange'
    BY ExchangeStart DEF Exchange
<1> USE DEF workVars, flagVars, handVars, history
<1>1. ~TimerFires /\ ~ResetIndex /\ ~EndCommand /\ ~EndInit /\ ~WriteError
    BY DEF TimerFires, ResetIndex, EndCommand, EndInit, WriteError, Unlost, InCommand
<1>2. answer' = answer /\ UNCHANGED <<cmd, cmdcnt, cmdbuf, hand, byte, count, bit, seen>> /\ Unlost
    BY <1>1 DEF Worker, ExpectAck, WriteByte, SleepForAck, AckTimeout, ByteDone, ExpectReply,
                SleepForReply, ReplyTimeout, CopyReply, Unlost, InCommand
<1>3. PICK n \in Nat : n = Len(answer') /\ Paced(n) /\ Flagged(n) /\ Cleared(n) /\ Filled(n) /\ Copied
    BY <1>2, AnswerLength DEF Exchange, Unlost, Kept
<1>4. Bytes' = Bytes /\ receive' = receive /\ Bytes \in 1 .. 16 /\ receive \in 0 .. 8
    BY <1>2, SameCommand, CommandFacts
<1>5. sent \in 0 .. 16 /\ tries \in 0 .. 2 /\ bit \in {"ACK", "CMD"}
    BY DEF TypeOK
<1>6. Filled(n)'
    BY <1>2, <1>3, <1>4 DEF Filled, Stored
<1>7. Paced(n)' /\ Flagged(n)' /\ Cleared(n)'
    <2> USE DEF Clears
    <2>1. CASE ExpectAck
        <3>1. pc = "byte" /\ pc' = "write" /\ n <= sent /\ sent < Bytes /\ UNCHANGED sent
            BY <1>3, <2>1 DEF ExpectAck, Paced, Control
        <3>2. flags' = flags \cup {"ACK"}
            BY <2>1 DEF ExpectAck
        <3>3. Paced(n)' /\ Flagged(n)'
            BY <1>3, <1>4, <1>5, <3>1, <3>2 DEF Paced, Flagged
        <3>4. Cleared(n)'
            BY <1>2, <1>3, <1>4, <1>5, <3>1, <3>2 DEF Cleared
        <3> QED BY <3>3, <3>4
    <2>2. CASE WriteByte \/ SleepForAck
        <3>1. /\ pc \in {"write", "sleep"} /\ pc' \in {"sleep", "asleep"} /\ UNCHANGED <<sent, flags, tries>>
              /\ pc = "write" => ~(tries > 0)
            BY <1>2, <2>2 DEF WriteByte, SleepForAck, Unlost
        <3>2. Paced(n)'
            BY <1>3, <1>4, <1>5, <3>1 DEF Paced
        <3>3. Flagged(n)' /\ Cleared(n)'
            BY <1>2, <1>3, <1>4, <1>5, <3>1 DEF Flagged, Cleared
        <3> QED BY <3>2, <3>3
    <2>3. CASE AckTimeout
        <3>1. pc = "asleep" /\ pc' = "write" /\ UNCHANGED <<sent, flags>>
            BY <1>3, <2>3 DEF AckTimeout, TryAgain, Paced
        <3>2. Paced(n)'
            BY <1>3, <1>4, <1>5, <3>1 DEF Paced
        <3>3. Flagged(n)' /\ Cleared(n)'
            BY <1>2, <1>3, <1>4, <1>5, <3>1 DEF Flagged, Cleared
        <3> QED BY <3>2, <3>3
    <2>4. CASE ByteDone
        <3>1. /\ pc = "acked" /\ sent' = sent + 1 /\ pc' = IF sent' < Bytes THEN "byte" ELSE "reply"
              /\ flags' = flags \ {"ACK"}
            BY <2>4 DEF ByteDone
        <3>2. n <= sent' \/ sent' = Bytes
            BY <1>3, <1>4, <1>5, <3>1 DEF Paced
        <3>3. Paced(n)'
            BY <1>3, <1>4, <1>5, <3>1, <3>2 DEF Paced
        <3>4. Flagged(n)' /\ Cleared(n)'
            BY <1>2, <1>3, <1>4, <1>5, <3>1 DEF Flagged, Cleared
        <3> QED BY <3>3, <3>4
    <2>5. CASE ExpectReply \/ SleepForReply \/ ReplyTimeout \/ CopyReply
        <3>1. /\ pc' \in {"replysleep", "replyasleep", "copy", "exit"}
              /\ pc \in {"reply", "replysleep", "replyasleep", "copy"}
              /\ flags' = flags \/ (pc = "reply" /\ flags' = flags \cup {"CMD"})
              /\ UNCHANGED sent
            BY <2>5 DEF ExpectReply, SleepForReply, ReplyTimeout, CopyReply
        <3>2. Paced(n)'
            BY <3>1 DEF Paced
        <3>3. Flagged(n)'
            BY <1>2, <1>3, <1>4, <3>1 DEF Flagged
        <3>4. Cleared(n)'
            BY <1>2, <1>3, <1>4, <1>5, <3>1 DEF Cleared
        <3> QED BY <3>2, <3>3, <3>4
    <2> QED BY <1>1, <2>1, <2>2, <2>3, <2>4, <2>5 DEF Worker
<1>8. Copied'
    <2>1. CASE CopyReply
        BY <1>2, <1>4, <2>1 DEF Copied, CopyReply, Unlost
    <2>2. CASE ~CopyReply
        BY <1>1, <2>2 DEF Worker, Copied, ExpectAck, WriteByte, SleepForAck, AckTimeout, TryAgain, ByteDone,
                          ExpectReply, SleepForReply, ReplyTimeout
    <2> QED BY <2>1, <2>2
<1> QED BY <1>3, <1>6, <1>7, <1>8 DEF Exchange, Kept

(* A byte that is due is sorted as what it is: the acknowledgement waited  *)
(* for, or the next byte of the reply.                                     *)
LEMMA ExchangeSort ==
    ASSUME TypeOK, Control, Exchange, NEW b \in Byte, SortByte(b)
    PROVE  Exchange'
<1> SUFFICES ASSUME Unlost' PROVE Exchange'
    BY DEF Exchange
<1> USE DEF workVars, flagVars
<1>1. UNCHANGED <<pc, cmd, sent, tries, flags, cmdcnt, cmdbuf, param, seen>> /\ hand = "none" /\ byte' = b
    BY DEF SortByte
<1>2. PICK n \in Nat :
      /\ answer # Lost /\ n = Len(answer) /\ Len(answer') = n + 1 /\ Due(b)
      /\ \A j \in 1 .. n : answer'[j] = answer[j]
      /\ answer'[n + 1] = b
    BY HeardFacts, ByteAssumption DEF SortByte, AnyByte, Unlost
<1>3. Paced(n) /\ Flagged(n) /\ Filled(n) /\ Copied
    BY <1>1, <1>2 DEF Exchange, Unlost, Kept
<1>4. Bytes' = Bytes /\ receive' = receive /\ Bytes \in 1 .. 16 /\ receive \in 0 .. 8 /\ sent \in 0 .. 16
    BY <1>1, SameCommand, CommandFacts DEF TypeOK
<1>5. pc # "exit"
    BY <1>2, <1>4 DEF Due
<1>6. CASE n < Bytes
    <2>1. n = sent /\ pc \in {"sleep", "asleep"} /\ "ACK" \in flags
        BY <1>2, <1>3, <1>4, <1>6 DEF Due, Flagged
    <2>2. hand' = "load" /\ bit' = "ACK"
        BY <2>1 DEF SortByte, NoCommand
    <2>3. Paced(n + 1)' /\ Flagged(n + 1)' /\ Cleared(n + 1)' /\ Copied'
        BY <1>1, <1>3, <1>4, <1>5, <1>6, <2>1, <2>2 DEF Paced, Flagged, Cleared, Clears, Copied
    <2>4. cmdcnt' = receive'
        BY <1>1, <1>3, <1>4, <1>6 DEF Filled
    <2>5. n + 1 >= Bytes' => Stored(n + 1 - Bytes)'
        BY <1>4, <1>6, <2>4 DEF Stored
    <2>6. Filled(n + 1)'
        BY <1>4, <2>2, <2>4, <2>5 DEF Filled
    <2> QED BY <1>2, <2>3, <2>6 DEF Exchange, Kept
<1>7. CASE Bytes <= n
    <2>1. n < Bytes + receive /\ "ACK" \notin flags /\ Stored(n - Bytes) /\ cmdcnt > 0
        <3>1. n < Bytes + receive
            BY <1>2, <1>4, <1>7, <1>1 DEF Due, Control
        <3>2. "ACK" \notin flags
            BY <1>1, <1>3, <1>4, <1>7 DEF Flagged, Clears
        <3>3. Stored(n - Bytes) /\ cmdcnt = receive - (n - Bytes)
            BY <1>1, <1>3, <1>4, <1>7 DEF Filled, Stored
        <3> QED BY <1>4, <3>1, <3>2, <3>3
    <2>2. hand' = "reply" /\ count' = cmdcnt
        BY <2>1 DEF SortByte, NoCommand
    <2>3. PICK m \in Nat : m = n + 1
        BY <1>2
    <2>4. m > Bytes' /\ m <= Bytes' + receive' /\ ~(m < Bytes') /\ m - Bytes' - 1 = n - Bytes
        BY <1>4, <1>7, <2>1, <2>3
    <2>5. Paced(m)'
        BY <1>1, <1>3, <1>4, <1>7, <2>3 DEF Paced, Control
    <2>6. Flagged(m)' /\ Cleared(m)' /\ Copied'
        BY <1>1, <1>3, <1>4, <1>5, <1>7, <2>1, <2>2, <2>3, <2>5 DEF Flagged, Cleared, Clears, Copied, Control
    <2>7. Stored(m - Bytes - 1)'
        <3>1. \A j \in 1 .. n - Bytes : Bytes + j \in 1 .. n
            BY <1>4
        <3> QED BY <1>1, <1>2, <1>4, <2>1, <2>4, <3>1 DEF Stored
    <2>8. hand' = "reply" /\ count' = cmdcnt' /\ byte' = answer'[m]
        BY <1>1, <1>2, <2>2, <2>3
    <2>9. Filled(m)'
        BY <2>4, <2>7, <2>8 DEF Filled
    <2>10. Len(answer') = m
        BY <1>2, <2>3
    <2> QED BY <2>5, <2>6, <2>9, <2>10 DEF Exchange, Kept
<1> QED BY <1>2, <1>4, <1>6, <1>7

(* handleByte's later steps leave what was heard alone.                    *)
LEMMA ExchangeHand ==
    ASSUME TypeOK, Control, Exchange, handleByte, \A b \in Byte : ~SortByte(b)
    PROVE  Exchange'
<1> SUFFICES ASSUME Unlost' PROVE Exchange'
    BY DEF Exchange
<1> USE DEF workVars, flagVars, history
<1>1. UNCHANGED <<cmd, sent, tries, param, answer>>
    BY DEF handleByte, SkipByte, PacketByte, LastByte, AskReinit, Overrun, HandlesPacket, StoreByte,
           ReplyGoesOn, ReplyEnds, LoadFlags, StoreFlags, WakeWorker
<1>2. pc' = pc \/ (pc = "asleep" /\ pc' = "acked") \/ (pc = "replyasleep" /\ pc' = "copy")
    BY DEF handleByte, SkipByte, PacketByte, LastByte, AskReinit, Overrun, HandlesPacket, StoreByte,
           ReplyGoesOn, ReplyEnds, LoadFlags, StoreFlags, WakeWorker
<1>3. PICK n \in Nat :
      /\ answer # Lost /\ n = Len(answer) /\ n = Len(answer')
      /\ Paced(n) /\ Flagged(n) /\ Cleared(n) /\ Filled(n) /\ Copied
    BY <1>1, <1>2, AnswerLength DEF Exchange, Unlost, InCommand, Kept
<1>4. /\ Bytes' = Bytes /\ receive' = receive /\ Bytes \in 1 .. 16 /\ receive \in 0 .. 8 /\ sent \in 0 .. 16
      /\ bit \in {"ACK", "CMD"}
    BY <1>1, SameCommand, CommandFacts DEF TypeOK
<1>5. Paced(n)'
    BY <1>1, <1>2, <1>3, <1>4 DEF Paced
<1> SUFFICES Flagged(n)' /\ Cleared(n)' /\ Filled(n)' /\ Copied'
    BY <1>3, <1>5 DEF Exchange, Kept
<1>6. CASE ByteHandled /\ UNCHANGED <<flags, cmdcnt, cmdbuf>>
    <2>1. CASE hand \in {"packet", "finish", "wake"}
        <3>1. hand' = "none" /\ ~Clears("ACK") /\ ~Clears("ACK")'
            BY <1>6, <2>1 DEF ByteHandled, Clears
        <3>2. Flagged(n)'
            BY <1>1, <1>2, <1>3, <1>4, <1>6, <3>1 DEF Flagged
        <3>3. Cleared(n)'
            BY <3>1 DEF Cleared, Clears
        <3>4. Filled(n)' /\ Copied'
            BY <1>1, <1>2, <1>3, <1>4, <1>6, <2>1, <3>1 DEF Filled, Stored, Copied
        <3> QED BY <3>2, <3>3, <3>4
    <2> QED BY <1>6, <2>1 DEF handleByte, ByteHandled, SkipByte, PacketByte, LastByte, AskReinit, Overrun, HandlesPacket,
            StoreByte, ReplyGoesOn, ReplyEnds, LoadFlags, StoreFlags, WakeWorker
<1>7. CASE StoreByte
    <2>1. /\ hand = "reply" /\ hand' = "finish" /\ n > Bytes /\ n <= Bytes + receive
          /\ Stored(n - Bytes - 1) /\ count = cmdcnt /\ byte = answer[n] /\ UNCHANGED <<pc, flags>>
        BY <1>3, <1>7 DEF StoreByte, Filled
    <2>2. Flagged(n)' /\ Cleared(n)'
        BY <1>1, <1>3, <1>4, <2>1 DEF Flagged, Cleared, Clears
    <2>3. Copied'
        BY <1>3, <2>1 DEF Copied
    <2> DEFINE r == n - Bytes - 1
    <2>4. r \in Nat /\ r + 1 = n - Bytes /\ r \in 0 .. receive /\ cmdcnt = receive - r
        <3>1. r \in 0 .. receive /\ cmdcnt = receive - r
            BY <2>1 DEF Stored
        <3> QED BY <1>3, <1>4, <3>1
    <2>5. r < receive => /\ cmdcnt' = cmdcnt - 1 /\ cmdbuf' = [cmdbuf EXCEPT ![cmdcnt - 1] = byte]
                         /\ cmdcnt - 1 \in 0 .. 7
        BY <1>4, <1>7, <2>1, <2>4 DEF StoreByte
    <2>6. r < receive
        BY <1>4, <2>1
    <2>7. \A j \in 1 .. r + 1 : cmdbuf'[receive - j] = answer[Bytes + j]
        <3> SUFFICES ASSUME NEW j \in 1 .. r + 1 PROVE cmdbuf'[receive - j] = answer[Bytes + j]
            OBVIOUS
        <3>1. cmdbuf \in [0 .. 7 -> AnyByte]
            BY DEF TypeOK, AnyByte
        <3>2. CASE j = r + 1
            <4>1. receive - j = cmdcnt - 1 /\ Bytes + j = n
                BY <1>4, <2>4, <3>2
            <4> QED BY <2>1, <2>5, <2>6, <3>1, <4>1
        <3>3. CASE j # r + 1
            <4>1. j \in 1 .. r /\ receive - j # cmdcnt - 1 /\ receive - j \in 0 .. 7
                BY <1>4, <2>4, <3>3
            <4> QED BY <2>1, <2>5, <2>6, <3>1, <4>1 DEF Stored
        <3> QED BY <3>2, <3>3
    <2>8. Stored(n - Bytes)'
        BY <1>1, <1>4, <2>4, <2>5, <2>6, <2>7 DEF Stored
    <2>9. Filled(n)'
        BY <1>3, <1>4, <2>1, <2>8 DEF Filled
    <2> QED BY <2>2, <2>3, <2>9
<1>8. CASE ReplyEnds \/ LoadFlags
    <2>1. /\ UNCHANGED <<pc, flags, cmdcnt, cmdbuf>> /\ hand' \in {"load", "store"} /\ hand \in {"finish", "load"}
          /\ hand = "finish" => hand' = "load" /\ bit' = "CMD" /\ "CMD" \in flags
          /\ hand = "load" => hand' = "store" /\ bit' = bit /\ seen' = flags
        BY <1>8 DEF ReplyEnds, LoadFlags
    <2>2. Flagged(n)'
        BY <1>1, <1>3, <1>4, <2>1 DEF Flagged, Clears
    <2>3. Cleared(n)'
        BY <1>1, <1>3, <1>4, <2>1 DEF Flagged, Cleared, Clears
    <2>4. Filled(n)' /\ Copied'
        BY <1>1, <1>3, <1>4, <2>1 DEF Filled, Stored, Copied
    <2> QED BY <2>2, <2>3, <2>4
<1>9. CASE StoreFlags
    <2>1. /\ UNCHANGED <<pc, cmdcnt, cmdbuf, bit>> /\ hand' = "wake" /\ hand = "store" /\ flags' = seen \ {bit}
        BY <1>9 DEF StoreFlags
    <2>2. CASE bit = "ACK"
        <3>1. n = sent + 1 /\ flags' = flags \ {"ACK"}
            BY <1>3, <2>1, <2>2 DEF Cleared, Clears
        <3> QED BY <1>1, <1>3, <1>4, <2>1, <3>1 DEF Flagged, Cleared, Clears, Filled, Stored, Copied
    <2>3. CASE bit = "CMD"
        <3>1. n > Bytes /\ pc \in {"replysleep", "replyasleep", "copy", "exit"} /\ "ACK" \notin seen
            BY <1>3, <1>4, <2>1, <2>3 DEF Cleared, Clears, Flagged
        <3> QED BY <1>1, <1>3, <1>4, <2>1, <2>3, <3>1 DEF Flagged, Cleared, Clears, Filled, Stored, Copied
    <2> QED BY <1>4, <2>2, <2>3
<1> QED BY <1>6, <1>7, <1>8, <1>9
        DEF handleByte, SkipByte, PacketByte, LastByte, AskReinit, Overrun, HandlesPacket, ReplyGoesOn, WakeWorker

LEMMA ExchangeStep == TypeOK /\ Control /\ Exchange /\ [Next]_vars => Exchange'
<1>1. TypeOK /\ Exchange /\ (Attach \/ Start \/ Stop \/ PowerOn \/ UNCHANGED vars) => Exchange'
    <2> SUFFICES ASSUME Exchange, Attach \/ Start \/ Stop \/ PowerOn \/ UNCHANGED vars PROVE Exchange'
        OBVIOUS
    <2>1. UNCHANGED <<pc, cmd, sent, tries, flags, cmdcnt, cmdbuf, param, answer, hand, byte, count, bit, seen>>
        BY DEF Attach, Start, Stop, PowerOn, vars, workVars, flagVars, handVars, history
    <2>2. UNCHANGED <<Bytes, receive>>
        BY <2>1, SameCommand
    <2> QED BY <2>1, <2>2 DEF Exchange, Unlost, Kept, Paced, Flagged, Cleared, Clears, Filled, Stored, Copied
<1> QED BY <1>1, ExchangeWorker, ExchangeSort, ExchangeHand DEF Next

(* The reply of a trackpoint that keeps to the protocol is in ps2Command's *)
(* argument, in order (ReplyInOrder).                                      *)
THEOREM Replies == Spec => []ReplyInOrder
<1>1. Init => Exchange
    BY DEF Init, Exchange, Unlost, InCommand
<1>2. TypeOK /\ Exchange => ReplyInOrder
    <2> SUFFICES ASSUME TypeOK, Exchange, pc = "exit", Script[cmd].param # <<>>, answer # Lost,
                        Len(answer) = Bytes + receive
                 PROVE  param = SubSeq(answer, Bytes + 1, Bytes + receive)
        BY DEF ReplyInOrder
    <2>1. Bytes \in 1 .. 16 /\ receive \in 0 .. 8 /\ Len(Script[cmd].param) = receive
        BY CommandFacts, EmptySeq
    <2>2. Filled(Bytes + receive) /\ hand # "reply" /\ param = [i \in 1 .. receive |-> cmdbuf[receive - i]]
        BY <2>1 DEF Exchange, Unlost, InCommand, Kept, Copied
    <2>3. answer \in Seq(AnyByte)
        BY AnswerLength
    <2>4. SubSeq(answer, Bytes + 1, Bytes + receive) = [i \in 1 .. receive |-> answer[Bytes + i]]
        BY <2>1, <2>3, SubSeqProperties
    <2>5. \A i \in 1 .. receive : cmdbuf[receive - i] = answer[Bytes + i]
        <3>1. Bytes + receive - Bytes = receive
            BY <2>1
        <3>2. Stored(receive)
            BY <2>1, <2>2, <3>1 DEF Filled
        <3> QED BY <3>2 DEF Stored
    <2> QED BY <2>2, <2>4, <2>5
<1> QED BY <1>1, <1>2, InitType, TypeStep, ExchangeStep, PTL DEF Spec
=============================================================================
