---------------------------- MODULE F03PassThrough ----------------------------
(***************************************************************************)
(* Function F03 of VoodooRMI: the PS/2 port of a trackpoint, reached       *)
(* through the touchpad (Functions/F03.cpp).                               *)
(*                                                                         *)
(* The worker, a work loop of F03's own, sends the commands that           *)
(* initialise the trackpoint (initPS2), byte by byte.  The notification    *)
(* thread of the bus reads what the trackpoint answers (attention) and     *)
(* sorts the bytes into acknowledgements, replies and, when no command is  *)
(* in progress, packets of three bytes.  "flags" and "cmdcnt" are all that *)
(* tells it which is which; no lock protects them.                         *)
(*                                                                         *)
(* So the notification thread handles a byte in several steps, between     *)
(* which the worker may do anything: what it has read of the two may no    *)
(* longer be so when it acts on it.  A statement of the worker is one      *)
(* step, and so is the storing of a packet's byte.                         *)
(***************************************************************************)
EXTENDS Integers, Sequences

CONSTANTS
    Script,      \* initPS2's commands: how many bytes they send and receive,
                 \* and those that param holds at first, <<>> if it is NULL
    Byte,        \* the bytes that arrive, from {"ack", "bat", "zero", "move"}
    maxReinit,   \* 3
    Beyond       \* stands for every value of index past databuf, up to 255

ASSUME ScriptAssumption ==
    /\ Script \in Seq([send : 0 .. 15, receive : 0 .. 8,
                       param : Seq({"ack", "bat", "zero", "move"})])
    /\ Script # <<>>
    /\ \A k \in 1 .. Len(Script) : Len(Script[k].param) \in {0, Script[k].receive}
ASSUME ByteAssumption   == Byte \subseteq {"ack", "bat", "zero", "move"}
ASSUME BoundsAssumption == maxReinit \in Nat /\ Beyond \in 4 .. 255

VARIABLES
    life, rx_queue_length,     \* attach and start
    armed,                     \* the timer runs and is enabled
    pc, cmd, sent, tries,      \* the worker: the command, how many of its bytes
                               \* were dealt with, and tries of this one
    flags, cmdcnt, cmdbuf,     \* fields of F03; flags a subset of {"ACK", "CMD"}
    param,                     \* what the last ps2Command left in its argument
    reinit, index,             \* fields of F03
    announced,                 \* of databuf: the bytes of the packet at hand are
                               \* those of a trackpoint that is not initialised
    hand, byte,                \* handleByte: its next step and its argument,
    count,                     \* the cmdcnt it has read,
    bit, seen,                 \* the flag it clears and the flags it has read
    answer,                    \* what was heard of the trackpoint since the command
                               \* began, as long as it keeps to the protocol
    late                       \* handleByte undid what the command's beginning or
                               \* end did to cmdcnt and flags

lifeVars   == <<life, rx_queue_length>>
workVars   == <<pc, cmd, sent, tries>>
flagVars   == <<flags, cmdcnt, cmdbuf>>
packetVars == <<reinit, index, announced>>
handVars   == <<hand, byte, count, bit, seen>>
history    == <<answer, late>>
vars == <<lifeVars, armed, workVars, flagVars, param, packetVars, handVars, history>>

-----------------------------------------------------------------------------
receive == Script[cmd].receive
Bytes   == 1 + Script[cmd].send      \* a command's byte and its parameters
Lost    == <<"lost">>                \* the exchange did not keep to the protocol

Init ==
    /\ life = "new" /\ rx_queue_length = 0 /\ armed = FALSE
    /\ pc = "idle" /\ cmd = 1 /\ sent = 0 /\ tries = 0
    /\ flags = {} /\ cmdcnt = 0 /\ cmdbuf = [i \in 0 .. 7 |-> "zero"]
    /\ param = <<>>
    /\ reinit = 0 /\ index = 0 /\ announced = FALSE
    /\ hand = "none" /\ byte = "zero" /\ count = 0 /\ bit = "ACK" /\ seen = {}
    /\ answer = Lost /\ late = FALSE

(* attach(): "return error" of an error makes the attachment succeed, with *)
(* a queue of length 0.                                                    *)
Attach ==
    /\ life = "new"
    /\ \/ life' = "attached" /\ rx_queue_length' \in {0, 7}
       \/ life' = "dead" /\ UNCHANGED rx_queue_length
    /\ UNCHANGED <<armed, workVars, flagVars, param, packetVars, handVars, history>>

(* start(): the timer gives interrupts time to be enabled.                 *)
Start ==
    /\ life = "attached"
    /\ \/ life' = "up" /\ armed' = TRUE
       \/ life' = "dead" /\ UNCHANGED armed
    /\ UNCHANGED <<rx_queue_length, workVars, flagVars, param, packetVars, handVars, history>>

(* stop(): the timer and the gate go; nothing is said of what follows.     *)
Stop ==
    /\ life = "up"
    /\ life' = "dead" /\ armed' = FALSE
    /\ UNCHANGED <<rx_queue_length, workVars, flagVars, param, packetVars, handVars, history>>

(* setPowerState(RMI_POWER_ON): initialise the trackpoint again, later.    *)
PowerOn ==
    /\ life = "up"
    /\ armed' = TRUE
    /\ UNCHANGED <<lifeVars, workVars, flagVars, param, packetVars, handVars, history>>

-----------------------------------------------------------------------------
(* The timer fires: initPS2Interrupt calls initPS2.                        *)
TimerFires ==
    /\ life = "up" /\ armed /\ pc = "idle"
    /\ armed' = FALSE
    /\ pc' = "command" /\ cmd' = 1
    /\ UNCHANGED <<lifeVars, sent, tries, flagVars, param, packetVars, handVars, history>>

(* "index = 0", before the last command.  The byte of a packet that is     *)
(* stored meanwhile undoes it.                                             *)
ResetIndex ==
    /\ life = "up" /\ pc = "index"
    /\ \/ index' = 0 /\ announced' = FALSE
       \/ hand = "packet" /\ UNCHANGED <<index, announced>>
    /\ pc' = "command"
    /\ UNCHANGED <<lifeVars, armed, cmd, sent, tries, flagVars, param, reinit, handVars, history>>

(* The reply is stored from its end, so that cmdcnt counts what is missing. *)
Reversed(p) == [i \in 0 .. 7 |-> IF i < Len(p) THEN p[Len(p) - i] ELSE cmdbuf[i]]

(* ps2CommandGated: flags, cmdcnt and cmdbuf get their values.             *)
StartCommand ==
    /\ life = "up" /\ pc = "command"
    /\ flags' = {}
    /\ cmdcnt' = receive
    /\ cmdbuf' = Reversed(Script[cmd].param)
    /\ pc' = "byte" /\ sent' = 0
    /\ answer' = IF hand = "none" THEN <<>> ELSE Lost
    /\ late' = (hand = "reply" /\ count > 0)
    /\ UNCHANGED <<lifeVars, armed, cmd, tries, param, packetVars, handVars>>

(* ps2DoSendbyteGated: one acknowledgement is waited for ...               *)
ExpectAck ==
    /\ life = "up" /\ pc = "byte"
    /\ flags' = flags \cup {"ACK"}
    /\ pc' = "write" /\ tries' = 0
    /\ UNCHANGED <<lifeVars, armed, cmd, sent, cmdcnt, cmdbuf, param, packetVars, handVars, history>>

(* A byte sent again leaves it open what an answer belongs to.             *)
WriteByte ==
    /\ life = "up" /\ pc = "write"
    /\ pc' = "sleep"
    /\ answer' = IF tries > 0 THEN Lost ELSE answer
    /\ UNCHANGED <<lifeVars, armed, cmd, sent, tries, flagVars, param, packetVars, handVars, late>>

(* ... over two tries to write the byte ...                                *)
TryAgain ==
    /\ tries' = tries + 1
    /\ pc' = IF tries < 1 THEN "write" ELSE "acked"

WriteError ==
    /\ life = "up" /\ pc = "write"
    /\ TryAgain
    /\ answer' = Lost
    /\ UNCHANGED <<lifeVars, armed, cmd, sent, flagVars, param, packetVars, handVars, late>>

(* ... each with a commandSleep, which no wake-up from before it ends.     *)
SleepForAck ==
    /\ life = "up" /\ pc = "sleep"
    /\ pc' = "asleep"
    /\ UNCHANGED <<lifeVars, armed, cmd, sent, tries, flagVars, param, packetVars, handVars, history>>

(* Mutant of AckTimeout: the sleep has no deadline.                        *)
AckTimeoutNever ==
    /\ FALSE
    /\ UNCHANGED vars

AckTimeout ==
    /\ life = "up" /\ pc = "asleep"
    /\ TryAgain
    /\ UNCHANGED <<lifeVars, armed, cmd, sent, flagVars, param, packetVars, handVars, history>>

(* The byte has been dealt with, whatever became of it: the result of      *)
(* commandSleep is that of a variable of the loop, and write errors are    *)
(* forgotten, so the command never fails.                                  *)
ByteDone ==
    /\ life = "up" /\ pc = "acked"
    /\ flags' = flags \ {"ACK"}
    /\ sent' = sent + 1 /\ tries' = 0
    /\ pc' = IF sent + 1 < Bytes THEN "byte" ELSE "reply"
    /\ UNCHANGED <<lifeVars, armed, cmd, cmdcnt, cmdbuf, param, packetVars, handVars, history>>

ExpectReply ==
    /\ life = "up" /\ pc = "reply"
    /\ flags' = flags \cup {"CMD"}
    /\ pc' = "replysleep"
    /\ UNCHANGED <<lifeVars, armed, cmd, sent, tries, cmdcnt, cmdbuf, param, packetVars, handVars, history>>

SleepForReply ==
    /\ life = "up" /\ pc = "replysleep"
    /\ pc' = "replyasleep"
    /\ UNCHANGED <<lifeVars, armed, cmd, sent, tries, flagVars, param, packetVars, handVars, history>>

ReplyTimeout ==
    /\ life = "up" /\ pc = "replyasleep"
    /\ pc' = "copy"
    /\ UNCHANGED <<lifeVars, armed, cmd, sent, tries, flagVars, param, packetVars, handVars, history>>

(* Mutant of CopyReply: the reply is not turned round.                     *)
CopyReplyStraight ==
    /\ life = "up" /\ pc = "copy"
    /\ param' = [i \in 1 .. Len(Script[cmd].param) |-> cmdbuf[i - 1]]
    /\ pc' = "exit"
    /\ answer' = IF hand = "reply" THEN Lost ELSE answer
    /\ UNCHANGED <<lifeVars, armed, cmd, sent, tries, flagVars, packetVars, handVars, late>>

(* A byte that is not stored by now comes too late.                        *)
CopyReply ==
    /\ life = "up" /\ pc = "copy"
    /\ param' = [i \in 1 .. Len(Script[cmd].param) |-> cmdbuf[receive - i]]
    /\ pc' = "exit"
    /\ answer' = IF hand = "reply" THEN Lost ELSE answer
    /\ UNCHANGED <<lifeVars, armed, cmd, sent, tries, flagVars, packetVars, handVars, late>>

(* Mutant of EndCommand: flags keep what nobody waits for any more.        *)
EndCommandKeepFlags ==
    /\ life = "up" /\ pc = "exit"
    /\ late' = (late \/ hand = "store")
    /\ IF cmd = Len(Script)
         THEN pc' = "end" /\ UNCHANGED cmd
         ELSE pc' = (IF cmd + 1 = Len(Script) THEN "index" ELSE "command") /\ cmd' = cmd + 1
    /\ UNCHANGED <<lifeVars, armed, sent, tries, flagVars, param, packetVars, handVars, answer>>

(* out_reset_flags: flags = 0; return rc.                                  *)
EndCommand ==
    /\ life = "up" /\ pc = "exit"
    /\ flags' = {}
    /\ late' = (late \/ hand = "store")
    /\ IF cmd = Len(Script)
         THEN pc' = "end" /\ UNCHANGED cmd
         ELSE pc' = (IF cmd + 1 = Len(Script) THEN "index" ELSE "command") /\ cmd' = cmd + 1
    /\ UNCHANGED <<lifeVars, armed, sent, tries, cmdcnt, cmdbuf, param, packetVars, handVars, answer>>

(* initPS2 is done.  timer->disable() then names a parameter that the work *)
(* loop does not pass: the timer may or may not stay armed.                *)
EndInit ==
    /\ life = "up" /\ pc = "end"
    /\ reinit' = 0
    /\ armed' \in {armed, FALSE}
    /\ pc' = "idle" /\ cmd' = 1 /\ sent' = 0
    /\ UNCHANGED <<lifeVars, tries, flagVars, param, index, announced, handVars, history>>

Worker ==
    \/ TimerFires
    \/ ResetIndex
    \/ StartCommand
    \/ ExpectAck
    \/ WriteByte
    \/ WriteError
    \/ SleepForAck
    \/ AckTimeout
    \/ ByteDone
    \/ ExpectReply
    \/ SleepForReply
    \/ ReplyTimeout
    \/ CopyReply
    \/ EndCommand
    \/ EndInit

-----------------------------------------------------------------------------
(* attention() reads the queue and hands on each valid byte; nothing comes *)
(* of a read that fails and of bytes with an error flag.                   *)
attention == life = "up" /\ rx_queue_length > 0

NoCommand == cmdcnt = 0 /\ flags = {}

(* The trackpoint acknowledges each byte once, after it was written, and   *)
(* then replies; anything else it sends makes the exchange a lost one.     *)
Due(b) ==
    \/ b = "ack" /\ pc \in {"sleep", "asleep"} /\ Len(answer) = sent /\ sent < Bytes
    \/ /\ Bytes <= Len(answer) /\ Len(answer) < Bytes + receive
       /\ pc \notin {"idle", "index", "command", "exit", "end"}

Heard(b) == answer' = IF answer # Lost /\ Due(b) THEN Append(answer, b) ELSE Lost

(* handleByte begins: cmdcnt and flags, which it does not store to before  *)
(* it has sorted the byte, count as read at once.                          *)
SortByte(b) ==
    /\ attention /\ hand = "none"
    /\ byte' = b
    /\ \/ /\ NoCommand
          /\ hand' = "packet" /\ UNCHANGED <<count, bit>>
       \/ /\ "ACK" \in flags
          /\ hand' = "load" /\ bit' = "ACK" /\ UNCHANGED count
       \/ /\ ~NoCommand /\ "ACK" \notin flags
          /\ hand' = "reply" /\ count' = cmdcnt /\ UNCHANGED bit
    /\ Heard(b)
    /\ UNCHANGED <<lifeVars, armed, workVars, flagVars, param, packetVars, seen, late>>

(* Nothing that handleByte remembers of a byte outlives it.                *)
ByteHandled ==
    hand' = "none" /\ byte' = "zero" /\ count' = 0 /\ bit' = "ACK" /\ seen' = {}

(* Bit 3 is set in the first byte of a packet.                             *)
StartsPacket == byte \in {"bat", "move"}

(* A byte for which no command is in progress.                             *)
HandlesPacket ==
    /\ life = "up" /\ hand = "packet"
    /\ ByteHandled
    /\ UNCHANGED <<lifeVars, workVars, flagVars, param, history>>

(* Between packets, bytes that cannot start one.                           *)
SkipByte ==
    /\ index = 0 /\ ~StartsPacket
    /\ HandlesPacket
    /\ UNCHANGED <<armed, packetVars>>

(* The packet of a trackpoint that is not initialised, as handlePacket     *)
(* knows it: 0xAA, 0, 0xAA.                                                *)
Announces == byte = (IF index = 1 THEN "zero" ELSE "bat") /\ (index > 0 => announced)

(* databuf[index++] = byte; past the end of databuf there is index itself. *)
PacketByte ==
    /\ index < 2 /\ (index = 0 => StartsPacket)
    /\ HandlesPacket
    /\ index' = index + 1 /\ announced' = Announces
    /\ UNCHANGED <<armed, reinit>>

(* handlePacket, at the third byte: the packet is reported.                *)
LastByte ==
    /\ index = 2 /\ ~Announces
    /\ HandlesPacket
    /\ index' = 0 /\ announced' = FALSE
    /\ UNCHANGED <<armed, reinit>>

(* Mutant of AskReinit: the tries are not counted.                         *)
AskReinitForever ==
    /\ index = 2 /\ Announces
    /\ HandlesPacket
    /\ index' = 0 /\ announced' = FALSE /\ reinit' = reinit + 1 /\ armed' = TRUE

(* It asks for another initialisation: it is also reported, unless that    *)
(* was tried too often.                                                    *)
AskReinit ==
    /\ index = 2 /\ Announces
    /\ HandlesPacket
    /\ announced' = FALSE
    /\ IF reinit >= maxReinit
         THEN index' = 3 /\ UNCHANGED <<reinit, armed>>
         ELSE index' = 0 /\ reinit' = reinit + 1 /\ armed' = TRUE

(* The store goes past databuf; index, which follows it, may have changed, *)
(* and by way of index what databuf holds of a packet.  What else the      *)
(* store may change is left out.                                           *)
Overrun ==
    /\ index > 2
    /\ HandlesPacket
    /\ index' \in 0 .. Beyond /\ announced' \in (IF index' \in {1, 2} THEN BOOLEAN ELSE {FALSE})
    /\ UNCHANGED <<armed, reinit>>

(* A byte of the reply goes where the count read says.                     *)
StoreByte ==
    /\ life = "up" /\ hand = "reply"
    /\ IF count > 0
         THEN /\ cmdcnt' = count - 1
              /\ cmdbuf' = [cmdbuf EXCEPT ![count - 1] = byte]
         ELSE UNCHANGED <<cmdcnt, cmdbuf>>
    /\ hand' = "finish"
    /\ UNCHANGED <<lifeVars, armed, workVars, flags, param, packetVars, byte, count, bit, seen, history>>

(* It ends the wait for the reply if it is the last.                       *)
ReplyGoesOn ==
    /\ life = "up" /\ hand = "finish"
    /\ ~("CMD" \in flags /\ cmdcnt = 0)
    /\ ByteHandled
    /\ UNCHANGED <<lifeVars, armed, workVars, flagVars, param, packetVars, history>>

ReplyEnds ==
    /\ life = "up" /\ hand = "finish"
    /\ "CMD" \in flags /\ cmdcnt = 0
    /\ hand' = "load" /\ bit' = "CMD"
    /\ UNCHANGED <<lifeVars, armed, workVars, flagVars, param, packetVars, byte, count, seen, history>>

(* "flags &= ~..." reads flags ...                                         *)
LoadFlags ==
    /\ life = "up" /\ hand = "load"
    /\ seen' = flags
    /\ hand' = "store"
    /\ UNCHANGED <<lifeVars, armed, workVars, flagVars, param, packetVars, byte, count, bit, history>>

(* ... and writes it, undoing what the worker did in between.  Whatever    *)
(* the byte is, it counts as the acknowledgement.                          *)
StoreFlags ==
    /\ life = "up" /\ hand = "store"
    /\ flags' = seen \ {bit}
    /\ hand' = "wake"
    /\ UNCHANGED <<lifeVars, armed, workVars, cmdcnt, cmdbuf, param, packetVars, byte, count, bit, seen, history>>

(* commandWakeup(&status), which finds nobody asleep or the worker.        *)
WakeWorker ==
    /\ life = "up" /\ hand = "wake"
    /\ pc' = CASE pc = "asleep"      -> "acked"
               [] pc = "replyasleep" -> "copy"
               [] OTHER              -> pc
    /\ ByteHandled
    /\ UNCHANGED <<lifeVars, armed, cmd, sent, tries, flagVars, param, packetVars, history>>

handleByte ==
    \/ \E b \in Byte : SortByte(b)
    \/ SkipByte
    \/ PacketByte
    \/ LastByte
    \/ AskReinit
    \/ Overrun
    \/ StoreByte
    \/ ReplyGoesOn
    \/ ReplyEnds
    \/ LoadFlags
    \/ StoreFlags
    \/ WakeWorker

Next ==
    \/ Attach
    \/ Start
    \/ Stop
    \/ PowerOn
    \/ Worker
    \/ handleByte

(* The work loop is scheduled, and its sleeps have deadlines.              *)
Spec == Init /\ [][Next]_vars /\ WF_vars(Worker)

-----------------------------------------------------------------------------
(* Every variable has its type.                                            *)
TypeOK ==
    /\ life \in {"new", "attached", "up", "dead"}
    /\ rx_queue_length \in 0 .. 15
    /\ armed \in BOOLEAN
    /\ pc \in {"idle", "index", "command", "byte", "write", "sleep", "asleep", "acked", "reply",
               "replysleep", "replyasleep", "copy", "exit", "end"}
    /\ cmd \in 1 .. Len(Script)
    /\ sent \in 0 .. 16 /\ tries \in 0 .. 2
    /\ flags \subseteq {"ACK", "CMD"}
    /\ cmdcnt \in 0 .. 8
    /\ cmdbuf \in [0 .. 7 -> {"ack", "bat", "zero", "move"}]
    /\ param \in Seq({"ack", "bat", "zero", "move"})
    /\ reinit \in 0 .. maxReinit
    /\ index \in 0 .. Beyond
    /\ announced \in BOOLEAN
    /\ hand \in {"none", "packet", "reply", "finish", "load", "store", "wake"}
    /\ byte \in {"ack", "bat", "zero", "move"}
    /\ count \in 0 .. 8
    /\ bit \in {"ACK", "CMD"} /\ seen \subseteq {"ACK", "CMD"}
    /\ answer = Lost \/ answer \in Seq({"ack", "bat", "zero", "move"})
    /\ late \in BOOLEAN

(* When no initialisation is in progress the bytes that arrive are those   *)
(* of packets, whatever timeouts, late acknowledgements and missing        *)
(* replies there were: nothing of a command is waited for (handleByte's    *)
(* first test).  Only a byte of an earlier reply that is stored after the  *)
(* last command began, and a flag cleared across its end, prevent it.      *)
PacketMode == pc \in {"idle", "end"} => NoCommand \/ late

(* A trackpoint that acknowledges each byte once and then replies has its  *)
(* whole reply in ps2Command's argument, in order, even if it answers      *)
(* while the worker is not asleep and wherever handleByte is when the      *)
(* worker goes on, unless it still handles an earlier byte when the        *)
(* command begins.                                                         *)
ReplyInOrder ==
    pc = "exit" /\ Script[cmd].param # <<>> /\ answer # Lost /\ Len(answer) = Bytes + receive
      => param = SubSeq(answer, Bytes + 1, Bytes + receive)

(* initPS2 ends, whatever the trackpoint does.                             *)
InitEnds == pc # "idle" ~> (pc = "idle" \/ life = "dead")

(* "Packet storage" (F03.hpp:43), which has three bytes: no byte of a      *)
(* packet is stored past them.                                             *)
PacketFits == [][~Overrun]_vars
=============================================================================
