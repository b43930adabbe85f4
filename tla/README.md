# A formal model of VoodooRMI

VoodooRMI is a macOS kernel driver for Synaptics touchpads that speak RMI4, over
SMBus or over I2C (HID). This directory models its control flow in TLA+, checks it
with TLC on small instances and proves what matters most with TLAPS for every value
of the constants. Paths below are relative to `src/VoodooRMI/`.

The functional core is small and single-purpose, but it is called from several
threads: the notification thread of the transport, the power management thread, the
keyboard driver's thread, F03's own work loop, and whoever opens or terminates the
driver, or sets its properties. Most of what can go wrong comes from these, from accesses
to the touchpad that fail halfway, and from register layouts that each touchpad
announces for itself.

## 1. The system

| Part | Source | State it keeps | Operations | Interacts with |
|---|---|---|---|---|
| SMBus transport | `Transports/SMBus/RMISMBus` | copy of the device's 8-entry command-code table, `table_index`, `page_mutex`, `mapping_table_mutex` | `readBlock`, `blockWrite`, `rmiStart`, `reset`, power states | touchpad; called by every function |
| I2C transport | `Transports/I2C/RMII2C` | cached page, `page_mutex`, `ready`, power state, interrupt source or polling timer | `probe`, `start`, `readBlock`, `blockWrite`, `reset`, interrupt, open, stop, power states | touchpad, command gate, bus (messages) |
| RMI bus | `RMIBus`, `RMIBusPDT` | functions, `irqCount`, `irqMask`, control function | scan of the page description table, sensor on/off, dispatch of notifications, open, termination | both transports, all functions, VoodooInput |
| F01 device control | `Functions/F01` | number of interrupt registers, interrupt mask, `ctrl0`, doze | `attach`, `config`, `setIRQs`, `clearIRQs`, `readIRQ`, its own suspend and resume | bus, transport |
| F11, F12 sensors | `Functions/F11`, `Functions/F12` | register layout, last packet | `attach`, `config`, `attention` | trackpad base class |
| Trackpad base class | `Functions/Input/RMITrackpadFunction` | finger states, free finger types, transducers, time stamps, click, `trackpadEnable` | `handleReport`, `invalidateFingers`, `message` | VoodooInput, keyboard, trackpoint, buttons |
| F03 PS/2 pass-through | `Functions/F03` | flags, reply count and buffer, packet buffer, timer, work loop | `attention`/`handleByte`, `ps2Command`, `initPS2`, power states | trackpoint base class |
| F17 trackstick, trackpoint base class | `Functions/F17`, `Functions/Input/RMITrackpointFunction` | layout, `overwrite_buttons` | `attention`, `handleReport`, `message` | VoodooInput, trackpad (rejection) |
| F30, F3A buttons | `Functions/F30`, `Functions/F3A`, `Functions/Input/RMIGPIOFunction` | which control registers there are, key map, last pins, click | `attach`, `attention`, `config` | trackpad, trackpoint, VoodooInput |
| Configuration, utilities | `Configuration/`, `Utility/`, `LinuxCompat/` | - | dictionary to fields; macros, bitmaps | all |

What makes each of them correct, and hard:

- **Transports**: a register access reaches the registers it names and no others, or
  reports an error; the driver's copy of the device's addressing state (command codes,
  page) never disagrees with the device after errors, resets and power losses; no path
  leaves a lock taken.
- **Bus and F01**: interrupt bits have one owner each and all of them are read; the
  scan finds the functions of the pages in use; interrupts are as the last message
  asked although any of several accesses may fail; no notification after the transport
  was closed; F01's and the bus's power changes write the same register.
- **Trackpad**: finger types are neither lost nor given twice over long sequences of
  reports; what the keyboard or the trackpoint rejected stays rejected, although the
  keyboard's thread takes no lock.
- **Trackstick**: each stick's data is where the sticks before it leave it; a movement
  must not release buttons held elsewhere.
- **F03**: bytes of a reply, acknowledgements and packets come on one channel and are
  told apart by two unlocked fields; timeouts, retries and late bytes must not get them
  out of step for good, and every initialisation must end.
- **Sensors**: the layout of all registers is computed from variable-length descriptors
  (F12) or from a chain of conditional query registers (F11) by code that, where it fails,
  may report success; no finger is taken from bytes that are none.
- **Buttons**: which control registers tell the buttons, numbering per pointer, filtered
  clicks, and two sources for one message.

`PROJECT.json` lists these as hazards, each at its line with the properties that
cover it.

## 2. Modules

| Module | Models | Proofs | Runs (cfg) |
|---|---|---|---|
| `RegisterAccess` | abstract: a call has its turn, moves bytes to their own registers, succeeds only when all are moved | | |
| `SMBusTransport` | `RMISMBus`; refines `RegisterAccess` | `SMBusTransportProofs` | `SMBusTransport`, `SMBusLongWrite` |
| `I2CTransport` | `RMII2C`; refines `RegisterAccess` while the touchpad is not reset and no failed selection has taken effect | `I2CTransportProofs` | `I2CTransport`, `I2CReset` |
| `RmiBus` | `RMIBus`, `RMIBusPDT` and `F01` composed | `RmiBusProofs` | `RmiBus`, `RmiBusOverI2C`, `RmiBusDoze` |
| `FingerTracking` | `RMITrackpadFunction` and what changes its configuration | `FingerTrackingProofs` | `FingerTracking` |
| `F03PassThrough` | `F03` | `F03PassThroughProofs` | `F03PassThrough`, `F03Packet` |
| `F11Registers` | `F11` | in `FunctionRegistersProofs` | through `FunctionRegisters` |
| `F12Registers` | `F12` | in `FunctionRegistersProofs` | through `FunctionRegisters` |
| `ButtonRegisters` | the registers of `F30` and `F3A` | in `FunctionRegistersProofs` | through `FunctionRegisters` |
| `FunctionRegisters` | the entry of the page description table that says which of these there is; `trackpadEnable` | `FunctionRegistersProofs` | `FunctionRegisters` |
| `GpioButtons` | `RMIGPIOFunction`, `F30`'s and `F3A`'s attention, `RMITrackpointFunction` | `GpioButtonsProofs` | through `Trackpoint` |
| `Trackpoint` | `GpioButtons` composed with `F03`'s reports or with `F17`; implements `GpioButtons` | `TrackpointProofs` | `Trackpoint` |

`MC*` modules only define the constants of the instances; `MCTrackpoint` also narrows the initial states (section 3).

### How state and actions correspond to the code

A handler that runs on one thread without touching anything another thread can change
in between is one action; a handler that reads shared state, accesses the touchpad,
takes a lock, sleeps or writes shared state is as many actions as it has such points,
and `pc`, `irqPc`, `f01Pc`, `kpc` say between which of them a thread is. Variables have
the names of the fields. Each access to the touchpad has an action in which it fails;
when the touchpad may have done what was asked before the failure, both outcomes are
there. Actions whose names start with `Device`, and `Press`, are the environment.

- **SMBusTransport.** A client's call goes through *lock* (`page_mutex`), *lookup*
  (search of the copy), *install* (a block write of the table entry), *record*, *access*
  (one chunk), for each chunk, and *exit*. `devMap`, `devMode` are the device's table
  and protocol mode. Power states, `rmiStart` and `reset()` run on a thread of their own. Addresses
  are small numbers and a register's byte order is left out.
- **I2CTransport.** A call is *lock*, *select* (only if the cached page differs),
  *record*, *transfer*. A read is cut to the longest input report. A read whose report has
  a wrong ID goes to *reset*, which with a bus that is open has the functions configured:
  at *configure* the same thread is inside the `blockWrite` of a `config()`, waiting for the
  lock it holds, and there it stays; its request is still that of the read below it on
  its stack. One client,
  `Gate`, is the thread that runs under the command gate: interrupts, power changes and
  their messages to the bus. `heeded` is history: no power change has been dropped by
  `attemptAction` since the last one carried out. Two more are about the page. `kept` says whether the
  touchpad has kept its page register since the driver last selected a page; only the environment
  (`DeviceReset`) makes it false. `slipped` says that the last selection the touchpad took was reported to
  the driver as failed (`SelectPageError`): then `rmi_set_page` keeps the page it remembered before, which is not the
  touchpad's any more.
- **RmiBus.** `device.table` is the page description table: per page a sequence of
  functions with a kind and a number of interrupt bits; `device.has` tells which control
  registers F01 has. The scan is one step per entry;
  `config()` and `setIRQs` one per access; a write that fails may have taken effect. Notifications (`handleHostNotify` and, for a transport
  that delivers reports itself, `handleHostNotifyLegacy`), F01's own power management,
  termination and `stop()` interleave. `ForwardsOpen` says whether the transport's
  `handleOpen` calls `RMITransport`'s, which is how RMISMBus and RMII2C differ for the
  bus.
- **FingerTracking.** A report goes finger by finger: `Touch` reads the finger's state,
  writes a new touch down as `STARTED_IN_ZONE` and decides, `Judge` makes the last write of the `switch`; what it writes
  in between (`VALID` before `FORCE_TOUCH` or `INVALID`, on its way through the cases) is not there. Then `SetThumb` and, per finger, `AssignType`. An
  object is abstract: does it touch, is it in a zone, is it large, pressed. The trackpoint
  invalidates fingers, and the buttons set the click, on the thread of the reports; the keyboard (`CheckFinger`,
  `InvalidateFinger`, `SetTouchStatus`) works on its own thread, and so does a program that sets
  properties (`SetProperties`): `updateConfiguration` runs under a gate that no report takes.
  `fingerState[i]` is read twice by the code when a
  type is assigned (`RMITrackpadFunction.cpp:262` and `:271`), once in the model, so a finger that is valid
  at 262 and invalidated at 271 is not there.
- **F03PassThrough.** The worker goes statement by statement through `initPS2`'s
  commands (`Script`): flags set, byte written, asleep, woken or timed out, at most two
  tries. `handleByte` on the notification thread goes in steps (`hand`), since no lock
  protects `cmdcnt` and `flags`: it sorts the byte by both (`SortByte`), stores a byte of a reply
  where the count it has read says (`StoreByte`), tests both again, loads `flags` and
  stores them with a bit cleared (`LoadFlags`, `StoreFlags`), and wakes the worker, which may have
  gone on at any of these points. (Between the first reads of the two fields the code stores nothing, so
  the compiler need not read them twice, and nothing that the worker does in between gives a result that
  it would not give before or after.) `commandWakeup` wakes
  only a worker that is already asleep. `answer` is what the trackpoint has said since
  the command began, as long as it keeps to the protocol: one acknowledgement per byte
  written, then the reply; the trackpoint's words count when they are read, whatever the driver takes
  them for. `late` records that `handleByte` undid the worker's assignments: a count stored after
  the command began, or flags stored across its end. Of `databuf` the model keeps whether the packet at hand
  is so far the one that asks for an initialisation (`announced`).
- **F11Registers.** A register is the set of its bits. `attach()` is a step per read of a
  query register, at the address it has got to; where the touchpad has its registers
  is computed apart, from what each of them announces. `config()` writes what `attach()` read of the controls.
- **F12Registers.** A descriptor is built byte by byte from the touchpad's registers
  and parsed by operators that follow `rmi_read_register_desc`, down to `find_first_bit`
  of `LinuxCompat.h`. `attach()` is a step per read. `DeviceAssumption` bounds the touchpads: sizes are an
  `int`'s (as `reg_size` is), data register 0 has less than 65536 bytes (`data_offset` is 16 bits),
  the first register of each kind is below 31 (`ffsll`), there are fewer than 256 of a kind
  (`num_registers` is 8 bits), and registers 1 and 8 are as long as what they consist of.
  `ConfigPanics` is `config()` after an `attach()` that had no memory for the control registers' items.
  F12's reads are taken to be read whole: that RMII2C cuts those longer than the touchpad's largest report
  (`RMII2C.cpp:296`) is modelled for the transport and for F30, not here, so what is checked
  and proved of F12 is said of touchpads whose reports are as long as its packet and its descriptors.
- **ButtonRegisters.** The touchpad's control registers are named by their block and place,
  and so is what they hold; `attach()` adds up the lengths of the blocks before it reads them all,
  `config()` writes them all back.
- **GpioButtons, Trackpoint.** All on one thread: a handler is a step, `F17::attention` a
  step per stick, as an error at one ends the loop with the movements before it reported.
  `relative` and `point` are the buttons VoodooInput was last told of, `padClick` the
  trackpad function's copy of the click.

The parts meet where the code has them meet: notifications of `RmiBus` are what starts
`FingerTracking`'s and `Trackpoint`'s steps, whose order on one thread is that of
`AttendsReported`'s calls; both transports are `RegisterAccess` to the functions, whose accesses
either happen as asked or fail.

## 3. Runs

Bounds are the constants of each `.cfg`. Deadlock is checked in the two SMBus runs and in
`fingers`; everywhere else a driver that failed to start, was stopped, has done
all it does or waits for ever for a lock (which is what `i2c_reset` shows) does come to rest,
and `CHECK_DEADLOCK FALSE` says so.

**`smbus`**, two clients, a table of two entries, chunks of two bytes, requests of one
and two chunks on overlapping registers: hits, misses, evictions, chunk boundaries and
slot reuse all occur with two of each. Properties: `MapCoherent` (the copy never
disagrees with a listening device), `AccessHitsRequest` (a command code is used only
while it means what the call asked for), `TransferExact` (bytes go where they should;
success means all of them), `LockOrder`, `PageMutexReleased` (liveness), and
`KeepsPromise`: the transport implements `RegisterAccess`.

**`smbus_long_write`** shows `LongWriteExact` violated: `blockWrite` does not advance the
register address from chunk to chunk.

**`i2c`**, the gate's thread and two others, two pages of four registers, an input report of two
bytes, requests on both pages, one of them a read that is cut: two threads suffice to
interleave selections, the third adds a waiter. `PageCoherent` (until the touchpad is reset the page remembered is the
touchpad's, except after a selection that took effect though its write failed, when it is not);
`InterruptsFollowPower` (with
the gate free, interrupts are on exactly while the touchpad is, unless a power change was dropped);
`KeepsPromise`: while the touchpad is not reset and no failed selection has taken effect every step is one
of `RegisterAccess`, for requests cut to an input report. What a call moves after such a
selection is said by `TransferExact`, a theorem: bytes of another page, and none that it asked for.

**`i2c_reset`** shows `ReconfigureCanLock` violated: a read with a mismatched report ID calls
`reset()` under `page_mutex`, which has the bus write to registers on the same thread.

**`bus`**, five touchpads with functions on up to three of their first five pages (two pages, one blank page in
between, two blank pages, more bits than the mask holds, no F01), whose F01 have different
control registers: each separates one case of the scan from the others. Masks of three bits and registers
of two make the last register partly used. `MasksApart`, `ScanComplete`, `IrqsAsAsked`,
`AwakeWhenOn`, `QuietAfterClose`, `AttendsReported`.

**`bus_over_i2c`**, the same with a transport that does not forward `handleOpen`:
`QuietAfterClose` is violated. **`bus_doze`**: `DozeApart` is violated, as `F01::attach` runs
before `numIrqRegs` is known and takes an interrupt enable register for the doze interval.

**`fingers`**, two fingers, four types, a thumb, a trackpoint, a keyboard thread and a
configuration that changes between no force touch and the one by click and size (the third type, by size alone,
is the theorems'); a
gesture is more than one finger here. Two fingers compete for a type, one of them can be
the thumb, and every step of a report interleaves with the other threads. `TypesExclusive`;
`PacketSound`: every finger a packet shows has a type and every other has none, and none is a force touch unless
clickpad and configuration allowed one while the report was handled; `InvalidUnlessJudged`.
The last one is exact about a race: a key press that
invalidates a finger between `handleReport`'s read of its state and its write is
overwritten by the report; in every other interleaving the rejection holds until the finger is
lifted. (`InvalidUntilLifted`, without the exception, holds when there is no keyboard
thread: theorem `InvalidationSticks`.)

**`f03`**, two of the commands (one with a parameter and a reply, one with
neither), bytes of three kinds, one re-initialisation: each kind of byte can come before, during and
after every sleep, and the worker can go on, through the timeouts and into the next command, at every step of
`handleByte`. `PacketMode` (between initialisations every byte is a packet's), `ReplyInOrder`,
`InitEnds` (liveness). `PacketMode` has an exception, `late`, and needs it: a byte of a reply that is sorted in time
and stored after `ENABLE` has begun leaves a count of one, and the next byte of a packet is taken for a
reply. Two commands are enough for a byte to be handled across the end of a command and across that of the script;
that a reply's byte is stored into the next command's reply is left to the theorems, which are of any script. **`f03_packet`** shows `PacketFits` violated: after
the last re-initialisation allowed, `index` stays at 3 and the next byte is stored past
`databuf`.

**`registers`**, the layouts, each with an error at any step of attaching.
F12: touchpads with and without every register it looks at, sizes of one,
two and four bytes, bitmaps of one to three, one, three and ten fingers, long and short
presence registers. F11: twelve flags decide which query registers follow; all sets that
lack at most three or have at most two of them, so that every pair of neighbours
occurs both there and missing. F30: every set of its seven flags, up to three or more than eight pins, reads of any length
or cut; F3A. One function's variables do not move while another's do, so the
state space is the sum and not the product (24942 states). `DescriptorsExact`, `TuningExact` and
`F11QueriesExact` (what is parsed is what the touchpad has), `ReportsWhole` (no finger
is taken from elsewhere than where the touchpad put one), `PinsExact` (the pins taken for
buttons are the touchpad's inputs), `ControlsKept` (what `config()` changes in the
controls is what it means to change, a cut read apart), `ConfigReaches20`.

**`gpio`**, touchpads of up to five pins, two below the trackpoint's range, two in
it, one beyond, so that a trackpad with the range switched off has buttons on both sides of it and in it, with and
without the range (a pin that is no button is missing, or no input, and `MCInit` leaves out touchpads that
have both), and as a trackpoint an F03 or an F17 with two or three sticks
of all kinds of data. `ButtonsDense`, `ClickFollowsPin`,
`ReportsFollowPins` (VoodooInput was told of each button what `data_regs` has of its pin, with the exception that the code makes:
nobody is told of a trackpad's button in the trackpoint's range). Both are said of the pins in `data_regs`: that a read that
failed and zeroed them presses every button is not excluded. `SticksExact` (no stick's data is taken for another's), `ImplementsButtons` (the
composition is `GpioButtons`: a trackpoint does nothing to the buttons that is not one of its
actions).

### Fairness

- `SMBusTransport`: weak fairness of each client while it is in a call. The locks are
  kernel locks and the transfers return. No fairness is assumed of the power thread, of
  new calls, or of who gets a lock first.
- `F03PassThrough`: weak fairness of the worker as a whole, since the work loop's thread
  is scheduled and both `commandSleep`s have a deadline. Nothing is assumed of the
  trackpoint.
- The other specifications state no fairness, and no liveness is checked of them. In
  particular nothing of the kind holds of `I2CTransport`, where a call may wait for ever (`i2c_reset`).

## 4. Proofs

The theorems hold for any values of the constants that satisfy the named assumptions of
the modules; no theorem assumes more unless its statement says so.

- **SMBus.** `Inductive`: `IInv` is the conjunction of the type, of who holds which lock,
  of what the entry in hand is, of the coherence of the copy, of the freshness of the
  command code and of the loop (`landed` is the part of the request already done). None
  of them is inductive alone: the copy stays coherent only because an entry is
  cleared before it is installed and the lock keeps others out; a code stays fresh only
  because the copy is coherent. From it: `Coherence`, `CodesFresh`, `Exactness`, `LocksOwned`.
  `Implements` maps every step to a step of `RegisterAccess` or to a stutter, under
  `ShortWrites` (no write is longer than a chunk, which is exactly what
  `smbus_long_write` shows to be needed).
- **I2C.** `Inductive`: type, nothing happens before the driver is up and has selected a page, the owner of
  `page_mutex`, the cached page, which for a touchpad that was not reset is its own exactly if `slipped` is
  false, the page a thread is about to record, and what was moved: what the touchpad has on its page,
  be it the one remembered or not. From it `Coherence`, `Exactness` and, with the
  lock as the turn, `Implements`. The arithmetic (a
  request lies within one page) is in `PageParts` and `RequestFacts`. `PowerFollowed` has an
  invariant of its own on what the holder of the gate is about to do.
- **Bus.** `MasksAreApart` from `MaskInv` (masks lie below `irqCount`, and the registers
  transferred cover them), `Awake` from an invariant on `ctrl0` while F01 resumes,
  `QuietIfForwarded` under `ForwardsOpen`. `Scanned` says for any page description table
  what the scan has attached so far, page by page and entry by entry; `Asked` relates the
  last message to the interrupt enable registers at each access of `setIRQs`, `clearIRQs` and
  `config()`; `Reported` that what is attended to was in a register that was read.
- **Fingers.** `Exclusive`: `TypesExclusive` is inductive with the type; the lemmas
  `ExclusiveUntouched` and `ExclusiveExchange` are the two ways a step treats types.
  `InvalidationSticks` for a driver without a keyboard thread, `RejectionOverwritten` with one:
  the latter needs that a state read as rejected is judged to be so (`ReadRejected`).
  `ForceReleased`: `ForceInv` says which fingers the first loop has dealt with, and that the
  history variable knows what a report in progress may see. `Sound`, under
  `FingerCount <= TypeCount - 2`: by the pigeonhole principle a finger that needs a type
  finds one (`FreeTypeExists`); F12's reports of at most five fingers satisfy it, F11's of
  up to ten do not.
- **F03.** `Packets`, if the last command has no reply, as `ENABLE` has none: `Quiet` says that in the last
  command, and after it, neither `cmdcnt` nor a count that `handleByte` is about to store is anything but zero. `Replies`:
  `Exchange` relates what is left of `cmdcnt`, the bytes kept, the byte that `handleByte` has in
  hand and what the trackpoint has said; `Cleared` says that as long as the trackpoint keeps to the
  protocol the worker waits while a flag is cleared.
- **Buttons.** `ClickFollows` from `ClickInv`: a click that has not changed need not be told only
  because the state remembered is the one the trackpad function has. `Dense`: numbers are given by
  counting the pins of the same pointer below, so they are one-to-one and without gaps (by facts about
  cardinality). `ReportsFollow`: what was told is a function of `data_regs` from the first
  `attention()` on (`attended`), and a pin's bit is its own among the buttons of its pointer.
- **Trackpoint.** `Implements`: step by step, and `ButtonsFollow` carries the theorems of
  `GpioButtons` over to the composition.
- **F17.** `SticksAreExact`: `SticksCursor` says at each stick that the address reached is where the
  touchpad has that stick's queries, and its data, so the sums over the sticks before it; an advance
  by one stick keeps it (`StickData` gives the sums as counts of the sticks that have some data).
- **F11.** `F11QueriesAreExact`: `QueriesInv` says at each read that the cursor stands as far from the first
  query register as there are registers before the one to be read (`Preceding`), that those read are what
  the touchpad has there (`QueriesSeen`), and so that it has told by then what it goes by
  (`ToldStage`). Each read is one of three patterns (`StageKeeps`, `OneKeeps`, `ReadsSee`). The
  address of each register is its own because the registers before it are counted
  (`PrecedingGrows`, `RegisterExact`). The proof needs that no query register lies beyond page 0 (`DeviceOK`):
  with the first of them at the page's last address, the cursor, kept in eight bits, wraps, which the attempt to prove
  it brought out. From it and `PacketInv`: `F11ReportsAreWhole`; with `ControlsInv`: F11's part of `ControlsAreKept`.
- **F30, F3A.** `PinsAreExact`: every block is as long as the driver takes it to be (`LengthsExact`, the seven
  flags and the rounding), so by induction over the blocks each begins where the touchpad has it
  (`OffsetsExact`), and what is at its addresses is what belongs there (`ResetExact`); `ButtonsInv` says what has been
  read and written since, from which follows the buttons' part of `ControlsAreKept`.
- **F12.** The format is the inverse of the parser, level by level: a byte of its bits (`BitsOfByte`), a size in each of
  its forms (`SizeIsRead`), a bitmap up to the byte that ends it (`MapIsWritten`), a register at an offset
  (`ItemIsRead`), and by induction over the registers, each of which begins where the ones before end
  (`Flattened`) and has the number that `find_next_bit` finds (`SortedNext`), a whole descriptor
  (`RegistersAreRead`). `F12Inv` is then that each descriptor read is the touchpad's, none or all zeros, and that
  `attach()` goes on only with the touchpad's; that `sensor`, `pkt_size` and `data1` are what follows from them
  (`TuningIsRead`, `ItemIsFound`, `PacketSize`: what is before data register 1 and that register itself fit in the sum of all
  sizes). Zeroed items have number 0, so `config()` does not take one for register 20 (`ConfigKeeps`).
  With `F11Inv` and `ButtonsInv` this gives `ReportsAreWhole` and `FunctionsTypeCorrect`. `StructBytes` and `CalcSize`
  recur over sequences; that functions with their equations exist is proved first (`Flattening`, `Summing`).
- **Induction over data.** The library's induction theorems take an operator, which the provers cannot instantiate;
  `SetInduction`, proved from the theorem that `<` is well-founded on the naturals, takes a set instead.

Only model-checked: both liveness properties (temporal reasoning under fairness is out
of the prover's reach), and the five violations. Every invariant of a passing run is stated by a theorem.

## 5. What the runs found

Five runs expect a violation; each is a behaviour of the code that contradicts a comment
of the repository (`PROJECT.json`, "findings"). Beside them, reading and modelling showed:

- `F11::config` (`F11.cpp:105`) writes the controls to the address of the query registers, so after a reset
  they keep their defaults. It keeps the offset of queries in eight bits (`F11.cpp:564`), so
  those of a function on another page would be read on page 0.
- F11 can report up to ten fingers and there are six types, one of them for palms: more than
  five fingers at once may leave one without a type.
- `F12::config` (`F12.cpp:172-173`) takes the dribble bit to be in byte 1 of control
  register 20 if there is a subpacket 0; the comment above it says byte 2. Which one
  a touchpad means cannot be settled from the repository.
- `F12::attach` and `F03::attach` return an error code as a `bool`, so they succeed. For
  F12 the consequences of a failed read are harmless, which `registers` checks; for F03 the trackpoint stays silent. If
  F12 has no memory for the items of the control registers (`F12.cpp:380-385`), `num_registers` stays set and `config()`
  follows the null pointer of a touchpad with dribble (`ConfigPanics`).
- A page selection over I2C that takes effect though its write fails leaves `page` as it was
  (`RMII2C.cpp:184-189`), so the next call for that page selects nothing (`RMII2C.cpp:315`, `:373`) and reads or
  writes another page's registers, with success, until a page is selected again. `PageCoherent`
  says exactly when, `TransferExact` what is moved. No comment or test says what a failed selection leaves.
- F03 has no bound on how often a trackpoint that announces itself is initialised again: the end of every
  initialisation sets `reinit` back (`F03.cpp:294`).
- `find_first_bit` compares with the wrong constant and `ffsll` shifts an `int`; right
  for first bits below 31, which is what F12 needs (`DeviceAssumption`).
- Over I2C a read longer than the touchpad's longest report is cut and succeeds. `F30::config` then
  writes back zeros for control registers it has not read.
- A trackpad that is disabled while it is touched never reports that the fingers were lifted
  until it is enabled again.
- The reject zones are computed in `RMITrackpadFunction::start` and never again, neither for a
  configuration that comes later from ACPI nor for one that is set as a property. A
  `ForceTouchType` beyond 2 makes `isForceTouch` fall off its end.
- With the configuration's trackpoint buttons switched off, pins 3 to 5 are counted as
  buttons of the trackpad but told to nobody (`ReportsFollowPins` states it).
- A failed read of the pins over I2C zeroes `data_regs`, which reads as every button pressed.

## 6. Not modelled, and why

- Coordinates, velocities, pressure values, palm geometry, the scaling of a trackpoint's
  movement: arithmetic on data that no
  property here tells apart. A valid finger may be given the type Palm, so
  `PacketSound` says that it has a type and not which.
- The lifetime of kernel objects: a function that is inside `attention()` while `stop()`
  releases it, a call inside the I2C transport while `stop()` frees its lock. `RmiBus` lets the
  notification finish and claims nothing of it.
- A byte that F03 handles while its worker is in the middle of a statement (the worker's own updates of
  `flags`, the copying of a reply), and the packet's store split between its reads and writes, of which only what it
  does to `index = 0` is modelled (`ResetIndex`).
- Reads by F12 that RMII2C cuts (see F12Registers above).
- What follows `F03::stop()` during an initialisation, the polling timer's intervals of
  RMII2C, its 68-byte legacy report and the HID descriptor.
- F01's identification queries, which end up in logs and properties only.
- VoodooInput's own behaviour and its opening and closing of the bus; the dictionaries
  of the configuration, of which only a change of `forceTouchType` matters to a report in
  progress (`SetProperties`; the two timeouts are taken not to change); logging.

## 7. Plan

Done: the modules above. What is left would be, in this order:

1. VoodooInput's open and close against the packets of `FingerTracking` and `Trackpoint`.
2. The timeouts of the configuration in `SetProperties`, which double the states.
