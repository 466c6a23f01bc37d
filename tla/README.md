# A TLA+ verification of the RP2350 emulator

This directory models the emulator's own logic — the clock and what hangs on it, the two cores and
what lies between them, the instruction sets, the peripherals with their callbacks and interrupts —
checks it with TLC on small instances, and proves the central invariants and refinements with TLAPS
for every value of the parameters. `PROJECT.json` lists the runs, the mutants each property must
catch, the lines every definition models, the hazards and the theorems.

## 1. Inventory

The emulator is one JavaScript thread. Nothing is preempted by another thread; what interleaves is

* the two cores, instruction by instruction (`RP2350.stepCores`);
* alarm callbacks, which run inside `SimulationClock.tick` and call back into the clock;
* devices, whose callbacks (`onTransmit`, `onReadByte`, `endpointReadDone`, ...) answer later, or
  before the call that asked has returned;
* firmware handlers, which interrupt firmware between any two instructions;
* the debugger and the run loop, between two turns of the event loop.

| Component (source under `src/`) | State it keeps | Operations | Correct when |
|---|---|---|---|
| **Clock** `src/clock/` | `nanosCounter`, linked list of `ClockAlarm`s (`next`, `nanos`, `scheduled`) | `schedule`, `cancel`, `tick`, `nanosToNextAlarm` | an alarm runs once, at its deadline, in order, unless cancelled; `tick` returns |
| **FIFO** `src/utils/fifo.ts` | `buffer`, `start`, `used` | `push`, `pull`, `peek`, `items` | it is a queue |
| **SIO FIFOs** `src/sio-core.ts` | two rings, `WOF`, `ROE` per core | `FIFO_ST/WR/RD` | each direction is a bounded queue; losses are reported to the core that suffered them; whoever has something to read has its interrupt up |
| **SIO arithmetic** `src/sio-core.ts`, `src/interpolator.ts` | operands and results of the divider, lanes of the interpolators | operand writes, result reads, `POP` | results are those of the arithmetic; a handler may use the divider |
| **SIO shared** `src/sio_rp2350.ts` | launch buffer, doorbells, spinlocks, GPIO | `core1LaunchPoll`, register accesses | core 1 starts exactly where the launch asks; locks exclude; no bell is missed |
| **Chip** `src/rp2350.ts` | `core1Launched`, `isCore0Running` | `step`, `stepCores`, `holdCore1ForLaunch`, `setInterrupt` | neither core waits for ever for the other |
| **Hazard3 core, traps** `src/riscv/cpu.ts` | CSRs, Xh3irq arrays, `interruptsUpdated`, `waiting` | `setInterrupt`, CSR accesses, traps, `mret`, `wfi` | interrupts nest by priority, none is lost, `wfi` ends |
| **Hazard3 core, instructions** `src/riscv/` | registers, PC, reservation | the decoder, `executeInstruction` | an instruction does what the architecture says; a word that is assembled is decoded to the same instruction |
| **DMA** `src/peripherals/dma_rp2350.ts` | per channel `ctrl`, addresses, counts, one alarm; `dreq[]`, interrupts | `start`, `transfer`, `abort`, `setDREQ`, register writes | each trigger moves its count once; pacing respects DREQ; chains fire |
| **USB** `src/peripherals/usb.ts`, `src/usb/` | endpoint buffers, `buffStatus`, `sieStatus`, alarms | device and host transactions, CDC enumeration | each buffer is handed over once, in order; a transfer ends, also when the device is pulled out |
| **I2C** `src/peripherals/i2c.ts` | command and receive FIFOs, `state`, `busy`, `stop` | register accesses, `complete*` | conditions and bytes are a well-formed use of the bus; each command is carried out; abort returns to idle |
| **PIO** `src/peripherals/pio.ts` | per machine PC, shift registers, FIFOs, wait state; IRQ flags | `step`, FIFO and CTRL writes, `checkWait` | a stalled instruction is completed once, when it can |
| **SPI, UART, ADC** | FIFOs, interrupt bits, the byte or conversion under way | register accesses, device callbacks | data go through once and in order; interrupts and DREQ follow the levels |
| **PWM, watchdog, SysTick** on `utils/timer32.ts` | a counter computed from the clock, periodic alarms on it | register writes, alarm callbacks | alarms come when the counter gets there, whatever was written in between |
| **Timer** `timer.ts` | latches, four alarms | register accesses | alarms fire when the low half matches; a time read in halves is a time of the reading |
| **GPIO** `gpio-pin.ts`, `io.ts`, `pads.ts` | per pin control, pad, input, interrupt status; one shared line | register writes, `setInputValue` | listeners know each pin's value; the line follows the pins |
| **Cortex-M0+ / RP2040** `cortex-m0-core.ts`, `ppb.ts` | registers, flags, two stacks, NVIC | Thumb instructions, exceptions | as the Hazard3 core |
| **GDB, run loop** `src/gdb/`, `src/simulator.ts` | receive buffer, connections; `stopped`, `executeTimer` | packets, break; `execute`, `stop`, breakpoints | each command is carried out once and answered; what GDB believes of the program is true |

They interact by direct calls: a peripheral calls `clock.createAlarm(callback)` and
`chip.setInterrupt(irq, level)`; DMA reads and writes any peripheral's registers; peripherals call
`setDREQ`/`clearDREQ`; the chip steps the cores, then the PIOs, then ticks the clock by the cycles
core 0 took. The hard behaviours are those of `PROJECT.json`'s hazards: state read before a callback
and used after it, latches consumed at the wrong moment, words left over from an earlier protocol,
sleeping cores and their wake-ups, counters computed from a time that has moved on, numbers that
wrap at 32 bits in a language without such numbers, and queues at their limits.

## 2. Plan and state

| Modules | Model | Compose, refine |
|---|---|---|
| AlarmClock | what the clock promises to the holders of alarms | abstract |
| SimClock | the clock, alarm callbacks in the middle of a tick | implements AlarmClock |
| AlarmList | the linked list of the clock | implements SimClock |
| Mailbox | what the two cores are promised of the SIO FIFOs | abstract |
| SioFifo | the ring buffer, and the FIFO registers of both cores | implements Mailbox |
| Intercore | spinlocks and doorbells, and firmware that leaves requests with them | extends SioFifo |
| Core1Launch | `stepCores`, the bootrom's wait loop and the firmware that launches core 1 | extends SioFifo |
| Xh3irq | external interrupts, traps, `mret`, `wfi` of one core, the SDK's dispatcher | |
| Words | machine words as sets of bits | |
| Rv32Formats, Rv32Core | the assembler's formats and the expansion of compressed instructions; the decoder, execution, two harts over one RAM | use Words |
| Rv32Programs | what is assembled read back; programs and their results | composes the two above |
| CortexM0, Thumb | exceptions and NVIC; the Thumb instructions | use Words |
| ThumbPrograms | the assembler; programs with interrupts at any instruction | composes the two above |
| DmaJobs | what firmware is promised of a DMA channel | abstract |
| Dma | channels, chaining, DREQ pacing, abort, control blocks, interrupts, a PIO FIFO | uses the promise of AlarmClock, implements DmaJobs |
| PioStreams | what firmware is promised of a PIO machine's FIFOs | abstract |
| Pio | stalls on FIFOs, pins and IRQ flags, and the waking of machines by each other | implements PioStreams |
| I2cBus | what a device on the wires may take for granted | abstract |
| I2c | the master, its driver, and a device that answers late | implements I2cBus |
| UsbDevice | device mode, the CDC host and firmware with a serial port | uses the promise of AlarmClock |
| UsbHost | host mode, firmware, a device that may be unplugged | uses the promise of AlarmClock |
| Timer32 | a counter computed from the clock and its periodic alarms | |
| Pwm, Countdown | PWM slices; watchdog and SysTick | extend Timer32 |
| MicroTimer | the 64-bit timer and the firmware that reads it | |
| Serial | SPI, UART receiver, ADC | |
| Gpio | pins, pads, controls, the shared interrupt | |
| SioMath | interpolators; the divider under interrupts | uses Words |
| Debugger | the GDB server, the run loop, and GDB at the end of a stream | |
| SimClockProofs | theorems about the clock, its queue and its list | SimClock, AlarmList |
| SioProofs | theorems about what lies between the cores | SioFifo, Intercore, Core1Launch |
| Xh3irqProofs, DmaProofs, PioProofs | theorems about each of these | |
| ProgressProofs | theorems about what works by question and answer | I2c, Debugger |
| DevicesProofs | theorems about the small devices | Gpio, MicroTimer, Serial, Pwm |
| ControllerProofs | theorems about the two sides of USB, the watchdog and SysTick | UsbDevice, UsbHost, Countdown |

What the plan has left is what TLAPS does not reach (section 6).

## 3. The modules and the code

**AlarmClock** says what `IClock` and `IAlarm` offer. A pending alarm has a deadline; `Schedule`
replaces it, `Cancel` forgets it, `Fire` runs the alarm with the earliest deadline at that deadline,
`Advance` moves time on when no deadline lies on the way.

**SimClock** is `SimulationClock` with the list as a sequence (`queue`, head first). `tick()` is a
loop that runs callbacks, and callbacks call `schedule` and `cancel`, so a tick is several steps:
`Tick` computes `targetNanos`, each `FireAlarm` is the loop body up to the call of the callback,
`CallbackReturns` is its end, `TickDone` is the loop's exit. `running` is the callback on the stack.
`CallerRuns` says who may call `schedule` and `cancel`: code outside a tick, or the callback.
Callbacks do not call `tick` (none in the code does). An alarm that fires keeps `scheduled` up, as in
the code. An alarm is linked in front of those with its deadline (`<` in `linkAlarm`), so equal
deadlines fire last in, first out. `Tick` takes the deltas of `stepThings` (a step's cycles) and of
the waiting core (`nanosToNextAlarm`).

**AlarmList** has the pointers: `nextAlarm` and each alarm's `next`, which unlinking leaves as it
was. `Walk` follows the pointers, `linkAlarm` and `unlinkAlarm` splice where the two loops of the
code do. Its refinement mapping is `queue <- Chain(nextAlarm, next)`.

**Mailbox** is a bounded queue to each core with two flags that report losses. **SioFifo** has `FIFO`
as a record `buffer, start, used` (`pull()` returns `peek(f)` and leaves `pull(f)`), and the three registers `FIFO_ST`, `FIFO_WR`, `FIFO_RD` of `RPSIOCore`, one action for each access: the
`txFIFO` of a core is the `rxFIFO` of the other. `irq` is the level last given to `setInterrupt`;
only a write of `FIFO_ST` lowers it.

**Core1Launch** extends SioFifo. `turn` is `isCore0Running` inside `stepCores`: `Core0Step` is one
instruction of core 0; then, while core 1 is held, `core1LaunchPoll` is one turn of the wait loop (a
word taken, echoed, captured) and `PollDone` its end; once core 1 runs, `Core1Step` and `CaughtUp`
are the catching-up loop. `Release` is the end of the loop when three words are captured. The
firmware is the SDK's: `pc` names the instruction that touches shared state next, and the labels
follow `multicore_launch_core1_raw` in `demo/riscv_ghostshow/ghostshow_mc.dis` — a command that is 0
drains the mailbox and signals first; each word is pushed when `RDY`, signalled with `h3.unblock`,
and its echo awaited with `h3.block`; a wrong echo starts the sequence over. `Block`, `Unblock` and
`Sleep` are the instructions and the event latch. Core 1's own firmware sends and receives
messages with the same push and pop. `EarlySend` puts words into the mailboxes before the harness
holds core 1: both cores run the image until then, and may have talked. Launch parameters are never
0 (section 7).

**Xh3irq** is one Hazard3 core. `executeInstruction` is two steps: `checkForInterrupts`, then one
instruction (`checked` is between them). The arrays `meiea`, `meipa`, `meifa` are sets, `meipra` a
function, `meicand` the sorted array of candidates. `setInterrupts(lower, raise)` is a loop of
`setInterrupt` calls: it stands for one call from a device and for the loops of the CSR writes.
`updateMEINEXT`, `updateMEICONTEXT_priority_save`, `..._restore`, `trapEntry` are the methods of
those names. CSR writes are the main program's instructions (`Main`), a window of four priorities or
sixteen force bits at a time as in the code; only the main program reconfigures interrupts. The
external interrupt handler is `isr_riscv_machine_external` of the SDK, one action for each
instruction that touches a CSR (`Save` ... `Check`, `Mret`): it keeps `MEPC`, `MSTATUS` and
`MEICONTEXT` in a frame, asks `MEINEXT` for an interrupt until there is none, serves each with
`MSTATUS.MIE` set, so that higher ones nest, and looks once more before it leaves. The `level` in a
frame is a history variable of the properties. A device's handler lowers its device's line before it
ends (`BodyEnds`); other device events, rises and falls, happen between any two instructions.

**DmaJobs** is what firmware counts on: a trigger of a channel at rest begins a job, a trigger of a
busy one is ignored, each transfer takes a unit off its own channel's job and nobody else's, and the
interrupt is raised with the last unit. **Dma** is `RPDMAChannel` as a record (`en` and `busy` are bits
of `ctrl`; `alarm` is whether its alarm is due at no delay, after the pacing timer's, or not at all) and
its methods as functions from a record to a record: `start`, `scheduleTransfer`, `abort`, `writeCount`,
`ctrlWritten`, and `transferred`, the part of `transfer()` after the unit is written. `Transfer` is one
alarm, with everything `transferFn` calls: a word to the FIFO goes through `writeFIFO` and may take DREQ
down, a word to another channel's `TRANS_COUNT_TRIG` is a whole register write of that channel. The
firmware and the PIO act only between ticks, as in `RP2350.step`; `Take` is the PIO machine's `PULL` and
the rise of DREQ. Alarms due together run in any order, as AlarmClock leaves it.
What is narrower than the code: `CTRL` is rewritten on channels at rest, and only `EN` on a busy one; the
count mode is not changed under a job by firmware (a control block may change it); control blocks
are for other channels; a channel to the FIFO is paced by it, the way the SDK sets it up. Addresses and
data and the interrupt enables are not modelled.
`shared` is a history variable: two busy channels paced by one DREQ.

**PioStreams** is what firmware counts on: the words it writes are loaded into OSR in order, the words
handed over from ISR are read in order, and a word is lost only where a non-blocking `PUSH` finds the
FIFO full or a restart finds the machine stalled on it. **Pio** is the block as one record, `pio`, and each
method of `StateMachine` and `RPPIO` as a function from the block to the block, so that a call in the
middle of another (`irqUpdated` in an `IRQ` instruction, `checkWait` of every machine in it) sees what
its caller has done so far. Its actions are a clock of one machine, the register accesses, and a change
of the input pin. The chip steps the machines each cycle, whether enabled or not, and `run()` steps
them on from a write of `CTRL`; each takes a clock when its divider lets it, which is left open.
`program` is chosen at the start: the instructions, the machines' settings and what firmware does
beside them. A jump on a register or a pin may go either way; of the scratch registers only the 0 that a
non-blocking `PULL` finds in X matters. Shift counts are in units, `Full` to a word, and a word is shifted
whole; `IN` takes it from OSR, so that words can be followed through the machine. Not modelled: `MOV`,
`SET` and what else touches neither FIFO, flag nor stall, instructions that write the PC or execute a
word, output pins and side-set, the `TXOVER` and `RXUNDER` bits, forced interrupts and the second
interrupt line. An instruction that may stall is forced only on a machine that does not wait already
(`WriteINSTR`): the code would forget what it waited for. As the code has it, and therefore the model: the
delay of an instruction that stalled is not kept; a machine that waits for a flag to go down is not told
when a higher-numbered one takes it and finds out at its next clock; and a `WAIT` that takes a flag does
not look at the interrupt line again, so that `SourcesAnnounced` does not say a line that is up has a cause.

**Intercore** is `RPSIO`'s spinlocks and doorbells, an access one step. `ReadSpinlock` is enabled when
the read gives a number other than 0: a read that finds the lock taken changes nothing, and the
firmware reads again. `ringDoorbell` is the code's function, called by the four doorbell registers.
The firmware is what the registers are for: each core has a box guarded by a spinlock; a core leaves a
request in the other's (or its own) box and rings, or takes the request back and clears the bell; the
bell's handler clears the bells it saw and then empties the box. A critical section is lock, read,
write, unlock, four steps with interrupts off, so that a box that two threads have in hand shows.

**Words** keeps a word as the set of the positions of its one bits; the conversions `U`, `S` and `W`
give the numbers. Instruction words have their 32 bits, registers have `WordBits`: the code's `>>>`,
`|0`, `Math.imul` and the shift counts modulo 32 become the same operators modulo `WordBits`.
**Rv32Core** executes one instruction of one hart a step: `Rv32c` (in **Rv32Formats**) expands a compressed
instruction with the code's shuffles of bits; it decodes the fields of each format, then one operator for each
opcode maps the hart's record to the next. The expansion is compared with the manual's assembly, the
decoder with the assembler of **Rv32Formats**, and the results of **Rv32Programs** with arithmetic on numbers: laws
that tie several instructions together (quotient and remainder, both halves of a product, rotations
there and back), for every pair of operands at a corner of the range. **CortexM0** and **Thumb** do the same for the Cortex-M0+, with exception
entry and return, priorities, the stacks and the NVIC's registers; in **ThumbPrograms** interrupts
come between any two instructions, and the handlers clobber what the core promises to keep.

**Timer32** counts by the time since it was last written, and an alarm is scheduled by the distance to
its target; a record holds the counter's parameters and what is left until each alarm. Time goes in
parts of a tick (`Sub`), so that writes fall between ticks and the rounding of the code matters.
**Pwm** adds the double buffering of compare and wrap values, **Countdown** the reload of the watchdog
and of SysTick. **MicroTimer** has a counter of two halves and the two ways of reading it: high, low,
high again, and through the latch. `fireAlarm` is the callback of one alarm; the clock has taken that alarm
off its list when it runs.

**Serial** has SPI with its two FIFOs and a device that may answer inside `onTransmit`, so that `doTX`
is on the stack several times; the UART's receiver with its levels; and the ADC, whose samples come
by alarm, in rounds of several channels, into a FIFO that may overflow. **Gpio** has two pins with
everything that can change what a listener or the shared interrupt was last told. **SioMath** has the
settings of an interpolator chosen at the start, and a division by a program that a handler may
interrupt, divide itself and put the registers back as the SDK does, before or after the result is read.

**I2c** has one action for each register the driver accesses and for each answer of the device
(`completeStart` to `completeStop`, and `arbitrationLost`). A callback leaves `owed`, so any access may
come between a callback and its answer. **I2cBus** is its abstract specification: a start where one
may be, an address after it, bytes in the addressed direction, a stop after the last, and nothing else.

**UsbDevice** is `usb.ts` in device mode with the `USBCDC` class as the host: bus reset, enumeration
with control transfers of several packets, and the serial endpoints, each with its one alarm for a list
of buffers. The firmware answers requests and hands buffers over as the SDK's device examples do.
**UsbHost** is host mode: setup, data and status phases, polling by an interrupt endpoint, and a
device that is plugged and unplugged at any time, as often as `MaxPlugs` allows. It may answer a control
IN with up to what was asked for, or refuse it (`response = None`).

**Debugger** has the server's receive buffer as symbols of the stream, so that `feedData` gets chunks cut
anywhere: `feedData` is the head of the method, `FeedPacket` a turn of its loop, `FeedDone` its end; the
run loop does not come in between (`reading`). `execute` runs a slice of instructions from `pc` to the
first `BKPT` and leaves a callback of `setTimeout` behind, which `ExecuteOn` is; `timeouts` counts the
callbacks to come, `executeTimer` says whether the simulator knows of one. `onBreak` stops the program on
its `BKPT` and tells GDB, in the middle of whatever ran it: `c` answers `OK` after the breakpoint's
`S05`, `vCont;s` on a `BKPT` says `S05` and `T05`. GDB is modelled from its protocol: it waits for the
acknowledgement, sends again when refused, acknowledges and forgets what comes instead of one, and waits for a
stop reply once the program runs. The user may interrupt, and again when nothing comes of it. `taken` is
a history variable: how often the command was carried out.

**MCDevices**, **MCProgress** and **MCCores** put several of these in one instance. They do not touch
one another: a behaviour chooses one of them at the start and the rest stay as after a reset.

## 4. The runs

| Run | Instance | Distinct states | Question |
|---|---|---|---|
| `clock` | 3 alarms, delays 0..2, ticks of 0, 1, 3 or to the next alarm, time up to 2, as a queue and as the list | 121,376 | Is the promise kept whatever callbacks do in the middle of a tick? Do the pointers make the queue? Does `tick` return? |
| `core1_launch` | rings of 3, up to 3 words each before the hold, 2 launches to choose from, 2 messages each way | 555,082 | Does the launch do what was asked, and end? |
| `xh3irq` | 2 devices and a soft interrupt, priorities 0..2 | 1,202,703 | Do the interrupts nest as they must? |
| `xh3irq_live` | 1 device, 1 soft interrupt, priorities 0, 1 | 34,056 | Is every interrupt served, and does every handler end? |
| `dma` | 2 channels that chain to each other, one also as the other's control channel; counts 0, 2, endless and self-triggering; a FIFO of 2 | 615,360 | Do triggers, chains, pauses and aborts leave each job whole, and no channel behind? |
| `dma_live` | the same without timer, all counts 2 | 114,256 | Is every job finished? |
| `pio` | 2 machines, FIFOs of 1, 3 programs: a handshake by flag and FIFO, autopull by parts of a word with a pin and relative flags, autopush of whole words; forced instructions, one that stalls | 111,700 | Do words, flags and stalls meet whoever comes first? Does any word get lost or doubled? |
| `cores` | registers of 12 bits; every instruction and compressed instruction at corner operands; programs on 1 and 2 harts; Thumb programs with up to 2 interrupts | 91,793 | Does each instruction compute what it stands for, whatever comes in between? |
| `progress` | 6 controllers: USB device (packets of 3), USB host (packets of 2), I2C (FIFOs of 2), watchdog, SysTick, debugger (a program of 2 instructions, slices of 2) | 196,617 | Is what firmware asks for done, once, in order, and in the end? |
| `devices` | 12 devices: SIO FIFOs, spinlocks and doorbells, PWM, timer alarms, timer reads, SPI, UART, ADC, outputs, inputs, interpolator, divider | 491,098 | Do interrupts, listeners and requests follow the state they speak of? Are times, duties and quotients exact? |
| `xh3irq_wfi`, `lr_sc` | the pair of `xh3irq_live`; two harts that count | | findings 1 and 2 |

Deadlock is checked in all but `cores`, `lr_sc`, `progress` and `devices`: programs end, and the devices
of the last two stop at their bounds (bytes sent, commands queued, the horizon of the timer). In
`progress` the liveness properties say that they do not stop before.

Why the bounds are enough, and what they leave out:

* *Clock.* Three alarms are one at the head, one in the middle, one at the tail, the cases of both
  loops; and a callback's own alarm, one due before and one due after. Delays and ticks are such
  that an alarm falls before, at and after the end of a tick and several share a deadline.
  `MaxNanos` bounds only when a tick may start; deadlines go beyond it. The invariants and the
  refinement are proved for all of this (section 6).
* *SIO FIFOs.* The code's depth is 8. A ring of two wraps at each position, is empty, half full and
  full; two words tell an order from another. The refinement is proved for every depth.
* *Spinlocks and doorbells.* One lock for both boxes makes the most contention, and a bell for each
  core is what the firmware above uses. The invariant is proved for every number of locks and bells.
* *Launch.* The interleaving is as fine as the firmware's accesses. Mailboxes of three words can be
  full while core 0 sends and while core 1 echoes; up to three early words of core 0 leave the wait
  loop in any state of its capture, and up to three of core 1's fill core 0's mailbox against the echoes
  (a dropped echo makes core 0 start over). Four early words break the launch (section 7). The two
  requests differ in every word, and one repeats a word. `MaxEarly` and `MaxMessages` bound only
  how much is sent. Whether a message may look like a marker of the handshake is in: `1` is a message.
* *Interrupts.* Three interrupts with priorities that tie, lie below and lie above give nesting of
  depth three, the deepest that `PPPREEMPT` could matter for. Two device interrupts share one
  priority register (window of four), so changing one takes the other out and back; the soft one is
  in another. The liveness run is smaller because its graph is searched for cycles.
* *DMA.* Two channels are one that moves and one that is chained to, triggered by it, paused, aborted
  or triggered again in the middle; a chain of two is already a cycle. A FIFO of two is empty, half full and
  full, so DREQ falls in the middle of a job of two. A count of 0 leaves a channel `BUSY` with nothing
  scheduled, in which a later rise of DREQ moves one stray unit: it is in the run, and `DmaJobs` allows
  it. A pacing timer that is started under a job is in the run, but `NoStall` and `Finishes` say nothing
  of such channels: the code looks at the timer only when it schedules.
* *PIO.* A machine that stalls and one that releases it are two, and two that wait for one flag are what
  `FlagWakesOne` needs. A FIFO of one is full and empty at each access, so each `PUSH` and `PULL` meets
  both; two units to a word are a word that is whole and one that is not, an `OUT` of two after one goes
  past its end. Each program uses the instructions that it needs for its question, and firmware feeds the
  machines that pull; between them every kind of instruction and of stall occurs.
* *Cores.* 12 bits make bytes of three bits: a byte, a half-word and a word are told apart, their signs
  too, and the addresses of the small RAM fit. What depends on the width (overflow, the sign,
  a shift by the width or more) depends on it in the same way at 12 as at 32. Operands are the corners 0, 1, 2, the
  largest positive number and the one before it, the smallest negative one, -1, and two in between. Immediates are
  those of the real encodings: all of the small fields, the corners of the large ones.
* *Timers.* Half a tick (`Sub = 2`) is what the rounding of the counter can tell. `Wrap` is small so
  that the counter passes it; the wrap values include one below the compare value. The timer's half of 4
  and horizon of 12 (halves of a microsecond) pass the carry into the high half in the middle, so that an
  alarm may be set before, at and after it.
* *Serial devices and I2C.* FIFOs of two are empty, between and full; four items fill both SPI
  FIFOs and one more is on the wire. I2C transfers of two commands have a first, a last, a change of
  direction with and without restart.
* *USB.* A descriptor is read in a header of two bytes and then whole: 4, 5 and 6 are more than one packet of
  3, with a last packet of one, two and three bytes. Host responses of 0 to 3 bytes over packets of 2 are none, part of
  one, one, and more than one; a device may refuse as well. Three plugs are in, out and in again.
* *Debugger.* Two instructions with a `BKPT` on either give slices that run to one, past one and to none. GDB
  sends one command at a time, so the stream is short: the state space is finite without a bound on the
  commands, breaks and cuts.
* *GPIO.* One pin with everything, a second for the line they share; two blocks that drive it. Outputs
  and inputs are two of the devices, as neither reads what the other writes.

What the properties say is in the comment above each. The deepest: `ImplementsAlarmClock` and
`ImplementsQueue` (each alarm once, at its time, in order), `LaunchSound` (core 1 starts where it was
asked to, and nothing of the handshake leaks into what the firmware reads next), `IntercoreSound` (no
request is overwritten, and none lies in a box without a bell or somebody on the way), `ImplementsJobs`, `NoStall` and
`NoOverrun` (DREQ is read when an alarm is scheduled, and used when it runs), `ImplementsStreams` and
`MachinesSound` (the look and the stall, against the word that comes between), `NestingSound`,
`DeliverableIsSeen` (the latch `interruptsUpdated` is never down when the next instruction has an
interrupt to take), `ThumbComputes` (no result depends on where an interrupt falls), `PwmTrue` and
`CountdownAims` (an alarm computed from a time that has gone by still leads to the target), `PinsTrue`
(what a listener was last told is still so), `SetupPacketKept` (a setup packet is not
overwritten before the firmware has read it), `DataIntact`, `NobodyMisled` (GDB believes the program
stopped only where nothing will set it off again), `I2cSound`, and `HandlersSettle`.

## 5. Fairness

* *SimClock.* `tick()` is a loop in a single-threaded program: `FireAlarm` and `TickDone` are weakly
  fair because nothing can stop the loop, `CallbackReturns` because callbacks are straight-line code.
  Nothing makes the emulator call `tick` again, or callers schedule. `TickReturns` assumes that from
  some point on no callback schedules at zero delay; without that it is false, and so is the code's
  promise to return (a hazard at `simulation-clock.ts:90`).
* *Core1Launch.* `step()` is called for ever, so each part of `stepCores` is weakly fair. Core 1's
  instruction competes with the end of the catching-up: which happens depends on the cycles of each
  instruction, so it is strongly fair — now and then core 1 gets none, but not for ever, since core 0's
  cycles add up.
* *Xh3irq.* `executeInstruction` is called for ever: its halves are weakly fair. A handler's body may
  take an exception any number of times but not for ever, hence `SF` for its end. Devices and the main
  program owe nothing: what needs them at rest says so (`Quiet`).
* *Dma.* The emulator ticks for ever and each tick runs what is due: weak fairness of `StartTick`, the
  transfers and `TickDone`. The machine's `PULL` comes up again and again between ticks: `Take` is
  strongly fair. `Finishes` assumes that ticks return, which an endless channel that nothing paces
  prevents (the same hazard as above).
* *USB.* Alarms fire because the emulator ticks for ever, and the firmware runs: weak fairness of each
  alarm and of the steps of the handlers (`BusFairness`, `HostFairness`), and of the write of
  `MAIN_CTRL` that turns the controller on. Nobody has to send a byte, or plug anything in.
* *I2c.* A device answers what it was asked in the end (`I2cFairness`); the driver owes nothing. A device
  that never answers leaves the controller busy, as it does in the code.
* *Countdown.* Time passes and what is due is called (`CountdownFairness`); nobody has to feed the
  watchdog, and `Bites` is about the case that nobody does.

* *Debugger.* TCP delivers, the server's loop goes on, GDB reads what it waits for (`DebuggerFairness`). A
  user who waits for the answer to a break asks again: without that a break lost in the stream (section 7) is
  never answered. Nothing is said of a packet that is cut in two each time it is sent.

## 6. What is proved

Every theorem is of the form `Spec => []P` or `Spec => [][A]_v` or a refinement, for every value of the
constants. The assumptions are named where the constants are declared, and TLC evaluates them on the
instances of the runs: `None` is neither an alarm nor a number, delays and depths are natural numbers, 0 is a
word (SimClock, SioFifo); a channel to the FIFO is paced by it, a control block is for another channel, and
the FIFO holds two words at least (Dma); `LaunchAssumption` (no launch parameter is 0, messages are words,
and fewer than four words were sent early or none of them is 1); `SizeAssumption` and `ProgramAssumption` (Pio: one machine and one word at least, and
programs whose instructions and settings are those the model has); `UsbDeviceAssumption` (a header of two bytes at
least, which is shorter than a packet and than any descriptor); `I2cConstants`, `GpioConstants`,
`MicroConstants`, `SerialConstants`, `DebuggerConstants`, `HostConstants`, `CountdownConstants` (types of the parameters), which are hypotheses of the theorems because
their modules are instantiated together, and are evaluated by MCProgress and MCDevices; `TimerAssumption` (a tick has units, counters a width, and `Never` is no time) and
`PwmAssumption` (Pwm: a slice has the two alarms that are modelled; wrap values are less than the width of the counter by
two at least, as those of 16 bits are in one of 32, and none is 0, as a phase-correct slice divides by twice its wrap value).

* **SimClock.** None of the invariants is inductive alone. That firing the head passes no other
  deadline needs the order of the queue; that linking keeps the order needs the alarm to be out of it,
  hence `LinkedOnce`, and with it that `scheduled` is up for whatever is linked; that a new deadline
  lies ahead needs `NothingOverdue`, which in turn needs that a tick ends only when the head is beyond
  it. The inductive invariant is `Inv == TypeOK /\ LinkedOnce /\ QueueInOrder /\ NothingOverdue`. The
  lemmas about the operators come first: `linkAlarm` finds a position (the set of numbers of alarms
  due earlier has a largest element), inserting there keeps types, order and uniqueness; `unlinkAlarm`
  removes its alarm and nothing else. From `Inv` follow the four invariants, `TimeNeverRunsBack`, and
  step by step the refinement `KeepsPromise`: `SimClock` implements `AlarmClock`.
* **AlarmList.** The invariant is that some sequence without repetition follows the pointers from
  `nextAlarm` to `None`, and holds scheduled alarms only: pointers that unlinking left behind do not matter to
  it. The walk of the code is a recursion; instead of an induction the proof takes the first step at which it
  would leave that sequence (the least element of a set of numbers). So a walk stops after as many steps as
  there are alarms (`WalksEnd`), what `linkAlarm` and `unlinkAlarm` splice is an insertion and a removal in the
  sequence, and the list implements `SimClock` (`ListIsQueue`).
* **SioFifo.** `Inv == FifoTypeOK /\ IrqWhileUnread` is inductive. For the refinement the lemmas
  `items(push(f, w)) = Append(items(f), w)` and `items(pull(f)) = Tail(items(f))` are proved from the
  arithmetic of positions modulo `Depth`; each register access is then a `Send`, a `Take`, a `Clear` or a
  stutter of `Mailbox`: `KeepsMailboxPromise`.
* **Intercore.** `IntercoreSound` says that no two threads have a box in hand and that no request is
  forgotten. Both rest on the lock: a thread that is between lock and unlock has the lock of its
  target (`HasLock`), and no other thread has it (`MutualExclusion`). From these a copy that is about
  to be written back is the box as it is (`CopyFresh`). That a request is not forgotten needs, besides, that a
  bell is rung by its own core only (`OwnBell`), what the taking back of a request leaves behind
  (`TakenBack`), and that the level of the interrupt is that of the bells (`IrqFollows`). The inductive
  invariant is their conjunction; the proof has a step for each action, and the firmware's masking of
  interrupts is what keeps the handler out of its own core's critical section.
* **Core1Launch.** The invariant has three parts, one for each phase. Before the hold, the mailboxes hold words
  that were sent early. In the handshake, what lies in both mailboxes and what was captured is fixed by the
  label the firmware is at and by how far the poll of the wait loop is: at most one command is on its way, and
  its echo answers it; old words are drained before they can be taken for an echo, and a capture that early
  words began is reset by the 0 that comes first. Once core 1 runs, what each core got and what lies in its
  mailbox is what the other sent, but for the last echo, which may lie in front of core 1's first words; and a core
  that is about to push or pop has room or a word. `LaunchIsSound` follows phase by phase.
* **Xh3irq.** `IInv` has the candidates (exact, and in order), the stack, and the latch. What `filter` and the
  sort do to `meicand` is a lemma each (the same elements, in order); a strictly increasing map of a list onto itself
  is the identity, so the sorted list is determined by its elements and nothing later looks into them. `StackShape`
  says which handler may have broken into which at which instruction; `ContextsKept`, that each frame holds what its
  trap left in `MEICONTEXT`: three levels and the interrupt of the handler it broke into; `NextShown`, that
  `MEINEXT` is the best candidate or hides one that could not preempt. From these, levels climb with the stack and
  `mret` restores the level below. `Seen` is `DeliverableIsSeen` in the middle of `executeInstruction` as well: whatever
  makes an interrupt deliverable, an `mret` included, sets `interruptsUpdated` before the next look.
* **Dma.** The properties follow from an invariant of each channel by itself, `ChanInv(ch, req)`: an alarm
  belongs to a channel that is enabled and busy, and a channel that its pacing allows to go on has one.
  It depends on the FIFO only through DREQ, so each method of a channel has one lemma (`StartFacts`,
  `ScheduleFacts`, `FinishedFacts`, ...) that says it keeps `ChanInv`, and the actions differ in which
  channels they apply them to. What joins the channels is that DREQ falls in a transfer: `ChanInv` is
  easier then, but an alarm scheduled before the fall may outlive it, unless no other channel waits for
  the same DREQ; hence `Paced` and `~TwoOnFifo` under `~shared`. `Inv` adds that DREQ says whether there
  is room. `TransferShape` describes the state between the write of a unit and the rest of `transfer()`,
  and serves both the invariant and `Implementation`: `Dma` implements `DmaJobs`.
* **Pio.** The methods call each other (an `IRQ` instruction runs `checkWait` of every machine, which moves words and sets
  flags), so the invariant is stated of the block in the middle of a call. `Consistent` is what holds
  there; `Sound` is `Consistent` and: a machine stalls on its FIFO only while that is full or empty, and on a
  flag only while it is down. Each method has a lemma that says what it changes (`Still`, `Handed`, `Sets`)
  and that it keeps both. `FlagWakesOne` follows the machines in the order `irqUpdated` tells them: the first
  one that waits takes the flag (again the least number of a set), and those after it find it down. For
  `KeepsStreams` each machine's words in the FIFOs and shift registers are related to the streams of
  `PioStreams`: a step moves at most one word of each direction of one machine, except that a flag may let the
  instruction of another go on, which moves no word.
* **I2c.** `I2cInvHolds`: the callback that is owed to a device belongs to the master's state and keeps it busy;
  queued commands change direction with a restart only; the head of the queue suits the address that is
  on the wire. From it the bus that the device sees is that of `I2cBus`, no command is left lying and a queue
  that runs empty is reported, whether the device answers at once or later.
* **Gpio, MicroTimer, Serial.** A pin's listeners, latches and line agree with the level that was last checked, and
  the shared line with the latches and masks of all pins (`PinsTrue`). The latched high half belongs to the low half
  that was read with it, also when the low half wraps in between; just the
  alarms that are armed are on the clock's list, each for the next time its target comes up, so that one which fires is
  armed and the target of an armed one is not left behind (`TimeReadTrue`, `FiresOnTime`). What was read, what lies in the FIFOs, what is on the wire and what
  comes next is one sequence of consecutive numbers (`StreamsIntact`), which each operation cuts or joins at
  one place; the calls of `doTX` in `doTX` are a recursive function, of which the proof takes the first index
  that would break the invariant. `SignalsRaised` needs that a SPI's line may lag behind an overrun only.
* **Debugger.** What GDB may rely on depends on where the command is. The invariant has six phases: nothing is
  under way; the packet lies in what is left of the buffer and the stream, in one piece, with no `$` before it and
  acknowledgements alone behind it, wherever the border between the two runs; it was refused; it was carried out once, and
  behind its acknowledgement is its answer, or news of a stop if the program has stopped, and none if it has not; GDB
  waits for the answer that is the only reply under way; or for news. In each, the timer runs exactly while
  the program does (`Ticking`). A lemma says what each operation on the two streams does to a place
  in them (`Joined`, `HeadDropped`, `FrontDropped`); `PacketRead`, that the search of `feedData` finds the command's packet
  and no other; `SetOff` and `Ran`, what a slice may do to the target. A break in the middle of a chunk
  moves nothing (`Chunked`); one at its head is passed over by the packet's place (`BreakPassed`).
* **USB, device.** That no setup packet is overwritten (`SetupPacketIsKept`) rests on the lockstep of two programs:
  the host asks next when the answer to its last request is in, and the firmware arms that answer after it has
  read the request. `Lockstep` lists the stages of the enumeration; in each, one thing is under way (`With`):
  a packet in the controller, in the firmware's queue or in its hands, or the answer's packets, and what the host
  counts of the descriptor is what the firmware has sent of it. For the bytes (`DataStaysIntact`) `Reading` says that what the host queued
  is, in order, what the firmware read, what is in its buffer or under way, and what is left;
  `Writing`, that what the host received and what lies in the list of the write alarm is what was sent with the two
  packets of each double buffer swapped, and at most one packet is on the way. The alarms' lists and the two loops over the
  interrupts' bits are recursive functions, which the proofs take turn by turn.
* **USB, host.** `Control` follows a control transfer: while a transaction is under way neither its interrupts nor an error are up; when it is
  over, just one of the outcomes is, and what was read is a prefix of the response, packet by packet, an
  empty one after a refusal (`Brought`). `PortTold` says that whatever changed on the port is in the status or still to be taken; `ReportWaits`,
  that a report of the interrupt endpoint stays in its buffer until it is read. `HostSound` is their conjunction.
* **Watchdog, SysTick.** The value of a counter is computed from the time since its last write, and so is the alarm's; neither
  is a function of the other. `Hits` relates both to the *place* of the counter, its distance from 0 in units of the
  clock: when the alarm is due, the place is a whole number of rounds, and the value is the place rounded down to a tick
  (`RawCounter`). Each operation moves the place and schedules anew from it (`ScheduleHits`); a unit of time
  moves the place and the alarm alike (`CountdownKeeps`). The divisions have a step each, which names the quotient and
  the remainder, and what follows from them is linear.
* **Pwm.** `Sound` says where the alarms of a slice lead: the one at the bottom to it to the unit, since it is scheduled on a tick
  only, and the one at the compare value to within half a tick, since a slice that is started between two ticks
  loads its compare value there. For the output (`DutyKept`) `Duty` counts the calls of the compare alarm since the wrap,
  those that the rounding puts at the wrap itself included: before the first the output is up unless the compare value is 0,
  after it is down, and the counter is at the compare value or past it; a third cannot come in one round (`Phase`).
  Only a unit of time and the two calls have to be looked into: each write keeps what `Duty` speaks of or ends it,
  as the values it writes are buffered. `CounterAtBottom` is why a new wrap value leaves the slice at the bottom.

Only model-checked, and why:

* liveness (`TickReturns`, `LaunchProgress`, `PendingWakes`, `HandlersSettle`, `Finishes`, `Progress`): TLAPS
  1.4.5 proves nothing under fairness;
* the instruction sets, `EncodingsExact`, `ProgramsCompute`, `ThumbComputes`, `InterruptsSound`, and the arithmetic of
  SIO, `ArithmeticExact`: they are about sums over bits and recursive functions of words, and about particular
  programs — a program that overwrites its own stack frame does not return to where it came from;

## 7. Findings

Two disagreements between the code and what it says of itself, each with a run:

1. *A masked `wfi` can sleep on a pending interrupt* (`xh3irq_wfi`). `checkForInterrupts` clears
   `interruptsUpdated` although `MSTATUS.MIE` is clear and nothing is taken; a `wfi` that follows sets
   `waiting`, and nothing looks at the interrupt again. `plan.md:65-67` and the comment at
   `src/riscv/cpu.ts:1391` say that `wfi` ignores `MSTATUS.MIE` and wakes. With interrupts on, it does
   (`xh3irq_live`).
2. *LR/SC between the cores loses increments* (`lr_sc`). A reservation is a field of one core, and only
   that core's own AMO clears it (`src/riscv/cpu.ts:981`): a store of the other core between LR and SC
   goes unnoticed. The comment at `src/riscv/cpu.ts:962` has `std::atomic` in mind.

Met while modelling; the models have them as the code does, or leave the case out by name, as said here.

* *Launch.* `enterCore1LaunchWait` posts the bootrom's 0, which by its comment (`src/sio_rp2350.ts:154`)
  says that core 1 drained its FIFO. It drains nothing: four words `1, a, b, c` sent before the hold
  are captured, and core 1 starts at `c` before core 0 has asked. A launch parameter of 0 is taken for
  a resynchronisation (`:167`). The model has neither four early words nor a parameter 0.
* *Hazard3.* `setInterrupt` ignores a rise of an interrupt whose `MEIEA` bit is clear (`cpu.ts:212`), so
  `meipa` does not show it and `setInterruptEnabled`, whose comment (`cpu.ts:198`) speaks of one that
  "was pending and just has been enabled", finds nothing. `cm.pop`, `cm.popretz`, `cm.mvsa01` and
  `cm.mva01s` throw.
* *DMA.* A count of 0 leaves a channel `BUSY` with nothing scheduled (`dma_rp2350.ts:176`).
* *PIO.* An `OUT` to the PC that was stalled by autopull moves the PC once more when it completes
  (`pio.ts:951`); instructions that write the PC are not modelled.
* *Cortex-M0+.* The V flag of `ADCS` and `SBCS` is wrong where operand plus carry passes the sign's edge
  (the programs leave those operands out by name). Shifts by a register's low byte take some carries from
  a count modulo 32. `wfi` with `PRIMASK` set sleeps, or enters the handler; inside a handler it compares with
  the lowest priority. `BLX LR` writes LR before it reads its target (`cortex-m0-core.ts:751`) and goes on with the next instruction. SysTick does not wake a waiting core; a write of SHPR does not set
  `interruptsUpdated`; ICPR leaves alone the interrupts that have a line, those that ISPR made pending too; `SEV` is a
  message in the log.
* *I2C.* A write of `IC_INTR_MASK` is not handled; reading one byte clears `RX_FULL` though the FIFO may
  be above its threshold (`i2c.ts:363`); an abort of a quiet, addressed bus is forgotten;
  `arbitrationLost` during an abort leaves `ABORT` set.
* *USB.* In host mode a control IN that the device refuses is not reported: the SETUP is acknowledged,
  the next IN gets an empty packet (`usb.ts:833-840`), and the transfer ends as if it had brought nothing. A configuration descriptor whose last packet is one byte is overlooked by the CDC host; a
  double-buffered endpoint hands over its second buffer before its first (`usb.ts:487`), and
  `SerialIntact` says so.
* *Timer32 and its users.* The setter of the prescaler decides with the old one whether the timer runs. A write of
  a slice's DIV starts a disabled slice, and one in the last half tick before an alarm loses it; the gated
  and edge modes cannot be reached (`pwm.ts:396`), nor do `PH_ADV` and `PH_RET` take effect; phase-correct slices
  do not have the duty asked for (`PwmTrue` says nothing of either). The
  watchdog's default `onWatchdogTrigger` only logs; its alarm is then due again at once and `tick()` does
  not return, hence `Resets = TRUE` in the run. SysTick with a reload value of 0 is the same.
* *SPI, UART, ADC.* A receive overrun alone does not raise SPI's interrupt (`spi.ts:152`); the UART never
  raises its receive DREQ; the setter of the ADC's round-robin mask clears the wrong bits, a read of the
  ADC's FIFO does not look at the interrupt and a write of `FCS` does not look at DREQ.
* *GPIO.* `io_rp2350.ts:31` and `:71` compare an offset that was reduced modulo 0x18, so that the RP2350's
  interrupt registers are not reached; a write of the interrupt override does not look at the line.
* *Divider.* A negative number by zero gives -1, where `sio.spec.ts` has 1; 0 by 0 gives 1.
* *GDB.* A chunk that ends between the two digits of a checksum is parsed without the second
  (`gdb-connection.ts:31`), refused, and sent again; the second digit of every packet stays in the buffer (`:36`). A
  break that is not the first byte of its chunk is lost (`:20`). Stepping on a `BKPT` sends two
  stop replies, and `c` answers `OK` besides the stop reply: GDB passes over the second, the
  `GDBClient` of `test-utils/` would take it for an answer. `?` says that the program has stopped without stopping it
  (`gdb-server.ts:96`): the model's GDB meets a stopped program.

## 8. Not modelled

`PROJECT.json` gives the reason for each component. In short: SHA-256 and the random number generator
are functions of 32-bit words without an invariant of their own; RTC, POWMAN, TICKS, clocks, resets and
SSI are registers that are stored and read back; the RP2040's DMA is the RP2350's with fewer channels;
loaders, demos and logging are text and files, `demo/bootrom_rp2350.ts` an array of numbers that is
nearly a third of the repository's lines.

Within the modelled parts: addresses and sizes of DMA transfers, PIO's shifting of bits and its output
pins, the contents of USB descriptors, I2C's timing and slave mode, the UART's transmitter (a callback
without state), the CSR instructions outside the interrupt handler's, the memory map, a second debugger
and the end of a connection.

## 9. Running

    tlc -config SimClock.cfg MCSimClock          # and so on, one .cfg for each run
    tlapm SimClockProofs.tla
    tlapm SioProofs.tla
    tlapm DmaProofs.tla
    tlapm Xh3irqProofs.tla
    tlapm PioProofs.tla
    tlapm ProgressProofs.tla
    tlapm DevicesProofs.tla
