# Espardino in TLA+

Espardino is a C and C++ library for the LPC2142/LPC2148 (ARM7) micro-controller
boards: serial ports, a USB virtual COM port, I2C, a DAC player, timers, and a
set of open libraries ported to the board (FreeRTOS, uIP, FatFs, EFSL, Lua, an
LPC USB stack).  Almost everything interesting in it happens between a main
program that spins on memory and an interrupt handler that changes that memory.
The modules here model those pairs, with the hardware on their other side.

Contents:

1. [Inventory](#1-inventory)
2. [Modules and how they correspond to the code](#2-modules-and-how-they-correspond-to-the-code)
3. [Runs](#3-runs)
4. [Fairness](#4-fairness)
5. [What is assumed of the hardware and of the build](#5-what-is-assumed-of-the-hardware-and-of-the-build)
6. [Proofs](#6-proofs)
7. [Where the code and its documentation part](#7-where-the-code-and-its-documentation-part)
8. [What is not modelled](#8-what-is-not-modelled)
9. [Plan](#9-plan)

To run everything by hand: `tlc -config SerialTransmit.cfg MCSerialTransmit`
and so on for each configuration of section 3, `tlapm SerialTransmitProof.tla`
and likewise for the other modules whose names end in `Proof`.

## 1. Inventory

### Drivers (`src/espardino`)

| component | state | operations | hard part | correct when |
|---|---|---|---|---|
| `buffer.c` circular buffer | `first`, `last`, `overrun`, data | put, get, num | both ends used at once, index wrapped by a second store | a byte is refused only when `size - 1` wait, and comes out once, in order |
| `serial_device.c` transmit | transmit buffer, IER bit, THR | `serial_putchar`, the THRE branch of the handler | decisions on stale `buffer_num`/LSR; handler disarms while main queues | order kept, nothing lost, no lost wake-up, putchar returns |
| `serial_device.c` receive | receive buffers, handler pointers | `serial_init`, `serial_set_handler`, receive branch, `serial_getchar` | one handler and one data array for two UARTs, overruns | every byte is delivered or counted; order kept |
| `i2c_device.c` | master and slave record of one device, registers of the I2C block | start write/read, one case of the handler per bus status | multi-master arbitration, bus errors, register map changed by another master | operations end with what was asked; a write to the map is atomic |
| `dac.cpp`, `ticker.cpp` | ring, two indices, ticker | setFrequency, add, tickPlay, destructor | ring shared with a timer interrupt, underruns | samples in order; an underrun plays only something old |
| `delay.c` | TIMER1, `last_t1tc`, `ovf_t1tc` | `delay_us`, `t1_get_us`, `t1_get_ms` | 32-bit wrap of the counter, interrupts between two looks at it | a delay is neither short nor late by a turn; readings tell the time between them |
| `pwm_in.c` | `CCP1_start`, `CCP1_length`, the edge each input waits for, on the same timer | capture interrupt for four inputs | an edge that comes while another input is served, and is acknowledged unseen | a measurement is a pulse, each is measured once |
| `arm_irqs.c` | VIC vectors and masks | `VIC_setup_irq`, `VIC_setup_fiq` | slot allocation order gives priority | one slot per source |
| `serial.cpp` | port number | dispatch to UART, VCOM or debug | none of its own | forwards to the right driver |
| `adc.c`, `pwm.c`, `rtc.c`, `spi.c`, `leds.c`, `gfx/`, `miniprintf.c`, ... | registers | register writes, polling, drawing, formatting | none | — |

### Libraries (`src/openlibs`) and the card reader example

| component | state | operations | hard part | correct when |
|---|---|---|---|---|
| `vcom` transmit | `txfifo`, NAK interrupt bit | `VCOM_putchar`, `BulkIn`, frame handler | the handler turns its own wake-up off; double-buffered endpoint | bytes arrive, in order; endpoint never overfilled |
| `vcom` receive | `rxfifo` | `BulkOut`, `VCOM_getchar` | the interrupt is edge-like, room is made later | acknowledged bytes are returned |
| `vcom` control transfers | `Setup`, `pbData`, `iResidue`, line coding, configuration | `USBHandleControlTransfer`, standard and CDC requests | transfers given up halfway, events served by index and not by time | each answer whole, a finished request has taken effect |
| `vcom_rtos` | FreeRTOS queues in place of the FIFOs | the same | full queue drops bytes | as vcom |
| card reader (`examples/C/microSD_USB_reader`) | transport state, CBW, CSW, offsets, sense, block buffer | bulk handlers, SCSI commands, reset | thirteen cases of host/device disagreement, failing card, reset at any time | status tells the truth, host always gets to the end of a command |
| `chanff` SD driver | `Stat`, `CardType`, `Timer1` | `disk_initialize`, `disk_read`, `disk_write`, `disk_ioctl` | four kinds of card, byte or block addresses, a card that is slow, refuses, or is changed | success means that the blocks named were moved; a call always returns and leaves no transfer open |
| `chanff`, `efs` file systems | FAT | — | third party | — |
| `uip` | uIP plus `uiptask.c`, `enc28j60.c` | network task | wake-up by interrupt, timeout or fast poll | every connection is served |
| `FreeRTOS`, `lua`, `lpcusb` | third party | — | — | — |

How they interact: the application calls a driver; the driver and its interrupt
handler share a buffer; `VIC_setup_irq` connects handler and source; handlers
are not nested, so a handler runs to its end while only hardware moves.
`Serial` chooses between UARTs and virtual COM port; `DACBuffer` receives a
callback from `Ticker`; the USB handlers are callbacks of `USBHwISR`, which is
an interrupt in vcom and is polled from `main` in the card reader; SCSI and
block device are called from the USB handlers.

The hazards these lead to are listed one by one, with the source line where
each bites and the property that watches it, in `PROJECT.json`.

## 2. Modules and how they correspond to the code

`PROJECT.json` maps every definition to its lines.  The main conventions:

* **Atomicity.**  A main program step ends at every access to memory the handler
  shares, because the interrupt may come there.  While a handler runs
  (`isr`), main-program actions are disabled and hardware actions are not.
* **Data.**  A byte is its position in its stream, a sample likewise, so that a
  lost, repeated or overtaken one is visible; a packet is a sequence of bytes
  or, in the card reader, one value.
* **Names.**  Variables carry the names of the code (`first`, `last`, `overrun`,
  `pbData`, `iResidue`, `dwOffset`, `buffer_p_play`), hardware gets its register
  names (`thr`, `tsr`, `ier`, `sta`, `aa`).
* **Mutants.**  A definition whose comment starts with "Mutant" is no part of
  the model: it is a plausible bug in the definition next to it, listed with
  the property it breaks in `PROJECT.json`.

| module | models | state ↔ code | actions ↔ code |
|---|---|---|---|
| `CBuffer` | index arithmetic of `buffer.c` | — | `NextIndex`, `BufferFull`, `BufferEmpty`, `BufferNum`; `FirstStore` is what the build makes of `i=i+1; if(i>=size) i=0;` |
| `SerialFifo` | index arithmetic of `serial_fifo.c` | — | `FifoNext`, `FifoFull`, `FifoEmpty`, `FifoAvail`, `FifoFree` |
| `ByteChannel` | abstract specification: a bounded, ordered, loss-free, live byte pipe | `accepted`, `delivered` | `Accept`, `Deliver` |
| `SerialTransmit` | `serial_putchar_`, THRE branch, UART transmitter | `pc` is the place in `serial_putchar_`; `first`, `last`, `mem` the transmit buffer | `TestNum`, `TestLsr`, `Direct`, `Put`, `Store`, `Publish`, `Wrap`, `Arm`; `Isr*`; `Uart*` |
| `SerialReceive` | `serial_init`, `serial_set_handler`, receive branch, `serial_getchar` on both UARTs | `rx[u]` the buffer records, `mem` the one array both point to, `handler` the pointers | `SerialInit`, `SetHandler`, `ClearFifo`, `Arrive`, `IsrReceive`, `GetCheck`, `GetRead`, `GetAdvance`, `GetWrap` |
| `VcomTransmit` | `VCOM_putchar`, `BulkIn`, `USBFrameHandler`, the dispatch of `USBHwISR` | `head`, `tail`, `buf` are `txfifo`; `ep` the endpoint's two buffers | `PutCheck/Store/Publish`, `IsrFrame`, `IsrSlow`, `BulkIn`; the host's `HostTakes`, `HostNaks`, `Frame` |
| `VcomReceive` | `BulkOut`, `VCOM_getchar` | `rxfifo`, endpoint | `BulkOut`, `GetCheck/Read/Advance`, `HostSends` |
| `UsbControl` | control transfers and the standard and CDC requests | `Setup`, `pbData`, `iResidue`, `mem` the data stores, `LineCoding` and the descriptor | `SetupAnswer/Refuse/Collect`, `CollectMore/Last/Refuse`, `AbsorbStatus`, `SendMore`; `Host*`, `BusReset` |
| `MassStorage` | `msc_bot.c`, `msc_scsi.c`, `blockdev_sd.c` as a card that may fail a read | `eState`, `CBW`, `CSW`, `dwOffset`, `dwTransferSize`, `dwSense`, `abBlockBuf` | `Cbw*`, `DataOut`, `Unexpected`, the bulk IN cases; `Host*` is a host with retries and reset recovery |
| `PwmIn` | `pwm_in.c` and the capture inputs of timer 1 | `T1IR`, `T1CR`, `waitsFall` is `T1CCR`; `start`, `measured` are `CCP1_start`, `CCP1_length` | `Enter`, `Skip`, `ServeRise`, `ServeFall`, `ReadIR`, `WriteIR`; `Edge` is an input |
| `Vcom` | `VcomReceive` and `VcomTransmit` on one processor | the state of both | `Receive`, `Send` |
| `TimerIrqs` | `DacBuffer` and `PwmIn` on one processor | the state of both | `Play`, `Capture`: neither handler interrupts the other |
| `BlockDevice` | abstract specification: what a disk driver promises a file system whose card may be changed | `medium`, `unsafe` (sectors a card taken out now would lose), `present`, `call`, `moved`, `buff`, `broken`, `torn` | `Store`, `Spoil`, `Settle`, `Fetch`, `Garble`, `Return`, `Pull`, `Put` |
| `SdCard` | `sd_spi_lpc2000.c` under FatFs and the card in the slot | `noInit` is the bit of `Stat`; `left` is `count`; `mode`, `kind`, `at`, `busy`, `writing`, `flash` the card | `Cmd0` ... `Identified` are `disk_initialize`; `ReadCmd`, `RcvrToken`, `RcvrBlock`, `ReadStop`; `WriteCmd`, `XmitBlock`, `WriteStop`; `Sync`, `Query`, `Power`; `Remove`, `Insert`, possible between any two of them |
| `Timer1` | `delay.c` | `T1TC`, `c_T1TC`, `next_T1TC`, `last`, `ovf` | `DelayStart`, `AwaitWrap`, `FirstTest`, `SecondTest`; `T1Get`; `Count` is the counter |
| `I2c` | `i2c_irq_handler`, `i2c_start_write/read`, the bus | `mst[d]`, `slv[d]` are `i2c_state`; `hw[d]` the registers | one action per status code or group of codes that share a body; `Bus*` is the bus |
| `DacBuffer` | `dac.cpp` on a `Ticker` | `buffer`, `buffer_p`, `buffer_p_play` | `Add`, `AddSpin`, `AddStore`, `AddAdvance`, `SetFrequency`, `Destroy`, `Tick` |

`MC*` modules instantiate these for TLC (constants that a configuration cannot
write are defined there).  The `*Proof` modules extend the modules they are about
(`TimersProof`: `TimerIrqs` and `Timer1`, which is why the definitions of `Timer1` that
every module has are called `ClockInit`, `ClockNext`, `ClockSpec` there).

`TimerIrqs` is a composition: it extends `DacBuffer`, instantiates `PwmIn` and
lets a step of the one happen only while the handler of the other does not run.
Its steps are steps of `DacBuffer` or leave it alone, so what is proved of
`DacBuffer` holds in it.  `Vcom` composes the two directions of the virtual COM port
in the same way: it extends `VcomReceive` and instantiates `VcomTransmit` as `Out`; the
application reads or writes, `USBHwISR` is at one endpoint at a time, and the host
may move between any two steps.

Refinements: `SerialTransmit`, `VcomTransmit`, `VcomReceive` and `DacBuffer`
each instantiate `ByteChannel` with their own counters and output.  The
capacities say how much may be under way: `PacketSize + 1` (buffer less one
slot, THR and shift register), `(FifoSize - 1) + 2 * MaxPacket` (FIFO and two
endpoint buffers), `Size - 1`.  For the two transmitters the refinement includes
liveness: what was accepted is delivered.  `SdCard` instantiates `BlockDevice`: the
medium is the card's flash, a sector is unsafe while the card may still be writing
it, and commands, tokens and timeouts are stutters or let the card finish, but for
the blocks that move.

## 3. Runs

| run | instance | what it shows |
|---|---|---|
| `serial_transmit` | buffer of 3, 7 bytes, merged index stores | Whatever the interrupt comes between, the line carries the stream in order (`WireInOrder`); no byte is left behind with the interrupt off (`NoLostWakeup`); putchar always returns (`PutCharReturns`); the whole is a live byte channel (`IsByteChannel`). |
| `serial_receive` | UART 1, buffer of 3, FIFO of 2, 6 bytes, torn index stores, application handlers | Bytes come out in order and once (`ReceivedInOrder`); each byte that arrived is in the FIFO, in the buffer, delivered or counted (`NothingVanishes`); a byte is refused only by a full buffer (`RefusesOnlyWhenFull`); a waiting getchar returns (`GetCharReturns`). |
| `vcom` | FIFO of 4, packets of 2, 4 bytes to the host, 5 from it | Both directions on one processor.  Whatever arrives and is read in between, `BulkIn` never overfills its double buffer although it is called for acknowledgements and refused polls alike (`EndpointHasRoom`); a live byte channel in spite of the NAK interrupt being turned off and on (`HostGetsAll`).  Whatever is sent in between, the overflow `ASSERT` of `BulkOut` is not reached (`NoOverflow`), and no byte from the host is lost, repeated or overtaken (`IsByteChannel`). |
| `vcom_receive_stall` | the receiver alone: FIFO of 4, packets of 2, 6 bytes, clearing a buffer raises the interrupt | violation, see section 7 |
| `usb_control` | packets of 2, line coding of 3, descriptor of 4, lengths 1, 2, 4, 6, 3 requests, 1 bus reset | A host that gives transfers up halfway never gets mixed answers (`AnswerInOrder`) or leaves a mixed line coding (`LineCodingWhole`); what was acknowledged has taken effect (`DoneMeansApplied`); every transfer ends (`TransferEnds`). |
| `mass_storage` | 2 packets a block, 2 blocks, 2 commands | Data the device does not want is stopped by a stall, so no packet arrives where the handler would take it for a phase error and throw the status away (`NoPhaseError`); what the host read is what the card held (`ReadsTheCard`), PASSED and the residue mean what they say (`StatusTellsTruth`), a status is that of the command (`StatusMatches`), FAILED leaves a sense code, but for VERIFY with a bad field (`FailureLeavesSense`), and it always gets to the end (`CommandsEnd`). |
| `sd_card` | cards of 3 sectors, all four kinds, transfers of 1 and 2 blocks, 2 polls, 1 change of card | A read or write that reports success moved the blocks it names on one card, but for the last block read when the card goes inside it; a failed one touches nothing else; taking the card out loses no sector but those written since the last synchronisation (`IsBlockDevice`).  What the driver remembers of the card is true while it stays in (`InitialisedIsTrue`); no failed transfer leaves the card inside it (`TransfersStopped`); every call returns, whatever the card does (`CallsReturn`). |
| `timer1` | counter of 24, window of 2, 3 ticks a unit, delays of 0, 1, 4, interrupts of up to 3 ticks, 2 missed windows | A delay is late by no more than three interrupts and a turn of the counter for each window that one interrupt hid from it (`DelayOnTime`); one that needs no wrap is never short (`UnwrappedDelayLasts`); two readings differ by the time between them, across wraps (`ReadingsTellTime`). |
| `timer1_reliable` | the same | violation, see section 7 |
| `i2c` | two masters and a slave running the same driver plus a foreign chip, map of 4, 1 bus error | A completed write is in the map (`CompletedWritesLand`); the map changes only by whole writes (`WritesAreAtomic`); reads return the registers in order and no more than asked for (`ReadsInOrder`); no device is left with its acknowledge off (`NeverDeaf`); operations end (`OperationsEnd`). |
| `i2c_rollover` | writes up to the last register | violation, see section 7 |
| `timer_irqs` | ring of 4, 9 samples; 2 inputs of 5 edges each | An underrun plays what was in the slot a turn ago or is just being stored (`UnderrunSound`); `add` returns (`AddReturns`); the ring is a channel: samples play in order, each once (`IsChannel`).  A measured length is that of a pulse, and each pulse is measured once (`PulsesMeasured`), but for edges acknowledged unseen, see section 7. |

`mass_storage` also checks `TypeOK`, whose useful part is that no endpoint is
overfilled.  The type invariants of the serial transmitter, the virtual COM port
and the DAC player are theorems (section 6).

**Bounds.**  Named in the configurations; each is the smallest that makes the
interesting case happen, and some more.

* Buffers and rings of 3 or 4 slots are filled, emptied and wrapped: streams are
  about twice the number of slots or longer, so each slot is used at least
  twice and the oldest content differs from the newest.
* `FifoSize = 2 * MaxPacket` keeps the proportion of the code (128 and 64): the
  slot that stays empty means two full packets do not fit.
* In `usb_control` a descriptor of 4 in packets of 2, asked for with 1, 2, 4 and
  6, covers shorter than, equal to and longer than the descriptor, and with it
  the empty packet that must close the answer to 6 but not to 4.  Three
  requests allow one given up, one after it and one to look at the result.
* In `mass_storage` transfers of up to two blocks of two packets cross a block
  boundary inside a command; two commands let everything one leaves behind
  (block buffer, sense code, stalls) meet the next.
* `CounterMod = 4` makes the overrun counter of the transmitter wrap;
  `WireBound` and the stream lengths stop the runs.
* In `sd_card` the blocks of a payload differ and two sectors can be overwritten
  by either transfer, so a block moved twice, out of turn or to the wrong sector
  shows; with blocks of `Unit = 2` bytes an address in the wrong unit names an
  existing sector or half of one; one change of card reaches every step, and
  calls come for ever, so what one leaves behind meets the next.
* In `timer1` the counter starts anywhere and every delay is tried across its
  wrap.  An interrupt of 3 ticks is longer than the window of 2, so `delay_us` may
  miss the window, and miss it again a turn later; `MaxMissed` stops the run there.
  23 counts do not divide by 3, so the rounding of `ovf_t1tc_inc` matters.  A delay
  near a whole turn of the counter is left out by assumption.
* In `timer_irqs` two inputs are enough for one to be struck while the other is
  served, before and after its turn in the handler; five edges let a lost
  falling edge stretch a measurement to the next pulse and another pulse follow.
* In `i2c` the writer does two operations while the reader does one: all of
  address, arbitration, refusal, rollover on read and a new start after a
  lost arbitration come up; a single bus error may strike in any transfer.

`CHECK_DEADLOCK FALSE` stands where the application or the host may have
nothing more to do (the stream is over, its requests are used up).

`SerialReceive` is checked for the torn build and `SerialTransmit` for the merged
one.  In the receiver the main program tears `first`, which the handler only
compares to see whether there is room; in the transmitter it tears `last`, and
the order of the bytes would not hold — see section 7.

## 4. Fairness

* The processor executes: weak fairness of the main program's steps *inside* an
  operation and of the handler's steps.  Whether the application calls an
  operation at all is its choice, so calls have none — except `GetChar` in
  `vcom_receive_stall`, whose property is about an application that keeps reading.
* A pending interrupt is taken: weak fairness of the handler's entry.  No code
  in these drivers disables interrupts.
* `Vcom` uses strong fairness for the main program and for `BulkOut`, because their
  steps are disabled each time a handler runs and start-of-frame interrupts never
  end.  They come every millisecond; a handler takes far less, and looks at every
  endpoint whose bit is set; so each of them does run between two frames.
* Hardware moves: a UART shifts (weak fairness of load and shift), the bus
  clocks on, the timer ticks.
* A host that waits polls: `HostTakes`, `HostNaks`, `HostTokens`.  It is never
  forced to send a command, to give one up, or to reset.
* `SdCard`: weak fairness of the driver alone, which is one thread that runs; the
  card need never leave the idle state, stop being busy or answer.
* `Timer1` states none: `DelayOnTime` bounds a delay, so that it ends if time goes
  on.
* `TimerIrqs`: as for the player alone, and weak fairness of the capture handler.
  The inputs need never move, and the run bounds their edges, so that the
  player's main program is kept from the processor only for a while.
* Nothing is fair about bus errors, card failures, resets and arriving bytes.

## 5. What is assumed of the hardware and of the build

The controllers are not in the repository; what the models say of them is what
the drivers rely on, marked external in the map where it is a step of its own.

* **UART.**  One THR place and one shift register (the FIFO is not written to
  more than one byte deep: `IsrSend` waits for an empty THR).  The THRE
  interrupt is latched when THR becomes empty and when it is enabled while
  empty; reading IIR or writing THR clears it.
* **USB endpoints.**  Bulk endpoints have two buffers and one interrupt bit per
  direction; endpoint 0 has one buffer.  A SETUP is always accepted, replaces
  the OUT buffer, empties the IN buffer, ends a stall, and the IN buffer cannot
  be filled while it is unread.  A stall acts at once and lifting it flushes
  the buffers.  Clearing an OUT buffer raises the interrupt again if the other
  is full in `MassStorage`; in `VcomReceive` this is the constant
  `RaiseOnClear`, false in `vcom`, and true, its more favourable value, in the run
  that finds the stall.
* **USB host.**  It gives a transfer up, or makes a control transfer to recover
  a bulk endpoint, only after timeouts so long that the handler is idle.
  `EarlySetup = FALSE` makes it also wait with a new SETUP until the last IN
  acknowledgement was served; with `TRUE` in `UsbControl.cfg` TLC finds the
  counterexample of section 7.
* **I2C.**  Status codes as in the LPC214x manual; arbitration is decided in the
  address byte, also between devices that send the same one, which on a real bus
  would go on to their data (the programs of the run never do); a bus
  error falls between two bytes; masters are not addressed as slaves in the run.
* **Card of the card reader.**  A read fails or gives the block, a write is done
  or refused.
* **Card of `SdCard`.**  A card that is there answers within the ten bytes
  `send_cmd` waits, or is still busy; an empty slot reads as ready.  A card that
  waits for a block takes nothing else for a command, until it is taken out.
  `CMD55` is folded into the command that follows it, and `ACMD23` is a hint.  A
  block that was rejected leaves its sector as it was or spoilt.  A block that was
  accepted reads back at once, but is not safe while the card is busy: without power
  its sector is left with anything (`writing`).  A card that goes after the token of a
  block it sends leaves any block in the buffer; one that goes inside a block it is
  sent does not accept it.
* **Timer 1.**  The counter moves at least once between the first reading of
  `delay_us` and the second half of its loop condition.  An interrupt keeps the main
  program from looking for at most `MaxGap` ticks, which may be any number as long
  as three of them, the window and the delay fit into a turn of the counter; that
  it fits into the 256 counts `delay_us` looks for after a wrap is not assumed.
* **Capture inputs.**  Pulses and pauses last longer than the handler takes from
  the edge to its end: the next edge of an input comes after its bit in `T1IR` was
  cleared.  Shorter ones the hardware overwrites.
* **Build.**  `c_buffer` is not volatile.  `i = i + 1; if (i >= size) i = 0;` may
  reach memory as one store or as two; `TornStores` chooses.  `DACBuffer` has
  `StoresInOrder` for whether the sample is stored before its index.  The run and
  the theorems of order take the source's order; with the stores swapped (set it to
  `FALSE` in `TimerIrqs.cfg`) TLC finds `IsChannel` violated.

## 6. Proofs

`tlapm` checks every step of the modules below, for every value of the
constants that meets the `ASSUME`s of the modules (at least two slots, any
stream length, any counter width).

**SerialTransmitProof**

* `TypeCorrect` (`TypeOK`), both builds.  Inductive invariant `TypeInv`:
  types, plus "the byte in hand is one ahead of the bytes accepted exactly
  at the points of `serial_putchar_` before it is stored", without which
  `accepted` could leave its range.
* `NoWakeupIsLost` (`NoLostWakeup`), both builds.  `NoLostWakeup` speaks only of
  the main program outside putchar and is not inductive.  `WakeInv` says what
  is true everywhere: a running handler has its interrupt on; with the handler
  out and THR empty, an enabled interrupt is latched; and a non-empty buffer
  has the interrupt on, except between the store that publishes a byte and the
  write of IER that follows it.  The third conjunct is the argument of the
  code: the handler may turn the interrupt off only when the buffer is empty,
  and it cannot become non-empty except by a putchar that has yet to write IER.
* `WireKeepsOrder` (`WireInOrder`), for the build with merged stores.  `FifoInv`
  follows the stream through its three places: the line has `1 .. n`, shift
  register and THR hold the next bytes, the slots from `first` on the ones after
  them, and `accepted` is the sum; `MainInv` adds what the tests at each point
  of `serial_putchar_` have established and that the handler cannot undo
  (an empty buffer stays empty, a buffer with room keeps it).
* `TransmitterIsChannel`: under the same assumption each step is a step of
  `ByteChannel` or a stutter, with capacity `PacketSize + 1`.

**TimersProof**

* `TypeCorrect`, in either order of the stores.
* `SamplesKeepOrder` (`SamplesInOrder`), `UnderrunIsOld` (`UnderrunSound`) and
  `RingIsChannel` (`IsChannel`), for the source's order of the stores.  The
  invariant is about *every* slot, not only the waiting ones: a slot holds the
  next sample to be played from it, or, when that is not stored yet, the one
  played from it a turn of the ring ago (0 in the first turn).  This is what
  makes the underrun property inductive: the slot under `buffer_p_play` is
  played whether new or not, so one has to know what a consumed slot holds.
* `PulsesAreMeasured` (`PulsesMeasured`), of the composition, for any number of
  inputs and edges.  `CapturedInv`: an interrupt the handler has not looked at is
  of the kind its input waits for; once it is served this need not be so, and
  `HandlerInv` says that a served input lies behind the handler and will be
  acknowledged.  `PulseInv` accounts for every edge of an input so far: `BegunInv`
  while it waits for a falling one (all before `start` are stored or lost, none
  falls after it unless it is lost or still waits for the handler), `PauseInv`
  while it waits for a rising one.
* `PlayerUndisturbed` (`UnderrunSound`, `IsChannel`): each step of the composition
  is one of the player's or leaves it alone.
* `DelayIsOnTime` (`DelayOnTime`) and `UnwrappedDelayIsLongEnough`
  (`UnwrappedDelayLasts`), for interrupts longer than the window after a wrap too.
  The code compares numbers that wrap.  `ElapsedInv` ties `c_T1TC`, `next_T1TC` and
  `T1TC` to `asked` and to `Net`, the time that has passed less a turn for each missed
  window, once with a wrap and once without; `LookInv` records what the last look,
  `gap` ticks ago, has shown.  A window that is left behind without a look within it
  needs an interrupt longer than the window: that step adds a turn to both sides
  and leaves `Net` where it was a turn before.
* `ReadingsAreTrue` (`ReadingsTellTime`).  `ReadingInv`: the counter is `ago` ticks past
  `last_t1tc`, with at most one wrap between, and a reading is the sum of what
  `t1_get_us` stored.  `WidthsCancel` undoes the four sums that may each have wrapped;
  `UnitsOf` bounds what the three divisions drop, which is where the unit more and
  the two less come from.

**VcomProof**

* Of the receiver, `TypeCorrect` (`TypeOK`), `NeverOverflows` (`NoOverflow`) and
  `ReceiverIsChannel` (`IsByteChannel`).  `QueueInv` follows the stream: `delivered`,
  then the byte in hand, then the slots of the FIFO; `PacketInv` says that the
  packets in the endpoint hold the bytes that come next.  This channel has no
  liveness, so the theorem is the whole property.
* Of the whole port, `EndpointNeverOverfilled` (`EndpointHasRoom`).  The endpoint is
  written on every interrupt, so room cannot come from a test.  `RoomInv` says
  where it comes from: an interrupt is pending, or being served, only when a buffer
  has become free since the last write, or was found empty.
* `TransmitterIsChannel`: each step of the port is a step of `ByteChannel` to the host
  or a stutter (`HostGetsAll` without its liveness).  `StreamInv` follows the stream
  through the FIFO, `OutPacketInv` through the two packets in the endpoint to what
  the host has read.
* `ReceiverUndisturbed` (`NoOverflow`, `IsByteChannel`): the receiver keeps its promises
  beside the transmitter.

**SerialReceiveProof**

* `CountsBalance` (`NothingVanishes`), `NoEarlyOverrun` (`RefusesOnlyWhenFull`) and
  `ReturnedInOrder` (`ReceivedInOrder`), for either build, with UART 1 open alone
  (`Uarts = {1}`; section 7 says what UART 0 does).  `CountInv` carries the
  argument for torn stores: the index is out of the array exactly between the
  two stores of a wrap, and there `buffer_num`, which compares before it
  subtracts, counts `last` bytes just as it does when the index is 0, so that the
  handler neither refuses early nor overwrites.  `OrderInv` compares the numbers of all bytes in the three places
  they pass through (returned, waiting, in the FIFO), by a slot's distance from
  `first`.

**SdCardProof**

* `KeepsTheDevicePromise` (`IsBlockDevice`), `RemembersTheTruth`
  (`InitialisedIsTrue`), `NoCardLeftInTransfer` (`TransfersStopped`), for every size
  of card and block and any number of changes of card; the calls are assumed to
  carry sequences of blocks.  Five invariants (`IInv`): the types; which call is at
  which place, with `left + moved` the blocks of the call; how far identification has
  brought a card that has not been changed, and that only the command that asks
  for high capacity starts such a card; that what is remembered of a card that
  is up is true; and that a running transfer is this call's and aimed at
  `sector + moved`, or the card that ran it is gone.  The last two meet in the
  addressing: a remembered type that fits makes `sector` or `sector * Unit` the
  sector meant, and a card put in since is in its native mode and takes no
  transfer command.  A sixth, `MediumInv`, is for the promise: only a busy card has
  something to write, so whatever waits for it to be ready has made every sector
  safe; and a call takes at most one block of a card that has gone, because the next
  token does not come.

**UsbControlProof**

* `LineCodingIsWhole` (`LineCodingWhole`) and `DoneIsApplied` (`DoneMeansApplied`), for
  every size of packet, line coding and descriptor, any number of requests and
  resets, and `EarlySetup = FALSE`.  Neither is inductive.  `SetupInv`: a SETUP the
  handler has not read is the first packet of its transfer, and the handler will
  find it as one.  `CollectInv`: while a request's data are under way, `pbData` and
  `iResidue` are at what was taken of them, the stored bytes and those in the buffer
  are the host's in order, and no IN interrupt is pending that could move the
  pointer; this is where `EarlySetup` is needed.  `EffectInv`: in the stage in which
  a status can go out, the handler has run.

* `AnswersInOrder` (`AnswerInOrder`), under the same assumption.  `StoresInv`: only the
  line coding and the configuration are ever written, so an answer is the same
  from its first packet to its last.  `TurnInv`: IN buffer, interrupt bit and
  handler have one turn between them.  `ChunkInv`: `pbData` is where the host and the
  packet in the buffer got to, and that packet is the answer's next; `GotInv`: what
  the host has is a beginning of the answer, and the whole of it once it moves on.

**MassStorageProof**

* `TypeCorrect` (`TypeOK`), `NothingThrownAway` (`NoPhaseError`), `DataIsTheCards`
  (`ReadsTheCard`), `StatusIsTrue` (`StatusTellsTruth`), `StatusIsTheCommands`
  (`StatusMatches`), `FailuresLeaveSense` (`FailureLeavesSense`): every safety property
  of the run, for any size of card and block and any number of commands, failures,
  time-outs and resets, from one inductive invariant, `MInv`.
* `LinkInv` is about the endpoints: the IN bit was set when a buffer was free and
  only a bulk IN event fills one, so that `HandleDataIn` and `SendCSW`, which never
  ask, find room.  `HostInv` and `PendInv` say where the host may be in its command
  for each state of the transport: while the command block is on its way the device
  is in `eCBW`, unstalled, and has answered nothing.  `OutDataInv` numbers the packets
  of a write behind it.
* `DataInInv` and `DataOutInv` are the transfers.  Offset `k` is packet `BufPos(k)` of
  block `Blk(k)`: in a read the buffer is the block of the packet sent last, in a
  write the packets of the running block are in the buffer and the blocks before
  it on the card, unless it refused them.  That each command reads or fills the
  buffer before it is used follows from these two, whatever was left in it.
* `StatusInv` keeps `CswTrue` of the status in its three places, ready in `CSW`,
  in the endpoint and at the host.  It also holds the reason for `NoPhaseError`: in
  `eCSW` and `eStalled` the OUT endpoint is empty or stalled, in `eDataIn` it is
  empty (`DataInInv`), because each refusal of host data stalls it before the state
  changes; so `Unexpected` never finds a packet there.

**I2cProof**

* `LinkCorrect` and `AlwaysAnswers` (`NeverDeaf`), for every set of devices, size of the
  register map, number of bus errors and *whatever* the programs ask for.  `EventInv`
  says which status may wait for its handler in a device, given the phase of the
  bus and the part the device has in the transfer; `StopInv`, that a STOP is asked
  for with AA set and comes before any further event of its owner; `AckInv`, that AA
  is off only while its owner reads, or until the handler of a bus error has run.
* The rest assumes `Orderly(Requests)`: no device is both a master and addressed, a
  read asks for a byte or more, and a write to a device names a register of the
  map and ends before the last one.  Each part leaves out something the code does
  not handle: the first and second are hazards listed in `PROJECT.json`, the third is
  the violation of `i2c_rollover`.  `MCI2c` assumes `Orderly` of the requests of the runs,
  so that TLC checks the theorems are about them.
* `TransferCorrect` is the invariant, `TransferInv`.  Before a transfer its owner holds
  the whole request (`StartAt`), after a lost arbitration as well.  In a write,
  `WriterAt` splits the bytes into those on the wire and those the owner has left,
  `WrittenAt` says that the slave has kept what was on the wire in `i2c_mmap_tmp`, from
  `i2c_addr_start` to `i2c_addr`.  In a read, `ReaderAt` and `ReadAt` number the bytes both
  sides have dealt with and say that the handler refuses the last one and none
  before it.  `MapAt`: the registers hold the last write that ended, unless its STOP
  has still to go out or to be served.
* `WritesLand` (`CompletedWritesLand`), `ReadsReturnRegisters` (`ReadsInOrder`) and
  `WritesAtomic` (`WritesAreAtomic`) follow: a write that was cut off leaves bytes in
  `i2c_mmap_tmp`, but the register the next one names becomes both `i2c_addr` and
  `i2c_addr_start`, and nothing is copied except by a STOP that ends a write.

Every safety invariant and every action property that a passing run checks is
proved.  Model-checked only is liveness, for fairness and `ENABLED` are out of the
prover's reach: `PutCharReturns`, `GetCharReturns`, `TransferEnds`,
`CommandsEnd`, `CallsReturn`, `OperationsEnd` and the player's, and the live part of
the transmitters' channels, whose safety part is proved.

## 7. Where the code and its documentation part

Three runs end in a counterexample of what the repository itself says.

1. **The virtual COM port stops receiving** (`vcom_receive_stall`).  `BulkOut`
   returns when a full packet may not fit (`main_serial.c:240`), its interrupt bit
   is already cleared, and nothing calls it again when room was made: once both
   endpoint buffers are full the port is deaf for good, even on hardware that
   re-raises the interrupt whenever a buffer is cleared.
2. **The register pointer leaves the map** (`i2c_rollover`).  The slave's pointer
   rolls over after a write only when it is *greater* than `I2C_MMAP_SIZE`
   (`i2c_device.c:281`; reads, at line 327, get it right).  After a write to the last register the
   next byte goes past the array and the flush loop at STOP never ends.
3. **A delay is short across a wrap of the counter** (`timer1_reliable`).  When its
   target lies beyond the wrap, `delay_us` waits for the wrap and then compares the
   counter with a value read before it (`delay.c:137`), which ends the delay at once,
   short by all that was still to wait.  `delay.h:70` promises a "Reliable delay",
   shifted only if an interrupt is executing when it ends.

Others were met while modelling and have no run:

* UART 0 receives nothing.  `serial_set_uart0_handler(NULL)` installs UART 1's
  default handler (`serial_device.c:133`); with only UART 0 open
  (`Uarts = {0}` in `SerialReceive.cfg`), UART 1's buffer has size 0 and refuses
  every byte.  `examples/CPP/usbtottl/main.cpp:36` relies on the opposite.
* An answer whose beginning is missing.  `USBHwISR` serves endpoint 0 OUT before
  IN (`usbhw_lpc.c:476`).  With the acknowledgement of an old answer and a new
  SETUP both pending, the SETUP is answered first and the old acknowledgement
  then overwrites its first packet with the second; `EarlySetup = TRUE` shows it.
* A torn wrap in the transmitter: with `last = size` for a moment, a handler that
  has sent the last byte finds `first = 0` different from `last` and sends an old
  slot again (hence `TornStores = FALSE` in `serial_transmit`; `NoWakeupIsLost`
  and `TypeCorrect` hold for both).
* Each retry of a full `serial_putchar` counts as an overrun although the byte
  is sent in the end (`serial_device.c:176`).
* `HandleUsbReset` does nothing, so after a bus reset `GET_CONFIGURATION` still
  reports the old configuration (`usbinit.c:49`).
* `serial.cpp:95` sets up the transmit pin in place of the receive pin;
  `VIC_setup_fiq` makes every *other* interrupt a FIQ (`arm_irqs.c:175`).
* I2C: an operation a bus error strikes never ends (`i2c_device.c:126`); a master
  that loses arbitration and is itself addressed never starts again (line 262);
  arbitration lost in the data resumes without the register (line 204); the
  result of a write that was refused is not reported (line 533); the register
  given to a read is never sent (line 384).
* `BlockDevWrite` does not look at the card's response (`blockdev_sd.c:281`), so a
  refused block is reported as written (`StatusTellsTruth` leaves it out); two
  refusals of the SCSI layer leave no sense code (`msc_scsi.c:154`).
* `delay_us` is late by a whole turn of the counter, 143 seconds, for each time an
  interrupt outlasts the 256 ticks it looks for after a wrap (`delay.c:134`).  256
  ticks are a few microseconds, and nothing in the library keeps interrupts
  shorter; `DelayOnTime` counts these turns and allows no other.
* `rcvr_datablock` discards the CRC (`sd_spi_lpc2000.c:614`): when a card is taken out
  after the token of a block, the bytes of an open line are in the buffer, and a read
  whose last block this was reports `RES_OK`.  `IsBlockDevice` allows that block
  and no other.
* A card that is busy for longer than `wait_ready` waits gets no stop token and
  takes the next command for data (`sd_spi_lpc2000.c:897`).
* A capture that comes while `pwm_in` serves another input, after its own turn, is
  acknowledged unserved (`pwm_in.c:152`; `clear_ints`, which would prevent it, is set
  and not used).  `PulsesMeasured` leaves these edges out: what they cost is one
  pulse, or two measured as one.  `PWM_in_init` for a further input reads and
  writes back `T1CCR` (`pwm_in.c:182`) while the handler may switch another's edge.
* `DACBuffer::space` does not return the free slots (`dac.cpp:80`);
  `setFrequency` while playing swaps ring and indices under the interrupt.

## 8. What is not modelled

`PROJECT.json` lists every component.  Left out for good: third-party code
(FreeRTOS, uIP, FatFs, EFSL, Lua, lpcusb); drivers that only write registers or
poll one (ADC, PWM, RTC, SPI, GPIO, clocks, displays); formatting, start-up
code, linker scripts, demonstration programs.

Left out of modelled components: in the serial driver baud rates, line options,
`serial_num` (which reads UART 1 for both), the line status branch (never enabled), and
the interleaving of `serial_init` with an interrupt of the other UART; in the USB
stack `SET_ADDRESS`, remote wake-up and endpoint halt, which only write
controller registers; in the card reader the SPI protocol of the card and
`BlockDevInit`; in I2C changing the own address; in the DAC player calling
`setFrequency` twice, `space()`, and timer 1; in the SD driver that `sector * 512`
wraps beyond 4 GB and that `GET_SECTOR_COUNT` computes the size of a card in a `WORD`;
in `delay.c` the overflow of `usdelay * delay_coef_us`, and a
`Ticker` on timer 1, which resets the counter the others read; in `pwm_in.c` what
`PWM_in_init` does when called again, and pulses shorter than the handler.

## 9. Plan

Built so far: circular buffer and UART transmitter with its abstract channel;
receiver; virtual COM port both ways; control transfers; card reader with cards
that fail reads and refuse writes; I2C; DAC player; SD driver with its abstract
block device; timer 1 as a clock; pulse measurement, composed with the DAC
player; proofs of both serial directions, both directions of the virtual COM
port, control transfers, card reader, I2C driver, SD driver, timer 1, DAC player and
pulse measurement.

Next, modelling:

1. `UsbToTtl`: the example as a composition of `SerialReceive`, `SerialTransmit`
   and the virtual COM port: end-to-end order and back-pressure.
2. `RtosQueue` as an abstract queue of FreeRTOS and `VcomRtos` over it (the
   interrupt turned off on an empty queue, `vcom_rtos/main_serial.c:277`);
   `UipTask` for the wake-ups of the network task.
3. `Vic`: slot allocation of `VIC_setup_irq`.
4. `PWM_in_init` as two accesses to `T1CCR` beside the handler, and a `Ticker` on
   timer 1 in `Timer1`.

A new run may take the place of one whose question it answers as well: a
composition that implies what its parts were checked for replaces their runs
(as `timer_irqs` does), and a property a theorem proves can leave its run.

Next, proofs: the receiver with UART 0 open alone; that `IsrReceive` keeps the order
when both are open but one of them receives nothing; the I2C programs in which a
device writes the last register, up to the STOP whose flush does not end.
