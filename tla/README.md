# TLA+ models of the EE6470 programs and platforms

This directory is a verification development for the repository: TLA+ modules
translated from its C, C++ and assembly sources, TLC configurations that check
them on small instances, and theorems about them with proofs for TLAPS.
`PROJECT.json` lists components, runs, mutants, the source lines of every
definition, findings, hazards and theorems.

The repository is a series of SystemC designs around one theme: a hardware
block (an image filter, later a Fourier transform) behind FIFOs, fed first by a
testbench, then over blocking TLM transport, a bus, and finally by RISC-V
software on one or two cores, with or without a DMA engine, on a platform with
a sensor, a network and a flash device.

## 1. The system

### Components

| component | source | state | operations |
|---|---|---|---|
| semaphores | `sw/fft-dual/main.cpp:7-44`, `HW7/sw/main.cpp:5-42` | one word per semaphore; a reservation per hart | `sem_init`, `sem_wait`, `sem_post` (lr.w/sc.w loops) |
| dual-core skeleton | the `main` and `barrier` of the same files, `bootstrap.S` | four semaphores, the barrier's counter, `exit_counter` | initialise, locked sections, barrier, print, exit |
| DMA engine | `dma.h` (four identical copies) | registers src, dst, len, op; a 64-byte buffer; an event | four register writes, `run`, `_perform_memcpy`, interrupt |
| FFT accelerator | `twoD_FFT.h` | four `sc_fifo`s, arrays of N samples | `do_fft`, `blocking_transport` |
| FFT driver | `sw/fft-dual/main.cpp` | `buff` on the stack, `out_r`, `out_i` | `write_data_to_Tiny32mc`, `read_data_from_Tiny32mc` |
| filter pipelines | HW1 to HW6, Midterm | FIFOs, sums, target bitmap | feed, filter, fetch, cut to a byte |
| bus of HW4 | `SimpleBus.h`, `MemoryMap.h` | address ranges of the ports; the DMI regions initiators hold | routing, DMI, debug transport |
| FFT arithmetic | `twoD_FFT.h`, `hls/oneD_FFT.cpp` | samples and twiddle factors | twiddles, stages, butterflies, bit reversal |
| HLS testbench | `hls/Testbench.cpp`, `hls/System.cpp` | two FIFOs each way | feed and fetch without end |
| sensor | `basic-acc/sensor.h`, `sensor2.h` | `scaler`, `filter`, a frame, `run_event` | register and frame access, `run` |
| Ethernet device | `basic-acc/ethernet.h`, `ethernet.cpp` | a frame and its size, `has_frame`, `run_event` | `run`, `try_recv_raw_frame`, RECV, SEND |
| flash controller | `basic-acc/flash.h` | `mTargetBlock`, `Blockbuffer`, a block device of the host | address register, data region, end of the simulation |
| timer, display, MRAM, terminal, random source | `basic-acc/*` | next to none | TLM access |

How they interact. Software talks to hardware by loads and stores; the bus turns
each into a `b_transport` call, which for an accelerator blocks in an `sc_fifo`
until there is room or a result. Hardware threads (`do_fft`, `do_filter`, the
DMA's `run`) talk to each other over FIFOs and events. The DMA engine is both a
target (its registers) and an initiator (its copies), and signals the end of a
copy by an interrupt. Harts share memory, the DMA engine and the lock that is to
keep their requests apart; each has an accelerator of its own.

### What is hard here

 * Lock-free instruction sequences: what another hart may do between lr.w and
   sc.w.
 * Initialisation: hart 0 initialises the semaphores while hart 1 may already
   spin on one. The program relies on `.bss` being zero and on the order of the
   `sem_init` calls.
 * A barrier that posts its gate after it has given back its lock.
 * The exit: each hart compares its own, old copy of `exit_counter`.
 * A DMA engine with live registers. `_copy_block` reads `src` and `dst` anew for
   each block, `len` is copied once, and a request written while the engine is
   busy notifies nobody.
 * Device threads that run while a program is between two accesses to the same
   device: a frame is rewritten under the reader's hands, a timer register is
   written while its event is pending, the next network frame must wait for the
   reader of the last.
 * A block buffer over a host device whose calls may fail half-way, in a simulator
   that may be killed at any time.
 * A driver that does not wait for the engine, whose buffer is a local array.
 * FIFOs shallower than the data: feeder, filter and fetcher must agree on
   numbers and order or everybody waits.
 * Unsigned loop counters that start at -1.
 * Fixed-point arithmetic, bit reversal with a fixed width, partial overlap of
   address ranges.

The flash controller is the only modelled part that persists anything, and the only one
whose calls fail without ending the simulation. No message between parts is lost
or reordered, except that an event of the kernel keeps only one notification and
that the Ethernet device drops frames for others. All hardware threads are
SystemC threads, which run one at a time between `wait`s; the harts interleave
with them at bus accesses.

### What makes each component correct

| component | correctness |
|---|---|
| semaphores | an atomic counting semaphore; no unit lost; retries end |
| skeleton | sections exclude; nobody passes the barrier early; it restores its objects; the simulation stops, once all have returned |
| DMA | a request copies exactly its range; the buffer is never overrun; a request made of a waiting engine is served |
| accelerator and driver | a hart gets the transform of its own samples, in order; the stores of a request stay together; nobody blocks for ever |
| FFT arithmetic, HLS testbench | what is fetched is the discrete Fourier transform of what was fed, in order, in every round |
| bus | a DMI pointer reaches what a transaction would reach, and is gone once withdrawn unless the withdrawn range wraps |
| pipelines | each pixel gets its own window in its own colour, zero outside the image, and the byte the filter means, up to rounding; the run ends with nothing in flight |
| sensor | a frame every `scaler` milliseconds whatever is written when; a reader has a whole frame or is told otherwise |
| Ethernet device | the program takes every frame for it once, in order, with its own size |
| flash controller | an array of blocks that outlives the simulation, of which failures and kills damage only the block at hand |

## 2. The modules

| module | models | checked by | proofs |
|---|---|---|---|
| `CountingSemaphore` | abstract specification: a semaphore whose calls are atomic | through `LrScSemaphore` | |
| `LrScSemaphore` | the semaphores instruction by instruction | `semaphores` | `LrScSemaphore_proofs` |
| `DualCore` | `main`, `barrier`, `bootstrap.S`, with atomic semaphores | `dual_core` | `DualCore_proofs` |
| `SimpleDMA` | registers, event and thread of `dma.h` | through the next two | |
| `DmaMemory` | `SimpleDMA` before a memory, programmed at any time | `dma_memory` | `Devices_proofs` |
| `FftAccel` | FIFOs, thread and transport of `twoD_FFT.h` | through `FftDriver` | |
| `FftDriver` | the composition of `DualCore`, `SimpleDMA`, `FftAccel` and the two transfer functions | `fft_direct`, `fft_dma`, `fft_results` | `FftDriver_proofs` |
| `FilterPipeline` | testbench, FIFOs and filter of HW1 to HW6 and Midterm | `pipelines`, `pipeline_only_red` | `FilterPipeline_proofs` |
| `FftKernel` | `do_fft` loop by loop, exactly and in 16-bit words, and the testbench of the HLS block | `fft_kernel`, `fft_kernel_eight` | `FftKernel_proofs` |
| `SimpleBus` | decoding, routing and DMI of the bus of HW4 | `simple_bus` | `SimpleBus_proofs` |
| `BlockDevice` | abstract specification: what a program may expect of the flash controller | through `Devices` | |
| `FlashController` | `flash.h` | through `Devices` | `Devices_proofs` |
| `Sensor` | `sensor.h`, `sensor2.h` | through `Devices` | `Devices_proofs` |
| `Ethernet` | `ethernet.h`, `ethernet.cpp` | through `Devices` | `Devices_proofs` |
| `Devices` | the three devices on one simulated clock | `devices` | `Devices_proofs` |
| `Sums` | nothing: lemmas on the sum of a function over a finite set | | its own |

The `MC` modules only define constants for TLC. A definition whose comment calls
it a mutant is a wrong variant of the definition next to it. It is not part of
the model; it shows that a property notices the difference.

**LrScSemaphore.** One word in memory, the set of harts with a valid reservation,
and per hart a register and a program counter. `LrWait` is lr.w with the beqz
after it, `LrPost` lr.w, `ScWait` and `ScPost` a successful sc.w with the addi
before it, `ScFail` the bnez back to lr.w. `LoseReservation` is the processor
dropping a reservation for reasons of its own. Clients call `sem_wait` and
`sem_post`; `Grant` says how many units a hart may post without having waited,
which is how the barrier's gate is used.

**DualCore.** Given that the semaphores are atomic (which `LrScSemaphore` shows),
`sem_wait` is a guard and a decrement. Program counters follow `main`:
`init1` to `init3` (hart 0 only), `loop` and `section` for the `Sections` locked
stretches of the work loops, then the lines of `barrier` one by one (`test`,
`reset`, `unlockLast`, `release`, `count`, `unlock`, `gate`), `print`, `printing`
and, in `bootstrap.S`, `returned` and `exit`. `reg[h]` is the register with the
loop counter of the release loop or the old `exit_counter`.

**SimpleDMA.** The four registers are written one at a time, in any order and at
any time. Writing `op` makes `notified` true: it stands for `run_event.notify`,
with a delay of a cycle. `Fire` is the notification: it wakes the thread if that
is waiting and is lost otherwise. `Dispatch` copies `len`, `ReadBlock` and
`WriteBlock` alternate with the loop counters `n` and `off`, `Interrupt` ends the
transfer. Reads and writes are parameters, so that the engine can stand before a
memory (`DmaMemory`) or a bus with accelerators (`FftDriver`).

**FftAccel.** `ReadSample`, `Transform` and `WriteResult` are the thread; the other
actions are the two sides of `blocking_transport`. A result is the record of the
samples it was computed from and its index.

**FftDriver.** Opens up the locked sections of `DualCore` into the statements of
the two transfer functions. A word of a hart's stack stands for `buff`. Without
DMA the hart itself blocks in the accelerator; with DMA it stores src, dst, len
and op and returns, and its frame is dead: `Clobber` overwrites it. The engine may
block too: `BusWait` begins a transaction whose FIFO is not ready, and `pending` keeps
the address it began with, since `b_transport` has it from then on and no later
store to `src` or `dst` changes it. The harts are numbers up to 28 so that their stack
words lie below the accelerators in the model's small address map.

**FilterPipeline.** The nested loops are one counter each, from which X, Y, U and V
are computed as the code's loop variables are, modulo `WordMod` where they are
unsigned. A sum is the sequence of its samples, so a wrong pairing of sample and
weight is a different sum; its number (`WeightedSum`), what may come out of the result FIFO
(`Results`: the integers that a double may be cut to, or an `sc_uint<32>` that wraps) and the
byte of the target (`ToByte`) are functions of the sequence. `variant` chooses the
program: one thread or two, one FIFO per colour or one per colour and column, by
rows or by columns, over ports or over the registers of a socket, and the kernel:
"blur", the decimal weights of HW5 and HW6, which are exact in millionths and add up to
1000002; "normalised", those that HW1 to HW4 compute with `exp` from a sigma of 3 and divide
by their sum, which the model has to the nearest millionth; or "edges", the Laplacian of
Midterm. `Slack` is by how many millionths a sum of doubles may differ from the model's.
What comes of it is any integer that the true sum, cut, can be.

**FftKernel.** One action per iteration of a loop of `do_fft`; `pc` names the
loop, and `format` the numbers. "exact": complex numbers are pairs of integers
modulo a prime, so that twiddle factors are exact points of the circle and an
equality is an equality; a wrong index, step or sign cannot hide in the last bit.
"fixed": the 16-bit words of `hls/oneD_FFT.cpp`, with the range of bits that is kept of
a product and the sign bit that is copied separately. `Turn` is the
code's constant rotation, `NthRoot` what it should be, `Circle` the cosines to four
digits. `TwoTo`, `Roots` and `BitsReversed` are the powers of two, the powers of the
root and the reversal of the lowest bits as recursive functions, so that they can be
reasoned about; the code has loops that double, halve and multiply instead. What lies outside the arrays is a choice from `Outside`. `Feed` and `Fetch`
are the two endless threads of the HLS testbench; the real and imaginary FIFOs
move together (`FftAccel` tells them apart).

**SimpleBus.** `decodes` is the list of mappings of each port, the newest first as
in the code; the configuration is itself chosen, call by call, before `Start`.
`held` is the ghost of what initiators do with a granted region (keep it until a
withdrawn range meets it), `allowed` what the targets have granted. `missed` is a history
variable: the addresses at which a withdrawal passed by the initiators, because
`offsetOutOf` cuts its sum to the width of an address (`PassedBy`); a new grant of such an
address takes it out again. Targets may grant, refuse and withdraw any range whatever.
`failed` records the assertion that has failed, and for those of `adjustRange` whether
the region was granted or refused, since the code adjusts it in both cases.

**FlashController.** `buf`, `offs`, `dirty` and `active` are `Blockbuffer`, `target`
the two halves of the address register, `disk` the device of the host. `ReadData`
and `WriteData` are a transaction in the data region with all it calls: the
assertion, `setPos` with its write-back (`Committed`) and load (`Loaded`), then
`getData` or `setData`. Each `lseek64`, `read` and `write` may fail, or stop after
any number of words; the code reports that and goes on, and so does the model.
`Close` is the destructor, `Die` a kill, `OutOfBounds` the assertion. `suspect` is a
history variable, the blocks of which a call has failed. `Device` maps all this to
`BlockDevice`: a block is what the program sees (`Seen`), `recent` the block in the
buffer, `before` what the medium holds of it.

**Sensor.** `left` is the pending notification of `run_event`, with the kernel's rule
that of two notifications the earlier stays. `FireSensor` fires the event and
`FillFrame` is the body of the thread's loop; what the program does at the same
instant falls before, between or behind them. `copied` says of each piece the
program has read since its interrupt whether the frame was rewritten after it, and
`since` counts the milliseconds.

**Ethernet.** A frame is its place in the order of arrival. `Poll` is one round of
`run` (`ReadUpTo`: `while (!try_recv_raw_frame())`, `IsPacketForUs` the filter),
`ClaimEther` and `Recv` are the driver, external to the repository, which writes RECV
once per interrupt. `has_frame` is not initialised in the code, hence a choice.
`failed` names what ended the simulation: an exception, an assertion or an access
outside the RAM.

**Devices.** Puts the three behind one clock: `Tick` is a millisecond, which passes
when no thread has anything to do. A behaviour is of a program that uses one of
them (`uses`); the sensor's thread runs in any case where time matters.

## 3. What is checked

| run | question | bounds |
|---|---|---|
| `semaphores` | Do the instruction sequences implement `CountingSemaphore`? Are units conserved and do the retries end? | 3 harts, 2 units, 2-bit word |
| `dual_core` | Do sections exclude, does the barrier hold and restore itself, does the simulation stop only after all? | 3 harts, 2 sections each |
| `dma_memory` | Does every request copy its range, whatever is written when? | a buffer of 2, lengths 0, 1, 2, 4 and 5, 2 requests |
| `fft_direct` | Without DMA, does every hart get its own results, and does the program end? | 2 harts, 2 samples and 2 results, FIFOs of 4 |
| `fft_dma` | With DMA, do the four stores of a request stay together, and all counts in range, while transfers are late and registers are overwritten? | 2 harts, 1 sample, 1 result |
| `fft_results` | Does a hart get its results with DMA? No (finding). | 2 harts, 1 sample, 1 result |
| `pipelines` | Does every pixel get its window and its byte, however sums are rounded, and does the run end with nothing in flight? | 3 x 3 pixels, FIFOs of 2, six program variants |
| `pipeline_only_red` | Does the software of HW6 end? No (finding). | 1 x 4 pixels, FIFOs of 2 |
| `fft_kernel` | Is the result the transform, are the blocks right between stages, do the rounds go on? | 16 points, FIFOs of 2; exactly for three unit vectors and a full input, in 16-bit words for three inputs |
| `fft_kernel_eight` | Is it with the eight points of tiny32-mc? No (finding). | 8 points, one input |
| `simple_bus` | Do DMI regions agree with the routing, and does withdrawal reach everybody, but where it wraps? | 2 ports, 2 mappings, 4 addresses, 2 initiators with a region each |
| `devices` | Is the flash controller a block device? Do sensor frames come on time and whole? Is every network frame for us taken once, in order, in the end? | a medium of 2 blocks of 2 words taken for 3 blocks, addresses up to a fourth; `scaler` up to 4 ms; 3 frames of 4 kinds |

Why the bounds are enough. Three harts are one more than the platforms have, so
that the last hart at the barrier posts twice and a lock has two waiters. A DMA
buffer of 2 and lengths up to 5 contain every relation of length and buffer: zero,
shorter, equal, a multiple, and a multiple with a rest. FIFOs shallower than a window (`pipelines`) or a transform (`fft_kernel`) make every
participant wait for every other, which with the 16-deep FIFOs of the programs
needs only more data. In 3 x 3 pixels the four corners need both border tests, the
four sides one, and the middle none; the picture makes one edge of the Laplacian
negative and one greater than a byte. `fft_dma` sets `Prompt`: the engine is late only where it waits for an
accelerator. One sample and one result per hart then already overlap the pending
transfer of one hart with the stores of the other.
That requests stay whole for every delay and any number of samples is proved. The order
and the place of samples are the question of `fft_direct`, whose FIFOs hold all samples
of a hart, as those of the program do; with DMA nothing is claimed of
them, since `run_event` comes 10 ns after the store (`dma.h:139`), and whether the hart's frame
is still alive then, or its next request already written, is a matter of speed. `fft_dma` is
the largest run, 2,870,004 distinct states. The transform
is linear, and its indices do not depend on the data, so a few inputs show what
all would; modulo 1279 the 16 powers of the rotation differ. In 16-bit words
the inputs are those of the repository's testbench, the largest that fits in the
place that is turned most, and one without zeros. Four addresses hold
two mappings of two, or one of three with one beside it, on one port or on two.
Two blocks of two words suffice for a block to be left, entered and half
transferred; the third is one that only the controller believes in (the size of a
device is asked in bytes and taken in blocks), the fourth one that its assertion
refuses. Four values of `scaler` hold one shorter and one longer than the default.
Three frames: one is kept, one waits behind it, and one comes after both.

### What the violations show

`fft_results`: `read_data_from_Tiny32mc` writes the operation register and loads
`buff` in the next statement. The engine is at that time still in
`o_real.read()`, waiting for the transform. The hart therefore stores what its
stack held, and then programs the next request into the registers of the pending one. This happens even if the engine moves whenever it can (`Prompt`), and
with one hart as with two: `Harts = {0}`, the single-core program, violates
`ResultsCorrect` in the same way with DMA, and keeps it without.

`pipeline_only_red`: HW6's software reads one word per pixel, which pops `o_red`;
the filter also writes `o_green` and `o_blue`. Once these are full the filter
waits for the software and the software for the filter. The loops of HW7's software
and its two filters are the same.

`fft_kernel_eight`: `twoD_FFT.h:286-290` reverses four bits whatever `N` is. With
the eight points of tiny32-mc the odd results are words from behind the arrays,
and half of the transform is never written. The run uses the
code's constants 2047 and -50, a rotation by 1/256 of a turn (the comment above
them says "N = 256"), which is wrong for eight points as well.

### Remarks

Met while modelling; no run is needed to show them.

 * `HW7/sw/main.cpp:201` says "Core 0 print first and then others", and line 114
   declares `print_sem` for it, which is initialised and never used: in `DualCore`
   no order of printing holds.
 * `HW7/sw/main.cpp:65` programs a DMA engine at 0x70000000; `mc_main.cpp:45` maps it
   at 0x40000000.
 * `HW6/vp/platform/main.cpp:99` names `sobelFilter_end_addr`, which is not declared.
 * `flash.h` asks the host for the size of a device in bytes and takes it for a
   number of blocks. Blocks behind the end are accepted and every call on them
   fails, which `IsBlockDevice` tolerates, since it says nothing of their content.
 * `ethernet.h:115` says that the device polls 10000 times per second; 10000
   microseconds are 100 times.
 * The Ethernet device copies frames to `mem[receive_dst - 0x80000000]` and sends them from
   there, while the RAM of the platform starts at 0. The options can move it, but not
   to 0x80000000, where the FFT is; above it the copy lands in another place of the RAM
   than the program named.
 * `ethernet.h` does not initialise `has_frame`. If it starts out true, nothing is
   ever received and no interrupt comes (the condition of `FramesTaken`).
 * The factor 942 of `hls/oneD_FFT.cpp` is 0.92 rounded, where the cosine is 0.9239.
   The results of the fixed format are therefore compared with the transform up
   to the error that this alone makes, a few percent of the input.
 * `SimpleBus.h:192-197` adds the start of a mapping to the ends of a withdrawn range and
   does not cut the range to the mapping, as `adjustRange` does with a granted one. A
   target that grants 0 to 2^64 - 1, which is the case `adjustRange` has a branch for, and
   withdraws the same from a mapping that is not at 0, passes on a range whose end lies
   before its start; no initiator drops its pointer. Without the exception for `missed`, TLC
   finds this in four steps. No target of the repository withdraws anything.
 * `getDMIPointer` calls `adjustRange` for a refused region, too (`SimpleBus.h:179`). A target
   that refuses and names no range of its own leaves what the initiator had there, and
   the assertions of `adjustRange` may fail; `RangesAdjusted` speaks of granted regions.
 * In HW1 to HW4 a blur of an even window may come out one darker: with the weights of
   `exp` in doubles, in the order of the loops, 120 of the 256 grey values do, because the
   sum falls just short of the integer and is cut. In HW5 and HW6 none does.
 * A negative edge of Midterm becomes a double near 2^32, which is converted to `int`:
   0 or 255, as the build has it (`invalid` of a variant).
 * `HW3/filter_def.h:10` declares `GAUSSIAN_FILTER_RESULT_ADDR`, the program uses
   `GAUSSIAN_FILTER_RESULT_ADDR1`: HW3 as committed does not compile. It is modelled as
   with the second name.
 * The sum of a memory's start and size may wrap in the platforms' options, which
   then pass the assertions on the end address.

### Fairness

`LrScSemaphore` assumes that a hart keeps executing (weak fairness of its steps)
and that a constrained LR/SC loop succeeds eventually, which the RISC-V A
extension guarantees (strong fairness of a successful sc.w). `DualCore` needs
only that harts keep executing: a hart takes the lock a bounded number of times,
so a lock that is free is not taken from a waiter for ever. The hardware threads
(engine, `do_fft`, `do_filter`, both threads of a testbench) are SystemC threads, which the kernel
runs when what they wait for is there: weak fairness for each. So are the threads
of the devices (`RunSensor`, `Poll`), and the kernel lets time go on (`Tick`). That
the driver of the Ethernet device answers its interrupts (`ClaimEther`, `Recv`) is
assumed of a program outside the repository, and only `FramesTaken` needs it.
`Clobber`,
`LoseReservation`, new requests and new calls have no fairness: nothing obliges
them.

`CHECK_DEADLOCK FALSE` is set where a program really ends (after `sc_stop` or the
exit system call), after a failure of the Ethernet device, or, for `dma_memory`,
where the bounded number of requests has been made. That nothing stops earlier is what `Terminates` and `RequestServed`
say.

## 4. What is proved

The proofs hold for every value of the constants that the `ASSUME`s allow.

| theorem | statement | argument |
|---|---|---|
| `LrScSemaphore_proofs!TypeCorrect`, `FreshReservation` | types; a valid reservation means the register equals the word | `ReservationFresh` is inductive with the types: every store empties `resv` |
| `LrScSemaphore_proofs!ImplementsSemaphore` | `Spec => CountingSemaphore!Spec` | each successful sc.w is one abstract step because the reservation is fresh; everything else stutters |
| `LrScSemaphore_proofs!UnitsAlwaysConserved` | word and units held add up to what was provided, if a word can hold all units | `UnitsInv`: the sum is `Provided` from `sem_init` on, and who posts holds a unit; without `UnitsFit` the word wraps and the statement is false |
| `LrScSemaphore_proofs!MutualExclusion` | initialised to one, the semaphore is a lock | `LockInv`: the word is 1 only when nobody holds |
| `DualCore_proofs!TypeCorrect` | types | inductive, with "a section in progress is still to be counted" |
| `DualCore_proofs!SectionsExcludeAlways` | locked sections exclude | a free lock excludes a hart inside; before `sem_init` the lock is zero and nobody is inside |
| `DualCore_proofs!BarrierHoldsAlways`, `BarrierRestoredAlways` | the barrier holds and restores its objects | the counter equals the number of harts that wait at or move to the gate until the last one arrives; then the tokens given, to be given and taken add up to the harts |
| `DualCore_proofs!WordsAlwaysFit` | locks are 0 or 1, the gate holds at most a token per hart | from the same invariants; it is what `UnitsFit` asks of the semaphores' users, and why `DualCore` may count without a word's width |
| `DualCore_proofs!ExitAfterAllAlways` | the simulation stops only after all have returned | `exit_counter` equals the number of harts that have added to it, and the old values differ |
| `FftDriver_proofs!ImplementsDualCore`, `BarrierOfTransfers` | the FFT program implements `DualCore`, hence also its barrier | every step is the skeleton's step of the same name or leaves the skeleton's variables alone |
| `FftDriver_proofs!RequestCoherentAlways` | a hart starts the engine on its own request only | the registers a hart has stored so far are its own: only a hart in a section stores, and by `SectionsExclude` of the skeleton there is one |
| `FftDriver_proofs!TypeAlwaysOK` | types, capacities, places and counts of the composition | `AccelInv`: an accelerator handles the real word of a pair first, so its two counts differ by at most one; `EngineInv`: the engine copies one word, whatever is stored meanwhile |
| `FftDriver_proofs!ResultsAlwaysCorrect` | without DMA each hart gets the transform of its own samples, in order | `DirectInv`: the words an accelerator has been given (`taken` and `inFifo` together) are the first `Sent` samples of its hart, or all of them once it writes; `outFifo` holds the results from the first not yet fetched to the last written; `buff` holds the word that is on its way; `out` the results fetched |
| `Devices_proofs!EngineTypeCorrect`, `MemoryTypeCorrect` | registers, loop counters, memory and history in range | inductive |
| `Devices_proofs!BufferAlwaysFits` | no block exceeds the buffer, whatever is overwritten during a transfer | `TransferInv`: offset and rest add up to a length a request may have, so source and destination stay in range |
| `Devices_proofs!CopyAlwaysCorrect` | a request left alone copies exactly its range | at each block boundary what has been copied is a prefix of the source range and `n` is the rest |
| `FilterPipeline_proofs!PipelineInvariant` | what is fed, read, written and fetched of a colour are counts that follow from the places of the loops, and each FIFO holds exactly what lies between two of them | `PipeInv` is inductive: the samples of a colour are numbered as they are fed, lane `l` carries every third one from `l`, and the counts tell which sample is at the head |
| `FilterPipeline_proofs!PipelineTypeCorrect`, `TargetAlwaysCorrect`, `StopsAlwaysComplete` | types and capacities; each stored result is the window of its own pixel; nothing is in flight at the end | from `PipeInv`, for images and FIFOs of every size, every word size wider than the image and every set of fetched colours, with one or three lanes; a colour that has all its results has read everything, and the loops go through the colours together |
| `FilterPipeline_proofs!BytesAlwaysCorrect` | the byte of each result is the filter's, for every picture and every rounding | the samples of `Window(p, c)` are those of `Seen(p, c)` by `PipeInv`; the weights of a blur are positive, so the weighted sum lies between the extremes times the sum of the weights (`SumWithin`), which is 1000002 millionths for "blur" and 1000000 for "normalised"; what may be cut from it, within `Slack`, is then no more than the brightest, no less than the darkest, or one less than that for "normalised" (`CutSum`); the sum of the Laplacian, taken over the nine taps, is the sum over the nine neighbours (`Sums`) |
| `FftKernel_proofs!TypeCorrect`, `NoButterflyOutside` | types in both formats; no butterfly leaves the arrays and no factor is missing, for every power of two | `TypeInv`: in stage `s` the blocks are `N / 2^s` long and the step through the factors is `2^s`, `windex + 1` is `l` times that step, and `index` is `l` beyond a multiple of the block length |
| `FftKernel_proofs!BlocksCorrectExactly` | exactly computed, the blocks between two stages are the decimated transform of the input, for every `N`, root, input and depth | `ExactInv`, described below |
| `FftKernel_proofs!ResultsCorrectExactly` | and with sixteen points every stored result is the transform of the input at its place | `OutputInv`: the array keeps the transform in bit-reversed order while it is written, the FIFO holds the results from the next to be fetched to the last written, and the four-bit reversal of the code undoes that of four stages (`FourBits`) |
| `SimpleBus_proofs!BusTypeCorrect`, `RangesAlwaysAdjusted` | types; the assertions of `adjustRange` hold for whatever a target grants that contains the address | `BusInv`: mappings do not overlap, and a region that an initiator holds lies within one mapping, whose target allows all of it |
| `SimpleBus_proofs!DirectAlwaysAsRouted`, `NothingEverStale` | a DMI pointer reaches what a transaction would reach, and is gone once withdrawn, but at the addresses of `missed` | from `BusInv`; for withdrawal, that a withdrawn address of a held region is either met by the range passed on or, where that wraps, in `PassedBy` (`KeptOrPassedBy`) |
| `Devices_proofs!FlashInvariant` | types; a clean, active buffer of a block without failures equals the medium | `BufferClean` is what the refinement needs of a move to another block |
| `Devices_proofs!ImplementsBlockDevice` | `FlashSpec => IsBlockDevice`, for every size of the medium, of a block and of the address register | a move commits the old block and loads the new one, each of which either succeeds or puts the block under suspicion; everything else changes at most the block in the buffer |
| `Devices_proofs!FramesAlwaysOnTime`, `FrameAlwaysWhole` | the sensor's promises, for every range of `scaler` and every number of pieces | the pending time and the time since add up to `scaler`; a rewritten frame has an interrupt pending until the program starts anew |
| `Devices_proofs!FramesTakenOnce` | the Ethernet device's promise, for every stream of frames | `EtherInv`: while the size register is not zero the frame is the last one read, and one interrupt stands for it; the i-th frame taken is at least the i-th that arrived, which bounds their number |
| `Devices_proofs!DevicesKeepTheirSpecs`, `PlatformTypeCorrect`, `PlatformDevicesCorrect` | on the platform each device keeps its specification, so all of the above holds there | every step of `Devices` is a step or a stutter of each device |

`DirectInv` was checked by TLC before it was proved, with up to
three samples, two results and FIFOs of one and two.

The transform. `BlocksCorrect` speaks of the moments between two stages only, so the
inductive invariant `ExactInv` has to say what holds inside the loops. `InputInv`: the
samples read so far and those in the FIFO are the input, in order, round after round.
`FactorsInv`: factor `i` is the power `i + 1` of the root, as far as the factors are made;
that the HLS block does not clear its factors does not matter, since every factor is
written before it is used. `StagesInv`: within a stage there was an array `y` for which
the claim held, and the present array is `y` with those butterflies applied that columns
and `index` have reached (`During`); butterflies touch disjoint pairs (`BlocksApart`), so
their order does not matter. At the end of a stage the claim for halved blocks follows
from decimation in frequency (`Decimation`): a sum of `2H` terms is the sum over the first
half of each term with its partner (`TotalHalves`), the partner's power of the root is the
same for even frequencies and the negative for odd ones (`HalfATurn`). Numbers are modulo
`P`, so all of this is about congruence, and the lemmas on remainders (`Remainders`,
`AlikeOperations`) carry it. `P` need not be prime: what is used of the root is that its
`N / 2`-th power is minus one. The recursive functions need a proof that they exist, since
the definition only chooses one (`RecursionExists`).

The two theorems have hypotheses. `Turn("exact") = NthRoot` says that the code's rotation fits
`N`: for the eight points of tiny32-mc it does not (`fft_kernel_eight`), for the sixteen of
the HLS block it does up to rounding. `M = 4` in the second theorem is the width of the
code's bit reversal. `fft_kernel` is an instance of both. `InputInv`,
`FactorsInv` and `OutputInv` were checked by TLC before they were proved.

Assumptions on the constants are the `ASSUME`s of the modules, which TLC evaluates in
every run: finite sets of harts, positive sizes, harts numbered up to 28
(`DriverAssumption`), samples that are bytes (`BrightnessAssumption`), a number of points
that is a power of two (`KernelAssumption`), and a root of unity whose half turn is minus
one (`NumbersAssumption`).

Sums. `MapThenSumSet` is a fold. The prover has no induction over data, but it can use
that inclusion is well-founded on the subsets of a finite set: `Sums` takes the smallest set
for which a statement would fail and removes the element that the fold takes first.
That a fold meets its equation, that a sum does not depend on the order of its elements,
what an update of one value changes, and how a sum goes over to another index set are
proved this way and cited by `UnitsAlwaysConserved`, `BytesAlwaysCorrect` and the
theorems on the transform.

Only model-checked: everything about liveness (`PostReturns`, `UnitIsTaken`,
`Terminates`, `RequestServed`, `RoundsGoOn`, `FramesTaken`), since fairness and
ENABLED are out of this prover's reach; and `BlocksCorrect` and `ResultsCorrect` of
`FftKernel` in the fixed format. In 16-bit words they are statements about a tolerance
that hold for inputs of limited magnitude: a proof would have to bound the rounding error
of every stage, and the constants would have to be those of the code. The runs compute
them for the inputs named above.

## 5. What is not modelled

 * The instruction set simulator, its bus, CLINT and PLIC: submodules that the
   repository does not contain. Loads, stores, lr.w and sc.w are modelled from
   how the programs use them.
 * Bitmap files, printing, the display, the terminal and the random source: pure
   input and output. `basic_timer.h`, which interrupts every millisecond and keeps no
   state; `mram.h`, an array in a file.
 * Time where it only orders events: `wait(delay)` of the accelerators, the bus and
   the engine. A property about their latency would concern the numbers chosen, not
   the logic. The sensor and the Ethernet device do have a clock.
 * The registers of the Ethernet device that only name places and sizes in memory,
   since what it copies lands in the wrong place (see the remarks). `receive_size` and
   `mac` are writable, too: a program that writes them is not modelled.
 * What becomes of samples sent with DMA (see the bounds of `fft_dma`).
 * Second rounds of the barrier: no program has one.
 * The fixed-point format of the platforms' `twoD_FFT.h`, which has eleven fractional
   bits where the HLS block has ten: only its exact counterpart. The digits of the blur's
   weights beyond a millionth, where the host computes them with `exp`.
 * The two `lena_std_short.h`, arrays of pixels: 32784 of the repository's lines are
   data of the programs and have no behaviour.
## 6. Plan

Done: the semaphores, the dual-core skeleton, the DMA engine, the FFT accelerator
and driver, the filter pipelines with their bytes, the transform exactly and in the
words of the HLS block, the bus, and the devices of the single-core platform. Left,
in order of importance:

 1. A specification of a transfer ("a copy happens atomically at some time") that
    `DmaMemory` refines when its registers are left alone.
 2. The dual-core blur of HW7 as an instance of the driver (one word per pixel),
    once its software and its platform agree on the address of the engine.
 3. The butterfly of the platforms in its own fixed-point format, and a bound for the
    rounding error of a stage.
