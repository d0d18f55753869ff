# A TLA+ verification of ya-risc-v

ya-risc-v is a single-hart RV64 emulator in TypeScript. One `SharedArrayBuffer`
holds guest RAM and the state of every device; three worker threads and the host's
main thread share it without a common lock. This directory models the devices, the
monitor and the life cycle at the grain at which those threads interleave, the hart
one instruction at a time, and the decoder, arithmetic, memory map and PMP as
algorithms; it checks them with TLC, and proves with TLAPS what matters most. Paths below are relative to
`src/src/emulator/` of the repository unless they say otherwise.

## 1. Inventory

### Threads

| thread | entry | runs |
|---|---|---|
| host | `index.ts`, `cpu/index.ts`, `timer/index.ts`, `terminal/index.ts` | creation, `start`, `stop`, the syscon watch |
| CPU worker | `cpu/run.ts` | sample wires, take an interrupt or fetch, decode, execute; all guest accesses |
| timer worker | `timer/run.ts` | `tickClint` every millisecond |
| terminal worker | `terminal/run.ts` | stdin into the UART RX ring; the TX ring to stdout |

### Components, their state and what makes them correct

| component | shared state | operations | hard behaviour | correct when |
|---|---|---|---|---|
| PLIC gateway (`plic/`) | priority, pending, enable, threshold, claimed-by, input-level words, two wires, a lock word | `setPlicSourcePending`, claim, complete, guest stores | two threads, a lock built from `compareExchange`/`wait`/`notify`, redundant copies of one fact | as if every operation were indivisible; nobody sleeps on a free lock |
| UART (`uart/`) | two byte rings, IER, LCR, sticky THRE, TX wake word | guest loads/stores of RBR, THR, IIR, LSR, IER, LCR; host push and pop | lock-free rings, an interrupt derived from several bytes, a level word used for sleep and wake | rings are FIFOs; a status once read is a promise; the interrupt follows the registers; the pump is woken |
| terminal worker (`terminal/run.ts`) | the pump's place, stop request | drain, wait, stop, backpressure, stream death | an event loop racing three promises | a stop always ends the worker and flushes the ring |
| irq-level word and `wfi` (`irq-level.ts`, `wake.ts`, `cpu/instructions/system.ts`) | an Int32 of level bits | `setIrqWire`, `waitIrqLevel` | wire and level are stored apart | a pending enabled interrupt ends `wfi` |
| CLINT (`clint/`, `timer/run.ts`) | `mtime`, `mtimecmp`, epoch, `stimecmp` mirror, wires | `tickClint`, guest loads and stores, mirror publish | multi-word updates under CAS only | time does not run backwards; wires follow the compare |
| LR/SC monitor (`reservation.ts`, `ram.ts`, `memory.ts`, `amo.ts`) | a lock, a reservation slot per hart | LR, SC, AMO, stores | lock held across a call boundary; an AMO loads outside it | LR, SC, AMO and stores are as if indivisible; SC stores only undisturbed; the lock is always handed back |
| syscon and lifecycle (`syscon/`, `index.ts`, the handles) | a request word, the promises, a timer | guest store, host watch, cancel, start, stop | a watch racing a cancel; a worker that fails, or is terminated while it holds a lock | a request is never lost; however it is asked to end the machine ends, and says truthfully how |
| hart: traps and CSRs (`cpu/trap.ts`, `cpu/registers.ts`) | CSR file, privilege | trap entry and return, interrupt selection, CSR access | WARL fields, delegation, three views of one register, pending bits with two owners | registers stay legal; S and U cannot change M; a handler returns to what it interrupted |
| fetch and execute loop (`cpu/run.ts`, `instructions/system.ts`) | pc, counters | sample, interrupt, fetch, execute, retire | instructions that retire before they trap or wait | every instruction is counted once |
| decoder (`cpu/decode/`) | a memo | `decode` | immediates scattered over eleven layouts; reserved encodings; eviction | the inverse of the encoding tables; the memo never lies |
| arithmetic (`cpu/instructions/`, `utils/bytes.ts`) | general registers | register instructions, loads, stores, AMOs, branches, jumps | byte loops, `rd` that is a source, overflow, extension | the manual's arithmetic |
| memory map (`memory.ts`, `ram.ts`) | regions packed into one buffer | resolve, load, store | windows that touch, slabs shorter or longer than their window | regions disjoint; a store changes what it addresses |
| PMP (`cpu/pmp.ts`) | pmpcfg, pmpaddr | register writes, decision | NAPOT and TOR ranges, locks, MPRV | the manual's decision; what is locked stays |
| device tree (`src/fdt.ts`), TUI (`src/tui/`), CLI (`src/index.ts`), tty | – | pure construction and I/O | – | not modelled |

Interaction: the CPU worker calls every device synchronously; the UART drives PLIC
source 10; the PLIC and the CLINT drive wire bytes and the irq-level word; the hart
samples wires into `mip` before each instruction and sleeps on the level word in
`wfi`; the terminal sleeps on the UART's TX wake word; the host sleeps on the
syscon word. `PROJECT.json` lists, under `hazards`, every place where this can go
wrong in a way tests would hardly reach, with the properties that cover it.

## 2. Modules

| module | models | kind |
|---|---|---|
| `PlicAtomic` | what the PLIC promises: indivisible operations, pending and wires as functions of the rest | abstract |
| `PlicGateway` | `plic/gateway.ts`, `plic/memory.ts`, the store of the wire and level bit | detailed, implements `PlicAtomic` |
| `PlicSelect` | the loop of `selectClaimableSource` | algorithm |
| `Fifo` | what a UART ring promises | abstract |
| `Uart` | `uart/*.ts`, `wake.ts`, `terminal/run.ts` | detailed, implements `Fifo` twice |
| `Clint` | `clint/time.ts`, `irq-level.ts`, `timer/run.ts`, the sample pass, `wfi` | detailed |
| `LrSc` | what RV64A promises: indivisible LR, SC, AMO and stores | abstract |
| `Reservation` | `reservation.ts`, the locked parts of `ram.ts`, `memory.ts` and `amo.ts` | detailed, implements `LrSc` |
| `Lifecycle` | `index.ts`, the handles of `cpu/`, `timer/` and `terminal/`, `syscon/region.ts` | detailed |
| `Hart` | `cpu/run.ts`, `cpu/trap.ts`, `cpu/registers.ts`, `instructions/system.ts` | detailed |
| `Isa` | the encoding tables of RV64IMA, read in the assembler's direction | reference |
| `Decode` | `cpu/decode/*.ts` | algorithm |
| `Alu` | the other files of `cpu/instructions/`, the arithmetic of `utils/bytes.ts` | algorithm |
| `MemoryMap` | `memory.ts`, `ram.ts`, `utils/binary-search.ts` | algorithm |
| `Pmp` | `cpu/pmp.ts` | algorithm |
| `PlicGatewayProofs`, `UartProofs`, `ClintProofs`, `ReservationProofs`, `LifecycleProofs`, `HartProofs` | theorems about the module of that name | proofs |
| `AddressProofs` | theorems about `Pmp` and `MemoryMap`, with the induction they need | proofs |
| `AlgorithmProofs` | theorems about `PlicSelect`, the memo of `Decode`, and `Alu` | proofs |
| `MCPlicGateway`, `MCUart`, `MCClint`, `MCReservation`, `MCLifecycle`, `MCHart`, `MCAlgorithms` | workloads and inputs for TLC | model checking |

Grain. Workers share memory through `Atomics`, so the unit of interleaving is one
access to a word another thread can see. The modules of shared state have one action
per such access, and a `pc` per thread that says which access comes next; accesses
nobody else can see are merged with the step that follows them. Where the code
takes the PLIC gateway lock, `PlicGateway` still splits the critical section (in
two writes, then select, drive and publish per context), because the irq-level
word is read outside the lock and because the CPU worker's wait has its own race.
On the host a callback is one step. The hart's own state is seen by nobody else, so in
`Hart` a step is one instruction, and an algorithm is one operator.

Composition. Where two components meet, one of them appears in the other's module at
its interface: `Uart` has the gateway lock of `PlicGateway` and one write inside it, of the
input level of source 10 (that the rest of the PLIC then follows, and that a waiter is
woken, is shown in `PlicGateway`); `Lifecycle` has the gateway lock of `PlicGateway`
and the stop and drain of `Uart`; `Clint` has the sample pass and the `wfi` of `Hart`;
`Hart` leaves time to `Clint`, the permission of a fetch to `Pmp` and `MemoryMap`, and
operands to `Decode` and `Alu`. A store to a device runs with the monitor lock held
(`memory.ts:387`), so the locks nest monitor first, gateway second, and never the
other way round: no code under the gateway lock touches guest memory.

Names ending in the description of a bug (`CheckCompareNever`, `CancelStores`,
`ArmNothing`, …) or in `Mutant` are mutated forms: what the definition after them would
be with a plausible mistake. `PROJECT.json` lists which property each one breaks.

### PlicGateway

| state | code |
|---|---|
| `inputLevel`, `pending`, `claimed`, `priority`, `enable`, `threshold` | the PLIC slab (`plic/layout.ts`); bit masks are sets of sources, the claimed-by table a function from contexts to sets of sources |
| `wire`, `level` | the two context wire bytes; the MEIP and SEIP bits of the irq-level word |
| `lock` | the gateway Int32 |
| `pc`, `op`, `picked`, `cursor`, `found` | the program point and locals of a thread inside an operation |

`Start` chooses an operation of the thread's workload. `Acquire`, `Wait`, `Release`
and `Notify` are the lock (`gateway.ts:78`, `:89`, `:93`, `:103`); `FirstX` and
`SecondX` the two writes of operation X; `Select`, `Drive` and `Publish` the refresh
of one context wire. An operation that returns early goes straight to `release`.
The guest can only complete an existing source, and byte stores of word registers
are taken whole.

### PlicSelect

The loop of `selectClaimableSource`: `source`, `bestSource` and `bestPriority` are its
locals, `Iterate` one iteration. The initial state is any pending, enabled,
priority and threshold input.

### Uart

| state | code |
|---|---|
| `rx`, `tx` | the rings: head byte, tail byte, data slots |
| `txWake` | the TX nonempty word |
| `ier`, `dlab`, `sticky` | register bytes 1 and 3, the sticky THRE byte |
| `plic` | `input`: the input level of PLIC source 10; `holder`: the thread inside the gateway lock |
| `pump`, `stop`, `final` | where `pumpTransmit` is; the stop message; the last drain pass |
| `seen`, `owed`, `late`, `rxOut`, `txOut` | history: what the guest has been told and is still entitled to, what a stop owes, and what each consumer took last |

The hart's actions follow `loadUartRegister` and `storeUartRegister`; the terminal's
are the tasks of its event loop: `StdinByte`, `StopMessage`, `StdoutDrains` and
`StdoutDies` start only when the loop is free (the pump is parked or blocked).
A refresh of the interrupt takes the gateway lock, writes and releases it in three steps
(`AcquireGateway`, `DriveIrq`, `ReleaseGateway`), and so does a guest access to the PLIC
(`AccessPlic`): the CPU worker may be terminated inside, and the terminal worker, which
waits for the lock synchronously, then never gets it.
`MCR`, `MSR`, `SCR` and the divisor latches other than the byte shared with IER are
plain storage and left out.

### Clint

| state | code |
|---|---|
| `now` | `process.hrtime`, in units of which `NsPerTick` make one tick |
| `mtime`, `epoch`, `mtimecmp`, `mirror` | the 64-bit shadows, modulo `TwoTo64` |
| `wire`, `level` | the two timer wire bytes; the MTIP and STIP bits of the irq-level word |
| `stimecmp`, `stce`, `mip` | the hart's CSRs |
| `phase`, `from` | why the hart samples (main loop, first or second check of `wfi`), and its `fromLevel` |
| `saw`, `gaveUp`, `torn` | history |

`TickStep` is `tickClint`, `UpdateStep` `updateTimerWiresFromCompare`, both run by
either thread; the hart's stores, `SampleM`, `PublishCompare`, `SampleS`,
`LoadLevel` and `WaitIrqLevel` are one instruction followed by the sample pass of
the main loop. BigInt division truncates towards zero (`Quotient`) and the epoch
is stored modulo 2^64. The retry of a guest store's `compareExchange` is not split: the
store takes effect at the exchange that succeeds. What an interrupt handler does is
what any guest does.

### Reservation

| state | code |
|---|---|
| `mem` | guest RAM, in units of four bytes |
| `slot`, `lock` | the monitor slab of `reservation.ts`: a slot per hart, the lock Int32 |
| `depth`, `scHeld` | `monitorLockDepth` and `scMonitorHeld`, per worker |
| `pc`, `op`, `old`, `left`, `result` | the instruction in progress, its place and locals, and what `rd` receives |
| `touched` | history: the reserved line was written since the LR |

`LrSc` has `asked` beside memory, reservations and results: the instruction a hart has begun,
until it takes place. Each takes place once, at the address and with the operand it was begun
with, or traps. `Reservation` maps to it `askedDone`: the instructions in progress that have
not yet reached the step at which they take place (`Pending`).

The program starts one hart; the monitor is written for several, as its comments say,
and is modelled for any number. `Acquire`, `Wait`, `Release`, `ReleaseSc` and `Notify`
are the lock; `Load` and `Arm` an LR; `TakeReservation`, `ScWrite`, `Invalidate` an SC,
which keeps the lock across the two calls and enters it a second time; `AmoLoad`
(outside the lock), `Swap` and `Invalidate` an AMO, which goes round again when its
compare-exchange fails; `Invalidate` and `WriteUnit` a plain store, of RAM or of a
device. Plain loads do not touch the monitor and are left out. The nine AMO operations
are one addition: the lock does not tell them apart (`Alu` does).

### Lifecycle

| state | code |
|---|---|
| `started`, `stopped`, `done` | the fields of `Emulator` |
| `worker`, `terminating`, `lifetime`, `events` | the three handles: their worker, a call of `terminate()`, the promise, and the events Node has not delivered |
| `fallback`, `message` | the 5 s timer of `Terminal.stop` and its stop message |
| `word`, `level`, `hart`, `watch` | the wake word of syscon, the publication of the hart and the watch of the host |
| `pump`, `bytes`, `stalled`, `lock` | what the terminal worker may be busy with, and the gateway lock |
| `crashed` | history |

`StartFails(n)` is the rollback when the n-th worker cannot be created; `StopEmulator`
is shared by the four ways to stop. `Crash` and `TerminateLands` take a worker at any
point: what it alone would use is dropped, a lock it holds stays held.

### Hart

`registers` is `Registers` of `cpu/types.ts`, a CSR being the set of its bits where bits
matter and a number elsewhere; `wires` is what the device wires were when last sampled;
`phase` the place in the loop, `wfi` (before its first sample) and `woken` (after one)
included. Each kind of instruction is an action, legal and illegal
forms apart. Programs are sets of instructions, executed in any order. `frame`,
`asked`, `latched` and `retired` are history: what each mode's last trap interrupted,
what software asked of the pending bits, and how many instructions the counters should
have seen. General registers (`Alu` has them), `mtval` and `stval` are left out.

### Decode, Alu, MemoryMap, Pmp

`Decode` follows both decoding switches case by case and returns the instruction the
closure stands for; `DecodeHit` and `DecodeMiss` are the memo. The reference `Isa` is not
translated from the program: its tables go from an instruction to its word, and
`DecodesExactly` asks the decoder to be their inverse. `Alu` keeps registers as sequences
of bytes, of `ByteBits` bits, as the byte loops of `bytes.ts` do, and compares them with
integers; `addressed` is the doubleword a load, a store or an AMO names, which it may
access. `RvcListed` compares `decodeC` with the manual's listing of the compressed
instructions, a table from quadrant, funct3 and conditions to instruction and registers.
`MemoryMap` has the packing of the regions, the binary search and the RAM
loops; `stored` is history: the arguments of the last call of `storeBytes`, which
`StoreIsExact` holds it to. `Pmp` has the register writes, the ranges and the decision; the
permission that each kind of access needs is written once for the code
(`permissionGranted`) and once for the property (`Needs`).

## 3. Runs

| run | question | bounds |
|---|---|---|
| `plic_gateway` | lock, claims, completions, wires; refinement of `PlicAtomic`; nobody sleeps on the lock for ever; a claimable source reaches its wire | two threads, two sources of which one is driven, both contexts, priorities 0 and 1 |
| `uart_tx` | output ring, THRE, sleep of the pump, flush and exit at stop, termination of the CPU worker at any access | three slots, two byte values, no stdin (the DR half of `LineStatusKept` is idle here; the theorem `StatusKept` has both) |
| `uart_rx` | the input ring is a FIFO while the guest loads RBR, reads LSR and IIR and moves the interrupt enables | three slots, two byte values |
| `uart_stranded`, `uart_irq_lost`, `clint_expiry` | see "What the code does not keep" | as the runs above |
| `clint_time` | wires and level word against the compares; what loads and stores of `mtime` give | two units of clock per tick, clock 0..2, two update attempts |
| `clint_wfi` | the double check of `wfi`; STIP; a passed compare reaches the wire and wakes the hart | clock 0..1, `stimecmp` 1 or never |
| `reservation` | the lock, SC undisturbed, no lost wake; refinement of `LrSc`; every instruction ends | two harts, two lines of two units, a device register, eleven instructions |
| `lifecycle` | the machine ends, says truthfully how, and loses no request | one byte waiting; every failure, stop and termination at any point |
| `hart` | legal registers, counters, pending bits, what M withholds, returns | five programs of nine to twelve instructions, 8 addresses, counters modulo 2 |
| `algorithms` | PLIC selection, decoder and memo, instructions on registers and one doubleword, memory map, PMP, each against its reference | see below |

Why small is enough. The races need two threads, one word and two values of it.
Priorities matter by order only, so two of them and a tie exercise the comparison
(`algorithms` has three). In `plic_gateway` the second source is never asserted: it
can be completed, enabled and compared, and every safety property of the run is also
a theorem for any number of sources. A ring of three slots has the states empty,
one byte and full, and wraps within a few bytes. One tick of the clock separates
"not due" from "due", and modulus 8 leaves values above every compare;
two clock units per tick make `mtime` stores both smaller and larger than the clock.
`TIMER_WIRE_UPDATE_ATTEMPTS` is 2 instead of 4 so that giving up occurs; the
violation run keeps 4. In `reservation` one hart runs an LR/SC loop over one or two
units and the other everything that can interfere: its own LR/SC, an AMO that covers the
line, a store that runs into it from the line before, a device store, accesses that
trap; what the run shows is also proved for any harts and lines. In `lifecycle` a second
waiting byte would repeat the first. The programs of `hart` each aim at one
group of registers; addresses 0..7 have an even, an odd, a vectored and a denied pc.
`algorithms` decodes every compressed halfword and 32-bit words over every opcode, funct3
and funct7 in use; computes on registers of four two-bit bytes, so that carries, signs and
shifts cross bytes and halves (`lb` and `lh` move the same one byte there, and `lw`
two); packs four regions whose windows touch, overlap or leave
gaps, and makes any two stores of one, two or four bytes, the second over what the first
left or beside it; and writes every sequence of TOR, NA4 and NAPOT entries, locked or not, to three
PMP entries in two registers. The decoder's memo holds 3 entries instead of 8192.

Bounds that are not the program's: `MaxNow` (clock), `TwoTo64`, `CounterSize`,
`AddressSize` and `Modulus` (moduli), `MaxBytes` (bytes waiting), `MaxStores` (stores, 2),
`MaxEntries`,
`PMP_ENTRY_COUNT`, `ENTRIES_PER_CFG` and `PmpAddressBits`. No other counter is capped.

`CHECK_DEADLOCK FALSE` in the UART runs, in `lifecycle` and in `algorithms`: the terminal
worker really exits, the machine really ends, and an algorithm ends. The other systems
never stop.

Every passing property has a mutant in `PROJECT.json`: a definition replaced by a
mutated form under which TLC must find the property violated.

### What the code does not keep

Three runs show the code doing what one of its comments, or its documentation, says
it does not; `PROJECT.json` quotes the lines under `findings`.

| run | what happens |
|---|---|
| `uart_stranded` | a publish of the TX wake word delayed past the pump's own publish leaves it at 1 over an empty ring; later bytes wake nobody |
| `uart_irq_lost` | two refreshes of the UART interrupt apply in the opposite order of their evaluation |
| `clint_expiry` | wire byte and level bit disagree when `wfi` reads the level, and the expiry changes nothing it waits for |

The passing properties next to them say exactly what remains true, and so name the
exception in which the code falls short:

- `SleepsOnlyWhenEmpty` (pump) holds except after such a delayed publish, and
  `SleepsOnlyIfQuiet` (`wfi`) except after such a disagreement;
- `WiresExact` holds except after an update that ran out of attempts;
- `LoadNotAhead` holds except while the timer worker is inside a tick: a tick from an
  old epoch may overwrite a guest store of `mtime`, and be loaded, before it retries;
- `StipFollowsCompare` holds except while the timer worker is inside a tick or the update
  that ends it, and so still to verify: a verdict from the old `stimecmp` may reach
  `mip.STIP`, and so may one from an `mtime` that a guest store has since set back;
- `StoreReproduced` holds for values below the host clock: for a larger `mtime` the
  epoch is negative, is stored modulo 2^64, and `tickClint` divides the wrong number;
- `PendingOwned` holds except after a csrrs or csrrc on `mip` while the PLIC wire is up:
  the value written back has the wire in it and stores it as the software SEIP
  (`cpu/registers.ts:725` and `registers.test.ts:477` say that only the soft bit is
  written); `latched` marks the case;
- `StopExits` excepts a CPU worker that was terminated inside the gateway lock while the
  terminal worker is about to take it (`Abandoned`): nobody releases the lock
  (`plic/gateway.ts:78`);
- `Halts` excepts the watch when a hart dies between the exchange and the notify of its
  request (`CutShort`): the word is set and the host is not woken
  (`syscon/region.ts:130`).

Further deviations met while modelling, without a run:

- a pop that compares with a stale tail misses the rising THRE edge
  (`uart/queues.ts:160`);
- the high divisor byte and IER share a byte (`uart/registers.ts:194`), so setting the
  baud rate changes the interrupt enables;
- the speculative four-byte fetch goes through `loadBytes` before the checks
  (`cpu/run.ts:65`), so a pc in the UART or PLIC window pops a byte or claims a source even
  when the fetch then traps;
- interrupts are ranked by number alone (`cpu/trap.ts:79`): a delegated SEI is taken
  before a pending SSI or STI that is not delegated and so targets M;
- two ticks can store in the opposite order of their clock reads, and `mtime` goes
  back (`clint/time.ts:167`);
- a CPU worker terminated while it holds the gateway lock leaves the terminal worker
  waiting for ever; only the 5 s fallback ends it, and the output left in the ring is
  lost, though `terminal/index.ts:101` calls the fallback unreachable while the consumer
  drains. `StopExits` names the case, and `Halts` shows that the fallback suffices;
- a rejected `#done` does not wait for the other workers' exit.

### Fairness

- `PlicGateway`: weak fairness per thread on continuing an operation it has begun.
  A worker that runs is scheduled by the operating system; a new operation is
  never promised.
- `Uart`: the CPU worker continues an access it has begun and the terminal worker its
  tasks; stdout eventually drains or dies, and a flush ends: Node's stream
  contract. After a stop the host terminates the CPU worker (`index.ts`, `stop`), wherever
  it is. Who waits for the gateway lock gets it once it is free; that the code's lock is fair
  in this sense is `NoLostWake` and `WireFollows` of `PlicGateway`.
  Nothing is assumed of stdin or of the guest.
- `Clint`: the clock advances (to `MaxNow`), the timer worker ticks for ever and a
  hart inside an instruction finishes it. Nothing is assumed of the guest.
- `Reservation`: a hart inside an instruction takes its next step (no step of it
  awaits). `InstructionEnds` asks only for the time the others leave it alone: the code
  gives no bound on how often an AMO may lose its compare-exchange.
- `Lifecycle`: the host's event loop handles the events, timers and wakes it has, a
  terminated worker ends, and a hart inside the publication of a request goes on.
  Nothing is assumed of the terminal worker, its reader, or the guest.

## 4. Proofs

TLAPS proves the following for every value of the constants that satisfies the named
assumptions of the modules. None of the invariants is inductive alone.

**PLIC gateway** (`PlicGatewayProofs`: any threads, sources up to 31, priorities and
workload; `GatewayAssumption`, `WorkloadAssumption`). The invariant `IInv` adds

- `OpsTyped`: a thread inside an operation holds an operation of that kind, with
  a context or source that exists;
- `HalfDone` and `PendingExact`: what is true between the two writes of an
  operation. Between them exactly one source may be out of step, and the thread
  that holds the lock knows which;
- `StaleOrSettled`: outside a critical section, and for the contexts the current
  refresh has passed or does not touch, wire, level bit and configuration agree;
- `RefreshCurrent`: what `Select` found still holds when `Drive` and `Publish` use it.

`InitEstablishes` and `StepKeeps` are the two inductive facts, one lemma per conjunct
and one step per action; `MutexStep` and `Alone` reduce each step to the one thread
that holds the lock. The properties follow from `IInv`; `OwnerReleases` is an action
property from the same invariant. `SleepersAreWoken` has a second, small invariant on
who will notify. `GatewayRefinesAtomic` maps every step: the first write of each
operation is where it takes effect in `PlicAtomic`, and the rest stutters under a
mapping that reads `pending` and the wires off the other variables in the middle of
an operation.

**UART** (`UartProofs`: any ring capacity from 2, bytes and workload; `UartAssumption`).
`IInv` is `Shape` (types, and where each thread continues), `Control` (the event loop
runs only while the pump has given it back), and

- `TestsHold`: a thread that tested a ring may act on the test although the other has moved
  since. A consumer's test can only get truer by what the producer does, and conversely;
- `PromisesHold`: `LineStatusKept` with the steps between a test and the answer the guest
  gets: an identity on its way into IIR is still true;
- `WakeHolds`: why `SleepsOnlyWhenEmpty` survives. A level word of 1 over an empty ring
  comes from a late publish (`late`), the tail that `dequeueTransmit` remembers is not
  beyond the present one, and a pump that parks over bytes is about to be notified;
- `OwedHolds`: `StopFlushes` with the bytes that a stop owes being the oldest of the ring.

Indices are compared by `Distance`, the number of slots from one to the other round the
ring; its lemmas are the index arithmetic of the rings, once. `RxRing` and
`TxRing` map every step to one of `Fifo`: a byte is put when its producer stores the
tail, and taken when its consumer stores the head; the rest stutters.

**CLINT and `wfi`** (`ClintProofs`: any clock, workload and cap on attempts;
`ClintAssumption`, of which the part a reader should note is that the host clock stays below
2^64 ns). `IInv` is `Typed`, `Places`, and

- `Covered`, which carries `WiresExact`: for each timer, the wire is right, or a thread
  is still to store it, or it is still to read one of its inputs again and find that it
  moved; the same of the level bit; or an update gave up. At rest nobody is under way, so
  what is left is that they are right. The hard steps are the two stores:
  `WrongVerdict` says that a verdict other than the truth comes from inputs that have moved,
  which the verification after it sees;
- `Mirrored`: what the hart publishes is what its sample will find;
- `Quiet`, which carries `SleepsOnlyIfQuiet`: five facts from the first look at the level to
  the sleep. What was high stays high, a rise since is on its way to the level, a change
  under a parked hart is about to be notified, and the second sample takes what was found.

`StipIsCurrent` and `StoreIsReproduced` follow; the restriction in the latter is the one
the property states. `LoadsAreNotAhead` has an invariant of its own, `Clocked` (an epoch is
in the past or will not be reached, and ticks taken from it are not ahead) and `LoadTrue`,
and a hypothesis: `NoWrap`, that no store sets `mtime` so far ahead that it passes 2^64
while the clock runs. TLC finds `LoadNotAhead` false without it (modulus 8, two clock
units per tick, a store of 3, clock up to 4): `mtime` then wraps, and a small number is not "behind". The
run keeps to `NoWrap`, with stores both below and above the clock.

**Hart** (`HartProofs`: any programs, address and counter size; `HartAssumption`, that an
instruction has the fields its kind uses and writes values a register of that name
can be written with). `IInv` joins the four state properties in one induction, since each
relies on what the registers are:

- `Well`: the shape of the register file and of the parts outside it, the values of what
  traps and returns read, and `Legal`;
- `Framed`: while a mode's frame is intact, its `xepc`, `xPP` and `xPIE` are the frame;
- `RetiredOnce`, `PendingOwned`, and `Unasked`: software has asked for no `STIP` that the
  timer compare owns.

One lemma per operator says what it does to every register (a trap entry, a return, a
write through each of the three views), one per kind of instruction composes them, and
the steps are cases of those. `LowerModesConfined` and `ReturnsCorrectly` are action
properties from the same lemmas: below M the only steps that change what M has are traps.

**PLIC selection** (`AlgorithmProofs`: any number of sources, any finite input). After
each iteration the local best is the winner among the sources visited, so the result is
the claimable source of highest priority, lowest id first.

**The decoder's memo** (`AlgorithmProofs`: any halfwords, any capacity). `CacheFaithful` is
kept because every entry is a key with what some encoding of that key decodes to, and
encodings with one key decode alike (`KeyDecodes`: of a compressed one the high halfword
is never looked at). The library's facts about sequences give the rest: the last entry
moves when it hits, the first goes when the map is full, and no key is there twice. What
`decode` computes is TLC's part (`DecodesExactly`).

**Instructions** (`AlgorithmProofs`: bytes of any number of bits, registers of any number of
bytes that four divides, any registers, memory and operands; `AluAssumption`, and
`InstructionAssumption`: the states to start from hold words, the fields name registers and
integers, and a shift amount is the `shamt` of its instruction). `ExecuteExact` has a simple
invariant, `WordsStay`; the work is in the operators. The value of a register is followed
from the most significant byte down (`Tops`), as `bytesToBigInt` does, and a loop with a
carry becomes a chain (`Chain`): if each byte with its carry out is what goes in with the
carry in, the value of the result is that of the operands, but for the last carry times
2^64. From it

- `AddIsSum`, `SubtractIsDifference`: the carry and borrow loops are the sum and difference
  modulo 2^64;
- `ShiftLeft`, `ShiftRight`, `ShiftArithmetic`: whole bytes move (`UpValue`, `DownValue`), then
  each byte takes bits of its neighbour, which are the carry; the arithmetic shift adds the
  ones that `OnesValue` counts;
- `BitwiseIsManual`: the operators act on the bits of the value (`BytesBitwiseIs`), and `|` and
  `^` are sums less what `&` counts;
- `CompareIsOrder`, `CompareIsSignedOrder`: the most significant byte that differs orders the
  values;
- `SignExtend`, `FromInteger`: the conversions;
- `QuotientTruncates`: quotient and remainder are those rounded towards zero, in the cases
  of zero, of minus one and of the quotient that does not fit too.

One lemma per group of handlers (`PlainRight` to `CombiningRight`) composes them with what
the instruction does to `rd`, the program counter and memory.

**LR/SC monitor** (`ReservationProofs`: any harts, RAM, line size,
values, workloads; `ReservationAssumption`, of which the part a reader should note is that
no device shares a reservation line with RAM). `Strong` adds to `IInv`

- `Locals`: an instruction in progress passed its checks and is where its kind goes; what
  an LR has read is still in memory when it arms its slot; a plain store has written
  exactly the units it has not left;
- `SlotsFit`: a valid slot lies in RAM, alone on its line, and unwritten since its LR,
  except that the write of an SC or AMO is still to invalidate it, and no store that has
  invalidated overlaps a slot while it writes;
- `ResultsFit`: an LR, SC or AMO in progress has its result exactly when it has taken place.

`OverlapMeansUnit` turns the interval arithmetic of `rangesOverlap` into "covers a unit of
the line"; the rest is one lemma per conjunct. `MonitorRefinesLrSc` shows that an
SC or AMO takes place when it writes, its invalidation still to come, a plain store
when it invalidates, its bytes still to come, and an LR when it arms its slot; and that each
does so once, with the operand it was begun with: an AMO whose compare-exchange failed has
changed nothing, and adds to the value it finds the next time.

**Life cycle** (`LifecycleProofs`: any number of waiting bytes). `OutcomeTruthful` needs that
before the start there is nothing to stop (`Unstarted`), that a worker is terminated only
after a stop (`StopFirst`), that the host hears of every failure (`CrashHeard`) and of
nothing that did not happen (`EventsCaused`), and that each promise is truthful by itself
(`LifetimeTruthful`). `RequestKept` needs that the hart publishes requests only
(`LevelHeld`).

**Induction** (`AddressProofs`). The induction theorems of the library take the property as
an operator, which the provers cannot instantiate. `LeastNatural`, from the library's
well-foundedness of `<`, gives a nonempty set of naturals its least element; from it follow
`Induction` and `InductionTo` with the *set* where the property holds in place of the
property, and `Recursion`: a function given by a value at 0 and a step exists up to any
bound. With it a recursive function of a model (`Power2`, `packedByteLength`, `search` in
`findLastIndex`), which TLA+ defines by `CHOOSE`, can be shown to satisfy its own equation.

**PMP** (`AddressProofs`: any number of entries, any division into registers, any width of
the address registers, any values written, any accesses; `PmpAssumption`). `PmpTypes`, the
invariant: a configuration is one, an address is below `2^PmpAddressBits`. `DecisionExact` is
the algebra on top of it. `TrailingOnes` says what the loop's count is: the one `k` whose low
`k + 1` bits read a zero above `k` ones. So (`NapotRange`) the members of a NAPOT entry, which
the manual gives by a division, are an aligned interval of `2^(k+3)` bytes; for TOR and NA4
the interval is there already. `OverlapIsSharedByte` and `CoverIsEveryByte` turn the code's two
comparisons into statements about the bytes of an access, and the lowest entry is the same
on both sides; `GrantsWhatIsNeeded` compares the permissions. `LockHolds` has one lemma per kind of write, and `RangeDepends`, what the
range of an entry depends on.

**Memory map** (`AddressProofs`: any layouts, alignment, address space and store sources;
`MemoryAssumption`, of which the parts a reader should note are that no window is empty and
that RAM's slab backs its window. `createMemory` itself takes an empty window, behind which
the search would miss the window that encloses it; `createEmulator` passes none, since the
devices' lengths are constants and the reset PC must be in RAM, and gives RAM a slab as long
as its window). The invariant is `MemoryHolds`: the layout is one of those given, and the
buffer has the length of its packing. On top of it

- `Packed` and `SlabsApart`: the slabs follow each other, aligned and disjoint, by induction
  over the regions; `OverlapShares` and `ThrowsOnOverlap`: the sign tests of `rangesOverlap`
  are a common byte;
- `Sorted`: the order of the sort is strict and total, so the windows can be ranked, and the
  ranks are the indices;
- `Bisection`: where the items at or below an address come first, `findLastIndex` returns the
  last of them. It is proved from the recursion's own equation, that the boundary stays
  between `low` and `high`;
- `Resolves`, `MappedIsOneWindow`: since the windows of an accepted layout are apart, the last
  window at or below an address is the only one that can have it;
- `StoreTargets`, `RamLoadsBack`: the host bytes of a store are distinct and inside RAM's slab.

They give `MapExact` and `StoreExact`, the latter for the arguments of each call, since
`MemoryNext` records them.

Every safety invariant, action property and refinement that a run checks is a theorem, but
for one of `algorithms`. Only model-checked:

- liveness, which needs fairness and `ENABLED`: `WireFollows`, `StopExits`,
  `TimerWireFollows`, `WfiReturns`, `InstructionEnds`, `Halts`;
- `DecodesExactly`: cases over tables of some hundred instructions and their bit fields,
  named by concatenating strings, which the provers do not compute. TLC goes through every
  compressed halfword and a choice of the 32-bit words.

## 5. Not modelled

`PROJECT.json` lists every component with its status. The device tree (`src/fdt.ts`), the
command line, the TUI, the tty helpers and the boot hand-off are construction and I/O:
they run once, or have no state the machine depends on. Within the modelled components
the following is left out, each named in the component's note: `mtval` and `stval`; the
identity CSRs; `msip`; partial-word stores to
the CLINT and the PLIC; the plain-storage registers of the UART. The bytes a fetch loads
are not connected to `MemoryMap`: `Hart` and `Decode` meet at the instruction.

## 6. Plan

What is left, in this order:

1. `mtval` and `stval`, and the general registers of `Alu`, as data of `Hart`.
2. The fetch of `Hart` through `MemoryMap`, with its effects on the devices.
