-------------------------------- MODULE Uart --------------------------------
(***************************************************************************)
(* The 16550 UART shared by the CPU worker and the terminal worker         *)
(* (uart/queues.ts, uart/registers.ts, wake.ts, terminal/run.ts), at the   *)
(* grain of the accesses to shared bytes that the other thread can see.    *)
(*                                                                         *)
(* Loads of bytes that only the loading thread writes are merged with its  *)
(* next step; loads whose result is not used are skipped.  Of the PLIC are *)
(* kept the input level of source 10 and who holds the gateway lock, which *)
(* a thread waits for without giving up its event loop; that a waiter is   *)
(* woken is shown in PlicGateway.                                          *)
(*                                                                         *)
(* The terminal worker is an event loop: a stdin chunk, the stop message   *)
(* and the resumption of the pump are tasks that run to completion, and    *)
(* the pump gives the loop back only when parked on the wake word or when  *)
(* stdout exerts backpressure.                                             *)
(***************************************************************************)
EXTENDS Integers, Sequences

CONSTANTS UART_QUEUE_CAPACITY,  \* ring slots, one of them reserved
          Bytes,                \* byte values that travel
          GuestOps,             \* register accesses the guest makes
          IerStores,            \* values it stores to IER
          StdinBytes            \* bytes stdin may deliver

ASSUME UartAssumption ==
  /\ UART_QUEUE_CAPACITY \in Nat \ {0, 1}
  /\ Bytes # {} /\ StdinBytes \subseteq Bytes
  /\ GuestOps \subseteq {"rbr", "iir", "lsr", "thr", "ier", "lcr", "plic"}
  /\ IerStores \subseteq SUBSET {"ERBFI", "ETBEI"}

VARIABLES rx, tx,     \* rings: [head, tail, data]
          txWake,     \* the TX nonempty level word, 0 or 1
          ier,        \* register byte 1: enabled conditions
          dlab,       \* LCR bit 7
          sticky,     \* the sticky THRE interrupt byte
          plic,       \* input: the input level of source 10; holder: of the gateway lock
          pc,         \* pc["hart"], pc["terminal"]
          loc,        \* per-thread locals
          pump,       \* what the transmit pump of the terminal is doing
          stop,       \* the stop message was handled
          final,      \* the pump is in its last drain pass
          rxOut,      \* the byte the guest took last from RBR
          txOut,      \* the byte the pump took last
          seen,       \* what LSR and IIR told the guest, while still binding
          owed,       \* bytes that were in the TX ring at the stop, not yet taken
          late        \* the level 1 was published over a ring already empty again

rings == <<rx, tx>>
regs  == <<txWake, ier, dlab, sticky, plic>>
host  == <<pump, stop, final, owed, late>>
outs  == <<rxOut, txOut, seen>>
vars  == <<rings, regs, pc, loc, host, outs>>

Threads == {"hart", "terminal"}
Slots   == 0 .. UART_QUEUE_CAPACITY - 1
Enables == {"ERBFI", "ETBEI"}
Gone    == {"exited", "dead"}    \* the terminal worker called process.exit
-----------------------------------------------------------------------------
Succ(i)       == (i + 1) % UART_QUEUE_CAPACITY
IsEmpty(h, t) == h = t

\* Mutated form of IsFull: a ring without the reserved slot.
NeverFull(h, t) == FALSE

IsFull(h, t)  == Succ(t) = h
Length(r)     == (r.tail - r.head + UART_QUEUE_CAPACITY) % UART_QUEUE_CAPACITY

RxReady == ~IsEmpty(rx.head, rx.tail)     \* LSR.DR
Thre    == ~IsFull(tx.head, tx.tail)      \* LSR.THRE

\* readInterruptIdentity of one consistent state.
Identity ==
  IF "ERBFI" \in ier /\ RxReady THEN "RDA"
  ELSE IF "ETBEI" \in ier /\ sticky /\ Thre THEN "THRE"
  ELSE "none"

NoLocals == [ier |-> {}, thre |-> FALSE, id |-> "none", next |-> "idle",
             byte |-> CHOOSE b \in Bytes : TRUE, at |-> 0]

Goto(t, label) == pc' = [pc EXCEPT ![t] = label]
At(t, label)   == pc[t] = label
-----------------------------------------------------------------------------
Init ==
  /\ rx = [head |-> 0, tail |-> 0, data |-> [i \in Slots |-> NoLocals.byte]]
  /\ tx = rx
  /\ txWake = 0
  /\ ier = {}
  /\ dlab = FALSE
  /\ sticky = FALSE
  /\ plic = [input |-> FALSE, holder |-> "none"]
  /\ pc = [t \in Threads |-> IF t = "hart" THEN "idle" ELSE "dequeue"]
  /\ loc = [t \in Threads |-> NoLocals]
  /\ pump = "running"
  /\ stop = FALSE /\ final = FALSE /\ owed = 0 /\ late = FALSE
  /\ rxOut = NoLocals.byte /\ txOut = NoLocals.byte /\ seen = {}

-----------------------------------------------------------------------------
(* readInterruptIdentity and refreshUartIrq, run by either thread.           *)

\* Enter readInterruptIdentity; the thread continues at next with the result.
Identify(t, next) ==
  /\ Goto(t, "idIer")
  /\ loc' = [loc EXCEPT ![t] = [@ EXCEPT !.next = next]]

IdentityIer(t) ==
  /\ At(t, "idIer")
  /\ loc' = [loc EXCEPT ![t].ier = ier, ![t].id = "none"]
  /\ Goto(t, IF ier = {} THEN loc[t].next ELSE "idRx")
  /\ UNCHANGED <<rings, regs, host, outs>>

\* readLineStatus, RX half, and the test that makes RX data outrank THRE.
IdentityRx(t) ==
  /\ At(t, "idRx")
  /\ IF "ERBFI" \in loc[t].ier /\ RxReady
     THEN /\ loc' = [loc EXCEPT ![t].id = "RDA", ![t].ier = {}]
          /\ Goto(t, loc[t].next)
     ELSE /\ loc' = loc
          /\ Goto(t, IF "ETBEI" \in loc[t].ier THEN "idTx" ELSE loc[t].next)
  /\ UNCHANGED <<rings, regs, host, outs>>

\* readLineStatus, TX half.
IdentityTx(t) ==
  /\ At(t, "idTx")
  /\ loc' = [loc EXCEPT ![t].thre = Thre]
  /\ Goto(t, IF Thre THEN "idSticky" ELSE loc[t].next)
  /\ UNCHANGED <<rings, regs, host, outs>>

IdentitySticky(t) ==
  /\ At(t, "idSticky")
  /\ loc' = [loc EXCEPT ![t].id = IF sticky THEN "THRE" ELSE "none"]
  /\ Goto(t, loc[t].next)
  /\ UNCHANGED <<rings, regs, host, outs>>

\* Where a thread goes when its refresh is done.
AfterRefresh(t) ==
  IF t = "hart" THEN "idle" ELSE IF pump = "running" THEN "write" ELSE "loop"

\* acquirePlicGatewayLock: the thread blocks, its event loop with it, while another is inside.
AcquireGateway(t) ==
  /\ At(t, "drive")
  /\ plic.holder = "none"
  /\ plic' = [plic EXCEPT !.holder = t]
  /\ Goto(t, "held")
  /\ UNCHANGED <<rings, txWake, ier, dlab, sticky, loc, host, outs>>

\* setPlicSourcePending(10, identity # none), inside the lock.
DriveIrq(t) ==
  /\ At(t, "held")
  /\ plic' = [plic EXCEPT !.input = (loc[t].id # "none")]
  /\ Goto(t, "release")
  /\ UNCHANGED <<rings, txWake, ier, dlab, sticky, loc, host, outs>>

ReleaseGateway(t) ==
  /\ At(t, "release")
  /\ plic' = [plic EXCEPT !.holder = "none"]
  /\ loc' = [loc EXCEPT ![t] = NoLocals]
  /\ Goto(t, AfterRefresh(t))
  /\ UNCHANGED <<rings, txWake, ier, dlab, sticky, host, outs>>

RefreshStep(t) ==
  \/ IdentityIer(t) \/ IdentityRx(t) \/ IdentityTx(t) \/ IdentitySticky(t)
  \/ AcquireGateway(t) \/ DriveIrq(t) \/ ReleaseGateway(t)

\* The store of 1 into the sticky byte, then the refresh.
SetSticky(t) ==
  /\ At(t, "armed")
  /\ sticky' = TRUE
  /\ Identify(t, "drive")
  /\ UNCHANGED <<rings, txWake, ier, dlab, plic, host, outs>>
-----------------------------------------------------------------------------
(* loadUartRegister                                                          *)

\* RBR with DLAB clear.  With DLAB set the load returns the divisor latch byte
\* and changes nothing.
LoadRbr ==
  /\ "rbr" \in GuestOps /\ At("hart", "idle") /\ ~dlab
  /\ Goto("hart", "pop")
  /\ seen' = seen \ {"DR"}
  /\ UNCHANGED <<rings, regs, loc, host, rxOut, txOut>>

\* popReceive: empty rings give 0, otherwise read the slot, then advance.
PopReceive ==
  /\ At("hart", "pop")
  /\ IF RxReady
     THEN /\ loc' = [loc EXCEPT !["hart"].byte = rx.data[rx.head]]
          /\ Goto("hart", "advance")
     ELSE Identify("hart", "drive")
  /\ UNCHANGED <<rings, regs, host, outs>>

\* Mutated form of AdvanceReceive: the slot is read after the head moved on.
AdvanceReceiveFirst ==
  /\ At("hart", "advance")
  /\ rx' = [rx EXCEPT !.head = Succ(@)]
  /\ rxOut' = rx.data[Succ(rx.head)]
  /\ Identify("hart", "drive")
  /\ UNCHANGED <<tx, regs, host, txOut, seen>>

AdvanceReceive ==
  /\ At("hart", "advance")
  /\ rx' = [rx EXCEPT !.head = Succ(@)]
  /\ rxOut' = loc["hart"].byte
  /\ Identify("hart", "drive")
  /\ UNCHANGED <<tx, regs, host, txOut, seen>>

LoadIir ==
  /\ "iir" \in GuestOps /\ At("hart", "idle")
  /\ Identify("hart", "iir")
  /\ UNCHANGED <<rings, regs, host, outs>>

\* The identity is returned; reading THRE clears the sticky byte and refreshes.
ReturnIir ==
  /\ At("hart", "iir")
  /\ seen' = seen \cup (CASE loc["hart"].id = "RDA"  -> {"DR"}
                         [] loc["hart"].id = "THRE" -> {"THRE"}
                         [] OTHER                   -> {})
  /\ IF loc["hart"].id = "THRE"
     THEN sticky' = FALSE /\ Identify("hart", "drive")
     ELSE /\ Goto("hart", "idle")
          /\ loc' = [loc EXCEPT !["hart"] = NoLocals]
          /\ UNCHANGED sticky
  /\ UNCHANGED <<rings, txWake, ier, dlab, plic, host, rxOut, txOut>>

\* LSR: the RX half, then the TX half.
LoadLsr ==
  /\ "lsr" \in GuestOps /\ At("hart", "idle")
  /\ seen' = IF RxReady THEN {"DR"} ELSE {}
  /\ Goto("hart", "lsr")
  /\ UNCHANGED <<rings, regs, loc, host, rxOut, txOut>>

\* Mutated form of LoadLsrTx: THRE forgets the reserved slot.
LoadLsrRoomy ==
  /\ At("hart", "lsr")
  /\ seen' = seen \cup {"THRE"}
  /\ Goto("hart", "idle")
  /\ UNCHANGED <<rings, regs, loc, host, rxOut, txOut>>

LoadLsrTx ==
  /\ At("hart", "lsr")
  /\ seen' = IF Thre THEN seen \cup {"THRE"} ELSE seen
  /\ Goto("hart", "idle")
  /\ UNCHANGED <<rings, regs, loc, host, rxOut, txOut>>
-----------------------------------------------------------------------------
(* storeUartRegister                                                         *)

\* THR with DLAB clear (with DLAB set, the divisor latch byte: no effect here).
StoreThr(b) ==
  /\ "thr" \in GuestOps /\ At("hart", "idle") /\ ~dlab
  /\ sticky' = FALSE
  /\ loc' = [loc EXCEPT !["hart"].byte = b]
  /\ Goto("hart", "push")
  /\ seen' = seen \ {"THRE"}
  /\ UNCHANGED <<rings, txWake, ier, dlab, plic, host, rxOut, txOut>>

\* pushTransmit: dropped when full, otherwise slot, tail, level, notify.
PushTransmit ==
  /\ At("hart", "push")
  /\ IF IsFull(tx.head, tx.tail)
     THEN Identify("hart", "drive")
     ELSE Goto("hart", "slot") /\ UNCHANGED loc
  /\ UNCHANGED <<rings, regs, host, outs>>

WriteSlot ==
  /\ At("hart", "slot")
  /\ tx' = [tx EXCEPT !.data[tx.tail] = loc["hart"].byte]
  /\ Goto("hart", "tail")
  /\ UNCHANGED <<rx, regs, loc, host, outs>>

StoreTail ==
  /\ At("hart", "tail")
  /\ tx' = [tx EXCEPT !.tail = Succ(@)]
  /\ Goto("hart", "publish")
  /\ UNCHANGED <<rx, regs, loc, host, outs>>

\* publishWakeLevel(1): the exchange; notify only when the level changed.
PublishNonempty ==
  /\ At("hart", "publish")
  /\ txWake' = 1
  /\ late' = (late \/ IsEmpty(tx.head, tx.tail))
  /\ IF txWake = 1 THEN Identify("hart", "drive") ELSE Goto("hart", "notify") /\ UNCHANGED loc
  /\ UNCHANGED <<rings, ier, dlab, sticky, plic, pump, stop, final, owed, outs>>

NotifyPump ==
  /\ At("hart", "notify")
  /\ pump' = IF pump = "parked" THEN "woken" ELSE pump
  /\ Identify("hart", "drive")
  /\ UNCHANGED <<rings, regs, stop, final, owed, late, outs>>

\* Register 1.  With DLAB set the same byte takes the divisor latch, and
\* neither the sticky byte nor the interrupt is reconsidered.
StoreIer(S) ==
  /\ "ier" \in GuestOps /\ At("hart", "idle")
  /\ ier' = S
  /\ Goto("hart", IF dlab THEN "idle" ELSE "arm")
  /\ UNCHANGED <<rings, txWake, dlab, sticky, plic, loc, host, outs>>

\* armThreIrqIfEnabledAndReady.
ArmIfReady ==
  /\ At("hart", "arm")
  /\ IF "ETBEI" \in ier /\ Thre
     THEN Goto("hart", "armed") /\ UNCHANGED loc
     ELSE Identify("hart", "drive")
  /\ UNCHANGED <<rings, regs, host, outs>>

StoreLcr(d) ==
  /\ "lcr" \in GuestOps /\ At("hart", "idle")
  /\ dlab' = d
  /\ UNCHANGED <<rings, txWake, ier, sticky, plic, pc, loc, host, outs>>

\* A guest access to the PLIC (claim, complete, enable, ...) is a critical section of its own.
AccessPlic ==
  /\ "plic" \in GuestOps /\ At("hart", "idle")
  /\ plic.holder = "none"
  /\ plic' = [plic EXCEPT !.holder = "hart"]
  /\ Goto("hart", "release")
  /\ UNCHANGED <<rings, txWake, ier, dlab, sticky, loc, host, outs>>

\* Emulator.stop terminates the CPU worker, between any two accesses; the lock it may hold
\* stays held.
TerminateHart ==
  /\ ~At("hart", "terminated")
  /\ Goto("hart", "terminated")
  /\ UNCHANGED <<rings, regs, loc, host, outs>>

HartStarts ==
  \/ LoadRbr \/ LoadIir \/ LoadLsr \/ AccessPlic
  \/ \E b \in Bytes : StoreThr(b)
  \/ \E S \in IerStores : StoreIer(S)
  \/ \E d \in BOOLEAN : StoreLcr(d)

HartProceeds ==
  \/ PopReceive \/ AdvanceReceive \/ ReturnIir \/ LoadLsrTx
  \/ PushTransmit \/ WriteSlot \/ StoreTail \/ PublishNonempty \/ NotifyPump
  \/ ArmIfReady \/ SetSticky("hart") \/ RefreshStep("hart")
-----------------------------------------------------------------------------
(* Terminal worker: event loop                                               *)

\* One byte of a stdin chunk reaches pushUartReceive.
StdinByte(b) ==
  /\ At("terminal", "loop") /\ pump \notin Gone
  /\ loc' = [loc EXCEPT !["terminal"].byte = b]
  /\ Goto("terminal", "enqueue")
  /\ UNCHANGED <<rings, regs, host, outs>>

\* Mutated form of EnqueueReceive: a full ring is overwritten.
EnqueueUnchecked ==
  /\ At("terminal", "enqueue")
  /\ Goto("terminal", "rxTail")
  /\ rx' = [rx EXCEPT !.data[rx.tail] = loc["terminal"].byte]
  /\ UNCHANGED <<tx, loc, regs, host, outs>>

\* enqueueReceive: dropped, without a refresh, when full.
EnqueueReceive ==
  /\ At("terminal", "enqueue")
  /\ IF IsFull(rx.head, rx.tail)
     THEN /\ Goto("terminal", "loop")
          /\ loc' = [loc EXCEPT !["terminal"] = NoLocals]
          /\ UNCHANGED rx
     ELSE /\ Goto("terminal", "rxTail")
          /\ rx' = [rx EXCEPT !.data[rx.tail] = loc["terminal"].byte]
          /\ UNCHANGED loc
  /\ UNCHANGED <<tx, regs, host, outs>>

StoreReceiveTail ==
  /\ At("terminal", "rxTail")
  /\ rx' = [rx EXCEPT !.tail = Succ(@)]
  /\ Identify("terminal", "drive")
  /\ UNCHANGED <<tx, regs, host, outs>>

\* Mutated form of StopMessage: the wait is not raced against the stop.
StopUnraced ==
  /\ At("terminal", "loop") /\ pump \notin Gone /\ ~stop
  /\ stop' = TRUE
  /\ owed' = Length(tx)
  /\ UNCHANGED <<rings, regs, pc, loc, pump, final, late, outs>>

\* The host asks for a graceful stop; it wins the race against the wake word.
StopMessage ==
  /\ At("terminal", "loop") /\ pump \notin Gone /\ ~stop
  /\ stop' = TRUE
  /\ owed' = Length(tx)
  /\ pump' = IF pump = "parked" THEN "woken" ELSE pump
  /\ UNCHANGED <<rings, regs, pc, loc, final, late, outs>>

\* drainOrClosed: stdout drains, or the stream dies and the worker exits.
Backpressured == At("terminal", "loop") /\ pump = "blocked"

StdoutDrains ==
  /\ Backpressured
  /\ pump' = "drained"
  /\ UNCHANGED <<rings, regs, pc, loc, stop, final, owed, late, outs>>

StdoutDies ==
  /\ Backpressured
  /\ pump' = "dead"
  /\ UNCHANGED <<rings, regs, pc, loc, stop, final, owed, late, outs>>

\* After the last pass: stdout.end(), finish or close, process.exit.  Stdin is
\* still listened to until then.
FinishStdout ==
  /\ At("terminal", "loop") /\ pump = "ending"
  /\ pump' = "exited"
  /\ UNCHANGED <<rings, regs, pc, loc, stop, final, owed, late, outs>>

\* Mutated form of ResumePump: a stop skips the last drain pass.
ResumePumpHasty ==
  /\ At("terminal", "loop")
  /\ \/ pump = "drained" /\ Goto("terminal", "dequeue") /\ pump' = "running" /\ UNCHANGED final
     \/ pump = "woken" /\ ~stop /\ Goto("terminal", "wait") /\ pump' = "running" /\ UNCHANGED final
     \/ pump = "woken" /\ stop /\ pump' = "ending" /\ UNCHANGED <<pc, final>>
  /\ UNCHANGED <<rings, regs, loc, stop, owed, late, outs>>

\* The pump continues: its drain pass, its wait, or after a stop the last pass.
ResumePump ==
  /\ At("terminal", "loop")
  /\ \/ pump = "drained" /\ Goto("terminal", "dequeue") /\ UNCHANGED final
     \/ pump = "woken" /\ ~stop /\ Goto("terminal", "wait") /\ UNCHANGED final
     \/ pump = "woken" /\ stop /\ Goto("terminal", "dequeue") /\ final' = TRUE
  /\ pump' = "running"
  /\ UNCHANGED <<rings, regs, loc, stop, owed, late, outs>>
-----------------------------------------------------------------------------
(* Terminal worker: drainTransmitRing and waitUartTransmit                   *)

\* dequeueTransmit: nothing to take, or remember the tail and read the slot.
Dequeue ==
  /\ At("terminal", "dequeue")
  /\ IF IsEmpty(tx.head, tx.tail)
     THEN /\ Goto("terminal", IF final THEN "loop" ELSE "wait")
          /\ pump' = IF final THEN "ending" ELSE pump
          /\ UNCHANGED loc
     ELSE /\ loc' = [loc EXCEPT !["terminal"].at = tx.tail,
                                !["terminal"].byte = tx.data[tx.head]]
          /\ Goto("terminal", "head")
          /\ UNCHANGED pump
  /\ UNCHANGED <<rings, regs, stop, final, owed, late, outs>>

StoreHead ==
  /\ At("terminal", "head")
  /\ tx' = [tx EXCEPT !.head = Succ(@)]
  /\ txOut' = loc["terminal"].byte
  /\ owed' = IF owed > 0 THEN owed - 1 ELSE 0
  /\ loc' = [loc EXCEPT !["terminal"].thre = ~IsFull(tx.head, loc["terminal"].at)]
  /\ Goto("terminal", "level")
  /\ UNCHANGED <<rx, regs, pump, stop, final, late, rxOut, seen>>

\* publishWakeLevel with the tail loaded before the pop.  Nobody but this
\* thread waits on the word, so the notify has no one to wake.
PublishRest ==
  /\ At("terminal", "level")
  /\ txWake' = IF tx.head # loc["terminal"].at THEN 1 ELSE 0
  /\ Goto("terminal", "rise")
  /\ late' = FALSE
  /\ UNCHANGED <<rings, ier, dlab, sticky, plic, loc, pump, stop, final, owed, outs>>

\* armThreIrqOnRisingEdge: from the remembered tail, not the present one.
RisingEdge ==
  /\ At("terminal", "rise")
  /\ IF ~loc["terminal"].thre /\ "ETBEI" \in ier
     THEN Goto("terminal", "armed") /\ UNCHANGED loc
     ELSE Identify("terminal", "drive")
  /\ UNCHANGED <<rings, regs, host, outs>>

\* stdout.write: accepted, with or without backpressure.
WriteStdout ==
  /\ At("terminal", "write")
  /\ \/ Goto("terminal", "dequeue") /\ UNCHANGED pump
     \/ Goto("terminal", "loop") /\ pump' = "blocked"
  /\ UNCHANGED <<rings, regs, loc, stop, final, owed, late, outs>>

\* waitUartTransmit: check, snapshot the level, check again, waitAsync.
CheckPending ==
  /\ At("terminal", "wait")
  /\ Goto("terminal", IF IsEmpty(tx.head, tx.tail) THEN "snapshot" ELSE "race")
  /\ UNCHANGED <<rings, regs, loc, host, outs>>

SnapshotLevel ==
  /\ At("terminal", "snapshot")
  /\ loc' = [loc EXCEPT !["terminal"].at = txWake]
  /\ Goto("terminal", "recheck")
  /\ UNCHANGED <<rings, regs, host, outs>>

\* Mutated form of RecheckPending: the second look at the ring is left out.
RecheckNothing ==
  /\ At("terminal", "recheck")
  /\ Goto("terminal", "park")
  /\ UNCHANGED <<rings, regs, loc, host, outs>>

RecheckPending ==
  /\ At("terminal", "recheck")
  /\ Goto("terminal", IF IsEmpty(tx.head, tx.tail) THEN "park" ELSE "race")
  /\ loc' = IF IsEmpty(tx.head, tx.tail) THEN loc ELSE [loc EXCEPT !["terminal"] = NoLocals]
  /\ UNCHANGED <<rings, regs, host, outs>>

\* Atomics.waitAsync compares and enqueues in one step.  A stop that was
\* requested during backpressure wins the race at once.
WaitAsync ==
  /\ At("terminal", "park")
  /\ IF txWake # loc["terminal"].at
     THEN Goto("terminal", IF stop THEN "race" ELSE "wait") /\ UNCHANGED pump
     ELSE IF stop
     THEN Goto("terminal", "race") /\ UNCHANGED pump
     ELSE Goto("terminal", "loop") /\ pump' = "parked"
  /\ loc' = [loc EXCEPT !["terminal"] = NoLocals]
  /\ UNCHANGED <<rings, regs, stop, final, owed, late, outs>>

\* After Promise.race: the last pass when a stop was requested.
AfterRace ==
  /\ At("terminal", "race")
  /\ final' = stop
  /\ Goto("terminal", "dequeue")
  /\ UNCHANGED <<rings, regs, loc, pump, stop, owed, late, outs>>

TerminalProceeds ==
  \/ EnqueueReceive \/ StoreReceiveTail \/ ResumePump
  \/ Dequeue \/ StoreHead \/ PublishRest \/ RisingEdge \/ WriteStdout
  \/ CheckPending \/ SnapshotLevel \/ RecheckPending \/ WaitAsync \/ AfterRace
  \/ SetSticky("terminal") \/ RefreshStep("terminal")

Environment ==
  \/ \E b \in StdinBytes : StdinByte(b)
  \/ StopMessage \/ StdoutDrains \/ StdoutDies \/ FinishStdout \/ TerminateHart

Next == HartStarts \/ HartProceeds \/ TerminalProceeds \/ Environment

Spec == Init /\ [][Next]_vars

(***************************************************************************)
(* Both workers are scheduled and an access once begun completes; a        *)
(* backpressured stdout drains or dies, an ended one finishes; a stop also *)
(* terminates the CPU worker (Emulator.stop).  The guest owes nothing,     *)
(* stdin owes nothing, and the stop need never come.                       *)
(***************************************************************************)
FairSpec ==
  /\ Spec
  /\ WF_vars(HartProceeds)
  /\ WF_vars(TerminalProceeds)
  /\ WF_vars(StdoutDrains \/ StdoutDies)
  /\ WF_vars(FinishStdout)
  /\ WF_vars(stop /\ TerminateHart)
-----------------------------------------------------------------------------
(* Properties                                                                *)

Ring    == [head : Slots, tail : Slots, data : [Slots -> Bytes]]
Gateway == [input : BOOLEAN, holder : Threads \cup {"none"}]

HartLabels ==
  {"idle", "idIer", "idRx", "idTx", "idSticky", "drive", "held", "release", "armed", "pop",
   "advance", "iir", "lsr", "push", "slot", "tail", "publish", "notify", "arm", "terminated"}

TerminalLabels ==
  {"loop", "idIer", "idRx", "idTx", "idSticky", "drive", "held", "release", "armed",
   "enqueue", "rxTail", "dequeue", "head", "level", "rise", "write", "wait",
   "snapshot", "recheck", "park", "race"}

\* The shape of the state: ring indices stay in range, the wake word is a level,
\* and every thread is at an access that exists.
TypeOK ==
  /\ rx \in Ring /\ tx \in Ring
  /\ txWake \in 0 .. 1
  /\ ier \subseteq Enables /\ dlab \in BOOLEAN /\ sticky \in BOOLEAN
  /\ plic \in Gateway
  /\ pc["hart"] \in HartLabels /\ pc["terminal"] \in TerminalLabels
  /\ \A t \in Threads :
       loc[t] \in [ier : SUBSET Enables, thre : BOOLEAN,
                   id : {"none", "RDA", "THRE"}, next : {"idle", "drive", "iir"},
                   byte : Bytes, at : Slots \cup {0, 1}]
  /\ pump \in {"running", "blocked", "drained", "parked", "woken", "ending"} \cup Gone
  /\ stop \in BOOLEAN /\ final \in BOOLEAN
  /\ owed \in 0 .. UART_QUEUE_CAPACITY - 1 /\ late \in BOOLEAN
  /\ rxOut \in Bytes /\ txOut \in Bytes
  /\ seen \subseteq {"DR", "THRE"}

Contents(ring) ==
  [k \in 1 .. Length(ring) |-> ring.data[(ring.head + k - 1) % UART_QUEUE_CAPACITY]]

RxQueue == INSTANCE Fifo WITH queue <- Contents(rx), taken <- rxOut,
                              Room <- UART_QUEUE_CAPACITY - 1
TxQueue == INSTANCE Fifo WITH queue <- Contents(tx), taken <- txOut,
                              Room <- UART_QUEUE_CAPACITY - 1

\* The unlocked head, tail and data bytes of the RX ring are a bounded FIFO
\* between the terminal and the guest: no byte is torn, repeated or overtaken.
RxIsFifo == RxQueue!Spec

\* The same of the TX ring between the guest and the pump.
TxIsFifo == TxQueue!Spec

\* What LSR or IIR said still holds when the guest acts on it: after DR or
\* the RDA identity the next RBR load finds a byte, after THRE or its identity the
\* next THR store is not dropped, whatever the terminal did in between.
LineStatusKept ==
  /\ "DR" \in seen => RxReady
  /\ "THRE" \in seen => Thre

\* The pump sleeps over a nonempty ring only while the push that wakes it is under
\* way: the two looks at the ring around the snapshot of the level leave no gap
\* (waitUartTransmit, queues.ts:71).  The one exception is a late publish, which
\* NoByteStranded is about: this says there is no other.
SleepsOnlyWhenEmpty ==
  (pump = "parked" /\ ~late /\ ~At("hart", "terminated"))
     => (IsEmpty(tx.head, tx.tail) \/ pc["hart"] \in {"publish", "notify"})

\* A graceful stop flushes: when the worker ends stdout, every byte the ring held
\* when the stop message arrived has been popped (pumpTransmit, run.ts:48).
StopFlushes == pump \in {"ending", "exited"} => owed = 0

\* The CPU worker was terminated inside the gateway lock and the terminal worker wants it:
\* acquirePlicGatewayLock (gateway.ts:78) then waits for ever.
Abandoned ==
  At("hart", "terminated") /\ plic.holder = "hart" /\ At("terminal", "drive")

\* Once the stop message is handled the worker exits, however the stop fell among
\* parking, waking, draining and backpressure, and wherever the CPU worker was
\* terminated, in the middle of a push or of a claim; but for a worker that was terminated
\* inside the gateway lock, which nobody releases.  (A terminal worker that blocks on
\* that lock before it handles the message never does; Lifecycle has the timer that
\* ends it.)
StopExits == stop ~> (pump \in Gone \/ Abandoned)

\* README "Guest THR empty->nonempty notifies a separate UART TX wake word": a
\* pump asleep over a nonempty ring is one whose wake-up is under way.
NoByteStranded ==
  (pump = "parked" /\ ~IsEmpty(tx.head, tx.tail) /\ ~At("hart", "terminated"))
     => pc["hart"] \in {"publish", "notify"}

AtRest == At("hart", "idle") /\ pc["terminal"] = "loop"

\* registers.ts:118: source 10 is driven from IER and (RX ready or sticky THRE).
\* Between accesses of both threads the PLIC input should be what the UART says.
IrqFollows == AtRest => plic.input = (Identity # "none")
=============================================================================
