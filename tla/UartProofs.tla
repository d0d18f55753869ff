----------------------------- MODULE UartProofs -----------------------------
(* Proofs about Uart: the rings are FIFOs, a status once read is kept, the    *)
(* pump does not sleep over bytes, and a stop flushes.                        *)
EXTENDS Uart, SequenceTheorems, TLAPS

Locals == [ier : SUBSET Enables, thre : BOOLEAN,
           id : {"none", "RDA", "THRE"}, next : {"idle", "drive", "iir"},
           byte : Bytes, at : Slots \cup {0, 1}]

Identifying == {"idIer", "idRx", "idTx", "idSticky"}

\* Where the pump of the terminal worker is at work.
PumpLabels == {"dequeue", "head", "level", "rise", "write",
               "wait", "snapshot", "recheck", "park", "race"}

\* The types, with what TypeOK leaves open: both threads have a place and locals,
\* and a thread that reads the interrupt identity continues at a place it has.
Shape ==
  /\ TypeOK
  /\ pc \in [Threads -> HartLabels \cup TerminalLabels]
  /\ loc \in [Threads -> Locals]
  /\ pc["hart"] \in Identifying => loc["hart"].next \in {"drive", "iir"}
  /\ pc["terminal"] \in Identifying => loc["terminal"].next = "drive"

\* The event loop runs only while the pump has given it back.
Control ==
  /\ pc["terminal"] \in PumpLabels => pump = "running"
  /\ pc["terminal"] \in {"loop", "enqueue", "rxTail"} => pump # "running"

\* Who has tested a ring may rely on the test: the other thread only adds to what
\* a consumer sees, and only takes from what a producer sees.
TestsHold ==
  /\ pc["hart"] = "advance" => RxReady /\ loc["hart"].byte = rx.data[rx.head]
  /\ pc["terminal"] = "rxTail" => ~IsFull(rx.head, rx.tail)
  /\ pc["hart"] \in {"slot", "tail"} => Thre
  /\ pc["terminal"] = "head" => /\ ~IsEmpty(tx.head, tx.tail)
                                /\ loc["terminal"].byte = tx.data[tx.head]

\* A promise to the guest, given or about to be given, is kept until it is used.
PromisesHold ==
  /\ LineStatusKept
  /\ pc["hart"] = "iir" /\ loc["hart"].id = "RDA" => RxReady
  /\ pc["hart"] = "iir" /\ loc["hart"].id = "THRE" => Thre
  /\ pc["hart"] \in {"idRx", "idTx"} => loc["hart"].id = "none"
  /\ pc["hart"] = "idSticky" => Thre
  /\ pc["hart"] \in {"pop", "advance"} => "DR" \notin seen
  /\ pc["hart"] \in {"push", "slot", "tail"} => "THRE" \notin seen

\* Bytes from slot h up to slot t.
Distance(h, t) == IF t >= h THEN t - h ELSE t - h + UART_QUEUE_CAPACITY

\* The level word: 1 over an empty ring comes from a late publish; the tail that the
\* pump remembers is not beyond the present one; and a pump about to park, or parked,
\* over a nonempty ring is about to be told.
WakeHolds ==
  /\ pc["terminal"] = "head" =>
       /\ loc["terminal"].at \in Slots
       /\ 1 <= Distance(tx.head, loc["terminal"].at)
       /\ Distance(tx.head, loc["terminal"].at) <= Distance(tx.head, tx.tail)
  /\ pc["terminal"] = "level" =>
       /\ loc["terminal"].at \in Slots
       /\ IsEmpty(tx.head, tx.tail) => tx.head = loc["terminal"].at
       /\ Distance(tx.head, loc["terminal"].at) <= Distance(tx.head, tx.tail)
  /\ IsEmpty(tx.head, tx.tail) /\ pc["terminal"] # "level" /\ txWake = 1 => late
  /\ pc["terminal"] = "recheck" /\ loc["terminal"].at = 1 /\ ~late => ~IsEmpty(tx.head,
     tx.tail)
  /\ pc["terminal"] = "park" /\ loc["terminal"].at = 1 => late
  /\ (/\ pc["terminal"] = "park" /\ ~late /\ txWake = loc["terminal"].at
      /\ ~IsEmpty(tx.head, tx.tail)) => pc["hart"] \in {"publish", "terminated"}
  /\ (pump = "parked" /\ ~late /\ pc["hart"] \notin {"notify", "terminated"}) => txWake = 0
  /\ SleepsOnlyWhenEmpty

\* The bytes owed are the oldest of the ring, and nothing ends without a stop.
OwedHolds ==
  /\ owed <= Distance(tx.head, tx.tail)
  /\ ~stop => owed = 0
  /\ final => stop
  /\ pump \in {"ending", "exited"} => stop
  /\ StopFlushes

IInv == Shape /\ Control /\ TestsHold /\ PromisesHold /\ WakeHolds /\ OwedHolds
-----------------------------------------------------------------------------
(* Index arithmetic.                                                         *)

\* One subtraction is enough to reduce a sum of two indices.
LEMMA Wrap ==
  ASSUME NEW n \in Nat \ {0}, NEW x \in 0 .. 2 * n - 1
  PROVE  x % n = IF x < n THEN x ELSE x - n
  OBVIOUS

\* The successor of an index wraps at the end only.
LEMMA NextSlot ==
  ASSUME NEW n \in Nat \ {0}, NEW i \in 0 .. n - 1
  PROVE  (i + 1) % n = IF i = n - 1 THEN 0 ELSE i + 1
  OBVIOUS

\* Succ stays in the ring.
LEMMA SuccWraps ==
  ASSUME NEW i \in Slots
  PROVE  Succ(i) \in Slots /\ Succ(i) = IF i = UART_QUEUE_CAPACITY - 1 THEN 0 ELSE i + 1
<1>1. UART_QUEUE_CAPACITY \in Nat \ {0} /\ i \in 0 .. UART_QUEUE_CAPACITY - 1
  BY UartAssumption DEF Slots
<1>2. Succ(i) = IF i = UART_QUEUE_CAPACITY - 1 THEN 0 ELSE i + 1
  BY <1>1, NextSlot DEF Succ
<1>3. QED
  BY <1>1, <1>2 DEF Slots

\* Distance is what the two tests of a ring measure, and a step of the tail or the
\* head that its test allows changes it by one.
LEMMA RingArithmetic ==
  ASSUME NEW h \in Slots, NEW t \in Slots
  PROVE  /\ Distance(h, t) \in 0 .. UART_QUEUE_CAPACITY - 1
         /\ Distance(h, t) = 0 <=> IsEmpty(h, t)
         /\ Distance(h, t) = UART_QUEUE_CAPACITY - 1 <=> IsFull(h, t)
         /\ ~IsEmpty(h, t) => Distance(Succ(h), t) = Distance(h, t) - 1
         /\ ~IsFull(h, t) => Distance(h, Succ(t)) = Distance(h, t) + 1
BY SuccWraps, UartAssumption DEF Slots, Distance, IsEmpty, IsFull

\* Length needs no remainder.
LEMMA LengthIsDistance ==
  ASSUME NEW r \in Ring PROVE Length(r) = Distance(r.head, r.tail)
<1> DEFINE N == UART_QUEUE_CAPACITY
<1>1. N \in Nat \ {0, 1} /\ r.head \in 0 .. N - 1 /\ r.tail \in 0 .. N - 1
  BY UartAssumption DEF Slots, Ring
<1>2. r.tail - r.head + N \in 0 .. 2 * N - 1
  BY <1>1
<1>3. QED
  BY <1>1, <1>2, Wrap DEF Length, Distance

\* Fresh locals are well-typed.
LEMMA NoLocalsTyped == NoLocals \in Locals
<1>1. (CHOOSE b \in Bytes : TRUE) \in Bytes
  BY UartAssumption
<1>2. QED
  BY <1>1 DEF NoLocals, Locals
-----------------------------------------------------------------------------
(* One step per action for each part of the invariant.                       *)

\* Every step keeps the types.  A stale index would leave its range only if it were
\* advanced by anything but Succ.
LEMMA ShapeKept ==
  ASSUME Shape, Control, TestsHold, [Next]_vars
  PROVE  Shape'
<1> USE DEF Gone, Shape, TypeOK, Locals, Ring, Threads, HartLabels, TerminalLabels, Identifying
<1>1. ASSUME NEW t \in Threads, IdentityIer(t) PROVE Shape'
  BY <1>1 DEF IdentityIer, At, Goto, rings, regs, host, outs
<1>2. ASSUME NEW t \in Threads, IdentityRx(t) PROVE Shape'
  BY <1>2 DEF IdentityRx, At, Goto, rings, regs, host, outs
<1>3. ASSUME NEW t \in Threads, IdentityTx(t) PROVE Shape'
  <2>1. Thre \in BOOLEAN
    BY DEF Thre, IsFull
  <2>2. QED
    BY <1>3, <2>1 DEF IdentityTx, At, Goto, rings, regs, host, outs
<1>4. ASSUME NEW t \in Threads, IdentitySticky(t) PROVE Shape'
  BY <1>4 DEF IdentitySticky, At, Goto, rings, regs, host, outs
<1>acquire. ASSUME NEW t \in Threads, AcquireGateway(t) PROVE Shape'
  BY <1>acquire DEF AcquireGateway, Gateway, At, Goto, rings, host, outs
<1>drive. ASSUME NEW t \in Threads, DriveIrq(t) PROVE Shape'
  <2>1. plic' \in Gateway
    <3>1. plic' = [plic EXCEPT !.input = (loc[t].id # "none")]
      BY <1>drive DEF DriveIrq
    <3>2. (loc[t].id # "none") \in BOOLEAN
      OBVIOUS
    <3>3. QED
      BY <3>1, <3>2 DEF Gateway
  <2>2. /\ UNCHANGED <<rings, txWake, ier, dlab, sticky, loc, host, outs>>
        /\ pc' = [pc EXCEPT ![t] = "release"]
    BY <1>drive DEF DriveIrq, Goto
  <2>3. QED
    BY <2>1, <2>2 DEF rings, host, outs
<1>5. ASSUME NEW t \in Threads, ReleaseGateway(t) PROVE Shape'
  BY <1>5 DEF ReleaseGateway, Gateway, AfterRefresh, At, Goto, NoLocals, rings, host, outs
<1>plic. ASSUME AccessPlic PROVE Shape'
  BY <1>plic DEF AccessPlic, Gateway, At, Goto, rings, host, outs
<1>6. ASSUME NEW t \in Threads, SetSticky(t) PROVE Shape'
  BY <1>6 DEF SetSticky, Identify, At, Goto, rings, host, outs
<1>7. ASSUME LoadRbr PROVE Shape'
  BY <1>7 DEF LoadRbr, At, Goto, rings, regs, host
<1>8. ASSUME LoadIir PROVE Shape'
  BY <1>8 DEF LoadIir, Identify, At, Goto, rings, regs, host, outs
<1>9. ASSUME LoadLsr PROVE Shape'
  BY <1>9 DEF LoadLsr, At, Goto, rings, regs, host
<1>10. ASSUME NEW b \in Bytes, StoreThr(b) PROVE Shape'
  BY <1>10 DEF StoreThr, At, Goto, rings, host
<1>11. ASSUME NEW S \in IerStores, StoreIer(S) PROVE Shape'
  BY <1>11, UartAssumption DEF StoreIer, At, Goto, rings, host, outs, Enables
<1>12. ASSUME NEW d \in BOOLEAN, StoreLcr(d) PROVE Shape'
  BY <1>12 DEF StoreLcr, At, rings, host, outs
<1>13. ASSUME PopReceive PROVE Shape'
  BY <1>13 DEF PopReceive, Identify, At, Goto, rings, regs, host, outs
<1>14. ASSUME AdvanceReceive PROVE Shape'
  BY <1>14, SuccWraps DEF AdvanceReceive, Identify, At, Goto, regs, host
<1>15. ASSUME ReturnIir PROVE Shape'
  <2>1. seen' \subseteq {"DR", "THRE"}
    BY <1>15 DEF ReturnIir
  <2>2. CASE loc["hart"].id = "THRE"
    <3>1. /\ loc' = [loc EXCEPT !["hart"] = [@ EXCEPT !.next = "drive"]]
          /\ pc' = [pc EXCEPT !["hart"] = "idIer"]
      BY <1>15, <2>2 DEF ReturnIir, Identify, Goto
    <3>2. loc' \in [Threads -> Locals] /\ loc'["terminal"] = loc["terminal"]
          /\ loc'["hart"].next = "drive"
      BY <3>1
    <3>3. /\ sticky' = FALSE
          /\ UNCHANGED <<rx, tx, txWake, ier, dlab, plic, pump, stop, final, owed, late,
             rxOut, txOut>>
      BY <1>15, <2>2 DEF ReturnIir, rings, host
    <3>4. pc' \in [Threads -> HartLabels \cup TerminalLabels] /\ pc'["hart"] = "idIer"
          /\ pc'["terminal"] = pc["terminal"]
      BY <3>1
    <3>5. TypeOK'
      BY <2>1, <3>2, <3>3, <3>4
    <3>6. QED
      BY <3>2, <3>4, <3>5
  <2>3. CASE loc["hart"].id # "THRE"
    BY <1>15, <2>1, <2>3, NoLocalsTyped DEF ReturnIir, Goto, rings, host
  <2>4. QED
    BY <2>2, <2>3
<1>16. ASSUME LoadLsrTx PROVE Shape'
  BY <1>16 DEF LoadLsrTx, At, Goto, rings, regs, host
<1>17. ASSUME PushTransmit PROVE Shape'
  BY <1>17 DEF PushTransmit, Identify, At, Goto, rings, regs, host, outs
<1>18. ASSUME WriteSlot PROVE Shape'
  BY <1>18 DEF WriteSlot, At, Goto, regs, host, outs
<1>19. ASSUME StoreTail PROVE Shape'
  BY <1>19, SuccWraps DEF StoreTail, At, Goto, regs, host, outs
<1>20. ASSUME PublishNonempty PROVE Shape'
  BY <1>20 DEF PublishNonempty, Identify, At, Goto, rings, outs
<1>21. ASSUME NotifyPump PROVE Shape'
  BY <1>21 DEF NotifyPump, Identify, At, Goto, rings, regs, outs
<1>22. ASSUME ArmIfReady PROVE Shape'
  BY <1>22 DEF ArmIfReady, Identify, At, Goto, rings, regs, host, outs
<1>23. ASSUME EnqueueReceive PROVE Shape'
  <2> USE DEF EnqueueReceive, At, Goto, regs, host, outs
  <2>1. CASE IsFull(rx.head, rx.tail)
    BY <1>23, <2>1, NoLocalsTyped
  <2>2. CASE ~IsFull(rx.head, rx.tail)
    <3>1. rx' \in Ring
      BY <1>23, <2>2
    <3>2. QED
      BY <1>23, <2>2, <3>1
  <2>3. QED
    BY <2>1, <2>2
<1>24. ASSUME StoreReceiveTail PROVE Shape'
  BY <1>24, SuccWraps DEF StoreReceiveTail, Identify, At, Goto, regs, host, outs
<1>25. ASSUME ResumePump PROVE Shape'
  <2>1. pump' = "running" /\ final' \in BOOLEAN
    BY <1>25 DEF ResumePump
  <2>2. /\ pc' \in [Threads -> HartLabels \cup TerminalLabels] /\ pc'["hart"] = pc["hart"]
        /\ pc'["terminal"] \in TerminalLabels \ Identifying
    BY <1>25 DEF ResumePump, Goto
  <2>3. QED
    BY <1>25, <2>1, <2>2 DEF ResumePump, rings, regs, outs
<1>26. ASSUME Dequeue PROVE Shape'
  BY <1>26 DEF Dequeue, At, Goto, rings, regs, outs
<1>27. ASSUME StoreHead PROVE Shape'
  <2>1. tx' = [tx EXCEPT !.head = Succ(@)] /\ Succ(tx.head) \in Slots
    BY <1>27, SuccWraps DEF StoreHead
  <2>2. tx' \in Ring
    BY <2>1
  <2>3. owed' \in 0 .. UART_QUEUE_CAPACITY - 1
    BY <1>27, UartAssumption DEF StoreHead
  <2>4. loc' \in [Threads -> Locals] /\ loc'["terminal"].next = loc["terminal"].next
        /\ loc'["hart"] = loc["hart"]
    BY <1>27 DEF StoreHead, IsFull
  <2>5. QED
    BY <1>27, <2>2, <2>3, <2>4 DEF StoreHead, At, Goto, regs
<1>28. ASSUME PublishRest PROVE Shape'
  <2>1. /\ txWake' \in 0 .. 1 /\ late' = FALSE
        /\ UNCHANGED <<rx, tx, ier, dlab, sticky, plic, loc, pump, stop, final, owed,
                       rxOut, txOut, seen>>
    BY <1>28 DEF PublishRest, rings, outs
  <2>2. pc' = [pc EXCEPT !["terminal"] = "rise"]
    BY <1>28 DEF PublishRest, Goto
  <2>3. TypeOK'
    BY <2>1, <2>2
  <2>4. QED
    BY <2>1, <2>2, <2>3
<1>29. ASSUME RisingEdge PROVE Shape'
  BY <1>29 DEF RisingEdge, Identify, At, Goto, rings, regs, host, outs
<1>30. ASSUME WriteStdout PROVE Shape'
  BY <1>30 DEF WriteStdout, At, Goto, rings, regs, outs
<1>31. ASSUME CheckPending PROVE Shape'
  BY <1>31 DEF CheckPending, At, Goto, rings, regs, host, outs
<1>32. ASSUME SnapshotLevel PROVE Shape'
  BY <1>32 DEF SnapshotLevel, At, Goto, rings, regs, host, outs
<1>33. ASSUME RecheckPending PROVE Shape'
  BY <1>33 DEF RecheckPending, At, Goto, NoLocals, rings, regs, host, outs
<1>34. ASSUME WaitAsync PROVE Shape'
  BY <1>34 DEF WaitAsync, At, Goto, NoLocals, rings, regs, outs
<1>35. ASSUME AfterRace PROVE Shape'
  BY <1>35 DEF AfterRace, At, Goto, rings, regs, outs
<1>36. ASSUME NEW b \in StdinBytes, StdinByte(b) PROVE Shape'
  BY <1>36, UartAssumption DEF StdinByte, Gone, At, Goto, rings, regs, host, outs
<1>37. ASSUME StopMessage PROVE Shape'
  BY <1>37, LengthIsDistance, RingArithmetic DEF StopMessage, Gone, At, rings, regs, outs
<1>38. ASSUME StdoutDrains PROVE Shape'
  BY <1>38 DEF StdoutDrains, Backpressured, rings, regs, outs
<1>39. ASSUME StdoutDies PROVE Shape'
  BY <1>39 DEF StdoutDies, Backpressured, rings, regs, outs
<1>40. ASSUME FinishStdout PROVE Shape'
  BY <1>40 DEF FinishStdout, At, rings, regs, outs
<1>41. ASSUME TerminateHart PROVE Shape'
  BY <1>41 DEF TerminateHart, At, Goto, rings, regs, host, outs
<1>42. CASE UNCHANGED vars
  BY <1>42 DEF vars, rings, regs, host, outs
<1>43. QED
  BY <1>1, <1>2, <1>3, <1>4, <1>5, <1>acquire, <1>drive, <1>plic, <1>6, <1>7, <1>8, <1>9, <1>10,
     <1>11, <1>12, <1>13, <1>14,
     <1>15, <1>16, <1>17, <1>18, <1>19, <1>20, <1>21, <1>22, <1>23, <1>24, <1>25, <1>26,
     <1>27, <1>28, <1>29, <1>30, <1>31, <1>32, <1>33, <1>34, <1>35, <1>36, <1>37, <1>38,
     <1>39, <1>40, <1>41, <1>42
     DEF Next, HartStarts, HartProceeds, TerminalProceeds, Environment, RefreshStep, Threads

\* Every step keeps the event loop and the pump from running at once.
LEMMA ControlKept ==
  ASSUME Shape, Control, [Next]_vars
  PROVE  Control'
<1> USE DEF Control, Shape, TypeOK, Threads, TerminalLabels, HartLabels, PumpLabels,
   Identifying
<1>1. ASSUME NEW t \in Threads, IdentityIer(t) PROVE Control'
  BY <1>1 DEF IdentityIer, At, Goto, rings, regs, host, outs
<1>2. ASSUME NEW t \in Threads, IdentityRx(t) PROVE Control'
  BY <1>2 DEF IdentityRx, At, Goto, rings, regs, host, outs
<1>3. ASSUME NEW t \in Threads, IdentityTx(t) PROVE Control'
  BY <1>3 DEF IdentityTx, At, Goto, rings, regs, host, outs
<1>4. ASSUME NEW t \in Threads, IdentitySticky(t) PROVE Control'
  BY <1>4 DEF IdentitySticky, At, Goto, rings, regs, host, outs
<1>acquire. ASSUME NEW t \in Threads, AcquireGateway(t) PROVE Control'
  BY <1>acquire DEF AcquireGateway, At, Goto, rings, host, outs
<1>drive. ASSUME NEW t \in Threads, DriveIrq(t) PROVE Control'
  BY <1>drive DEF DriveIrq, At, Goto, rings, host, outs
<1>5. ASSUME NEW t \in Threads, ReleaseGateway(t) PROVE Control'
  BY <1>5 DEF ReleaseGateway, AfterRefresh, At, Goto, NoLocals, rings, host, outs
<1>plic. ASSUME AccessPlic PROVE Control'
  BY <1>plic DEF AccessPlic, At, Goto, rings, host, outs
<1>6. ASSUME NEW t \in Threads, SetSticky(t) PROVE Control'
  BY <1>6 DEF SetSticky, Identify, At, Goto, rings, host, outs
<1>7. ASSUME LoadRbr PROVE Control'
  BY <1>7 DEF LoadRbr, At, Goto, rings, regs, host
<1>8. ASSUME LoadIir PROVE Control'
  BY <1>8 DEF LoadIir, Identify, At, Goto, rings, regs, host, outs
<1>9. ASSUME LoadLsr PROVE Control'
  BY <1>9 DEF LoadLsr, At, Goto, rings, regs, host
<1>10. ASSUME NEW b \in Bytes, StoreThr(b) PROVE Control'
  BY <1>10 DEF StoreThr, At, Goto, rings, host
<1>11. ASSUME NEW S \in IerStores, StoreIer(S) PROVE Control'
  BY <1>11 DEF StoreIer, At, Goto, rings, host, outs
<1>12. ASSUME NEW d \in BOOLEAN, StoreLcr(d) PROVE Control'
  BY <1>12 DEF StoreLcr, At, rings, host, outs
<1>13. ASSUME PopReceive PROVE Control'
  BY <1>13 DEF PopReceive, Identify, At, Goto, rings, regs, host, outs
<1>14. ASSUME AdvanceReceive PROVE Control'
  BY <1>14 DEF AdvanceReceive, Identify, At, Goto, regs, host
<1>15. ASSUME ReturnIir PROVE Control'
  BY <1>15 DEF ReturnIir, Identify, At, Goto, NoLocals, rings, host
<1>16. ASSUME LoadLsrTx PROVE Control'
  BY <1>16 DEF LoadLsrTx, At, Goto, rings, regs, host
<1>17. ASSUME PushTransmit PROVE Control'
  BY <1>17 DEF PushTransmit, Identify, At, Goto, rings, regs, host, outs
<1>18. ASSUME WriteSlot PROVE Control'
  BY <1>18 DEF WriteSlot, At, Goto, regs, host, outs
<1>19. ASSUME StoreTail PROVE Control'
  BY <1>19 DEF StoreTail, At, Goto, regs, host, outs
<1>20. ASSUME PublishNonempty PROVE Control'
  BY <1>20 DEF PublishNonempty, Identify, At, Goto, rings, outs
<1>21. ASSUME NotifyPump PROVE Control'
  BY <1>21 DEF NotifyPump, Identify, At, Goto, rings, regs, outs
<1>22. ASSUME ArmIfReady PROVE Control'
  BY <1>22 DEF ArmIfReady, Identify, At, Goto, rings, regs, host, outs
<1>23. ASSUME EnqueueReceive PROVE Control'
  BY <1>23 DEF EnqueueReceive, At, Goto, NoLocals, regs, host, outs
<1>24. ASSUME StoreReceiveTail PROVE Control'
  BY <1>24 DEF StoreReceiveTail, Identify, At, Goto, regs, host, outs
<1>25. ASSUME ResumePump PROVE Control'
  BY <1>25 DEF ResumePump, At, Goto, rings, regs, outs
<1>26. ASSUME Dequeue PROVE Control'
  BY <1>26 DEF Dequeue, At, Goto, rings, regs, outs
<1>27. ASSUME StoreHead PROVE Control'
  BY <1>27 DEF StoreHead, At, Goto, regs
<1>28. ASSUME PublishRest PROVE Control'
  BY <1>28 DEF PublishRest, At, Goto, rings, outs
<1>29. ASSUME RisingEdge PROVE Control'
  BY <1>29 DEF RisingEdge, Identify, At, Goto, rings, regs, host, outs
<1>30. ASSUME WriteStdout PROVE Control'
  BY <1>30 DEF WriteStdout, At, Goto, rings, regs, outs
<1>31. ASSUME CheckPending PROVE Control'
  BY <1>31 DEF CheckPending, At, Goto, rings, regs, host, outs
<1>32. ASSUME SnapshotLevel PROVE Control'
  BY <1>32 DEF SnapshotLevel, At, Goto, rings, regs, host, outs
<1>33. ASSUME RecheckPending PROVE Control'
  BY <1>33 DEF RecheckPending, At, Goto, NoLocals, rings, regs, host, outs
<1>34. ASSUME WaitAsync PROVE Control'
  BY <1>34 DEF WaitAsync, At, Goto, NoLocals, rings, regs, outs
<1>35. ASSUME AfterRace PROVE Control'
  BY <1>35 DEF AfterRace, At, Goto, rings, regs, outs
<1>36. ASSUME NEW b \in StdinBytes, StdinByte(b) PROVE Control'
  BY <1>36 DEF StdinByte, Gone, At, Goto, rings, regs, host, outs
<1>37. ASSUME StopMessage PROVE Control'
  BY <1>37 DEF StopMessage, Gone, At, rings, regs, outs
<1>38. ASSUME StdoutDrains PROVE Control'
  BY <1>38 DEF StdoutDrains, Backpressured, rings, regs, outs
<1>39. ASSUME StdoutDies PROVE Control'
  BY <1>39 DEF StdoutDies, Backpressured, rings, regs, outs
<1>40. ASSUME FinishStdout PROVE Control'
  BY <1>40 DEF FinishStdout, At, rings, regs, outs
<1>41. ASSUME TerminateHart PROVE Control'
  BY <1>41 DEF TerminateHart, At, Goto, rings, regs, host, outs
<1>42. CASE UNCHANGED vars
  BY <1>42 DEF vars, rings, regs, host, outs
<1>43. QED
  BY <1>1, <1>2, <1>3, <1>4, <1>5, <1>acquire, <1>drive, <1>plic, <1>6, <1>7, <1>8, <1>9, <1>10,
     <1>11, <1>12, <1>13, <1>14,
     <1>15, <1>16, <1>17, <1>18, <1>19, <1>20, <1>21, <1>22, <1>23, <1>24, <1>25, <1>26,
     <1>27, <1>28, <1>29, <1>30, <1>31, <1>32, <1>33, <1>34, <1>35, <1>36, <1>37, <1>38,
     <1>39, <1>40, <1>41, <1>42
     DEF Next, HartStarts, HartProceeds, TerminalProceeds, Environment, RefreshStep, Threads

\* A ring test, once passed, is not undone by the other thread before it is used.
LEMMA TestsHoldKept ==
  ASSUME Shape, Control, TestsHold, [Next]_vars
  PROVE  TestsHold'
<1> USE DEF TestsHold, Shape, TypeOK, Threads, Ring, Locals, RxReady, Thre
<1>1. ASSUME NEW t \in Threads, IdentityIer(t) PROVE TestsHold'
  BY <1>1 DEF IdentityIer, At, Goto, rings, regs, host, outs
<1>2. ASSUME NEW t \in Threads, IdentityRx(t) PROVE TestsHold'
  BY <1>2, RingArithmetic DEF IdentityRx, At, Goto, rings, regs, host, outs
<1>3. ASSUME NEW t \in Threads, IdentityTx(t) PROVE TestsHold'
  BY <1>3, RingArithmetic DEF IdentityTx, At, Goto, rings, regs, host, outs
<1>4. ASSUME NEW t \in Threads, IdentitySticky(t) PROVE TestsHold'
  BY <1>4 DEF IdentitySticky, At, Goto, rings, regs, host, outs
<1>acquire. ASSUME NEW t \in Threads, AcquireGateway(t) PROVE TestsHold'
  BY <1>acquire DEF AcquireGateway, At, Goto, rings, host, outs
<1>drive. ASSUME NEW t \in Threads, DriveIrq(t) PROVE TestsHold'
  BY <1>drive DEF DriveIrq, At, Goto, rings, host, outs
<1>5. ASSUME NEW t \in Threads, ReleaseGateway(t) PROVE TestsHold'
  BY <1>5 DEF ReleaseGateway, AfterRefresh, At, Goto, NoLocals, rings, host, outs
<1>plic. ASSUME AccessPlic PROVE TestsHold'
  BY <1>plic DEF AccessPlic, At, Goto, rings, host, outs
<1>6. ASSUME NEW t \in Threads, SetSticky(t) PROVE TestsHold'
  BY <1>6 DEF SetSticky, Identify, At, Goto, rings, host, outs
<1>7. ASSUME LoadRbr PROVE TestsHold'
  BY <1>7 DEF LoadRbr, At, Goto, rings, regs, host
<1>8. ASSUME LoadIir PROVE TestsHold'
  BY <1>8 DEF LoadIir, Identify, At, Goto, rings, regs, host, outs
<1>9. ASSUME LoadLsr PROVE TestsHold'
  BY <1>9, RingArithmetic DEF LoadLsr, At, Goto, rings, regs, host
<1>10. ASSUME NEW b \in Bytes, StoreThr(b) PROVE TestsHold'
  BY <1>10 DEF StoreThr, At, Goto, rings, host
<1>11. ASSUME NEW S \in IerStores, StoreIer(S) PROVE TestsHold'
  BY <1>11 DEF StoreIer, At, Goto, rings, host, outs
<1>12. ASSUME NEW d \in BOOLEAN, StoreLcr(d) PROVE TestsHold'
  BY <1>12 DEF StoreLcr, At, rings, host, outs
<1>13. ASSUME PopReceive PROVE TestsHold'
  BY <1>13, RingArithmetic DEF PopReceive, Identify, At, Goto, rings, regs, host, outs
<1>14. ASSUME AdvanceReceive PROVE TestsHold'
  BY <1>14, SuccWraps, RingArithmetic DEF AdvanceReceive, Identify, At, Goto, regs, host
<1>15. ASSUME ReturnIir PROVE TestsHold'
  BY <1>15 DEF ReturnIir, Identify, At, Goto, NoLocals, rings, host
<1>16. ASSUME LoadLsrTx PROVE TestsHold'
  BY <1>16, RingArithmetic DEF LoadLsrTx, At, Goto, rings, regs, host
<1>17. ASSUME PushTransmit PROVE TestsHold'
  BY <1>17, RingArithmetic DEF PushTransmit, Identify, At, Goto, rings, regs, host, outs
<1>18. ASSUME WriteSlot PROVE TestsHold'
  BY <1>18 DEF WriteSlot, At, Goto, regs, host, outs, IsEmpty
<1>19. ASSUME StoreTail PROVE TestsHold'
  BY <1>19, SuccWraps, RingArithmetic DEF StoreTail, At, Goto, regs, host, outs
<1>20. ASSUME PublishNonempty PROVE TestsHold'
  BY <1>20, RingArithmetic DEF PublishNonempty, Identify, At, Goto, rings, outs
<1>21. ASSUME NotifyPump PROVE TestsHold'
  BY <1>21 DEF NotifyPump, Identify, At, Goto, rings, regs, outs
<1>22. ASSUME ArmIfReady PROVE TestsHold'
  BY <1>22, RingArithmetic DEF ArmIfReady, Identify, At, Goto, rings, regs, host, outs
<1>23. ASSUME EnqueueReceive PROVE TestsHold'
  BY <1>23, RingArithmetic DEF EnqueueReceive, At, Goto, NoLocals, regs, host, outs, IsEmpty
<1>24. ASSUME StoreReceiveTail PROVE TestsHold'
  BY <1>24, SuccWraps, RingArithmetic DEF StoreReceiveTail, Identify, At, Goto, regs, host,
     outs
<1>25. ASSUME ResumePump PROVE TestsHold'
  BY <1>25 DEF ResumePump, At, Goto, rings, regs, outs
<1>26. ASSUME Dequeue PROVE TestsHold'
  BY <1>26, RingArithmetic DEF Dequeue, At, Goto, rings, regs, outs
<1>27. ASSUME StoreHead PROVE TestsHold'
  BY <1>27, SuccWraps, RingArithmetic DEF StoreHead, At, Goto, regs
<1>28. ASSUME PublishRest PROVE TestsHold'
  BY <1>28 DEF PublishRest, At, Goto, rings, outs
<1>29. ASSUME RisingEdge PROVE TestsHold'
  BY <1>29 DEF RisingEdge, Identify, At, Goto, rings, regs, host, outs
<1>30. ASSUME WriteStdout PROVE TestsHold'
  BY <1>30 DEF WriteStdout, At, Goto, rings, regs, outs
<1>31. ASSUME CheckPending PROVE TestsHold'
  BY <1>31, RingArithmetic DEF CheckPending, At, Goto, rings, regs, host, outs
<1>32. ASSUME SnapshotLevel PROVE TestsHold'
  BY <1>32 DEF SnapshotLevel, At, Goto, rings, regs, host, outs
<1>33. ASSUME RecheckPending PROVE TestsHold'
  BY <1>33, RingArithmetic DEF RecheckPending, At, Goto, NoLocals, rings, regs, host, outs
<1>34. ASSUME WaitAsync PROVE TestsHold'
  BY <1>34 DEF WaitAsync, At, Goto, NoLocals, rings, regs, outs
<1>35. ASSUME AfterRace PROVE TestsHold'
  BY <1>35 DEF AfterRace, At, Goto, rings, regs, outs
<1>36. ASSUME NEW b \in StdinBytes, StdinByte(b) PROVE TestsHold'
  BY <1>36 DEF StdinByte, Gone, At, Goto, rings, regs, host, outs
<1>37. ASSUME StopMessage PROVE TestsHold'
  BY <1>37 DEF StopMessage, Gone, At, rings, regs, outs
<1>38. ASSUME StdoutDrains PROVE TestsHold'
  BY <1>38 DEF StdoutDrains, Backpressured, rings, regs, outs
<1>39. ASSUME StdoutDies PROVE TestsHold'
  BY <1>39 DEF StdoutDies, Backpressured, rings, regs, outs
<1>40. ASSUME FinishStdout PROVE TestsHold'
  BY <1>40 DEF FinishStdout, At, rings, regs, outs
<1>41. ASSUME TerminateHart PROVE TestsHold'
  BY <1>41 DEF TerminateHart, At, Goto, rings, regs, host, outs
<1>42. CASE UNCHANGED vars
  BY <1>42 DEF vars, rings, regs, host, outs
<1>43. QED
  BY <1>1, <1>2, <1>3, <1>4, <1>5, <1>acquire, <1>drive, <1>plic, <1>6, <1>7, <1>8, <1>9, <1>10,
     <1>11, <1>12, <1>13, <1>14,
     <1>15, <1>16, <1>17, <1>18, <1>19, <1>20, <1>21, <1>22, <1>23, <1>24, <1>25, <1>26,
     <1>27, <1>28, <1>29, <1>30, <1>31, <1>32, <1>33, <1>34, <1>35, <1>36, <1>37, <1>38,
     <1>39, <1>40, <1>41, <1>42
     DEF Next, HartStarts, HartProceeds, TerminalProceeds, Environment, RefreshStep, Threads

\* Promises made by LSR and IIR survive every step of both threads.
LEMMA PromisesHoldKept ==
  ASSUME Shape, Control, TestsHold, PromisesHold, [Next]_vars
  PROVE  PromisesHold'
<1> USE DEF PromisesHold, LineStatusKept, Shape, TypeOK, Threads, Ring, Locals, RxReady,
   Thre, TestsHold, Identifying
<1>1. ASSUME NEW t \in Threads, IdentityIer(t) PROVE PromisesHold'
  BY <1>1 DEF IdentityIer, At, Goto, rings, regs, host, outs
<1>2. ASSUME NEW t \in Threads, IdentityRx(t) PROVE PromisesHold'
  <2> DEFINE ready == "ERBFI" \in loc[t].ier /\ RxReady
  <2>1. /\ pc[t] = "idRx" /\ UNCHANGED <<rx, tx, seen>>
        /\ loc' = IF ready THEN [loc EXCEPT ![t].id = "RDA", ![t].ier = {}] ELSE loc
        /\ pc' = [pc EXCEPT ![t] = IF ready THEN loc[t].next
                                   ELSE IF "ETBEI" \in loc[t].ier THEN "idTx" ELSE loc[t].next]
    BY <1>2 DEF IdentityRx, At, Goto, rings, outs
  <2>2. CASE t = "hart"
    <3>1. pc'["hart"] \in {"idTx", "drive", "iir"}
      BY <2>1, <2>2
    <3>2. loc'["hart"].id = (IF ready THEN "RDA" ELSE loc["hart"].id)
      BY <2>1, <2>2
    <3>3. loc["hart"].id = "none"
      BY <2>1, <2>2
    <3>4. QED
      BY <2>1, <3>1, <3>2, <3>3
  <2>3. CASE t = "terminal"
    <3>1. pc'["hart"] = pc["hart"] /\ loc'["hart"] = loc["hart"]
      BY <2>1, <2>3
    <3>2. QED
      BY <2>1, <3>1
  <2>4. QED
    BY <2>2, <2>3
<1>3. ASSUME NEW t \in Threads, IdentityTx(t) PROVE PromisesHold'
  <2>1. /\ loc' = [loc EXCEPT ![t].thre = Thre] /\ pc[t] = "idTx"
        /\ pc' = [pc EXCEPT ![t] = IF Thre THEN "idSticky" ELSE loc[t].next]
        /\ UNCHANGED <<rx, tx, seen>>
    BY <1>3 DEF IdentityTx, At, Goto, rings, outs
  <2>2. CASE t = "hart"
    <3>1. pc'["hart"] = (IF Thre THEN "idSticky" ELSE loc["hart"].next)
          /\ loc["hart"].next \in {"drive", "iir"} /\ loc["hart"].id = loc'["hart"].id
      BY <2>1, <2>2
    <3>2. loc["hart"].id = "none"
      BY <2>1, <2>2
    <3>3. QED
      BY <2>1, <3>1, <3>2
  <2>3. CASE t = "terminal"
    <3>1. pc'["hart"] = pc["hart"] /\ loc'["hart"] = loc["hart"]
      BY <2>1, <2>3
    <3>2. QED
      BY <2>1, <3>1
  <2>4. QED
    BY <2>2, <2>3
<1>4. ASSUME NEW t \in Threads, IdentitySticky(t) PROVE PromisesHold'
  BY <1>4 DEF IdentitySticky, At, Goto, rings, regs, host, outs
<1>acquire. ASSUME NEW t \in Threads, AcquireGateway(t) PROVE PromisesHold'
  BY <1>acquire DEF AcquireGateway, At, Goto, rings, host, outs
<1>drive. ASSUME NEW t \in Threads, DriveIrq(t) PROVE PromisesHold'
  BY <1>drive DEF DriveIrq, At, Goto, rings, host, outs
<1>5. ASSUME NEW t \in Threads, ReleaseGateway(t) PROVE PromisesHold'
  BY <1>5 DEF ReleaseGateway, AfterRefresh, At, Goto, NoLocals, rings, host, outs
<1>plic. ASSUME AccessPlic PROVE PromisesHold'
  BY <1>plic DEF AccessPlic, At, Goto, rings, host, outs
<1>6. ASSUME NEW t \in Threads, SetSticky(t) PROVE PromisesHold'
  BY <1>6 DEF SetSticky, Identify, At, Goto, rings, host, outs
<1>7. ASSUME LoadRbr PROVE PromisesHold'
  BY <1>7 DEF LoadRbr, At, Goto, rings, regs, host
<1>8. ASSUME LoadIir PROVE PromisesHold'
  BY <1>8 DEF LoadIir, Identify, At, Goto, rings, regs, host, outs
<1>9. ASSUME LoadLsr PROVE PromisesHold'
  BY <1>9, RingArithmetic DEF LoadLsr, At, Goto, rings, regs, host
<1>10. ASSUME NEW b \in Bytes, StoreThr(b) PROVE PromisesHold'
  BY <1>10 DEF StoreThr, At, Goto, rings, host
<1>11. ASSUME NEW S \in IerStores, StoreIer(S) PROVE PromisesHold'
  BY <1>11 DEF StoreIer, At, Goto, rings, host, outs
<1>12. ASSUME NEW d \in BOOLEAN, StoreLcr(d) PROVE PromisesHold'
  BY <1>12 DEF StoreLcr, At, rings, host, outs
<1>13. ASSUME PopReceive PROVE PromisesHold'
  BY <1>13, RingArithmetic DEF PopReceive, Identify, At, Goto, rings, regs, host, outs
<1>14. ASSUME AdvanceReceive PROVE PromisesHold'
  BY <1>14, SuccWraps, RingArithmetic DEF AdvanceReceive, Identify, At, Goto, regs, host
<1>15. ASSUME ReturnIir PROVE PromisesHold'
  BY <1>15 DEF ReturnIir, Identify, At, Goto, NoLocals, rings, host
<1>16. ASSUME LoadLsrTx PROVE PromisesHold'
  BY <1>16, RingArithmetic DEF LoadLsrTx, At, Goto, rings, regs, host
<1>17. ASSUME PushTransmit PROVE PromisesHold'
  BY <1>17, RingArithmetic DEF PushTransmit, Identify, At, Goto, rings, regs, host, outs
<1>18. ASSUME WriteSlot PROVE PromisesHold'
  BY <1>18 DEF WriteSlot, At, Goto, regs, host, outs
<1>19. ASSUME StoreTail PROVE PromisesHold'
  BY <1>19, SuccWraps, RingArithmetic DEF StoreTail, At, Goto, regs, host, outs
<1>20. ASSUME PublishNonempty PROVE PromisesHold'
  BY <1>20, RingArithmetic DEF PublishNonempty, Identify, At, Goto, rings, outs
<1>21. ASSUME NotifyPump PROVE PromisesHold'
  BY <1>21 DEF NotifyPump, Identify, At, Goto, rings, regs, outs
<1>22. ASSUME ArmIfReady PROVE PromisesHold'
  BY <1>22, RingArithmetic DEF ArmIfReady, Identify, At, Goto, rings, regs, host, outs
<1>23. ASSUME EnqueueReceive PROVE PromisesHold'
  BY <1>23, RingArithmetic DEF EnqueueReceive, At, Goto, NoLocals, regs, host, outs
<1>24. ASSUME StoreReceiveTail PROVE PromisesHold'
  BY <1>24, SuccWraps, RingArithmetic DEF StoreReceiveTail, Identify, At, Goto, regs, host,
     outs
<1>25. ASSUME ResumePump PROVE PromisesHold'
  BY <1>25 DEF ResumePump, At, Goto, rings, regs, outs
<1>26. ASSUME Dequeue PROVE PromisesHold'
  BY <1>26, RingArithmetic DEF Dequeue, At, Goto, rings, regs, outs
<1>27. ASSUME StoreHead PROVE PromisesHold'
  BY <1>27, SuccWraps, RingArithmetic DEF StoreHead, At, Goto, regs
<1>28. ASSUME PublishRest PROVE PromisesHold'
  BY <1>28 DEF PublishRest, At, Goto, rings, outs
<1>29. ASSUME RisingEdge PROVE PromisesHold'
  BY <1>29 DEF RisingEdge, Identify, At, Goto, rings, regs, host, outs
<1>30. ASSUME WriteStdout PROVE PromisesHold'
  BY <1>30 DEF WriteStdout, At, Goto, rings, regs, outs
<1>31. ASSUME CheckPending PROVE PromisesHold'
  BY <1>31, RingArithmetic DEF CheckPending, At, Goto, rings, regs, host, outs
<1>32. ASSUME SnapshotLevel PROVE PromisesHold'
  BY <1>32 DEF SnapshotLevel, At, Goto, rings, regs, host, outs
<1>33. ASSUME RecheckPending PROVE PromisesHold'
  BY <1>33, RingArithmetic DEF RecheckPending, At, Goto, NoLocals, rings, regs, host, outs
<1>34. ASSUME WaitAsync PROVE PromisesHold'
  BY <1>34 DEF WaitAsync, At, Goto, NoLocals, rings, regs, outs
<1>35. ASSUME AfterRace PROVE PromisesHold'
  BY <1>35 DEF AfterRace, At, Goto, rings, regs, outs
<1>36. ASSUME NEW b \in StdinBytes, StdinByte(b) PROVE PromisesHold'
  BY <1>36 DEF StdinByte, Gone, At, Goto, rings, regs, host, outs
<1>37. ASSUME StopMessage PROVE PromisesHold'
  BY <1>37 DEF StopMessage, Gone, At, rings, regs, outs
<1>38. ASSUME StdoutDrains PROVE PromisesHold'
  BY <1>38 DEF StdoutDrains, Backpressured, rings, regs, outs
<1>39. ASSUME StdoutDies PROVE PromisesHold'
  BY <1>39 DEF StdoutDies, Backpressured, rings, regs, outs
<1>40. ASSUME FinishStdout PROVE PromisesHold'
  BY <1>40 DEF FinishStdout, At, rings, regs, outs
<1>41. ASSUME TerminateHart PROVE PromisesHold'
  BY <1>41 DEF TerminateHart, At, Goto, rings, regs, host, outs
<1>42. CASE UNCHANGED vars
  BY <1>42 DEF vars, rings, regs, host, outs
<1>43. QED
  BY <1>1, <1>2, <1>3, <1>4, <1>5, <1>acquire, <1>drive, <1>plic, <1>6, <1>7, <1>8, <1>9, <1>10,
     <1>11, <1>12, <1>13, <1>14,
     <1>15, <1>16, <1>17, <1>18, <1>19, <1>20, <1>21, <1>22, <1>23, <1>24, <1>25, <1>26,
     <1>27, <1>28, <1>29, <1>30, <1>31, <1>32, <1>33, <1>34, <1>35, <1>36, <1>37, <1>38,
     <1>39, <1>40, <1>41, <1>42
     DEF Next, HartStarts, HartProceeds, TerminalProceeds, Environment, RefreshStep, Threads

\* Every step keeps the level word, the remembered tail and the parked pump in agreement.
LEMMA WakeHoldsKept ==
  ASSUME Shape, Control, TestsHold, WakeHolds, [Next]_vars
  PROVE  WakeHolds'
<1> USE DEF WakeHolds, SleepsOnlyWhenEmpty, Shape, TypeOK, Threads, Ring, Locals, Thre,
   TestsHold, Control, PumpLabels
<1>1. ASSUME NEW t \in Threads, IdentityIer(t) PROVE WakeHolds'
  BY <1>1 DEF IdentityIer, At, Goto, rings, regs, host, outs
<1>2. ASSUME NEW t \in Threads, IdentityRx(t) PROVE WakeHolds'
  BY <1>2, RingArithmetic DEF IdentityRx, At, Goto, rings, regs, host, outs
<1>3. ASSUME NEW t \in Threads, IdentityTx(t) PROVE WakeHolds'
  BY <1>3, RingArithmetic DEF IdentityTx, At, Goto, rings, regs, host, outs
<1>4. ASSUME NEW t \in Threads, IdentitySticky(t) PROVE WakeHolds'
  BY <1>4 DEF IdentitySticky, At, Goto, rings, regs, host, outs
<1>acquire. ASSUME NEW t \in Threads, AcquireGateway(t) PROVE WakeHolds'
  BY <1>acquire DEF AcquireGateway, At, Goto, rings, host, outs
<1>drive. ASSUME NEW t \in Threads, DriveIrq(t) PROVE WakeHolds'
  BY <1>drive DEF DriveIrq, At, Goto, rings, host, outs
<1>5. ASSUME NEW t \in Threads, ReleaseGateway(t) PROVE WakeHolds'
  BY <1>5 DEF ReleaseGateway, AfterRefresh, At, Goto, NoLocals, rings, host, outs
<1>plic. ASSUME AccessPlic PROVE WakeHolds'
  BY <1>plic DEF AccessPlic, At, Goto, rings, host, outs
<1>6. ASSUME NEW t \in Threads, SetSticky(t) PROVE WakeHolds'
  BY <1>6 DEF SetSticky, Identify, At, Goto, rings, host, outs
<1>7. ASSUME LoadRbr PROVE WakeHolds'
  BY <1>7 DEF LoadRbr, At, Goto, rings, regs, host
<1>8. ASSUME LoadIir PROVE WakeHolds'
  BY <1>8 DEF LoadIir, Identify, At, Goto, rings, regs, host, outs
<1>9. ASSUME LoadLsr PROVE WakeHolds'
  BY <1>9, RingArithmetic DEF LoadLsr, At, Goto, rings, regs, host
<1>10. ASSUME NEW b \in Bytes, StoreThr(b) PROVE WakeHolds'
  BY <1>10 DEF StoreThr, At, Goto, rings, host
<1>11. ASSUME NEW S \in IerStores, StoreIer(S) PROVE WakeHolds'
  BY <1>11 DEF StoreIer, At, Goto, rings, host, outs
<1>12. ASSUME NEW d \in BOOLEAN, StoreLcr(d) PROVE WakeHolds'
  BY <1>12 DEF StoreLcr, At, rings, host, outs
<1>13. ASSUME PopReceive PROVE WakeHolds'
  BY <1>13, RingArithmetic DEF PopReceive, Identify, At, Goto, rings, regs, host, outs
<1>14. ASSUME AdvanceReceive PROVE WakeHolds'
  BY <1>14, SuccWraps, RingArithmetic DEF AdvanceReceive, Identify, At, Goto, regs, host
<1>15. ASSUME ReturnIir PROVE WakeHolds'
  BY <1>15 DEF ReturnIir, Identify, At, Goto, NoLocals, rings, host
<1>16. ASSUME LoadLsrTx PROVE WakeHolds'
  BY <1>16, RingArithmetic DEF LoadLsrTx, At, Goto, rings, regs, host
<1>17. ASSUME PushTransmit PROVE WakeHolds'
  BY <1>17, RingArithmetic DEF PushTransmit, Identify, At, Goto, rings, regs, host, outs
<1>18. ASSUME WriteSlot PROVE WakeHolds'
  BY <1>18 DEF WriteSlot, At, Goto, regs, host, outs
<1>19. ASSUME StoreTail PROVE WakeHolds'
  BY <1>19, SuccWraps, RingArithmetic DEF StoreTail, At, Goto, regs, host, outs
<1>20. ASSUME PublishNonempty PROVE WakeHolds'
  <2>1. /\ pc["hart"] = "publish" /\ txWake' = 1 /\ UNCHANGED <<tx, pump>>
        /\ late' = (late \/ IsEmpty(tx.head, tx.tail))
    BY <1>20 DEF PublishNonempty, At, rings
  <2>2. CASE txWake = 1
    <3>1. /\ pc' = [pc EXCEPT !["hart"] = "idIer"]
          /\ loc' = [loc EXCEPT !["hart"] = [@ EXCEPT !.next = "drive"]]
      BY <1>20, <2>2 DEF PublishNonempty, Identify, Goto
    <3>2. pc'["hart"] = "idIer" /\ pc'["terminal"] = pc["terminal"] /\ loc'["terminal"] =
       loc["terminal"]
      BY <3>1
    <3>3. (pump = "parked" /\ ~late) => FALSE
      BY <2>1, <2>2
    <3>4. QED
      BY <2>1, <2>2, <3>2, <3>3
  <2>3. CASE txWake # 1
    <3>1. pc' = [pc EXCEPT !["hart"] = "notify"] /\ loc' = loc
      BY <1>20, <2>3 DEF PublishNonempty, Goto
    <3>2. pc'["hart"] = "notify" /\ pc'["terminal"] = pc["terminal"]
      BY <3>1
    <3>3. QED
      BY <2>1, <2>3, <3>1, <3>2
  <2>4. QED
    BY <2>2, <2>3
<1>21. ASSUME NotifyPump PROVE WakeHolds'
  BY <1>21 DEF NotifyPump, Identify, At, Goto, rings, regs, outs
<1>22. ASSUME ArmIfReady PROVE WakeHolds'
  BY <1>22, RingArithmetic DEF ArmIfReady, Identify, At, Goto, rings, regs, host, outs
<1>23. ASSUME EnqueueReceive PROVE WakeHolds'
  BY <1>23, RingArithmetic DEF EnqueueReceive, At, Goto, NoLocals, regs, host, outs
<1>24. ASSUME StoreReceiveTail PROVE WakeHolds'
  BY <1>24, SuccWraps, RingArithmetic DEF StoreReceiveTail, Identify, At, Goto, regs, host,
     outs
<1>25. ASSUME ResumePump PROVE WakeHolds'
  BY <1>25 DEF ResumePump, At, Goto, rings, regs, outs
<1>26. ASSUME Dequeue PROVE WakeHolds'
  BY <1>26, RingArithmetic DEF Dequeue, At, Goto, rings, regs, outs
<1>27. ASSUME StoreHead PROVE WakeHolds'
  <2> DEFINE at == loc["terminal"].at
  <2>1. /\ pc["terminal"] = "head" /\ pc' = [pc EXCEPT !["terminal"] = "level"]
        /\ tx'.head = Succ(tx.head) /\ tx'.tail = tx.tail
        /\ loc'["terminal"].at = at /\ UNCHANGED <<txWake, pump, late>>
    BY <1>27 DEF StoreHead, At, Goto, regs
  <2>2. at \in Slots /\ 1 <= Distance(tx.head, at) /\ Distance(tx.head, at) <=
     Distance(tx.head, tx.tail)
    BY <2>1
  <2>3. tx.head \in Slots /\ tx.tail \in Slots
    OBVIOUS
  <2>4. /\ Distance(Succ(tx.head), at) = Distance(tx.head, at) - 1
        /\ Distance(Succ(tx.head), tx.tail) = Distance(tx.head, tx.tail) - 1
        /\ Succ(tx.head) \in Slots
    BY <2>2, <2>3, RingArithmetic, SuccWraps
  <2>5. Distance(Succ(tx.head), at) <= Distance(Succ(tx.head), tx.tail)
    BY <2>2, <2>3, <2>4, RingArithmetic
  <2>6. IsEmpty(Succ(tx.head), tx.tail) => Succ(tx.head) = at
    BY <2>2, <2>3, <2>4, <2>5, RingArithmetic DEF IsEmpty
  <2>7. pump' # "parked"
    BY <2>1
  <2>8. pc'["terminal"] = "level"
    BY <2>1
  <2>9. QED
    BY <2>1, <2>2, <2>5, <2>6, <2>7, <2>8
<1>28. ASSUME PublishRest PROVE WakeHolds'
  BY <1>28 DEF PublishRest, At, Goto, rings, outs
<1>29. ASSUME RisingEdge PROVE WakeHolds'
  BY <1>29 DEF RisingEdge, Identify, At, Goto, rings, regs, host, outs
<1>30. ASSUME WriteStdout PROVE WakeHolds'
  BY <1>30 DEF WriteStdout, At, Goto, rings, regs, outs
<1>31. ASSUME CheckPending PROVE WakeHolds'
  BY <1>31, RingArithmetic DEF CheckPending, At, Goto, rings, regs, host, outs
<1>32. ASSUME SnapshotLevel PROVE WakeHolds'
  BY <1>32 DEF SnapshotLevel, At, Goto, rings, regs, host, outs
<1>33. ASSUME RecheckPending PROVE WakeHolds'
  BY <1>33, RingArithmetic DEF RecheckPending, At, Goto, NoLocals, rings, regs, host, outs
<1>34. ASSUME WaitAsync PROVE WakeHolds'
  BY <1>34 DEF WaitAsync, At, Goto, NoLocals, rings, regs, outs
<1>35. ASSUME AfterRace PROVE WakeHolds'
  BY <1>35 DEF AfterRace, At, Goto, rings, regs, outs
<1>36. ASSUME NEW b \in StdinBytes, StdinByte(b) PROVE WakeHolds'
  BY <1>36 DEF StdinByte, Gone, At, Goto, rings, regs, host, outs
<1>37. ASSUME StopMessage PROVE WakeHolds'
  BY <1>37 DEF StopMessage, Gone, At, rings, regs, outs
<1>38. ASSUME StdoutDrains PROVE WakeHolds'
  BY <1>38 DEF StdoutDrains, Backpressured, rings, regs, outs
<1>39. ASSUME StdoutDies PROVE WakeHolds'
  BY <1>39 DEF StdoutDies, Backpressured, rings, regs, outs
<1>40. ASSUME FinishStdout PROVE WakeHolds'
  BY <1>40 DEF FinishStdout, At, rings, regs, outs
<1>41. ASSUME TerminateHart PROVE WakeHolds'
  BY <1>41 DEF TerminateHart, At, Goto, rings, regs, host, outs
<1>42. CASE UNCHANGED vars
  <2>1. UNCHANGED <<tx, txWake, pc, loc, pump, late>>
    BY <1>42 DEF vars, rings, regs, host
  <2>2. QED
    BY <2>1 DEF IsEmpty, At
<1>43. QED
  BY <1>1, <1>2, <1>3, <1>4, <1>5, <1>acquire, <1>drive, <1>plic, <1>6, <1>7, <1>8, <1>9, <1>10,
     <1>11, <1>12, <1>13, <1>14,
     <1>15, <1>16, <1>17, <1>18, <1>19, <1>20, <1>21, <1>22, <1>23, <1>24, <1>25, <1>26,
     <1>27, <1>28, <1>29, <1>30, <1>31, <1>32, <1>33, <1>34, <1>35, <1>36, <1>37, <1>38,
     <1>39, <1>40, <1>41, <1>42
     DEF Next, HartStarts, HartProceeds, TerminalProceeds, Environment, RefreshStep, Threads

\* Every step keeps the owed bytes at the head of the ring.
LEMMA OwedHoldsKept ==
  ASSUME Shape, Control, TestsHold, OwedHolds, [Next]_vars
  PROVE  OwedHolds'
<1> USE DEF OwedHolds, StopFlushes, Shape, TypeOK, Threads, Ring, Locals, Thre, TestsHold,
   Control, PumpLabels
<1>1. ASSUME NEW t \in Threads, IdentityIer(t) PROVE OwedHolds'
  BY <1>1 DEF IdentityIer, At, Goto, rings, regs, host, outs
<1>2. ASSUME NEW t \in Threads, IdentityRx(t) PROVE OwedHolds'
  BY <1>2, RingArithmetic DEF IdentityRx, At, Goto, rings, regs, host, outs
<1>3. ASSUME NEW t \in Threads, IdentityTx(t) PROVE OwedHolds'
  BY <1>3, RingArithmetic DEF IdentityTx, At, Goto, rings, regs, host, outs
<1>4. ASSUME NEW t \in Threads, IdentitySticky(t) PROVE OwedHolds'
  BY <1>4 DEF IdentitySticky, At, Goto, rings, regs, host, outs
<1>acquire. ASSUME NEW t \in Threads, AcquireGateway(t) PROVE OwedHolds'
  BY <1>acquire DEF AcquireGateway, At, Goto, rings, host, outs
<1>drive. ASSUME NEW t \in Threads, DriveIrq(t) PROVE OwedHolds'
  BY <1>drive DEF DriveIrq, At, Goto, rings, host, outs
<1>5. ASSUME NEW t \in Threads, ReleaseGateway(t) PROVE OwedHolds'
  BY <1>5 DEF ReleaseGateway, AfterRefresh, At, Goto, NoLocals, rings, host, outs
<1>plic. ASSUME AccessPlic PROVE OwedHolds'
  BY <1>plic DEF AccessPlic, At, Goto, rings, host, outs
<1>6. ASSUME NEW t \in Threads, SetSticky(t) PROVE OwedHolds'
  BY <1>6 DEF SetSticky, Identify, At, Goto, rings, host, outs
<1>7. ASSUME LoadRbr PROVE OwedHolds'
  BY <1>7 DEF LoadRbr, At, Goto, rings, regs, host
<1>8. ASSUME LoadIir PROVE OwedHolds'
  BY <1>8 DEF LoadIir, Identify, At, Goto, rings, regs, host, outs
<1>9. ASSUME LoadLsr PROVE OwedHolds'
  BY <1>9, RingArithmetic DEF LoadLsr, At, Goto, rings, regs, host
<1>10. ASSUME NEW b \in Bytes, StoreThr(b) PROVE OwedHolds'
  BY <1>10 DEF StoreThr, At, Goto, rings, host
<1>11. ASSUME NEW S \in IerStores, StoreIer(S) PROVE OwedHolds'
  BY <1>11 DEF StoreIer, At, Goto, rings, host, outs
<1>12. ASSUME NEW d \in BOOLEAN, StoreLcr(d) PROVE OwedHolds'
  BY <1>12 DEF StoreLcr, At, rings, host, outs
<1>13. ASSUME PopReceive PROVE OwedHolds'
  BY <1>13, RingArithmetic DEF PopReceive, Identify, At, Goto, rings, regs, host, outs
<1>14. ASSUME AdvanceReceive PROVE OwedHolds'
  BY <1>14, SuccWraps, RingArithmetic DEF AdvanceReceive, Identify, At, Goto, regs, host
<1>15. ASSUME ReturnIir PROVE OwedHolds'
  BY <1>15 DEF ReturnIir, Identify, At, Goto, NoLocals, rings, host
<1>16. ASSUME LoadLsrTx PROVE OwedHolds'
  BY <1>16, RingArithmetic DEF LoadLsrTx, At, Goto, rings, regs, host
<1>17. ASSUME PushTransmit PROVE OwedHolds'
  BY <1>17, RingArithmetic DEF PushTransmit, Identify, At, Goto, rings, regs, host, outs
<1>18. ASSUME WriteSlot PROVE OwedHolds'
  BY <1>18 DEF WriteSlot, At, Goto, regs, host, outs
<1>19. ASSUME StoreTail PROVE OwedHolds'
  BY <1>19, SuccWraps, RingArithmetic DEF StoreTail, At, Goto, regs, host, outs
<1>20. ASSUME PublishNonempty PROVE OwedHolds'
  BY <1>20, RingArithmetic DEF PublishNonempty, Identify, At, Goto, rings, outs
<1>21. ASSUME NotifyPump PROVE OwedHolds'
  BY <1>21 DEF NotifyPump, Identify, At, Goto, rings, regs, outs
<1>22. ASSUME ArmIfReady PROVE OwedHolds'
  BY <1>22, RingArithmetic DEF ArmIfReady, Identify, At, Goto, rings, regs, host, outs
<1>23. ASSUME EnqueueReceive PROVE OwedHolds'
  BY <1>23, RingArithmetic DEF EnqueueReceive, At, Goto, NoLocals, regs, host, outs
<1>24. ASSUME StoreReceiveTail PROVE OwedHolds'
  BY <1>24, SuccWraps, RingArithmetic DEF StoreReceiveTail, Identify, At, Goto, regs, host,
     outs
<1>25. ASSUME ResumePump PROVE OwedHolds'
  BY <1>25 DEF ResumePump, At, Goto, rings, regs, outs
<1>26. ASSUME Dequeue PROVE OwedHolds'
  BY <1>26, RingArithmetic DEF Dequeue, At, Goto, rings, regs, outs
<1>27. ASSUME StoreHead PROVE OwedHolds'
  BY <1>27, SuccWraps, RingArithmetic DEF StoreHead, At, Goto, regs
<1>28. ASSUME PublishRest PROVE OwedHolds'
  BY <1>28 DEF PublishRest, At, Goto, rings, outs
<1>29. ASSUME RisingEdge PROVE OwedHolds'
  BY <1>29 DEF RisingEdge, Identify, At, Goto, rings, regs, host, outs
<1>30. ASSUME WriteStdout PROVE OwedHolds'
  BY <1>30 DEF WriteStdout, At, Goto, rings, regs, outs
<1>31. ASSUME CheckPending PROVE OwedHolds'
  BY <1>31, RingArithmetic DEF CheckPending, At, Goto, rings, regs, host, outs
<1>32. ASSUME SnapshotLevel PROVE OwedHolds'
  BY <1>32 DEF SnapshotLevel, At, Goto, rings, regs, host, outs
<1>33. ASSUME RecheckPending PROVE OwedHolds'
  BY <1>33, RingArithmetic DEF RecheckPending, At, Goto, NoLocals, rings, regs, host, outs
<1>34. ASSUME WaitAsync PROVE OwedHolds'
  BY <1>34 DEF WaitAsync, At, Goto, NoLocals, rings, regs, outs
<1>35. ASSUME AfterRace PROVE OwedHolds'
  BY <1>35 DEF AfterRace, At, Goto, rings, regs, outs
<1>36. ASSUME NEW b \in StdinBytes, StdinByte(b) PROVE OwedHolds'
  BY <1>36 DEF StdinByte, Gone, At, Goto, rings, regs, host, outs
<1>37. ASSUME StopMessage PROVE OwedHolds'
  <2>1. /\ owed' = Distance(tx.head, tx.tail) /\ stop' /\ UNCHANGED <<tx, final>>
        /\ pump' = IF pump = "parked" THEN "woken" ELSE pump
        /\ ~stop /\ pump \notin {"exited"}
    <3>1. tx \in Ring
      OBVIOUS
    <3>2. QED
      BY <1>37, <3>1, LengthIsDistance DEF StopMessage, rings, Gone
  <2>2. Distance(tx.head, tx.tail) \in Nat /\ UNCHANGED Distance(tx.head, tx.tail)
    BY <2>1, RingArithmetic
  <2>3. pump \notin {"ending", "exited"}
    BY <2>1
  <2>4. QED
    BY <2>1, <2>2, <2>3
<1>38. ASSUME StdoutDrains PROVE OwedHolds'
  BY <1>38 DEF StdoutDrains, Backpressured, rings, regs, outs
<1>39. ASSUME StdoutDies PROVE OwedHolds'
  BY <1>39 DEF StdoutDies, Backpressured, rings, regs, outs
<1>40. ASSUME FinishStdout PROVE OwedHolds'
  BY <1>40 DEF FinishStdout, At, rings, regs, outs
<1>41. ASSUME TerminateHart PROVE OwedHolds'
  BY <1>41 DEF TerminateHart, At, Goto, rings, regs, host, outs
<1>42. CASE UNCHANGED vars
  BY <1>42 DEF vars, rings, regs, host, outs
<1>43. QED
  BY <1>1, <1>2, <1>3, <1>4, <1>5, <1>acquire, <1>drive, <1>plic, <1>6, <1>7, <1>8, <1>9, <1>10,
     <1>11, <1>12, <1>13, <1>14,
     <1>15, <1>16, <1>17, <1>18, <1>19, <1>20, <1>21, <1>22, <1>23, <1>24, <1>25, <1>26,
     <1>27, <1>28, <1>29, <1>30, <1>31, <1>32, <1>33, <1>34, <1>35, <1>36, <1>37, <1>38,
     <1>39, <1>40, <1>41, <1>42
     DEF Next, HartStarts, HartProceeds, TerminalProceeds, Environment, RefreshStep, Threads
-----------------------------------------------------------------------------
(* What a ring contains, and what the three stores of a ring do to it.       *)

\* The place of the k-th byte.
Place(h, k) == (h + k - 1) % UART_QUEUE_CAPACITY

\* The k-th byte of a ring stands k - 1 slots past the head, round the end.
LEMMA PlaceWraps ==
  ASSUME NEW h \in Slots, NEW k \in 1 .. UART_QUEUE_CAPACITY
  PROVE  /\ Place(h, k) \in Slots
         /\ Place(h, k) = IF h + k - 1 < UART_QUEUE_CAPACITY
                          THEN h + k - 1 ELSE h + k - 1 - UART_QUEUE_CAPACITY
<1> DEFINE N == UART_QUEUE_CAPACITY
<1>1. N \in Nat \ {0} /\ h \in 0 .. N - 1 /\ h + k - 1 \in 0 .. 2 * N - 1
  BY UartAssumption DEF Slots
<1>2. Place(h, k) = IF h + k - 1 < N THEN h + k - 1 ELSE h + k - 1 - N
  <2>1. \A x \in 0 .. 2 * N - 1 : x % N = IF x < N THEN x ELSE x - N
    BY <1>1, Wrap
  <2>2. QED
    BY <1>1, <2>1 DEF Place
<1>3. QED
  BY <1>1, <1>2 DEF Slots

\* The contents of a ring are a sequence of bytes, as many as the indices say.
LEMMA ContentsAreBytes ==
  ASSUME NEW r \in Ring
  PROVE  /\ Contents(r) \in Seq(Bytes)
         /\ Len(Contents(r)) = Distance(r.head, r.tail)
         /\ \A k \in 1 .. Distance(r.head, r.tail) : Contents(r)[k] = r.data[Place(r.head, k)]
<1> DEFINE D == Distance(r.head, r.tail)
<1>1. r.head \in Slots /\ r.tail \in Slots /\ r.data \in [Slots -> Bytes]
  BY DEF Ring
<1>2. D \in 0 .. UART_QUEUE_CAPACITY - 1
  BY <1>1, RingArithmetic
<1>3. \A k \in 1 .. D : Place(r.head, k) \in Slots
  BY <1>1, <1>2, PlaceWraps, UartAssumption
<1>4. Contents(r) = [k \in 1 .. D |-> r.data[Place(r.head, k)]]
  BY LengthIsDistance DEF Contents, Place
<1>5. Contents(r) \in [1 .. D -> Bytes]
  BY <1>1, <1>3, <1>4
<1>6. D \in Nat
  BY <1>2
<1>7. QED
  BY <1>4, <1>5, <1>6

\* The byte behind the last one stands at the tail.
LEMMA TailPlace ==
  ASSUME NEW h \in Slots, NEW t \in Slots
  PROVE  Place(h, Distance(h, t) + 1) = t
<1>1. h \in 0 .. UART_QUEUE_CAPACITY - 1 /\ t \in 0 .. UART_QUEUE_CAPACITY - 1
      /\ UART_QUEUE_CAPACITY \in Nat \ {0}
  BY UartAssumption DEF Slots
<1>2. Distance(h, t) + 1 \in 1 .. UART_QUEUE_CAPACITY
  BY <1>1, RingArithmetic
<1>3. QED
  BY <1>1, <1>2, PlaceWraps DEF Distance

\* The tail is not the place of a byte of the ring.
LEMMA TailIsFree ==
  ASSUME NEW h \in Slots, NEW t \in Slots, NEW k \in 1 .. Distance(h, t)
  PROVE  Place(h, k) # t
<1>1. h \in 0 .. UART_QUEUE_CAPACITY - 1 /\ t \in 0 .. UART_QUEUE_CAPACITY - 1
      /\ UART_QUEUE_CAPACITY \in Nat \ {0}
  BY UartAssumption DEF Slots
<1>2. Distance(h, t) \in 0 .. UART_QUEUE_CAPACITY - 1
  BY RingArithmetic
<1>3. k \in 1 .. UART_QUEUE_CAPACITY
  BY <1>1, <1>2
<1>4. QED
  BY <1>1, <1>3, PlaceWraps DEF Distance

\* A step of the head shifts the places by one.
LEMMA PlaceShifts ==
  ASSUME NEW h \in Slots, NEW k \in 1 .. UART_QUEUE_CAPACITY - 1
  PROVE  Place(Succ(h), k) = Place(h, k + 1)
<1>1. h \in 0 .. UART_QUEUE_CAPACITY - 1 /\ UART_QUEUE_CAPACITY \in Nat \ {0}
  BY UartAssumption DEF Slots
<1>2. k \in 1 .. UART_QUEUE_CAPACITY /\ k + 1 \in 1 .. UART_QUEUE_CAPACITY
  BY <1>1
<1>3. QED
  BY <1>1, <1>2, PlaceWraps, SuccWraps

\* The store of a byte into the slot at the tail is not seen by the consumer.
LEMMA SlotUnseen ==
  ASSUME NEW r \in Ring, NEW b \in Bytes
  PROVE  /\ [r EXCEPT !.data[r.tail] = b] \in Ring
         /\ Contents([r EXCEPT !.data[r.tail] = b]) = Contents(r)
<1> DEFINE s == [r EXCEPT !.data[r.tail] = b]
<1>1. r.head \in Slots /\ r.tail \in Slots /\ r.data \in [Slots -> Bytes]
  BY DEF Ring
<1>2. s \in Ring /\ s.head = r.head /\ s.tail = r.tail /\ s.data = [r.data EXCEPT ![r.tail] =
   b]
  BY DEF Ring
<1>3. \A k \in 1 .. Distance(r.head, r.tail) : Place(r.head, k) \in Slots
  <2>1. Distance(r.head, r.tail) \in 0 .. UART_QUEUE_CAPACITY - 1
    BY <1>1, RingArithmetic
  <2>2. QED
    BY <1>1, <2>1, PlaceWraps, UartAssumption
<1>4. \A k \in 1 .. Distance(r.head, r.tail) : s.data[Place(r.head, k)] =
   r.data[Place(r.head, k)]
  BY <1>1, <1>2, <1>3, TailIsFree
<1> HIDE DEF s
<1>5. /\ Contents(s) \in Seq(Bytes) /\ Len(Contents(s)) = Distance(r.head, r.tail)
      /\ \A k \in 1 .. Distance(r.head, r.tail) : Contents(s)[k] = s.data[Place(r.head, k)]
  BY <1>2, ContentsAreBytes
<1>6. /\ Contents(r) \in Seq(Bytes) /\ Len(Contents(r)) = Distance(r.head, r.tail)
      /\ \A k \in 1 .. Distance(r.head, r.tail) : Contents(r)[k] = r.data[Place(r.head, k)]
  BY ContentsAreBytes
<1>7. Contents(s) = Contents(r)
  BY <1>4, <1>5, <1>6, SeqEqual
<1>8. QED
  BY <1>2, <1>7 DEF s

\* The store of the tail appends the byte in the slot, and there was room for it.
LEMMA TailAppends ==
  ASSUME NEW r \in Ring, ~IsFull(r.head, r.tail)
  PROVE  /\ Len(Contents(r)) < UART_QUEUE_CAPACITY - 1
         /\ Contents([r EXCEPT !.tail = Succ(@)]) = Append(Contents(r), r.data[r.tail])
<1> DEFINE s == [r EXCEPT !.tail = Succ(@)]
           D == Distance(r.head, r.tail)
           a == Append(Contents(r), r.data[r.tail])
<1>1. r.head \in Slots /\ r.tail \in Slots /\ r.data \in [Slots -> Bytes]
  BY DEF Ring
<1>2. s \in Ring /\ s.head = r.head /\ s.tail = Succ(r.tail) /\ s.data = r.data
  BY <1>1, SuccWraps DEF Ring
<1>3. D \in 0 .. UART_QUEUE_CAPACITY - 2 /\ Distance(s.head, s.tail) = D + 1
  BY <1>1, <1>2, RingArithmetic, UartAssumption
<1>4. Contents(r) \in Seq(Bytes) /\ Len(Contents(r)) = D
      /\ \A k \in 1 .. D : Contents(r)[k] = r.data[Place(r.head, k)]
  BY ContentsAreBytes
<1>5. Contents(s) \in Seq(Bytes) /\ Len(Contents(s)) = D + 1
      /\ \A k \in 1 .. D + 1 : Contents(s)[k] = r.data[Place(r.head, k)]
  BY <1>2, <1>3, ContentsAreBytes
<1>6. a \in Seq(Bytes) /\ Len(a) = D + 1 /\ a[D + 1] = r.data[r.tail]
      /\ \A k \in 1 .. D : a[k] = Contents(r)[k]
  BY <1>1, <1>4, AppendProperties
<1>7. Place(r.head, D + 1) = r.tail
  BY <1>1, TailPlace
<1>8. \A k \in 1 .. D + 1 : Contents(s)[k] = a[k]
  BY <1>3, <1>4, <1>5, <1>6, <1>7
<1>9. Contents(s) = a
  BY <1>5, <1>6, <1>8, SeqEqual
<1>10. QED
  BY <1>3, <1>4, <1>9, UartAssumption

\* The store of the head takes the oldest byte away.
LEMMA HeadTakes ==
  ASSUME NEW r \in Ring, ~IsEmpty(r.head, r.tail)
  PROVE  /\ Contents(r) # <<>>
         /\ Head(Contents(r)) = r.data[r.head]
         /\ Contents([r EXCEPT !.head = Succ(@)]) = Tail(Contents(r))
<1> DEFINE s == [r EXCEPT !.head = Succ(@)]
           D == Distance(r.head, r.tail)
<1>1. r.head \in Slots /\ r.tail \in Slots /\ r.data \in [Slots -> Bytes]
  BY DEF Ring
<1>2. s \in Ring /\ s.head = Succ(r.head) /\ s.tail = r.tail /\ s.data = r.data
  BY <1>1, SuccWraps DEF Ring
<1>3. D \in 1 .. UART_QUEUE_CAPACITY - 1 /\ Distance(s.head, s.tail) = D - 1
  BY <1>1, <1>2, RingArithmetic, UartAssumption
<1>4. Contents(r) \in Seq(Bytes) /\ Len(Contents(r)) = D
      /\ \A k \in 1 .. D : Contents(r)[k] = r.data[Place(r.head, k)]
  BY ContentsAreBytes
<1>5. Contents(s) \in Seq(Bytes) /\ Len(Contents(s)) = D - 1
      /\ \A k \in 1 .. D - 1 : Contents(s)[k] = r.data[Place(Succ(r.head), k)]
  BY <1>2, <1>3, ContentsAreBytes
<1>6. Contents(r) # <<>>
  BY <1>3, <1>4
<1>7. Tail(Contents(r)) \in Seq(Bytes) /\ Len(Tail(Contents(r))) = D - 1
      /\ \A k \in 1 .. D - 1 : Tail(Contents(r))[k] = Contents(r)[k + 1]
  BY <1>4, <1>6, HeadTailProperties
<1>8. \A k \in 1 .. D - 1 : Contents(s)[k] = Tail(Contents(r))[k]
  <2>1. TAKE k \in 1 .. D - 1
  <2>2. k \in 1 .. UART_QUEUE_CAPACITY - 1 /\ k + 1 \in 1 .. D
    BY <1>3, UartAssumption
  <2>3. Place(Succ(r.head), k) = Place(r.head, k + 1)
    BY <1>1, <2>2, PlaceShifts
  <2>4. QED
    BY <1>4, <1>5, <1>7, <2>2, <2>3
<1>9. Contents(s) = Tail(Contents(r))
  BY <1>5, <1>7, <1>8, SeqEqual
<1>10. Head(Contents(r)) = r.data[r.head]
  <2>1. Place(r.head, 1) = r.head
    BY <1>1, PlaceWraps, UartAssumption DEF Slots
  <2>2. QED
    BY <1>3, <1>4, <2>1
<1>11. QED
  BY <1>6, <1>9, <1>10

\* The RX ring moves in three steps only.
LEMMA RxSteps ==
  ASSUME [Next]_vars
  PROVE  \/ AdvanceReceive
         \/ EnqueueReceive
         \/ StoreReceiveTail
         \/ UNCHANGED <<rx, rxOut>>
<1>1. ASSUME NEW t \in Threads, IdentityIer(t) PROVE UNCHANGED <<rx, rxOut>>
  BY <1>1 DEF IdentityIer, rings, outs
<1>2. ASSUME NEW t \in Threads, IdentityRx(t) PROVE UNCHANGED <<rx, rxOut>>
  BY <1>2 DEF IdentityRx, rings, outs
<1>3. ASSUME NEW t \in Threads, IdentityTx(t) PROVE UNCHANGED <<rx, rxOut>>
  BY <1>3 DEF IdentityTx, rings, outs
<1>4. ASSUME NEW t \in Threads, IdentitySticky(t) PROVE UNCHANGED <<rx, rxOut>>
  BY <1>4 DEF IdentitySticky, rings, outs
<1>acquire. ASSUME NEW t \in Threads, AcquireGateway(t) PROVE UNCHANGED <<rx, rxOut>>
  BY <1>acquire DEF AcquireGateway, rings, outs
<1>drive. ASSUME NEW t \in Threads, DriveIrq(t) PROVE UNCHANGED <<rx, rxOut>>
  BY <1>drive DEF DriveIrq, rings, outs
<1>5. ASSUME NEW t \in Threads, ReleaseGateway(t) PROVE UNCHANGED <<rx, rxOut>>
  BY <1>5 DEF ReleaseGateway, rings, outs
<1>plic. ASSUME AccessPlic PROVE UNCHANGED <<rx, rxOut>>
  BY <1>plic DEF AccessPlic, rings, outs
<1>6. ASSUME NEW t \in Threads, SetSticky(t) PROVE UNCHANGED <<rx, rxOut>>
  BY <1>6 DEF SetSticky, rings, outs
<1>7. ASSUME LoadRbr PROVE UNCHANGED <<rx, rxOut>>
  BY <1>7 DEF LoadRbr, rings
<1>8. ASSUME LoadIir PROVE UNCHANGED <<rx, rxOut>>
  BY <1>8 DEF LoadIir, rings, outs
<1>9. ASSUME LoadLsr PROVE UNCHANGED <<rx, rxOut>>
  BY <1>9 DEF LoadLsr, rings
<1>10. ASSUME NEW b \in Bytes, StoreThr(b) PROVE UNCHANGED <<rx, rxOut>>
  BY <1>10 DEF StoreThr, rings
<1>11. ASSUME NEW S \in IerStores, StoreIer(S) PROVE UNCHANGED <<rx, rxOut>>
  BY <1>11 DEF StoreIer, rings, outs
<1>12. ASSUME NEW d \in BOOLEAN, StoreLcr(d) PROVE UNCHANGED <<rx, rxOut>>
  BY <1>12 DEF StoreLcr, rings, outs
<1>13. ASSUME PopReceive PROVE UNCHANGED <<rx, rxOut>>
  BY <1>13 DEF PopReceive, rings, outs
<1>14. ASSUME ReturnIir PROVE UNCHANGED <<rx, rxOut>>
  BY <1>14 DEF ReturnIir, rings
<1>15. ASSUME LoadLsrTx PROVE UNCHANGED <<rx, rxOut>>
  BY <1>15 DEF LoadLsrTx, rings
<1>16. ASSUME PushTransmit PROVE UNCHANGED <<rx, rxOut>>
  BY <1>16 DEF PushTransmit, rings, outs
<1>17. ASSUME WriteSlot PROVE UNCHANGED <<rx, rxOut>>
  BY <1>17 DEF WriteSlot, outs
<1>18. ASSUME StoreTail PROVE UNCHANGED <<rx, rxOut>>
  BY <1>18 DEF StoreTail, outs
<1>19. ASSUME PublishNonempty PROVE UNCHANGED <<rx, rxOut>>
  BY <1>19 DEF PublishNonempty, rings, outs
<1>20. ASSUME NotifyPump PROVE UNCHANGED <<rx, rxOut>>
  BY <1>20 DEF NotifyPump, rings, outs
<1>21. ASSUME ArmIfReady PROVE UNCHANGED <<rx, rxOut>>
  BY <1>21 DEF ArmIfReady, rings, outs
<1>22. ASSUME ResumePump PROVE UNCHANGED <<rx, rxOut>>
  BY <1>22 DEF ResumePump, rings, outs
<1>23. ASSUME Dequeue PROVE UNCHANGED <<rx, rxOut>>
  BY <1>23 DEF Dequeue, rings, outs
<1>24. ASSUME StoreHead PROVE UNCHANGED <<rx, rxOut>>
  BY <1>24 DEF StoreHead
<1>25. ASSUME PublishRest PROVE UNCHANGED <<rx, rxOut>>
  BY <1>25 DEF PublishRest, rings, outs
<1>26. ASSUME RisingEdge PROVE UNCHANGED <<rx, rxOut>>
  BY <1>26 DEF RisingEdge, rings, outs
<1>27. ASSUME WriteStdout PROVE UNCHANGED <<rx, rxOut>>
  BY <1>27 DEF WriteStdout, rings, outs
<1>28. ASSUME CheckPending PROVE UNCHANGED <<rx, rxOut>>
  BY <1>28 DEF CheckPending, rings, outs
<1>29. ASSUME SnapshotLevel PROVE UNCHANGED <<rx, rxOut>>
  BY <1>29 DEF SnapshotLevel, rings, outs
<1>30. ASSUME RecheckPending PROVE UNCHANGED <<rx, rxOut>>
  BY <1>30 DEF RecheckPending, rings, outs
<1>31. ASSUME WaitAsync PROVE UNCHANGED <<rx, rxOut>>
  BY <1>31 DEF WaitAsync, rings, outs
<1>32. ASSUME AfterRace PROVE UNCHANGED <<rx, rxOut>>
  BY <1>32 DEF AfterRace, rings, outs
<1>33. ASSUME NEW b \in StdinBytes, StdinByte(b) PROVE UNCHANGED <<rx, rxOut>>
  BY <1>33 DEF StdinByte, rings, outs
<1>34. ASSUME StopMessage PROVE UNCHANGED <<rx, rxOut>>
  BY <1>34 DEF StopMessage, rings, outs
<1>35. ASSUME StdoutDrains PROVE UNCHANGED <<rx, rxOut>>
  BY <1>35 DEF StdoutDrains, rings, outs
<1>36. ASSUME StdoutDies PROVE UNCHANGED <<rx, rxOut>>
  BY <1>36 DEF StdoutDies, rings, outs
<1>37. ASSUME FinishStdout PROVE UNCHANGED <<rx, rxOut>>
  BY <1>37 DEF FinishStdout, rings, outs
<1>38. ASSUME TerminateHart PROVE UNCHANGED <<rx, rxOut>>
  BY <1>38 DEF TerminateHart, rings, outs
<1>39. ASSUME UNCHANGED vars PROVE UNCHANGED <<rx, rxOut>>
  BY <1>39 DEF vars, rings, outs
<1>40. QED
  BY <1>1, <1>2, <1>3, <1>4, <1>5, <1>acquire, <1>drive, <1>plic, <1>6, <1>7, <1>8, <1>9, <1>10,
     <1>11, <1>12, <1>13, <1>14,
     <1>15, <1>16, <1>17, <1>18, <1>19, <1>20, <1>21, <1>22, <1>23, <1>24, <1>25, <1>26,
     <1>27, <1>28, <1>29, <1>30, <1>31, <1>32, <1>33, <1>34, <1>35, <1>36, <1>37, <1>38,
     <1>39
     DEF Next, HartStarts, HartProceeds, TerminalProceeds, Environment, RefreshStep, Threads

\* The TX ring moves in three steps only.
LEMMA TxSteps ==
  ASSUME [Next]_vars
  PROVE  \/ WriteSlot
         \/ StoreTail
         \/ StoreHead
         \/ UNCHANGED <<tx, txOut>>
<1>1. ASSUME NEW t \in Threads, IdentityIer(t) PROVE UNCHANGED <<tx, txOut>>
  BY <1>1 DEF IdentityIer, rings, outs
<1>2. ASSUME NEW t \in Threads, IdentityRx(t) PROVE UNCHANGED <<tx, txOut>>
  BY <1>2 DEF IdentityRx, rings, outs
<1>3. ASSUME NEW t \in Threads, IdentityTx(t) PROVE UNCHANGED <<tx, txOut>>
  BY <1>3 DEF IdentityTx, rings, outs
<1>4. ASSUME NEW t \in Threads, IdentitySticky(t) PROVE UNCHANGED <<tx, txOut>>
  BY <1>4 DEF IdentitySticky, rings, outs
<1>acquire. ASSUME NEW t \in Threads, AcquireGateway(t) PROVE UNCHANGED <<tx, txOut>>
  BY <1>acquire DEF AcquireGateway, rings, outs
<1>drive. ASSUME NEW t \in Threads, DriveIrq(t) PROVE UNCHANGED <<tx, txOut>>
  BY <1>drive DEF DriveIrq, rings, outs
<1>5. ASSUME NEW t \in Threads, ReleaseGateway(t) PROVE UNCHANGED <<tx, txOut>>
  BY <1>5 DEF ReleaseGateway, rings, outs
<1>plic. ASSUME AccessPlic PROVE UNCHANGED <<tx, txOut>>
  BY <1>plic DEF AccessPlic, rings, outs
<1>6. ASSUME NEW t \in Threads, SetSticky(t) PROVE UNCHANGED <<tx, txOut>>
  BY <1>6 DEF SetSticky, rings, outs
<1>7. ASSUME LoadRbr PROVE UNCHANGED <<tx, txOut>>
  BY <1>7 DEF LoadRbr, rings
<1>8. ASSUME LoadIir PROVE UNCHANGED <<tx, txOut>>
  BY <1>8 DEF LoadIir, rings, outs
<1>9. ASSUME LoadLsr PROVE UNCHANGED <<tx, txOut>>
  BY <1>9 DEF LoadLsr, rings
<1>10. ASSUME NEW b \in Bytes, StoreThr(b) PROVE UNCHANGED <<tx, txOut>>
  BY <1>10 DEF StoreThr, rings
<1>11. ASSUME NEW S \in IerStores, StoreIer(S) PROVE UNCHANGED <<tx, txOut>>
  BY <1>11 DEF StoreIer, rings, outs
<1>12. ASSUME NEW d \in BOOLEAN, StoreLcr(d) PROVE UNCHANGED <<tx, txOut>>
  BY <1>12 DEF StoreLcr, rings, outs
<1>13. ASSUME PopReceive PROVE UNCHANGED <<tx, txOut>>
  BY <1>13 DEF PopReceive, rings, outs
<1>14. ASSUME AdvanceReceive PROVE UNCHANGED <<tx, txOut>>
  BY <1>14 DEF AdvanceReceive
<1>15. ASSUME ReturnIir PROVE UNCHANGED <<tx, txOut>>
  BY <1>15 DEF ReturnIir, rings
<1>16. ASSUME LoadLsrTx PROVE UNCHANGED <<tx, txOut>>
  BY <1>16 DEF LoadLsrTx, rings
<1>17. ASSUME PushTransmit PROVE UNCHANGED <<tx, txOut>>
  BY <1>17 DEF PushTransmit, rings, outs
<1>18. ASSUME PublishNonempty PROVE UNCHANGED <<tx, txOut>>
  BY <1>18 DEF PublishNonempty, rings, outs
<1>19. ASSUME NotifyPump PROVE UNCHANGED <<tx, txOut>>
  BY <1>19 DEF NotifyPump, rings, outs
<1>20. ASSUME ArmIfReady PROVE UNCHANGED <<tx, txOut>>
  BY <1>20 DEF ArmIfReady, rings, outs
<1>21. ASSUME EnqueueReceive PROVE UNCHANGED <<tx, txOut>>
  BY <1>21 DEF EnqueueReceive, outs
<1>22. ASSUME StoreReceiveTail PROVE UNCHANGED <<tx, txOut>>
  BY <1>22 DEF StoreReceiveTail, outs
<1>23. ASSUME ResumePump PROVE UNCHANGED <<tx, txOut>>
  BY <1>23 DEF ResumePump, rings, outs
<1>24. ASSUME Dequeue PROVE UNCHANGED <<tx, txOut>>
  BY <1>24 DEF Dequeue, rings, outs
<1>25. ASSUME PublishRest PROVE UNCHANGED <<tx, txOut>>
  BY <1>25 DEF PublishRest, rings, outs
<1>26. ASSUME RisingEdge PROVE UNCHANGED <<tx, txOut>>
  BY <1>26 DEF RisingEdge, rings, outs
<1>27. ASSUME WriteStdout PROVE UNCHANGED <<tx, txOut>>
  BY <1>27 DEF WriteStdout, rings, outs
<1>28. ASSUME CheckPending PROVE UNCHANGED <<tx, txOut>>
  BY <1>28 DEF CheckPending, rings, outs
<1>29. ASSUME SnapshotLevel PROVE UNCHANGED <<tx, txOut>>
  BY <1>29 DEF SnapshotLevel, rings, outs
<1>30. ASSUME RecheckPending PROVE UNCHANGED <<tx, txOut>>
  BY <1>30 DEF RecheckPending, rings, outs
<1>31. ASSUME WaitAsync PROVE UNCHANGED <<tx, txOut>>
  BY <1>31 DEF WaitAsync, rings, outs
<1>32. ASSUME AfterRace PROVE UNCHANGED <<tx, txOut>>
  BY <1>32 DEF AfterRace, rings, outs
<1>33. ASSUME NEW b \in StdinBytes, StdinByte(b) PROVE UNCHANGED <<tx, txOut>>
  BY <1>33 DEF StdinByte, rings, outs
<1>34. ASSUME StopMessage PROVE UNCHANGED <<tx, txOut>>
  BY <1>34 DEF StopMessage, rings, outs
<1>35. ASSUME StdoutDrains PROVE UNCHANGED <<tx, txOut>>
  BY <1>35 DEF StdoutDrains, rings, outs
<1>36. ASSUME StdoutDies PROVE UNCHANGED <<tx, txOut>>
  BY <1>36 DEF StdoutDies, rings, outs
<1>37. ASSUME FinishStdout PROVE UNCHANGED <<tx, txOut>>
  BY <1>37 DEF FinishStdout, rings, outs
<1>38. ASSUME TerminateHart PROVE UNCHANGED <<tx, txOut>>
  BY <1>38 DEF TerminateHart, rings, outs
<1>39. ASSUME UNCHANGED vars PROVE UNCHANGED <<tx, txOut>>
  BY <1>39 DEF vars, rings, outs
<1>40. QED
  BY <1>1, <1>2, <1>3, <1>4, <1>5, <1>acquire, <1>drive, <1>plic, <1>6, <1>7, <1>8, <1>9, <1>10,
     <1>11, <1>12, <1>13, <1>14,
     <1>15, <1>16, <1>17, <1>18, <1>19, <1>20, <1>21, <1>22, <1>23, <1>24, <1>25, <1>26,
     <1>27, <1>28, <1>29, <1>30, <1>31, <1>32, <1>33, <1>34, <1>35, <1>36, <1>37, <1>38,
     <1>39
     DEF Next, HartStarts, HartProceeds, TerminalProceeds, Environment, RefreshStep, Threads
-----------------------------------------------------------------------------
(* The theorems.                                                             *)

\* The invariant holds when both threads start.
LEMMA InitInv == ASSUME Init PROVE IInv
<1>1. rx = [head |-> 0, tail |-> 0, data |-> [i \in Slots |-> NoLocals.byte]] /\ tx = rx
  BY DEF Init
<1>2. 0 \in Slots /\ UART_QUEUE_CAPACITY \in Nat \ {0, 1}
  BY UartAssumption DEF Slots
<1>4. NoLocals \in Locals /\ NoLocals.byte \in Bytes
  BY NoLocalsTyped DEF Locals
<1>3. rx \in Ring /\ tx \in Ring
  BY <1>1, <1>2, <1>4 DEF Ring
<1>5. pc["hart"] = "idle" /\ pc["terminal"] = "dequeue"
  BY DEF Init, Threads
<1>6. \A t \in Threads : loc[t] = NoLocals
  BY DEF Init
<1>7. Shape
  <2>1. TypeOK
    <3>1. \A t \in Threads : loc[t] \in Locals
      BY <1>4, <1>6
    <3>2. txWake = 0 /\ ier = {} /\ pump = "running" /\ owed = 0 /\ rxOut \in Bytes /\ txOut
       \in Bytes /\ seen = {}
      BY <1>4 DEF Init
    <3>3. 0 \in 0 .. UART_QUEUE_CAPACITY - 1 /\ pc["hart"] \in HartLabels /\ pc["terminal"]
       \in TerminalLabels
      BY <1>2, <1>5 DEF HartLabels, TerminalLabels
    <3>4. /\ dlab \in BOOLEAN /\ sticky \in BOOLEAN /\ plic \in Gateway
          /\ stop \in BOOLEAN /\ final \in BOOLEAN /\ late \in BOOLEAN
      BY DEF Init, Gateway
    <3>5. ier \subseteq Enables /\ seen \subseteq {"DR", "THRE"} /\ txWake \in 0 .. 1
      BY <3>2
    <3>6. QED
      BY <1>3, <3>1, <3>2, <3>3, <3>4, <3>5, Zenon DEF TypeOK, Locals
  <2>2. pc \in [Threads -> HartLabels \cup TerminalLabels]
    BY DEF Init, HartLabels, TerminalLabels, Threads
  <2>3. loc \in [Threads -> Locals]
    BY <1>4 DEF Init
  <2>4. QED
    BY <2>1, <2>2, <2>3, <1>5 DEF Shape, Identifying
<1>8. Control
  BY <1>5 DEF Init, Control, PumpLabels
<1>9. TestsHold
  BY <1>5 DEF TestsHold
<1>10. PromisesHold
  BY <1>5 DEF Init, PromisesHold, LineStatusKept
<1>11. WakeHolds
  BY <1>5 DEF Init, WakeHolds, SleepsOnlyWhenEmpty
<1>12. OwedHolds
  <2>1. Distance(tx.head, tx.tail) \in 0 .. UART_QUEUE_CAPACITY - 1
    BY <1>3, RingArithmetic DEF Ring
  <2>2. QED
    BY <2>1, <1>2 DEF Init, OwedHolds, StopFlushes
<1>13. QED
  BY <1>7, <1>8, <1>9, <1>10, <1>11, <1>12 DEF IInv

\* Every step of either thread keeps it.
LEMMA StepInv == ASSUME IInv, [Next]_vars PROVE IInv'
BY ShapeKept, ControlKept, TestsHoldKept, PromisesHoldKept, WakeHoldsKept, OwedHoldsKept DEF
   IInv

\* The invariant the other theorems rest on.
THEOREM Invariant == Spec => []IInv
<1>1. Init => IInv
  BY InitInv
<1>2. IInv /\ [Next]_vars => IInv'
  BY StepInv
<1>3. QED
  BY <1>1, <1>2, PTL DEF Spec

\* Ring indices, level word, locals and places stay in their ranges.
THEOREM TypeCorrect == Spec => []TypeOK
<1>1. IInv => TypeOK
  BY DEF IInv, Shape
<1>2. QED
  BY <1>1, Invariant, PTL

\* What LSR or IIR told the guest holds until the guest has acted on it, for every
\* ring size and whatever the terminal does in between.
THEOREM StatusKept == Spec => []LineStatusKept
<1>1. IInv => LineStatusKept
  BY DEF IInv, PromisesHold
<1>2. QED
  BY <1>1, Invariant, PTL

\* But for a late publish, the pump is never asleep over bytes nobody will tell it of.
THEOREM PumpWakes == Spec => []SleepsOnlyWhenEmpty
<1>1. IInv => SleepsOnlyWhenEmpty
  BY DEF IInv, WakeHolds
<1>2. QED
  BY <1>1, Invariant, PTL

\* When stdout is ended, every byte the ring held at the stop has been popped.
THEOREM Flushed == Spec => []StopFlushes
<1>1. IInv => StopFlushes
  BY DEF IInv, OwedHolds
<1>2. QED
  BY <1>1, Invariant, PTL

\* A ring whose indices are equal is an empty queue.
LEMMA EmptyContents ==
  ASSUME NEW r \in Ring, IsEmpty(r.head, r.tail) PROVE Contents(r) = <<>>
<1>1. Distance(r.head, r.tail) = 0
  BY RingArithmetic DEF Ring
<1>2. Contents(r) \in Seq(Bytes) /\ Len(Contents(r)) = 0
  BY <1>1, ContentsAreBytes
<1>3. QED
  BY <1>2, EmptySeq

\* Each access to the RX ring appends, takes, or is not seen.
LEMMA RxStep ==
  ASSUME IInv, [Next]_vars
  PROVE  RxQueue!Next \/ UNCHANGED <<Contents(rx), rxOut>>
<1> USE DEF IInv
<1>1. rx \in Ring /\ rx.head \in Slots /\ rx.tail \in Slots /\ rx.data \in [Slots -> Bytes]
  BY DEF Shape, TypeOK, Ring
<1>2. CASE AdvanceReceive
  <2>1. ~IsEmpty(rx.head, rx.tail) /\ rxOut' = rx.data[rx.head] /\ rx' = [rx EXCEPT !.head =
     Succ(@)]
    BY <1>2 DEF AdvanceReceive, At, TestsHold, RxReady
  <2>2. QED
    BY <1>1, <2>1, HeadTakes DEF RxQueue!Next, RxQueue!Get
<1>3. CASE EnqueueReceive
  <2>1. loc["terminal"].byte \in Bytes
    BY DEF Shape, TypeOK, Threads
  <2>2. rxOut' = rxOut /\ (rx' = rx \/ rx' = [rx EXCEPT !.data[rx.tail] =
     loc["terminal"].byte])
    BY <1>3 DEF EnqueueReceive, outs
  <2>3. QED
    BY <1>1, <2>1, <2>2, SlotUnseen
<1>4. CASE StoreReceiveTail
  <2>1. ~IsFull(rx.head, rx.tail) /\ rxOut' = rxOut /\ rx' = [rx EXCEPT !.tail = Succ(@)]
    BY <1>4 DEF StoreReceiveTail, At, TestsHold, outs
  <2>2. QED
    BY <1>1, <2>1, TailAppends DEF RxQueue!Next, RxQueue!Put
<1>5. CASE UNCHANGED <<rx, rxOut>>
  BY <1>5
<1>6. QED
  BY <1>2, <1>3, <1>4, <1>5, RxSteps

\* The RX ring is a bounded FIFO: for every ring size, no byte that the terminal
\* receives is torn, overwritten, repeated or overtaken on its way to the guest.
THEOREM RxRing == Spec => RxIsFifo
<1>1. Init => RxQueue!Init
  <2>1. ASSUME Init PROVE RxQueue!Init
    <3>1. rx \in Ring /\ rxOut \in Bytes
      BY <2>1, InitInv DEF IInv, Shape, TypeOK
    <3>2. IsEmpty(rx.head, rx.tail)
      BY <2>1 DEF Init, IsEmpty
    <3>3. QED
      BY <3>1, <3>2, EmptyContents DEF RxQueue!Init
  <2>2. QED
    BY <2>1
<1>2. IInv /\ [Next]_vars => [RxQueue!Next]_(RxQueue!vars)
  BY RxStep DEF RxQueue!vars
<1>3. QED
  BY <1>1, <1>2, Invariant, PTL DEF Spec, RxIsFifo, RxQueue!Spec

\* Each access to the TX ring appends, takes, or is not seen.
LEMMA TxStep ==
  ASSUME IInv, [Next]_vars
  PROVE  TxQueue!Next \/ UNCHANGED <<Contents(tx), txOut>>
<1> USE DEF IInv
<1>1. tx \in Ring /\ tx.head \in Slots /\ tx.tail \in Slots /\ tx.data \in [Slots -> Bytes]
  BY DEF Shape, TypeOK, Ring
<1>2. CASE StoreHead
  <2>1. ~IsEmpty(tx.head, tx.tail) /\ txOut' = tx.data[tx.head] /\ tx' = [tx EXCEPT !.head =
     Succ(@)]
    BY <1>2 DEF StoreHead, At, TestsHold
  <2>2. QED
    BY <1>1, <2>1, HeadTakes DEF TxQueue!Next, TxQueue!Get
<1>3. CASE WriteSlot
  <2>1. loc["hart"].byte \in Bytes
    BY DEF Shape, TypeOK, Threads
  <2>2. txOut' = txOut /\ tx' = [tx EXCEPT !.data[tx.tail] = loc["hart"].byte]
    BY <1>3 DEF WriteSlot, outs
  <2>3. QED
    BY <1>1, <2>1, <2>2, SlotUnseen
<1>4. CASE StoreTail
  <2>1. ~IsFull(tx.head, tx.tail) /\ txOut' = txOut /\ tx' = [tx EXCEPT !.tail = Succ(@)]
    BY <1>4 DEF StoreTail, At, TestsHold, Thre, outs
  <2>2. QED
    BY <1>1, <2>1, TailAppends DEF TxQueue!Next, TxQueue!Put
<1>5. CASE UNCHANGED <<tx, txOut>>
  BY <1>5
<1>6. QED
  BY <1>2, <1>3, <1>4, <1>5, TxSteps

\* The TX ring is a bounded FIFO between the guest and the pump.
THEOREM TxRing == Spec => TxIsFifo
<1>1. Init => TxQueue!Init
  <2>1. ASSUME Init PROVE TxQueue!Init
    <3>1. tx \in Ring /\ txOut \in Bytes
      BY <2>1, InitInv DEF IInv, Shape, TypeOK
    <3>2. IsEmpty(tx.head, tx.tail)
      BY <2>1 DEF Init, IsEmpty
    <3>3. QED
      BY <3>1, <3>2, EmptyContents DEF TxQueue!Init
  <2>2. QED
    BY <2>1
<1>2. IInv /\ [Next]_vars => [TxQueue!Next]_(TxQueue!vars)
  BY TxStep DEF TxQueue!vars
<1>3. QED
  BY <1>1, <1>2, Invariant, PTL DEF Spec, TxIsFifo, TxQueue!Spec
=============================================================================
