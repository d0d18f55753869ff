----------------------------- MODULE ClintProofs -----------------------------
(* Proofs about Clint, for any workload, cap on attempts and bound of the     *)
(* clock: the timer wires are exact at rest, and wfi does not sleep over one. *)
EXTENDS Clint, TLAPS

Locals == [mtime : Words, epoch : Words, cmp : Words, mirror : Words,
           which : Timers, attempt : 1 .. TIMER_WIRE_UPDATE_ATTEMPTS, next : Labels]

\* TypeOK, conjunct by conjunct.
Typed ==
  /\ now \in 0 .. MaxNow
  /\ mtime \in Words /\ epoch \in Words /\ mtimecmp \in Words /\ mirror \in Words
  /\ stimecmp \in Words /\ saw \in Words
  /\ stce \in BOOLEAN /\ gaveUp \in BOOLEAN /\ torn \in BOOLEAN
  /\ wire \subseteq Timers /\ level \subseteq Timers /\ mip \subseteq Timers
  /\ phase \in {"run", "first", "second"} /\ from \subseteq Timers
  /\ pc \in [Threads -> Labels]
  /\ loc \in [Threads -> Locals]

\* Where each thread may be, and what follows its tick or its update.
Places ==
  /\ pc["timer"] \in Updating \cup Ticking \cup {"idle"}
  /\ loc["timer"].next = "idle"
  /\ pc["hart"] \in Ticking => loc["hart"].next = "load"
  /\ pc["hart"] \in Updating => loc["hart"].next \in {"load", "sampleM", "sampleS"}
  /\ pc["hart"] \in Ticking \cup {"idle", "load", "stored", "reseat"} => phase = "run"
  /\ pc["hart"] \in Updating /\ phase # "run" => loc["hart"].next = "sampleS"
  /\ pc["hart"] = "loadLevel" => phase = "first"
  /\ pc["hart"] \in {"wait", "parked"} => phase = "second"

\* From the publication to the sample of STIP the mirror is the compare of the hart.
Mirrored ==
  pc["hart"] = "sampleS" \/ (pc["hart"] \in Updating /\ loc["hart"].next = "sampleS")
    => mirror = (IF stce THEN stimecmp ELSE AllOnes)

\* What wfi read from a level that agreed with the wires has not fallen since.
FromStaysHigh ==
  phase = "second" /\ ~torn => from \subseteq wire /\ from \subseteq level

\* A wire that rose since is about to reach the level.
RiseUnderway ==
  phase = "second" /\ ~torn =>
    \A k \in wire \ level : \E t \in Threads : pc[t] = "level" /\ loc[t].which = k /\ Verdict(t)

\* Once the hart is parked, a level that changed is about to be notified.
ChangeNotified ==
  pc["hart"] = "parked" /\ level # from => pc["timer"] = "notify"

\* The second sample takes the machine timer that wfi found high.
MachineTaken ==
  phase = "second" /\ ~torn /\ pc["hart"] \in Updating \cup {"publish", "sampleS"} =>
    ("M" \in from => "M" \in mip)

\* So a hart that goes on to wait found no enabled timer high that it samples.
NothingFound ==
  pc["hart"] \in {"wait", "parked"} /\ ~torn =>
    \A k \in from \cap Enabled : k = "S" /\ ~stce

\* Why wfi does not sleep over an enabled timer.
Quiet == FromStaysHigh /\ RiseUnderway /\ ChangeNotified /\ MachineTaken /\ NothingFound

\* A word is at least 0 and below the modulus.
LEMMA ZeroIsWord == 0 \in Words /\ AllOnes \in Words
BY ClintAssumption DEF Words, AllOnes

\* Reduction modulo 2^64 gives a word.
LEMMA ModIsWord == ASSUME NEW a \in Int PROVE a % TwoTo64 \in Words
BY ClintAssumption DEF Words, AllOnes

\* The ticks computed from the clock are a word.
LEMMA TicksAreWord ==
  ASSUME NEW n \in Int, NEW e \in Int PROVE TicksAt(n, e) \in Words
<1>1. Quotient(n - e, NsPerTick) \in Int
  BY ClintAssumption DEF Quotient
<1>2. QED
  BY <1>1, ModIsWord DEF TicksAt
\* They are the same.
LEMMA TypedIsType == Typed <=> TypeOK
BY DEF Typed, TypeOK, Locals

\* The locals a thread starts an update with.
LEMMA FreshTyped ==
  /\ NoLocals \in Locals
  /\ \A x \in Labels : [NoLocals EXCEPT !.next = x] \in Locals
<1>1. 1 \in 1 .. TIMER_WIRE_UPDATE_ATTEMPTS /\ "idle" \in Labels /\ "M" \in Timers
  BY ClintAssumption DEF Labels, Timers
<1>2. NoLocals \in Locals
  BY <1>1, ZeroIsWord DEF NoLocals, Locals
<1>3. QED
  BY <1>2 DEF Locals

\* The types of where the threads are.
PlacesTyped == pc \in [Threads -> Labels] /\ loc \in [Threads -> Locals] /\ gaveUp \in BOOLEAN

\* The last read of the inputs keeps the types.
LEMMA MirrorTyped ==
  ASSUME Typed, NEW t \in Threads, ReadMirror(t)
  PROVE  loc' \in [Threads -> Locals]
<1>1. mirror \in Words /\ "M" \in Timers /\ loc \in [Threads -> Locals]
  BY DEF Typed, Timers
<1>2. [loc[t] EXCEPT !.mirror = mirror, !.which = "M"] \in Locals
  BY <1>1 DEF Locals
<1>3. QED
  BY <1>1, <1>2 DEF ReadMirror

\* Entering the update keeps the types.
LEMMA UpdateTyped ==
  ASSUME PlacesTyped, NEW t \in Threads, NEW x \in Labels, Update(t, x)
  PROVE  PlacesTyped'
<1>1. "readMtime" \in Labels
  BY DEF Labels, Updating
<1>2. pc' \in [Threads -> Labels]
  BY <1>1 DEF PlacesTyped, Update, Goto
<1>3. loc' \in [Threads -> Locals]
  BY FreshTyped DEF PlacesTyped, Update
<1>4. gaveUp' \in BOOLEAN
  BY DEF PlacesTyped, Update
<1>5. QED
  BY <1>2, <1>3, <1>4 DEF PlacesTyped

\* So does starting it over, or giving up.
LEMMA RetryTyped ==
  ASSUME PlacesTyped, NEW t \in Threads, Retry(t)
  PROVE  PlacesTyped'
<1>1. "readMtime" \in Labels /\ loc[t] \in Locals
  BY DEF Labels, Updating, PlacesTyped
<1>2. loc[t].next \in Labels
  BY <1>1 DEF Locals
<1>3. CASE loc[t].attempt < TIMER_WIRE_UPDATE_ATTEMPTS
  <2>1. loc[t].attempt + 1 \in 1 .. TIMER_WIRE_UPDATE_ATTEMPTS
    BY <1>1, <1>3, ClintAssumption DEF Locals
  <2>2. [loc[t] EXCEPT !.attempt = @ + 1] \in Locals
    BY <1>1, <2>1 DEF Locals
  <2>3. QED
    BY <1>1, <1>3, <2>2 DEF PlacesTyped, Retry, Goto
<1>4. CASE ~(loc[t].attempt < TIMER_WIRE_UPDATE_ATTEMPTS)
  BY <1>2, <1>4, FreshTyped DEF PlacesTyped, Retry, Goto
<1>5. QED
  BY <1>3, <1>4

\* Every step keeps the types.
LEMMA TypeStep == Typed /\ [Next]_vars => Typed'
<1> SUFFICES ASSUME Typed, [Next]_vars PROVE Typed'
  OBVIOUS
<1> USE ClintAssumption DEF Typed, Locals, Labels, Updating, Ticking, Goto, At, Threads, time,
    lines, hart, csr, notes
<1>1. CASE HostClock
  BY <1>1 DEF HostClock, Words
<1>2. ASSUME NEW t \in Threads, ReadMtime(t) PROVE Typed'
  BY <1>2 DEF ReadMtime
<1>3. ASSUME NEW t \in Threads, ReadCompare(t) PROVE Typed'
  BY <1>3 DEF ReadCompare
<1>4. ASSUME NEW t \in Threads, ReadMirror(t) PROVE Typed'
  <2>1. loc' \in [Threads -> Locals]
    BY <1>4, MirrorTyped
  <2>2. QED
    BY <1>4, <2>1 DEF ReadMirror
<1>5. ASSUME NEW t \in Threads, StoreWire(t) PROVE Typed'
  BY <1>5 DEF StoreWire, With
<1>6. ASSUME NEW t \in Threads, StoreLevel(t) PROVE Typed'
  BY <1>6 DEF StoreLevel, With, AfterWire, Timers
<1>7. ASSUME NEW t \in Threads, Notify(t) PROVE Typed'
  BY <1>7 DEF Notify, Timers
<1>8. ASSUME NEW t \in Threads, CheckMtime(t) PROVE Typed'
  BY <1>8, RetryTyped DEF CheckMtime, PlacesTyped
<1>9. ASSUME NEW t \in Threads, CheckCompare(t) PROVE Typed'
  BY <1>9, RetryTyped DEF CheckCompare, PlacesTyped
<1>10. ASSUME NEW t \in Threads, CheckMirror(t) PROVE Typed'
  <2>1. loc[t].next \in Labels
    OBVIOUS
  <2>2. QED
    BY <1>10, <2>1, FreshTyped, RetryTyped DEF CheckMirror, PlacesTyped
<1>11. ASSUME NEW t \in Threads, ReadEpoch(t) PROVE Typed'
  BY <1>11 DEF ReadEpoch
<1>12. ASSUME NEW t \in Threads, ReadClock(t) PROVE Typed'
  BY <1>12, TicksAreWord DEF ReadClock, Words
<1>13. ASSUME NEW t \in Threads, ReadPrevious(t) PROVE Typed'
  BY <1>13 DEF ReadPrevious
<1>14. ASSUME NEW t \in Threads, Exchange(t) PROVE Typed'
  BY <1>14 DEF Exchange
<1>15. ASSUME NEW t \in Threads, CheckEpoch(t) PROVE Typed'
  <2>1. loc[t].next \in Labels /\ "tick" \in Labels
    OBVIOUS
  <2>2. QED
    BY <1>15, <2>1, UpdateTyped DEF CheckEpoch, PlacesTyped
<1>16. CASE TimerTick
  BY <1>16 DEF TimerTick
<1>17. CASE LoadMtime
  BY <1>17 DEF LoadMtime
<1>18. CASE StartWfi
  BY <1>18 DEF StartWfi
<1>19. CASE ReturnMtime
  BY <1>19 DEF ReturnMtime
<1>20. CASE ReadClockForEpoch
  <2>1. now \in Words
    BY DEF Words, AllOnes
  <2>2. QED
    BY <1>20, <2>1 DEF ReadClockForEpoch
<1>21. CASE ReseatEpoch
  <2>1. loc["hart"].epoch - loc["hart"].mtime * NsPerTick \in Int
    BY DEF Words
  <2>2. epoch' \in Words
    BY <1>21, <2>1, ModIsWord DEF ReseatEpoch
  <2>3. QED
    BY <1>21, <2>2, UpdateTyped DEF ReseatEpoch, PlacesTyped
<1>22. CASE SampleM
  BY <1>22 DEF SampleM, Timers
<1>23. CASE PublishCompare
  BY <1>23, ZeroIsWord, UpdateTyped DEF PublishCompare, PlacesTyped
<1>24. CASE SampleS
  BY <1>24 DEF SampleS, AfterSample, Timers
<1>25. CASE LoadLevel
  BY <1>25 DEF LoadLevel
<1>26. CASE WaitIrqLevel
  BY <1>26 DEF WaitIrqLevel
<1>27. ASSUME NEW on \in BOOLEAN, WriteMenvcfg(on) PROVE Typed'
  BY <1>27 DEF WriteMenvcfg, Timers
<1>28. ASSUME NEW v \in Compares, StoreMtimecmp(v) PROVE Typed'
  BY <1>28, FreshTyped DEF StoreMtimecmp, Update
<1>29. ASSUME NEW v \in Compares, WriteStimecmp(v) PROVE Typed'
  BY <1>29 DEF WriteStimecmp
<1>30. ASSUME NEW v \in Times, StoreMtime(v) PROVE Typed'
  BY <1>30, ZeroIsWord DEF StoreMtime
<1>31. CASE UNCHANGED vars
  BY <1>31 DEF vars
<1>32. QED
  BY <1>1, <1>2, <1>3, <1>4, <1>5, <1>6, <1>7, <1>8, <1>9, <1>10, <1>11, <1>12, <1>13,
     <1>14, <1>15, <1>16, <1>17, <1>18, <1>19, <1>20, <1>21, <1>22, <1>23, <1>24, <1>25,
     <1>26, <1>27, <1>28, <1>29, <1>30, <1>31
     DEF Next, GuestStarts, HartStep, TimerStep, TickStep, UpdateStep

\* Every step leaves the threads where they may be, and the compare published.
LEMMA PlacesStep == Typed /\ Places /\ Mirrored /\ [Next]_vars => Places' /\ Mirrored'
<1> SUFFICES ASSUME Typed, Places, Mirrored, [Next]_vars PROVE Places' /\ Mirrored'
  OBVIOUS
<1> USE DEF Typed, Locals, Places, Mirrored, Updating, Ticking, Goto, At, Threads, time, lines,
    hart, csr, notes
<1>1. CASE HostClock
  BY <1>1 DEF HostClock
<1>2. ASSUME NEW t \in Threads, ReadMtime(t) PROVE Places' /\ Mirrored'
  BY <1>2 DEF ReadMtime
<1>3. ASSUME NEW t \in Threads, ReadCompare(t) PROVE Places' /\ Mirrored'
  BY <1>3 DEF ReadCompare
<1>4. ASSUME NEW t \in Threads, ReadMirror(t) PROVE Places' /\ Mirrored'
  BY <1>4 DEF ReadMirror
<1>5. ASSUME NEW t \in Threads, StoreWire(t) PROVE Places' /\ Mirrored'
  BY <1>5 DEF StoreWire
<1>6. ASSUME NEW t \in Threads, StoreLevel(t) PROVE Places' /\ Mirrored'
  BY <1>6 DEF StoreLevel, AfterWire
<1>7. ASSUME NEW t \in Threads, Notify(t) PROVE Places' /\ Mirrored'
  BY <1>7 DEF Notify
<1>8. ASSUME NEW t \in Threads, CheckMtime(t) PROVE Places' /\ Mirrored'
  BY <1>8 DEF CheckMtime, Retry, NoLocals
<1>9. ASSUME NEW t \in Threads, CheckCompare(t) PROVE Places' /\ Mirrored'
  BY <1>9 DEF CheckCompare, Retry, NoLocals
<1>10. ASSUME NEW t \in Threads, CheckMirror(t) PROVE Places' /\ Mirrored'
  BY <1>10 DEF CheckMirror, Retry, NoLocals
<1>11. ASSUME NEW t \in Threads, ReadEpoch(t) PROVE Places' /\ Mirrored'
  BY <1>11 DEF ReadEpoch
<1>12. ASSUME NEW t \in Threads, ReadClock(t) PROVE Places' /\ Mirrored'
  BY <1>12 DEF ReadClock
<1>13. ASSUME NEW t \in Threads, ReadPrevious(t) PROVE Places' /\ Mirrored'
  BY <1>13 DEF ReadPrevious
<1>14. ASSUME NEW t \in Threads, Exchange(t) PROVE Places' /\ Mirrored'
  BY <1>14 DEF Exchange
<1>15. ASSUME NEW t \in Threads, CheckEpoch(t) PROVE Places' /\ Mirrored'
  BY <1>15 DEF CheckEpoch, Update, NoLocals
<1>16. CASE TimerTick
  BY <1>16 DEF TimerTick
<1>17. CASE LoadMtime
  BY <1>17 DEF LoadMtime
<1>18. CASE StartWfi
  BY <1>18 DEF StartWfi
<1>19. CASE ReturnMtime
  BY <1>19 DEF ReturnMtime
<1>20. CASE ReadClockForEpoch
  BY <1>20 DEF ReadClockForEpoch
<1>21. CASE ReseatEpoch
  BY <1>21 DEF ReseatEpoch, Update, NoLocals
<1>22. CASE SampleM
  BY <1>22 DEF SampleM
<1>23. CASE PublishCompare
  BY <1>23 DEF PublishCompare, Update, NoLocals
<1>24. CASE SampleS
  BY <1>24 DEF SampleS, AfterSample
<1>25. CASE LoadLevel
  BY <1>25 DEF LoadLevel
<1>26. CASE WaitIrqLevel
  BY <1>26 DEF WaitIrqLevel
<1>27. ASSUME NEW on \in BOOLEAN, WriteMenvcfg(on) PROVE Places' /\ Mirrored'
  BY <1>27 DEF WriteMenvcfg
<1>28. ASSUME NEW v \in Compares, StoreMtimecmp(v) PROVE Places' /\ Mirrored'
  BY <1>28 DEF StoreMtimecmp, Update, NoLocals
<1>29. ASSUME NEW v \in Compares, WriteStimecmp(v) PROVE Places' /\ Mirrored'
  BY <1>29 DEF WriteStimecmp
<1>30. ASSUME NEW v \in Times, StoreMtime(v) PROVE Places' /\ Mirrored'
  BY <1>30 DEF StoreMtime
<1>31. CASE UNCHANGED vars
  BY <1>31 DEF vars
<1>32. QED
  BY <1>1, <1>2, <1>3, <1>4, <1>5, <1>6, <1>7, <1>8, <1>9, <1>10, <1>11, <1>12, <1>13,
     <1>14, <1>15, <1>16, <1>17, <1>18, <1>19, <1>20, <1>21, <1>22, <1>23, <1>24, <1>25,
     <1>26, <1>27, <1>28, <1>29, <1>30, <1>31
     DEF Next, GuestStarts, HartStep, TimerStep, TickStep, UpdateStep

\* Every step keeps what holds a parked hart awake.
LEMMA QuietStep == Typed /\ Places /\ Quiet /\ [Next]_vars => Quiet'
<1> SUFFICES ASSUME Typed, Places, Quiet, [Next]_vars PROVE Quiet'
  OBVIOUS
<1> USE DEF Typed, Locals, Places, Quiet, FromStaysHigh, RiseUnderway, ChangeNotified,
    MachineTaken, NothingFound, Verdict, Timers, Updating, Ticking, Goto, At, Threads, time,
    lines, hart, csr, notes
<1>1. CASE HostClock
  BY <1>1 DEF HostClock
<1>2. ASSUME NEW t \in Threads, ReadMtime(t) PROVE Quiet'
  BY <1>2 DEF ReadMtime
<1>3. ASSUME NEW t \in Threads, ReadCompare(t) PROVE Quiet'
  BY <1>3 DEF ReadCompare
<1>4. ASSUME NEW t \in Threads, ReadMirror(t) PROVE Quiet'
  BY <1>4 DEF ReadMirror
<1>5. ASSUME NEW t \in Threads, StoreWire(t) PROVE Quiet'
  <2>1. FromStaysHigh' /\ ChangeNotified' /\ MachineTaken' /\ NothingFound'
    BY <1>5 DEF StoreWire, With
  <2>2. RiseUnderway'
    <3> SUFFICES ASSUME phase = "second", ~torn', NEW k \in wire' \ level
                 PROVE  \E u \in Threads : (pc'[u] = "level" /\ loc[u].which = k /\ Verdict(u))
      BY <1>5 DEF StoreWire
    <3>1. CASE k \in wire
      <4>1. PICK u \in Threads : pc[u] = "level" /\ loc[u].which = k /\ Verdict(u)
        BY <1>5, <3>1 DEF StoreWire
      <4>2. QED
        BY <1>5, <4>1 DEF StoreWire
    <3>2. CASE k \notin wire
      BY <1>5, <3>2 DEF StoreWire, With
    <3>3. QED
      BY <3>1, <3>2
  <2>3. QED
    BY <2>1, <2>2
<1>6. ASSUME NEW t \in Threads, StoreLevel(t) PROVE Quiet'
  <2>1. FromStaysHigh'
    BY <1>6 DEF StoreLevel
  <2>5. MachineTaken' /\ NothingFound'
    BY <1>6 DEF StoreLevel, AfterWire
  <2>2. ChangeNotified'
    BY <1>6 DEF StoreLevel, AfterWire, With
  <2>3. RiseUnderway'
    <3> SUFFICES ASSUME phase = "second", ~torn', NEW k \in wire \ level'
                 PROVE  \E u \in Threads : (pc'[u] = "level" /\ loc'[u].which = k /\ Verdict(u)')
      BY <1>6 DEF StoreLevel
    <3>1. k \notin level /\ ~torn
      BY <1>6 DEF StoreLevel
    <3>2. PICK u \in Threads : pc[u] = "level" /\ loc[u].which = k /\ Verdict(u)
      BY <3>1
    <3>3. u # t
      BY <1>6, <3>2 DEF StoreLevel, With
    <3>4. pc'[u] = pc[u] /\ loc'[u] = loc[u]
      BY <1>6, <3>3 DEF StoreLevel, AfterWire
    <3>5. QED
      BY <3>2, <3>4
  <2>4. QED
    BY <2>1, <2>2, <2>3, <2>5
<1>7. ASSUME NEW t \in Threads, Notify(t) PROVE Quiet'
  BY <1>7 DEF Notify
<1>8. ASSUME NEW t \in Threads, CheckMtime(t) PROVE Quiet'
  BY <1>8 DEF CheckMtime, Retry, NoLocals
<1>9. ASSUME NEW t \in Threads, CheckCompare(t) PROVE Quiet'
  BY <1>9 DEF CheckCompare, Retry, NoLocals
<1>10. ASSUME NEW t \in Threads, CheckMirror(t) PROVE Quiet'
  BY <1>10 DEF CheckMirror, Retry, NoLocals
<1>11. ASSUME NEW t \in Threads, ReadEpoch(t) PROVE Quiet'
  BY <1>11 DEF ReadEpoch
<1>12. ASSUME NEW t \in Threads, ReadClock(t) PROVE Quiet'
  BY <1>12 DEF ReadClock
<1>13. ASSUME NEW t \in Threads, ReadPrevious(t) PROVE Quiet'
  BY <1>13 DEF ReadPrevious
<1>14. ASSUME NEW t \in Threads, Exchange(t) PROVE Quiet'
  BY <1>14 DEF Exchange
<1>15. ASSUME NEW t \in Threads, CheckEpoch(t) PROVE Quiet'
  BY <1>15 DEF CheckEpoch, Update, NoLocals
<1>16. CASE TimerTick
  BY <1>16 DEF TimerTick
<1>17. CASE LoadMtime
  BY <1>17 DEF LoadMtime
<1>18. CASE StartWfi
  BY <1>18 DEF StartWfi
<1>19. CASE ReturnMtime
  BY <1>19 DEF ReturnMtime
<1>20. CASE ReadClockForEpoch
  BY <1>20 DEF ReadClockForEpoch
<1>21. CASE ReseatEpoch
  BY <1>21 DEF ReseatEpoch, Update, NoLocals
<1>22. CASE SampleM
  BY <1>22 DEF SampleM
<1>23. CASE PublishCompare
  BY <1>23 DEF PublishCompare, Update, NoLocals
<1>24. CASE SampleS
  BY <1>24 DEF SampleS, AfterSample
<1>25. CASE LoadLevel
  BY <1>25 DEF LoadLevel, Verdict
<1>26. CASE WaitIrqLevel
  BY <1>26 DEF WaitIrqLevel
<1>27. ASSUME NEW on \in BOOLEAN, WriteMenvcfg(on) PROVE Quiet'
  BY <1>27 DEF WriteMenvcfg
<1>28. ASSUME NEW v \in Compares, StoreMtimecmp(v) PROVE Quiet'
  BY <1>28 DEF StoreMtimecmp, Update, NoLocals
<1>29. ASSUME NEW v \in Compares, WriteStimecmp(v) PROVE Quiet'
  BY <1>29 DEF WriteStimecmp
<1>30. ASSUME NEW v \in Times, StoreMtime(v) PROVE Quiet'
  BY <1>30 DEF StoreMtime
<1>31. CASE UNCHANGED vars
  BY <1>31 DEF vars
<1>32. QED
  BY <1>1, <1>2, <1>3, <1>4, <1>5, <1>6, <1>7, <1>8, <1>9, <1>10, <1>11, <1>12, <1>13,
     <1>14, <1>15, <1>16, <1>17, <1>18, <1>19, <1>20, <1>21, <1>22, <1>23, <1>24, <1>25,
     <1>26, <1>27, <1>28, <1>29, <1>30, <1>31
     DEF Next, GuestStarts, HartStep, TimerStep, TickStep, UpdateStep

\* A thread that has yet to read the inputs, or to read them again.
Starting(t) ==
  pc[t] \in Ticking \cup {"stored", "reseat", "readMtime", "readCompare", "readMirror"}

\* Thread t has yet to store the wire of timer k,
StoresWire(t, k) ==
  \/ Starting(t)
  \/ pc[t] = "wire" /\ (loc[t].which = "M" \/ k = "S")
  \/ pc[t] \in {"level", "notify"} /\ loc[t].which = "M" /\ k = "S"

\* its level bit,
StoresLevel(t, k) ==
  \/ Starting(t)
  \/ pc[t] \in {"wire", "level"} /\ (loc[t].which = "M" \/ k = "S")
  \/ pc[t] = "notify" /\ loc[t].which = "M" /\ k = "S"

\* or to find that the inputs it used for timer k have moved.
Storing == {"wire", "level", "notify"}
WillNotice(t, k) ==
  \/ /\ pc[t] \in Storing \cup {"checkMtime"}
     /\ loc[t].mtime # mtime
  \/ /\ k = "M" /\ pc[t] \in Storing \cup {"checkMtime", "checkCompare"}
     /\ loc[t].cmp # mtimecmp
  \/ /\ k = "S" /\ pc[t] \in Storing \cup {"checkMtime", "checkCompare", "checkMirror"}
     /\ loc[t].mirror # mirror

\* A wire that is wrong is one that somebody will store or derive again.
WireCovered(k) ==
  \/ k \in wire <=> mtime >= Compare(k)
  \/ \E t \in Threads : StoresWire(t, k) \/ WillNotice(t, k)

LevelCovered(k) ==
  \/ k \in level <=> mtime >= Compare(k)
  \/ \E t \in Threads : StoresLevel(t, k) \/ WillNotice(t, k)

Covered == gaveUp \/ \A k \in Timers : WireCovered(k) /\ LevelCovered(k)

\* Who has the inputs still to read covers everything.
LEMMA StarterCovers ==
  ASSUME NEW t \in Threads, Starting(t)'
  PROVE  Covered'
BY DEF Covered, WireCovered, LevelCovered, StoresWire, StoresLevel

\* So does who enters the update,
LEMMA UpdateCovers ==
  ASSUME Typed, NEW t \in Threads, NEW x, Update(t, x) PROVE Covered'
BY StarterCovers DEF Typed, Update, Goto, Starting

\* and who starts it over; giving up is noted.
LEMMA RetryCovers ==
  ASSUME Typed, NEW t \in Threads, Retry(t) PROVE Covered'
<1>1. CASE loc[t].attempt < TIMER_WIRE_UPDATE_ATTEMPTS
  BY <1>1, StarterCovers DEF Typed, Retry, Goto, Starting
<1>2. CASE ~(loc[t].attempt < TIMER_WIRE_UPDATE_ATTEMPTS)
  BY <1>2 DEF Retry, Covered
<1>3. QED
  BY <1>1, <1>2

\* What thread t, the one that moves, was to do it still is, for timer k.
StillCovers(t, k) ==
  /\ StoresWire(t, k) => StoresWire(t, k)'
  /\ StoresLevel(t, k) => StoresLevel(t, k)'
  /\ WillNotice(t, k) => WillNotice(t, k)'

\* The other thread is where it was, or wakes up.
OtherStays(t) ==
  \A u \in Threads \ {t} : loc'[u] = loc[u] /\ (pc'[u] = pc[u] \/ pc[u] = "parked")

\* A thread that is where it was covers what it covered while the inputs stay.
LEMMA OtherCovers ==
  ASSUME NEW t \in Threads, OtherStays(t), UNCHANGED time,
         NEW u \in Threads \ {t}, NEW k \in Timers
  PROVE  StillCovers(u, k)
BY DEF OtherStays, StillCovers, StoresWire, StoresLevel, WillNotice, Starting, Storing, Ticking,
       time

\* A step that changes no input, no wire and no level keeps them covered.
LEMMA StillCovered ==
  ASSUME Covered, NEW t \in Threads, OtherStays(t), UNCHANGED <<time, lines>>,
         gaveUp => gaveUp', \A k \in Timers : StillCovers(t, k)
  PROVE  Covered'
<1>1. \A u \in Threads, k \in Timers : StillCovers(u, k)
  BY OtherCovers
<1>2. ASSUME NEW k \in Timers, WireCovered(k) PROVE WireCovered(k)'
  BY <1>1, <1>2 DEF WireCovered, StillCovers, Compare, time, lines
<1>3. ASSUME NEW k \in Timers, LevelCovered(k) PROVE LevelCovered(k)'
  BY <1>1, <1>3 DEF LevelCovered, StillCovers, Compare, time, lines
<1>4. QED
  BY <1>2, <1>3 DEF Covered

\* A verdict that is not the truth comes from inputs that have moved.
LEMMA WrongVerdict ==
  ASSUME NEW t \in Threads, ~(Verdict(t) <=> mtime >= Compare(loc[t].which)),
         loc[t].which \in Timers, pc[t] \in Storing
  PROVE  WillNotice(t, loc[t].which)
BY DEF Verdict, Compare, WillNotice, Timers, Storing

\* Storing a wire leaves it right, or the thread is to find out.
LEMMA WireStored ==
  ASSUME Typed, Covered, NEW t \in Threads, StoreWire(t)
  PROVE  Covered'
<1> DEFINE w == loc[t].which
<1>1. /\ w \in Timers /\ pc[t] = "wire" /\ pc'[t] = "level" /\ OtherStays(t)
      /\ UNCHANGED <<time, level, loc, gaveUp>> /\ wire' = With(wire, t)
  BY DEF StoreWire, Typed, Locals, At, Goto, OtherStays
<1>2. \A u \in Threads \ {t}, k \in Timers : StillCovers(u, k)
  BY <1>1, OtherCovers
<1>3. \A k \in Timers : WillNotice(t, k) => WillNotice(t, k)'
  BY <1>1 DEF WillNotice, Storing, time
<1>4. \A k \in Timers : StoresLevel(t, k) => StoresLevel(t, k)'
  BY <1>1 DEF StoresLevel, Starting, Ticking
<1>5. \A k \in Timers \ {w} : StoresWire(t, k) => StoresWire(t, k)'
  BY <1>1 DEF StoresWire, Starting, Ticking, Timers
<1>6. ASSUME NEW k \in Timers, WireCovered(k) PROVE WireCovered(k)'
  <2>1. CASE k = w
    <3>1. CASE Verdict(t) <=> mtime >= Compare(w)
      BY <1>1, <2>1, <3>1 DEF WireCovered, With, Compare, time
    <3>2. CASE ~(Verdict(t) <=> mtime >= Compare(w))
      <4>1. WillNotice(t, k)
        BY <1>1, <2>1, <3>2, WrongVerdict DEF Storing
      <4>2. QED
        BY <1>3, <4>1 DEF WireCovered
    <3>3. QED
      BY <3>1, <3>2
  <2>2. CASE k # w
    <3>1. k \in wire' <=> k \in wire
      BY <1>1, <2>2 DEF With
    <3>2. \A u \in Threads : StoresWire(u, k) \/ WillNotice(u, k)
                              => (StoresWire(u, k) \/ WillNotice(u, k))'
      BY <1>2, <1>3, <1>5, <2>2 DEF StillCovers
    <3>3. mtime' = mtime /\ Compare(k)' = Compare(k)
      BY <1>1 DEF Compare, time
    <3>4. QED
      BY <1>6, <3>1, <3>2, <3>3 DEF WireCovered
  <2>3. QED
    BY <2>1, <2>2
<1>7. ASSUME NEW k \in Timers, LevelCovered(k) PROVE LevelCovered(k)'
  <2>1. \A u \in Threads : StoresLevel(u, k) \/ WillNotice(u, k)
                            => (StoresLevel(u, k) \/ WillNotice(u, k))'
    BY <1>2, <1>3, <1>4 DEF StillCovers
  <2>2. mtime' = mtime /\ Compare(k)' = Compare(k) /\ level' = level
    BY <1>1 DEF Compare, time
  <2>3. QED
    BY <1>7, <2>1, <2>2 DEF LevelCovered
<1>8. QED
  BY <1>1, <1>6, <1>7 DEF Covered

\* Storing a level bit leaves it right, or the thread is to find out.
LEMMA LevelStored ==
  ASSUME Typed, Covered, NEW t \in Threads, StoreLevel(t)
  PROVE  Covered'
<1> DEFINE w == loc[t].which
<1>1. /\ w \in Timers /\ pc[t] = "level" /\ OtherStays(t)
      /\ UNCHANGED <<time, wire, gaveUp>> /\ level' = With(level, t)
  BY DEF StoreLevel, AfterWire, Typed, Locals, At, Goto, OtherStays
<1>2. \/ pc'[t] = "notify" /\ loc' = loc
      \/ w = "M" /\ pc'[t] = "wire" /\ loc' = [loc EXCEPT ![t].which = "S"]
      \/ w # "M" /\ pc'[t] = "checkMtime" /\ loc' = loc
  BY DEF StoreLevel, AfterWire, Typed, Goto
<1>3. \A u \in Threads \ {t}, k \in Timers : StillCovers(u, k)
  BY <1>1, OtherCovers
<1>4. /\ loc'[t].mtime = loc[t].mtime /\ loc'[t].cmp = loc[t].cmp
      /\ loc'[t].mirror = loc[t].mirror
  BY <1>2 DEF Typed, Locals
<1>5. \A k \in Timers : WillNotice(t, k) => WillNotice(t, k)'
  BY <1>1, <1>2, <1>4 DEF WillNotice, Storing, time
<1>6. w = "M" => \/ pc'[t] = "notify" /\ loc'[t].which = "M"
                 \/ pc'[t] = "wire" /\ loc'[t].which = "S"
  <2>1. loc' = [loc EXCEPT ![t].which = "S"] => loc'[t].which = "S"
    BY DEF Typed, Locals
  <2>2. QED
    BY <1>2, <2>1
<1>7. \A k \in Timers : StoresWire(t, k) => StoresWire(t, k)'
  BY <1>1, <1>6 DEF StoresWire, Starting, Ticking, Timers
<1>8. \A k \in Timers \ {w} : StoresLevel(t, k) => StoresLevel(t, k)'
  BY <1>1, <1>6 DEF StoresLevel, Starting, Ticking, Timers
<1>9. ASSUME NEW k \in Timers, LevelCovered(k) PROVE LevelCovered(k)'
  <2>1. CASE k = w
    <3>1. CASE Verdict(t) <=> mtime >= Compare(w)
      BY <1>1, <2>1, <3>1 DEF LevelCovered, With, Compare, time
    <3>2. CASE ~(Verdict(t) <=> mtime >= Compare(w))
      <4>1. WillNotice(t, k)
        BY <1>1, <2>1, <3>2, WrongVerdict DEF Storing
      <4>2. QED
        BY <1>5, <4>1 DEF LevelCovered
    <3>3. QED
      BY <3>1, <3>2
  <2>2. CASE k # w
    <3>1. k \in level' <=> k \in level
      BY <1>1, <2>2 DEF With
    <3>2. \A u \in Threads : StoresLevel(u, k) \/ WillNotice(u, k)
                              => (StoresLevel(u, k) \/ WillNotice(u, k))'
      BY <1>3, <1>5, <1>8, <2>2 DEF StillCovers
    <3>3. mtime' = mtime /\ Compare(k)' = Compare(k)
      BY <1>1 DEF Compare, time
    <3>4. QED
      BY <1>9, <3>1, <3>2, <3>3 DEF LevelCovered
  <2>3. QED
    BY <2>1, <2>2
<1>10. ASSUME NEW k \in Timers, WireCovered(k) PROVE WireCovered(k)'
  <2>1. \A u \in Threads : StoresWire(u, k) \/ WillNotice(u, k)
                            => (StoresWire(u, k) \/ WillNotice(u, k))'
    BY <1>3, <1>5, <1>7 DEF StillCovers
  <2>2. mtime' = mtime /\ Compare(k)' = Compare(k) /\ wire' = wire
    BY <1>1 DEF Compare, time
  <2>3. QED
    BY <1>10, <2>1, <2>2 DEF WireCovered
<1>11. QED
  BY <1>1, <1>9, <1>10 DEF Covered

\* Every step keeps the wires and the level covered.
LEMMA CoverStep == Typed /\ Places /\ Covered /\ [Next]_vars => Covered'
<1> SUFFICES ASSUME Typed, Places, Covered, [Next]_vars PROVE Covered'
  OBVIOUS
<1> USE DEF Typed, Locals, Places, Updating, Ticking, Goto, At, Threads, time, lines, hart,
    csr, notes
<1>1. CASE HostClock
  <2>1. OtherStays("hart") /\ UNCHANGED <<time, lines, gaveUp>>
    BY <1>1 DEF HostClock, OtherStays
  <2>2. \A k \in Timers : StillCovers("hart", k)
    BY <1>1 DEF HostClock, StillCovers, StoresWire, StoresLevel, WillNotice, Starting, Storing
  <2>3. QED
    BY <2>1, <2>2, StillCovered
<1>2. ASSUME NEW t \in Threads, ReadMtime(t) PROVE Covered'
  BY <1>2, StarterCovers DEF ReadMtime, Starting
<1>3. ASSUME NEW t \in Threads, ReadCompare(t) PROVE Covered'
  BY <1>3, StarterCovers DEF ReadCompare, Starting
<1>4. ASSUME NEW t \in Threads, ReadMirror(t) PROVE Covered'
  <2>1. OtherStays(t) /\ UNCHANGED <<time, lines, gaveUp>>
    BY <1>4 DEF ReadMirror, OtherStays
  <2>2. \A k \in Timers : StillCovers(t, k)
    BY <1>4 DEF ReadMirror, StillCovers, StoresWire, StoresLevel, WillNotice, Starting, Storing
  <2>3. QED
    BY <2>1, <2>2, StillCovered
<1>5. ASSUME NEW t \in Threads, StoreWire(t) PROVE Covered'
  BY <1>5, WireStored
<1>6. ASSUME NEW t \in Threads, StoreLevel(t) PROVE Covered'
  BY <1>6, LevelStored
<1>7. ASSUME NEW t \in Threads, Notify(t) PROVE Covered'
  <2>1. OtherStays(t) /\ UNCHANGED <<time, lines, gaveUp>>
    BY <1>7 DEF Notify, OtherStays
  <2>2. \A k \in Timers : StillCovers(t, k)
    BY <1>7 DEF Notify, StillCovers, StoresWire, StoresLevel, WillNotice, Starting, Storing
  <2>3. QED
    BY <2>1, <2>2, StillCovered
<1>8. ASSUME NEW t \in Threads, CheckMtime(t) PROVE Covered'
  <2>1. CASE Retry(t)
    BY <2>1, RetryCovers
  <2>2. CASE ~Retry(t)
    <3>1. OtherStays(t) /\ UNCHANGED <<time, lines, gaveUp>>
      BY <1>8, <2>2 DEF CheckMtime, OtherStays
    <3>2. \A k \in Timers : StillCovers(t, k)
      BY <1>8, <2>2 DEF CheckMtime, StillCovers, StoresWire, StoresLevel, WillNotice, Starting,
         Storing
    <3>3. QED
      BY <3>1, <3>2, StillCovered
  <2>3. QED
    BY <2>1, <2>2
<1>9. ASSUME NEW t \in Threads, CheckCompare(t) PROVE Covered'
  <2>1. CASE Retry(t)
    BY <2>1, RetryCovers
  <2>2. CASE ~Retry(t)
    <3>1. OtherStays(t) /\ UNCHANGED <<time, lines, gaveUp>>
      BY <1>9, <2>2 DEF CheckCompare, OtherStays
    <3>2. \A k \in Timers : StillCovers(t, k)
      BY <1>9, <2>2 DEF CheckCompare, StillCovers, StoresWire, StoresLevel, WillNotice,
         Starting, Storing
    <3>3. QED
      BY <3>1, <3>2, StillCovered
  <2>3. QED
    BY <2>1, <2>2
<1>10. ASSUME NEW t \in Threads, CheckMirror(t) PROVE Covered'
  <2>1. CASE Retry(t)
    BY <2>1, RetryCovers
  <2>2. CASE ~Retry(t)
    <3>1. OtherStays(t) /\ UNCHANGED <<time, lines, gaveUp>>
      BY <1>10, <2>2 DEF CheckMirror, OtherStays
    <3>2. \A k \in Timers : StillCovers(t, k)
      BY <1>10, <2>2 DEF CheckMirror, StillCovers, StoresWire, StoresLevel, WillNotice,
         Starting, Storing
    <3>3. QED
      BY <3>1, <3>2, StillCovered
  <2>3. QED
    BY <2>1, <2>2
<1>11. ASSUME NEW t \in Threads, ReadEpoch(t) PROVE Covered'
  BY <1>11, StarterCovers DEF ReadEpoch, Starting
<1>12. ASSUME NEW t \in Threads, ReadClock(t) PROVE Covered'
  BY <1>12, StarterCovers DEF ReadClock, Starting
<1>13. ASSUME NEW t \in Threads, ReadPrevious(t) PROVE Covered'
  BY <1>13, StarterCovers DEF ReadPrevious, Starting
<1>14. ASSUME NEW t \in Threads, Exchange(t) PROVE Covered'
  BY <1>14, StarterCovers DEF Exchange, Starting
<1>15. ASSUME NEW t \in Threads, CheckEpoch(t) PROVE Covered'
  BY <1>15, UpdateCovers, StarterCovers DEF CheckEpoch, Starting
<1>16. CASE TimerTick
  BY <1>16, StarterCovers DEF TimerTick, Starting
<1>17. CASE LoadMtime
  BY <1>17, StarterCovers DEF LoadMtime, Starting
<1>18. CASE StartWfi
  <2>1. OtherStays("hart") /\ UNCHANGED <<time, lines, gaveUp>>
    BY <1>18 DEF StartWfi, OtherStays
  <2>2. \A k \in Timers : StillCovers("hart", k)
    BY <1>18 DEF StartWfi, StillCovers, StoresWire, StoresLevel, WillNotice, Starting, Storing
  <2>3. QED
    BY <2>1, <2>2, StillCovered
<1>19. CASE ReturnMtime
  <2>1. OtherStays("hart") /\ UNCHANGED <<time, lines, gaveUp>>
    BY <1>19 DEF ReturnMtime, OtherStays
  <2>2. \A k \in Timers : StillCovers("hart", k)
    BY <1>19 DEF ReturnMtime, StillCovers, StoresWire, StoresLevel, WillNotice, Starting,
       Storing
  <2>3. QED
    BY <2>1, <2>2, StillCovered
<1>20. CASE ReadClockForEpoch
  BY <1>20, StarterCovers DEF ReadClockForEpoch, Starting
<1>21. CASE ReseatEpoch
  BY <1>21, UpdateCovers DEF ReseatEpoch
<1>22. CASE SampleM
  <2>1. OtherStays("hart") /\ UNCHANGED <<time, lines, gaveUp>>
    BY <1>22 DEF SampleM, OtherStays
  <2>2. \A k \in Timers : StillCovers("hart", k)
    BY <1>22 DEF SampleM, StillCovers, StoresWire, StoresLevel, WillNotice, Starting, Storing
  <2>3. QED
    BY <2>1, <2>2, StillCovered
<1>23. CASE PublishCompare
  <2>1. CASE Update("hart", "sampleS")
    BY <2>1, UpdateCovers
  <2>2. CASE ~Update("hart", "sampleS")
    <3>1. OtherStays("hart") /\ UNCHANGED <<time, lines, gaveUp>>
      BY <1>23, <2>2 DEF PublishCompare, OtherStays
    <3>2. \A k \in Timers : StillCovers("hart", k)
      BY <1>23, <2>2 DEF PublishCompare, StillCovers, StoresWire, StoresLevel, WillNotice,
         Starting, Storing
    <3>3. QED
      BY <3>1, <3>2, StillCovered
  <2>3. QED
    BY <2>1, <2>2
<1>24. CASE SampleS
  <2>1. OtherStays("hart") /\ UNCHANGED <<time, lines, gaveUp>>
    BY <1>24 DEF SampleS, OtherStays, AfterSample
  <2>2. \A k \in Timers : StillCovers("hart", k)
    BY <1>24 DEF SampleS, AfterSample, StillCovers, StoresWire, StoresLevel, WillNotice,
       Starting, Storing
  <2>3. QED
    BY <2>1, <2>2, StillCovered
<1>25. CASE LoadLevel
  <2>1. OtherStays("hart") /\ UNCHANGED <<time, lines, gaveUp>>
    BY <1>25 DEF LoadLevel, OtherStays
  <2>2. \A k \in Timers : StillCovers("hart", k)
    BY <1>25 DEF LoadLevel, StillCovers, StoresWire, StoresLevel, WillNotice, Starting, Storing
  <2>3. QED
    BY <2>1, <2>2, StillCovered
<1>26. CASE WaitIrqLevel
  <2>1. OtherStays("hart") /\ UNCHANGED <<time, lines, gaveUp>>
    BY <1>26 DEF WaitIrqLevel, OtherStays
  <2>2. \A k \in Timers : StillCovers("hart", k)
    BY <1>26 DEF WaitIrqLevel, StillCovers, StoresWire, StoresLevel, WillNotice, Starting,
       Storing
  <2>3. QED
    BY <2>1, <2>2, StillCovered
<1>27. ASSUME NEW on \in BOOLEAN, WriteMenvcfg(on) PROVE Covered'
  <2>1. OtherStays("hart") /\ UNCHANGED <<time, lines, gaveUp>>
    BY <1>27 DEF WriteMenvcfg, OtherStays
  <2>2. \A k \in Timers : StillCovers("hart", k)
    BY <1>27 DEF WriteMenvcfg, StillCovers, StoresWire, StoresLevel, WillNotice, Starting,
       Storing
  <2>3. QED
    BY <2>1, <2>2, StillCovered
<1>28. ASSUME NEW v \in Compares, StoreMtimecmp(v) PROVE Covered'
  BY <1>28, UpdateCovers DEF StoreMtimecmp
<1>29. ASSUME NEW v \in Compares, WriteStimecmp(v) PROVE Covered'
  <2>1. OtherStays("hart") /\ UNCHANGED <<time, lines, gaveUp>>
    BY <1>29 DEF WriteStimecmp, OtherStays
  <2>2. \A k \in Timers : StillCovers("hart", k)
    BY <1>29 DEF WriteStimecmp, StillCovers, StoresWire, StoresLevel, WillNotice, Starting,
       Storing
  <2>3. QED
    BY <2>1, <2>2, StillCovered
<1>30. ASSUME NEW v \in Times, StoreMtime(v) PROVE Covered'
  BY <1>30, StarterCovers DEF StoreMtime, Starting
<1>31. CASE UNCHANGED vars
  <2>1. OtherStays("hart") /\ UNCHANGED <<time, lines, gaveUp>>
    BY <1>31 DEF vars, OtherStays
  <2>2. \A k \in Timers : StillCovers("hart", k)
    BY <1>31 DEF vars, StillCovers, StoresWire, StoresLevel, WillNotice, Starting, Storing
  <2>3. QED
    BY <2>1, <2>2, StillCovered
<1>32. QED
  BY <1>1, <1>2, <1>3, <1>4, <1>5, <1>6, <1>7, <1>8, <1>9, <1>10, <1>11, <1>12, <1>13,
     <1>14, <1>15, <1>16, <1>17, <1>18, <1>19, <1>20, <1>21, <1>22, <1>23, <1>24, <1>25,
     <1>26, <1>27, <1>28, <1>29, <1>30, <1>31
     DEF Next, GuestStarts, HartStep, TimerStep, TickStep, UpdateStep

-----------------------------------------------------------------------------
\* The inductive invariant.
IInv == Typed /\ Places /\ Mirrored /\ Covered /\ Quiet

\* It holds at reset.
LEMMA InitEstablishes == Init => IInv
<1> SUFFICES ASSUME Init PROVE IInv
  OBVIOUS
<1>1. 0 \in Words /\ AllOnes \in Words /\ 0 \in 0 .. MaxNow
  BY ZeroIsWord, ClintAssumption DEF Words
<1>2. Typed
  <2>1. pc \in [Threads -> Labels]
    BY DEF Init, Labels
  <2>2. loc \in [Threads -> Locals]
    BY FreshTyped DEF Init
  <2>3. QED
    BY <1>1, <2>1, <2>2 DEF Init, Typed
<1>3. Places /\ Mirrored
  BY DEF Init, Places, Mirrored, Threads, NoLocals, Updating, Ticking
<1>4. Covered
  <2>1. 0 < AllOnes
    BY ClintAssumption DEF AllOnes
  <2>2. QED
    BY <2>1, ZeroIsWord DEF Init, Covered, WireCovered, LevelCovered, Compare, Words
<1>5. Quiet
  BY DEF Init, Quiet, FromStaysHigh, RiseUnderway, ChangeNotified, MachineTaken, NothingFound,
     Threads
<1>6. QED
  BY <1>2, <1>3, <1>4, <1>5 DEF IInv

\* Every step keeps it.
LEMMA StepKeeps == IInv /\ [Next]_vars => IInv'
BY TypeStep, PlacesStep, CoverStep, QuietStep DEF IInv

\* So it is an invariant of the specification.
THEOREM Invariant == Spec => []IInv
<1>1. Init => IInv
  BY InitEstablishes
<1>2. IInv /\ [Next]_vars => IInv'
  BY StepKeeps
<1>3. QED
  BY <1>1, <1>2, PTL DEF Spec

\* The words, wires and locals stay in their domains.
THEOREM TypeCorrect == Spec => []TypeOK
<1>1. IInv => TypeOK
  BY TypedIsType DEF IInv
<1>2. QED
  BY <1>1, Invariant, PTL

\* At rest, the wires and the level word say which compares mtime has reached, for
\* any number of attempts: what updateTimerWiresFromCompare verifies is enough.
THEOREM WiresAreExact == Spec => []WiresExact
<1>1. ASSUME IInv PROVE WiresExact
  <2> SUFFICES ASSUME AtRest, ~gaveUp PROVE wire = Due /\ level = Due
    BY DEF WiresExact
  <2>1. \A t \in Threads : pc[t] \in {"idle", "sampleM", "publish", "sampleS", "loadLevel",
                                      "wait", "parked"}
    BY DEF AtRest, At, Threads
  <2>2. \A t \in Threads, k \in Timers :
          ~StoresWire(t, k) /\ ~StoresLevel(t, k) /\ ~WillNotice(t, k)
    BY <2>1 DEF StoresWire, StoresLevel, WillNotice, Starting, Storing, Ticking
  <2>3. \A k \in Timers : /\ k \in wire <=> mtime >= Compare(k)
                          /\ k \in level <=> mtime >= Compare(k)
    BY <1>1, <2>2 DEF IInv, Covered, WireCovered, LevelCovered
  <2>4. QED
    BY <1>1, <2>3 DEF IInv, Typed, Due
<1>2. QED
  BY <1>1, Invariant, PTL

\* A hart asleep in wfi over an enabled timer is about to be notified, or its level
\* was torn: the level wfi waits on is the one its second sample covers.
THEOREM SleepersAreQuiet == Spec => []SleepsOnlyIfQuiet
<1>1. ASSUME IInv PROVE SleepsOnlyIfQuiet
  <2> SUFFICES ASSUME pc["hart"] = "parked", NEW k \in Awaited, ~torn
               PROVE  Publishing
    BY DEF SleepsOnlyIfQuiet, At
  <2>1. phase = "second" /\ k \in wire \cap Enabled /\ (k = "S" => stce)
    BY <1>1 DEF IInv, Places, Awaited
  <2>2. k \notin from
    BY <1>1, <2>1 DEF IInv, Quiet, NothingFound
  <2>3. CASE k \in level
    BY <1>1, <2>2, <2>3 DEF IInv, Quiet, ChangeNotified, Publishing
  <2>4. CASE k \notin level
    <3>1. PICK t \in Threads : pc[t] = "level"
      BY <1>1, <2>1, <2>4 DEF IInv, Quiet, RiseUnderway
    <3>2. QED
      BY <3>1 DEF Threads, Publishing
  <2>5. QED
    BY <2>3, <2>4
<1>2. QED
  BY <1>1, Invariant, PTL

\* The hart leaves the sample of STIP, the end of a store to mtime and that of a load
\* only by the step that is there.
LEMMA Leaves ==
  ASSUME IInv, [Next]_vars
  PROVE  /\ pc["hart"] = "sampleS" /\ pc'["hart"] # "sampleS" => SampleS
         /\ pc["hart"] = "reseat" /\ pc'["hart"] # "reseat" => ReseatEpoch
         /\ pc["hart"] = "load" /\ pc'["hart"] # "load" => ReturnMtime
<1> USE DEF IInv, Typed, Next, GuestStarts, HartStep, TimerStep, TickStep, UpdateStep, HostClock,
    vars, ReadMtime, ReadCompare, ReadMirror, StoreWire, StoreLevel, AfterWire, Notify,
    CheckMtime, CheckCompare, CheckMirror, Retry, ReadEpoch, ReadClock, ReadPrevious, Exchange,
    CheckEpoch, Update, TimerTick, LoadMtime, StartWfi, ReadClockForEpoch, SampleM,
    PublishCompare, LoadLevel, WaitIrqLevel, WriteMenvcfg, StoreMtimecmp, WriteStimecmp,
    StoreMtime, Goto, At, Threads
<1>1. pc["hart"] = "sampleS" /\ pc'["hart"] # "sampleS" => SampleS
  BY DEF ReturnMtime, ReseatEpoch
<1>2. pc["hart"] = "reseat" /\ pc'["hart"] # "reseat" => ReseatEpoch
  BY DEF SampleS, ReturnMtime
<1>3. pc["hart"] = "load" /\ pc'["hart"] # "load" => ReturnMtime
  BY DEF SampleS, ReseatEpoch
<1>4. QED
  BY <1>1, <1>2, <1>3

\* STIP is not set below stimecmp while the timer worker is idle: the mirror was
\* published and the wires derived from it before the sample.
THEOREM StipIsCurrent == Spec => StipFollowsCompare
<1>1. ASSUME IInv, [Next]_vars, pc["hart"] = "sampleS", pc'["hart"] # "sampleS",
             "S" \in mip', stce, mtime < stimecmp, pc["timer"] = "idle"
      PROVE  gaveUp
  <2>1. "S" \in wire
    BY <1>1, Leaves DEF SampleS
  <2>2. mirror = stimecmp
    BY <1>1 DEF IInv, Mirrored
  <2>3. \A t \in Threads : ~StoresWire(t, "S") /\ ~WillNotice(t, "S")
    BY <1>1 DEF Threads, StoresWire, WillNotice, Starting, Storing, Ticking
  <2>4. ~(mtime >= Compare("S"))
    BY <1>1, <2>2 DEF IInv, Typed, Words, Compare
  <2>5. ~WireCovered("S")
    BY <2>1, <2>3, <2>4 DEF WireCovered
  <2>6. QED
    BY <1>1, <2>5 DEF IInv, Covered, Timers
<1>2. IInv /\ [Next]_vars =>
        (At("hart", "sampleS") /\ pc'["hart"] # "sampleS"
           => ("S" \in mip' /\ stce /\ mtime < stimecmp => ~At("timer", "idle") \/ gaveUp))
  BY <1>1 DEF At
<1>3. QED
  BY <1>2, Invariant, PTL DEF Spec, StipFollowsCompare

\* An exact multiple divides exactly.
LEMMA Divides == ASSUME NEW m \in Nat, NEW n \in Nat \ {0} PROVE (m * n) \div n = m
OBVIOUS

\* The epoch a store to mtime leaves gives the stored value back.
THEOREM StoreIsReproduced == Spec => StoreReproduced
<1>1. ASSUME IInv, NEW n \in Words, NEW m \in Words, m * NsPerTick <= n
      PROVE  TicksAt(n, (n - m * NsPerTick) % TwoTo64) = m
  <2>1. m * NsPerTick \in Nat
    BY ClintAssumption DEF Words
  <2>2. n - m * NsPerTick \in 0 .. AllOnes
    BY <1>1, <2>1, ClintAssumption DEF Words, AllOnes
  <2>3. (n - m * NsPerTick) % TwoTo64 = n - m * NsPerTick
    BY <2>2, ClintAssumption DEF AllOnes
  <2>4. n - (n - m * NsPerTick) = m * NsPerTick
    BY <2>1 DEF Words
  <2>5. Quotient(m * NsPerTick, NsPerTick) = m
    BY <2>1, Divides, ClintAssumption DEF Quotient, Words
  <2>6. m % TwoTo64 = m
    BY ClintAssumption DEF Words, AllOnes
  <2>7. QED
    BY <2>3, <2>4, <2>5, <2>6 DEF TicksAt
<1>2. IInv /\ [Next]_vars =>
        (At("hart", "reseat") /\ pc'["hart"] # "reseat"
         /\ loc["hart"].mtime * NsPerTick <= loc["hart"].epoch
           => TicksAt(loc["hart"].epoch, epoch') = loc["hart"].mtime)
  <2> SUFFICES ASSUME IInv, [Next]_vars, pc["hart"] = "reseat", pc'["hart"] # "reseat",
                      loc["hart"].mtime * NsPerTick <= loc["hart"].epoch
               PROVE  TicksAt(loc["hart"].epoch, epoch') = loc["hart"].mtime
    BY DEF At
  <2>1. loc["hart"].mtime \in Words /\ loc["hart"].epoch \in Words
    BY DEF IInv, Typed, Locals, Threads
  <2>2. ReseatEpoch
    BY Leaves
  <2>3. QED
    BY <1>1, <2>1, <2>2 DEF ReseatEpoch
<1>3. QED
  BY <1>2, Invariant, PTL DEF Spec, StoreReproduced
-----------------------------------------------------------------------------
\* What a guest must not store to mtime for its loads to be monotone: a time the
\* clock reaches 2^64 from before it stops.
NoWrap == \A v \in Times : v * NsPerTick + MaxNow + NsPerTick <= TwoTo64

\* An epoch that the clock has passed, or will not reach.
GoodEpoch(e) == e <= now \/ e >= MaxNow + NsPerTick

\* Ticks are computed from an epoch that was current, the hart's from one that is.
Clocked ==
  /\ GoodEpoch(epoch)
  /\ \A t \in Threads :
       /\ pc[t] \in Ticking \ {"tick"} => GoodEpoch(loc[t].epoch)
       /\ pc[t] \in {"previous", "exchange", "checkEpoch"} =>
            loc[t].cmp <= TicksAt(now, loc[t].epoch)
  /\ pc["hart"] \in {"stored", "reseat"} => loc["hart"].mtime \in Times
  /\ pc["hart"] = "reseat" => loc["hart"].epoch <= now
  /\ pc["hart"] \in Ticking \ {"tick"} => loc["hart"].epoch = epoch

\* The hart has ticked, and goes on to return mtime.
Loading ==
  \/ pc["hart"] \in {"checkEpoch", "load"}
  \/ pc["hart"] \in Updating /\ loc["hart"].next = "load"

\* mtime is not ahead then, unless the timer worker has yet to find its epoch replaced.
LoadTrue ==
  Loading => \/ mtime <= TicksAt(now, epoch)
             \/ pc["timer"] \in Ticking \ {"checkEpoch"}
             \/ pc["timer"] = "checkEpoch" /\ loc["timer"].epoch # epoch

\* Division by the length of a tick,
LEMMA DivBounds ==
  ASSUME NEW a \in Nat, NEW n \in Nat \ {0}
  PROVE  a \div n \in Nat /\ n * (a \div n) <= a /\ a < n * (a \div n) + n
OBVIOUS

\* which is monotone.
LEMMA DivMonotone ==
  ASSUME NEW a \in Nat, NEW b \in Nat, a <= b, NEW n \in Nat \ {0}
  PROVE  a \div n <= b \div n
<1> DEFINE p == a \div n
           q == b \div n
<1>1. p \in Nat /\ q \in Nat /\ n * p <= a /\ b < n * q + n
  BY DivBounds
<1> HIDE DEF p, q
<1>2. n * p < n * (q + 1)
  BY <1>1
<1>3. p < q + 1
  BY <1>1, <1>2
<1>4. QED
  BY <1>1, <1>3

\* Ticks never run backwards over an epoch passed, or not to be reached.
LEMMA TicksGrow ==
  ASSUME NEW m \in 0 .. MaxNow, NEW n \in 0 .. MaxNow, m <= n, NEW e \in Words,
         e <= m \/ e >= MaxNow + NsPerTick
  PROVE  TicksAt(m, e) <= TicksAt(n, e)
<1>1. /\ NsPerTick \in Nat \ {0} /\ MaxNow \in Nat /\ MaxNow < TwoTo64 /\ TwoTo64 \in Nat \ {0}
      /\ e \in Nat /\ e < TwoTo64
  BY ClintAssumption DEF Words, AllOnes
<1>2. CASE e <= m
  <2> DEFINE p == (m - e) \div NsPerTick
             q == (n - e) \div NsPerTick
  <2>1. p \in Nat /\ q \in Nat /\ p <= q
    BY <1>1, <1>2, DivBounds, DivMonotone
  <2>2. q <= n - e
    BY <1>1, <1>2
  <2>3. TicksAt(m, e) = p % TwoTo64 /\ TicksAt(n, e) = q % TwoTo64
    BY <1>1, <1>2 DEF TicksAt, Quotient
  <2> HIDE DEF p, q
  <2>4. p % TwoTo64 = p /\ q % TwoTo64 = q
    BY <1>1, <1>2, <2>1, <2>2
  <2>5. QED
    BY <2>1, <2>3, <2>4
<1>3. CASE e >= MaxNow + NsPerTick
  <2> DEFINE p == (e - m) \div NsPerTick
             q == (e - n) \div NsPerTick
  <2>1. p \in Nat /\ q \in Nat /\ q <= p
    BY <1>1, <1>3, DivBounds, DivMonotone
  <2>2. p <= e - m
    BY <1>1, <1>3
  <2>3. 1 <= q
    <3>1. NsPerTick <= e - n /\ e - n \in Nat
      BY <1>1, <1>3
    <3>2. NsPerTick \div NsPerTick = 1
      BY <1>1
    <3>3. QED
      BY <1>1, <3>1, <3>2, DivMonotone
  <2>4. ~(m - e >= 0) /\ ~(n - e >= 0) /\ -(m - e) = e - m /\ -(n - e) = e - n
    BY <1>1, <1>3
  <2>5. TicksAt(m, e) = (-p) % TwoTo64 /\ TicksAt(n, e) = (-q) % TwoTo64
    BY <2>4 DEF TicksAt, Quotient
  <2> HIDE DEF p, q
  <2>6. (-p) % TwoTo64 = TwoTo64 - p /\ (-q) % TwoTo64 = TwoTo64 - q
    BY <1>1, <1>3, <2>1, <2>2, <2>3
  <2>7. QED
    BY <1>1, <2>1, <2>5, <2>6
<1>4. QED
  BY <1>2, <1>3

\* An epoch that a store leaves is one of those.
LEMMA ReseatGood ==
  ASSUME NoWrap, NEW v \in Times, NEW n \in 0 .. MaxNow
  PROVE  LET e == (n - v * NsPerTick) % TwoTo64 IN e <= n \/ e >= MaxNow + NsPerTick
<1> DEFINE w == v * NsPerTick
<1>1. w \in Nat /\ w + MaxNow + NsPerTick <= TwoTo64
  BY ClintAssumption DEF NoWrap, Words
<1> HIDE DEF w
<1>2. CASE w <= n
  <2>1. (n - w) % TwoTo64 = n - w
    BY <1>1, <1>2, ClintAssumption DEF Words, AllOnes
  <2>2. QED
    BY <1>1, <2>1 DEF w
<1>3. CASE w > n
  <2>1. (n - w) % TwoTo64 = TwoTo64 + n - w
    BY <1>1, <1>3, ClintAssumption DEF Words, AllOnes
  <2>2. TwoTo64 + n - w >= MaxNow + NsPerTick
    BY <1>1, ClintAssumption DEF Words, AllOnes
  <2>3. QED
    BY <2>1, <2>2 DEF w
<1>4. QED
  BY <1>1, <1>2, <1>3, ClintAssumption DEF Words, AllOnes
\* A good epoch stays good as the clock runs,
LEMMA GoodStays ==
  ASSUME Typed, HostClock, NEW e \in Words, GoodEpoch(e) PROVE GoodEpoch(e)'
<1>1. now' = now + 1 /\ now \in Nat /\ MaxNow \in Nat /\ NsPerTick \in Nat /\ e \in Nat
  BY ClintAssumption DEF HostClock, Typed, Words
<1>2. QED
  BY <1>1 DEF GoodEpoch

\* and the ticks computed from it do not fall.
LEMMA TicksStay ==
  ASSUME Typed, HostClock, NEW e \in Words, GoodEpoch(e), NEW w \in Words,
         w <= TicksAt(now, e)
  PROVE  w <= TicksAt(now', e)
<1>1. now' = now + 1 /\ now \in 0 .. MaxNow /\ now' \in 0 .. MaxNow
  BY ClintAssumption DEF HostClock, Typed, Words
<1>2. now <= now' /\ (e <= now \/ e >= MaxNow + NsPerTick)
  BY <1>1 DEF GoodEpoch
<1>3. TicksAt(now, e) <= TicksAt(now', e)
  BY <1>1, <1>2, TicksGrow
<1>4. now \in Int /\ now' \in Int /\ e \in Int
  BY <1>1 DEF Words
<1>5. TicksAt(now, e) \in Words /\ TicksAt(now', e) \in Words
  BY <1>4, TicksAreWord
<1>6. QED
  BY <1>3, <1>5 DEF Words

\* So the host clock keeps Clocked,
LEMMA ClockKeeps == Typed /\ Clocked /\ HostClock => Clocked'
<1> SUFFICES ASSUME Typed, Clocked, HostClock PROVE Clocked'
  OBVIOUS
<1>1. UNCHANGED <<pc, loc, epoch>> /\ now <= now'
  BY DEF HostClock, time, Typed
<1>2. GoodEpoch(epoch)'
  BY <1>1, GoodStays DEF Typed, Clocked, GoodEpoch
<1>3. ASSUME NEW t \in Threads, pc[t] \in Ticking \ {"tick"} PROVE GoodEpoch(loc[t].epoch)'
  <2>1. loc[t].epoch \in Words /\ GoodEpoch(loc[t].epoch)
    BY <1>3 DEF Typed, Locals, Clocked
  <2>2. QED
    BY <1>1, <2>1, GoodStays DEF GoodEpoch
<1>4. ASSUME NEW t \in Threads, pc[t] \in {"previous", "exchange", "checkEpoch"}
      PROVE  loc[t].cmp <= TicksAt(now', loc[t].epoch)
  <2>1. loc[t].epoch \in Words /\ loc[t].cmp \in Words
    BY DEF Typed, Locals
  <2>2. GoodEpoch(loc[t].epoch) /\ loc[t].cmp <= TicksAt(now, loc[t].epoch)
    BY <1>4 DEF Clocked, Ticking
  <2>3. QED
    BY <2>1, <2>2, TicksStay
<1>5. pc["hart"] = "reseat" => loc["hart"].epoch <= now'
  <2>1. loc["hart"].epoch \in Nat /\ now \in Nat /\ now' = now + 1
    BY ClintAssumption DEF Typed, Locals, Threads, HostClock, Words
  <2>2. QED
    BY <2>1 DEF Clocked
<1>6. QED
  BY <1>1, <1>2, <1>3, <1>4, <1>5 DEF Clocked

\* and so does the epoch a store leaves.
LEMMA ReseatKeeps == NoWrap /\ Typed /\ Typed' /\ Clocked /\ ReseatEpoch => Clocked'
<1> SUFFICES ASSUME NoWrap, Typed, Typed', Clocked, ReseatEpoch PROVE Clocked'
  OBVIOUS
<1> DEFINE n == loc["hart"].epoch
           v == loc["hart"].mtime
<1>1. n \in 0 .. MaxNow /\ n <= now /\ v \in Times /\ now' = now /\ now \in Nat
  BY ClintAssumption DEF Typed, Locals, Threads, Clocked, ReseatEpoch, At, Words
<1>2. epoch' = (n - v * NsPerTick) % TwoTo64 /\ epoch' \in Nat
  BY DEF ReseatEpoch, Typed, Words
<1> HIDE DEF n, v
<1>3. epoch' <= n \/ epoch' >= MaxNow + NsPerTick
  BY <1>1, <1>2, ReseatGood
<1>4. GoodEpoch(epoch)'
  BY <1>1, <1>2, <1>3, ClintAssumption DEF GoodEpoch, Words
<1>5. /\ pc'["hart"] = "readMtime"
      /\ \A t \in Threads \ {"hart"} : pc'[t] = pc[t] /\ loc'[t] = loc[t]
  BY DEF ReseatEpoch, Update, Goto, Typed, Threads
<1>6. QED
  BY <1>1, <1>4, <1>5 DEF Clocked, GoodEpoch, Ticking, Threads

\* Every step keeps the epochs good and the ticks computed from them not ahead.
LEMMA ClockedStep == NoWrap /\ Typed /\ Places /\ Clocked /\ [Next]_vars => Clocked'
<1> SUFFICES ASSUME NoWrap, Typed, Places, Clocked, [Next]_vars PROVE Clocked'
  OBVIOUS
<1> USE DEF Typed, Locals, Places, Clocked, GoodEpoch, Updating, Ticking, Goto, At, Threads,
    time, lines, hart, csr, notes
<1>1. CASE HostClock
  BY <1>1, ClockKeeps
<1>2. ASSUME NEW t \in Threads, ReadMtime(t) PROVE Clocked'
  BY <1>2 DEF ReadMtime
<1>3. ASSUME NEW t \in Threads, ReadCompare(t) PROVE Clocked'
  BY <1>3 DEF ReadCompare
<1>4. ASSUME NEW t \in Threads, ReadMirror(t) PROVE Clocked'
  BY <1>4 DEF ReadMirror
<1>5. ASSUME NEW t \in Threads, StoreWire(t) PROVE Clocked'
  BY <1>5 DEF StoreWire
<1>6. ASSUME NEW t \in Threads, StoreLevel(t) PROVE Clocked'
  BY <1>6 DEF StoreLevel, AfterWire
<1>7. ASSUME NEW t \in Threads, Notify(t) PROVE Clocked'
  BY <1>7 DEF Notify
<1>8. ASSUME NEW t \in Threads, CheckMtime(t) PROVE Clocked'
  BY <1>8 DEF CheckMtime, Retry, NoLocals
<1>9. ASSUME NEW t \in Threads, CheckCompare(t) PROVE Clocked'
  BY <1>9 DEF CheckCompare, Retry, NoLocals
<1>10. ASSUME NEW t \in Threads, CheckMirror(t) PROVE Clocked'
  BY <1>10 DEF CheckMirror, Retry, NoLocals
<1>11. ASSUME NEW t \in Threads, ReadEpoch(t) PROVE Clocked'
  BY <1>11 DEF ReadEpoch
<1>12. ASSUME NEW t \in Threads, ReadClock(t) PROVE Clocked'
  <2>3. now \in Int /\ loc[t].epoch \in Int
    BY DEF Words
  <2>1. TicksAt(now, loc[t].epoch) \in Words
    BY <2>3, TicksAreWord
  <2>2. QED
    BY <1>12, <2>1 DEF ReadClock, Words
<1>13. ASSUME NEW t \in Threads, ReadPrevious(t) PROVE Clocked'
  BY <1>13 DEF ReadPrevious
<1>14. ASSUME NEW t \in Threads, Exchange(t) PROVE Clocked'
  BY <1>14 DEF Exchange
<1>15. ASSUME NEW t \in Threads, CheckEpoch(t) PROVE Clocked'
  BY <1>15 DEF CheckEpoch, Update, NoLocals
<1>16. CASE TimerTick
  BY <1>16 DEF TimerTick
<1>17. CASE LoadMtime
  BY <1>17 DEF LoadMtime
<1>18. CASE StartWfi
  BY <1>18 DEF StartWfi
<1>19. CASE ReturnMtime
  BY <1>19 DEF ReturnMtime
<1>20. CASE ReadClockForEpoch
  BY <1>20 DEF ReadClockForEpoch
<1>21. CASE ReseatEpoch
  BY <1>21, ReseatKeeps, TypeStep DEF Next, HartStep
<1>22. CASE SampleM
  BY <1>22 DEF SampleM
<1>23. CASE PublishCompare
  BY <1>23 DEF PublishCompare, Update, NoLocals
<1>24. CASE SampleS
  BY <1>24 DEF SampleS, AfterSample
<1>25. CASE LoadLevel
  BY <1>25 DEF LoadLevel
<1>26. CASE WaitIrqLevel
  BY <1>26 DEF WaitIrqLevel
<1>27. ASSUME NEW on \in BOOLEAN, WriteMenvcfg(on) PROVE Clocked'
  BY <1>27 DEF WriteMenvcfg
<1>28. ASSUME NEW v \in Compares, StoreMtimecmp(v) PROVE Clocked'
  BY <1>28 DEF StoreMtimecmp, Update, NoLocals
<1>29. ASSUME NEW v \in Compares, WriteStimecmp(v) PROVE Clocked'
  BY <1>29 DEF WriteStimecmp
<1>30. ASSUME NEW v \in Times, StoreMtime(v) PROVE Clocked'
  BY <1>30 DEF StoreMtime
<1>31. CASE UNCHANGED vars
  BY <1>31 DEF vars
<1>32. QED
  BY <1>1, <1>2, <1>3, <1>4, <1>5, <1>6, <1>7, <1>8, <1>9, <1>10, <1>11, <1>12, <1>13,
     <1>14, <1>15, <1>16, <1>17, <1>18, <1>19, <1>20, <1>21, <1>22, <1>23, <1>24, <1>25,
     <1>26, <1>27, <1>28, <1>29, <1>30, <1>31
     DEF Next, GuestStarts, HartStep, TimerStep, TickStep, UpdateStep

\* Every step keeps what a load of mtime relies on.
LEMMA LoadTrueStep == Typed /\ Places /\ Clocked /\ LoadTrue /\ [Next]_vars => LoadTrue'
<1> SUFFICES ASSUME Typed, Places, Clocked, LoadTrue, [Next]_vars PROVE LoadTrue'
  OBVIOUS
<1> USE DEF Typed, Locals, Places, LoadTrue, Loading, Updating, Ticking, Goto, At, Threads,
    time, lines, hart, csr, notes
<1>1. CASE HostClock
  <2>1. now' = now + 1 /\ now' \in 0 .. MaxNow /\ UNCHANGED <<pc, loc, time>>
    BY <1>1, ClintAssumption DEF HostClock, Words
  <2>2. TicksAt(now, epoch) <= TicksAt(now', epoch)
    BY <2>1, TicksGrow DEF Clocked, GoodEpoch
  <2>3. TicksAt(now, epoch) \in Words /\ TicksAt(now', epoch) \in Words
    BY <2>1, TicksAreWord DEF Words
  <2>4. QED
    BY <2>1, <2>2, <2>3 DEF Words
<1>2. ASSUME NEW t \in Threads, ReadMtime(t) PROVE LoadTrue'
  BY <1>2 DEF ReadMtime
<1>3. ASSUME NEW t \in Threads, ReadCompare(t) PROVE LoadTrue'
  BY <1>3 DEF ReadCompare
<1>4. ASSUME NEW t \in Threads, ReadMirror(t) PROVE LoadTrue'
  BY <1>4 DEF ReadMirror
<1>5. ASSUME NEW t \in Threads, StoreWire(t) PROVE LoadTrue'
  BY <1>5 DEF StoreWire
<1>6. ASSUME NEW t \in Threads, StoreLevel(t) PROVE LoadTrue'
  BY <1>6 DEF StoreLevel, AfterWire
<1>7. ASSUME NEW t \in Threads, Notify(t) PROVE LoadTrue'
  BY <1>7 DEF Notify
<1>8. ASSUME NEW t \in Threads, CheckMtime(t) PROVE LoadTrue'
  BY <1>8 DEF CheckMtime, Retry, NoLocals
<1>9. ASSUME NEW t \in Threads, CheckCompare(t) PROVE LoadTrue'
  BY <1>9 DEF CheckCompare, Retry, NoLocals
<1>10. ASSUME NEW t \in Threads, CheckMirror(t) PROVE LoadTrue'
  BY <1>10 DEF CheckMirror, Retry, NoLocals
<1>11. ASSUME NEW t \in Threads, ReadEpoch(t) PROVE LoadTrue'
  BY <1>11 DEF ReadEpoch
<1>12. ASSUME NEW t \in Threads, ReadClock(t) PROVE LoadTrue'
  BY <1>12 DEF ReadClock
<1>13. ASSUME NEW t \in Threads, ReadPrevious(t) PROVE LoadTrue'
  BY <1>13 DEF ReadPrevious
<1>14. ASSUME NEW t \in Threads, Exchange(t) PROVE LoadTrue'
  BY <1>14 DEF Exchange, Clocked
<1>15. ASSUME NEW t \in Threads, CheckEpoch(t) PROVE LoadTrue'
  BY <1>15 DEF CheckEpoch, Update, NoLocals
<1>16. CASE TimerTick
  BY <1>16 DEF TimerTick
<1>17. CASE LoadMtime
  BY <1>17 DEF LoadMtime
<1>18. CASE StartWfi
  BY <1>18 DEF StartWfi
<1>19. CASE ReturnMtime
  BY <1>19 DEF ReturnMtime
<1>20. CASE ReadClockForEpoch
  BY <1>20 DEF ReadClockForEpoch
<1>21. CASE ReseatEpoch
  BY <1>21 DEF ReseatEpoch, Update, NoLocals
<1>22. CASE SampleM
  BY <1>22 DEF SampleM
<1>23. CASE PublishCompare
  BY <1>23 DEF PublishCompare, Update, NoLocals
<1>24. CASE SampleS
  BY <1>24 DEF SampleS, AfterSample
<1>25. CASE LoadLevel
  BY <1>25 DEF LoadLevel
<1>26. CASE WaitIrqLevel
  BY <1>26 DEF WaitIrqLevel
<1>27. ASSUME NEW on \in BOOLEAN, WriteMenvcfg(on) PROVE LoadTrue'
  BY <1>27 DEF WriteMenvcfg
<1>28. ASSUME NEW v \in Compares, StoreMtimecmp(v) PROVE LoadTrue'
  BY <1>28 DEF StoreMtimecmp, Update, NoLocals
<1>29. ASSUME NEW v \in Compares, WriteStimecmp(v) PROVE LoadTrue'
  BY <1>29 DEF WriteStimecmp
<1>30. ASSUME NEW v \in Times, StoreMtime(v) PROVE LoadTrue'
  BY <1>30 DEF StoreMtime
<1>31. CASE UNCHANGED vars
  BY <1>31 DEF vars
<1>32. QED
  BY <1>1, <1>2, <1>3, <1>4, <1>5, <1>6, <1>7, <1>8, <1>9, <1>10, <1>11, <1>12, <1>13,
     <1>14, <1>15, <1>16, <1>17, <1>18, <1>19, <1>20, <1>21, <1>22, <1>23, <1>24, <1>25,
     <1>26, <1>27, <1>28, <1>29, <1>30, <1>31
     DEF Next, GuestStarts, HartStep, TimerStep, TickStep, UpdateStep

\* A load of mtime is not ahead of the clock and the epoch, unless the timer worker is
\* inside a tick: the hart ticks from the epoch in force before it loads, and the
\* timer worker does not leave a tick whose epoch was replaced.
THEOREM LoadsAreNotAhead == ASSUME NoWrap PROVE Spec => LoadNotAhead
<1>1. Init => Clocked /\ LoadTrue
  <2>1. Init => GoodEpoch(epoch)
    BY DEF Init, GoodEpoch
  <2>2. QED
    BY <2>1 DEF Init, Clocked, LoadTrue, Loading, Threads, Ticking, Updating
<1>2. IInv /\ Clocked /\ LoadTrue /\ [Next]_vars => Clocked' /\ LoadTrue'
  BY ClockedStep, LoadTrueStep DEF IInv
<1>3. IInv /\ Clocked /\ LoadTrue /\ [Next]_vars =>
        (At("hart", "load") /\ pc'["hart"] # "load"
           => saw' <= TicksAt(now, epoch) \/ pc["timer"] \in Ticking)
  <2> SUFFICES ASSUME IInv, LoadTrue, [Next]_vars, pc["hart"] = "load", pc'["hart"] # "load",
                      pc["timer"] \notin Ticking
               PROVE  saw' <= TicksAt(now, epoch)
    BY DEF At
  <2>1. saw' = mtime
    BY Leaves DEF ReturnMtime
  <2>2. mtime <= TicksAt(now, epoch)
    BY DEF LoadTrue, Loading, Ticking
  <2>3. QED
    BY <2>1, <2>2
<1>4. QED
  BY <1>1, <1>2, <1>3, Invariant, PTL DEF Spec, LoadNotAhead
=============================================================================
