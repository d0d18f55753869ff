------------------------------- MODULE Clint --------------------------------
(***************************************************************************)
(* The CLINT timebase (clint/time.ts) between the timer worker and the     *)
(* hart, with the part of the hart that depends on it: the sample pass     *)
(* before every instruction and wfi sleeping on the irq-level word         *)
(* (sample-device-pending.ts, irq-level.ts, instructions/system.ts).       *)
(*                                                                         *)
(* One step per access to a shared word the other thread may change.       *)
(* mtimecmp and the stimecmp mirror are written by the hart alone, so its  *)
(* read-modify-write of them is one step; a store to mtime takes effect at *)
(* the compareExchange that succeeds.  One mtime tick lasts NsPerTick      *)
(* units of the host clock.  msip is written and sampled by the hart only  *)
(* and is left out, as are the other bits of the level word.               *)
(***************************************************************************)
EXTENDS Integers

CONSTANTS TwoTo64,                    \* modulus of the 64-bit shadows
          NsPerTick,                  \* NS_PER_SECOND / timebaseHz
          TIMER_WIRE_UPDATE_ATTEMPTS, \* 4 in clint/time.ts
          MaxNow,                     \* bound of the host clock
          GuestOps,                   \* what the guest does
          Times,                      \* values it stores to mtime
          Compares,                   \* values it stores to mtimecmp and stimecmp
          Enabled                     \* timer interrupts enabled in mie

AllOnes == TwoTo64 - 1
Timers  == {"M", "S"}
Threads == {"hart", "timer"}
Words   == 0 .. AllOnes

ASSUME ClintAssumption ==
  /\ TwoTo64 \in Nat \ {0, 1} /\ NsPerTick \in Nat \ {0}
  /\ TIMER_WIRE_UPDATE_ATTEMPTS \in Nat \ {0}
  /\ MaxNow \in Words               \* 2^64 nanoseconds of uptime: 584 years
  /\ GuestOps \subseteq {"load", "mtime", "mtimecmp", "stimecmp", "stce", "wfi"}
  /\ Times \subseteq Words /\ Compares \subseteq Words
  /\ Enabled \subseteq Timers

VARIABLES now,        \* process.hrtime
          mtime, epoch, mtimecmp,
          mirror,     \* the stimecmp mirror in the CLINT slab
          wire,       \* timers whose wire byte is 1
          level,      \* timers whose bit is set in the irq-level word
          stimecmp,   \* the hart's CSR
          stce,       \* menvcfg.STCE
          mip,        \* the timer bits of the hart's mip
          phase,      \* what the hart's sample pass is for: "run", or a check of wfi
          from,       \* wfi's fromLevel
          pc, loc,    \* where each thread is, and its locals
          saw,        \* history: the guest's last load of mtime, 0 after a store to it
          gaveUp,     \* history: an update hit the attempt cap, and none ran alone since
          torn        \* history: wire and level disagreed when wfi read the level, or fell since

time  == <<mtime, epoch, mtimecmp, mirror>>
lines == <<wire, level>>
csr   == <<stimecmp, stce>>
hart  == <<csr, mip, phase, from>>
notes == <<saw, gaveUp, torn>>
vars  == <<now, time, lines, hart, pc, loc, notes>>
-----------------------------------------------------------------------------
Goto(t, label) == pc' = [pc EXCEPT ![t] = label]
At(t, label)   == pc[t] = label

Compare(t) == IF t = "M" THEN mtimecmp ELSE mirror

\* BigInt division truncates towards zero.
Quotient(a, n) == IF a >= 0 THEN a \div n ELSE -((-a) \div n)

\* The mtime that tickClint derives at host time n from epoch e.
TicksAt(n, e) == Quotient(n - e, NsPerTick) % TwoTo64

NoLocals == [mtime |-> 0, epoch |-> 0, cmp |-> 0, mirror |-> 0, which |-> "M",
             attempt |-> 1, next |-> "idle"]

\* resetClintTimebase.
Init ==
  /\ now = 0
  /\ mtime = 0 /\ epoch = 0
  /\ mtimecmp = AllOnes /\ mirror = AllOnes /\ stimecmp = AllOnes
  /\ stce = FALSE
  /\ wire = {} /\ level = {} /\ mip = {}
  /\ phase = "run" /\ from = {}
  /\ pc = [t \in Threads |-> "idle"]
  /\ loc = [t \in Threads |-> NoLocals]
  /\ saw = 0 /\ gaveUp = FALSE /\ torn = FALSE

HostClock ==
  /\ now < MaxNow
  /\ now' = now + 1
  /\ UNCHANGED <<time, lines, hart, pc, loc, notes>>
-----------------------------------------------------------------------------
(* updateTimerWiresFromCompare                                               *)

Updating == {"readMtime", "readCompare", "readMirror", "wire", "level", "notify",
             "checkMtime", "checkCompare", "checkMirror"}

\* A thread enters the update and continues at next.  Whoever updates alone
\* starts afresh.
Update(t, next) ==
  /\ Goto(t, "readMtime")
  /\ loc' = [loc EXCEPT ![t] = [NoLocals EXCEPT !.next = next]]
  /\ gaveUp' = (gaveUp /\ \E u \in Threads \ {t} : pc[u] \in Updating)

ReadMtime(t) ==
  /\ At(t, "readMtime")
  /\ loc' = [loc EXCEPT ![t].mtime = mtime]
  /\ Goto(t, "readCompare")
  /\ UNCHANGED <<now, time, lines, hart, notes>>

ReadCompare(t) ==
  /\ At(t, "readCompare")
  /\ loc' = [loc EXCEPT ![t].cmp = mtimecmp]
  /\ Goto(t, "readMirror")
  /\ UNCHANGED <<now, time, lines, hart, notes>>

ReadMirror(t) ==
  /\ At(t, "readMirror")
  /\ loc' = [loc EXCEPT ![t].mirror = mirror, ![t].which = "M"]
  /\ Goto(t, "wire")
  /\ UNCHANGED <<now, time, lines, hart, notes>>

\* The verdict thread t drives onto the wire it is at.
Verdict(t) ==
  loc[t].mtime >= (IF loc[t].which = "M" THEN loc[t].cmp ELSE loc[t].mirror)

With(S, t) == IF Verdict(t) THEN S \cup {loc[t].which} ELSE S \ {loc[t].which}

\* setIrqWire: the wire byte, then the level bit, then a notify if it changed.
StoreWire(t) ==
  /\ At(t, "wire")
  /\ wire' = With(wire, t)
  /\ torn' = (torn \/ wire \ wire' # {})
  /\ Goto(t, "level")
  /\ UNCHANGED <<now, time, level, hart, loc, saw, gaveUp>>

AfterWire(t) ==
  IF loc[t].which = "M"
  THEN Goto(t, "wire") /\ loc' = [loc EXCEPT ![t].which = "S"]
  ELSE Goto(t, "checkMtime") /\ UNCHANGED loc

\* Mutated form of StoreLevel: a changed level is not notified.
StoreLevelSilent(t) ==
  /\ At(t, "level")
  /\ level' = With(level, t)
  /\ torn' = (torn \/ level \ level' # {})
  /\ AfterWire(t)
  /\ UNCHANGED <<now, time, wire, hart, saw, gaveUp>>

StoreLevel(t) ==
  /\ At(t, "level")
  /\ level' = With(level, t)
  /\ torn' = (torn \/ level \ level' # {})
  /\ IF level' = level THEN AfterWire(t) ELSE Goto(t, "notify") /\ UNCHANGED loc
  /\ UNCHANGED <<now, time, wire, hart, saw, gaveUp>>

Notify(t) ==
  /\ At(t, "notify")
  /\ LET woken == At("hart", "parked")
         after == IF loc[t].which = "M" THEN "wire" ELSE "checkMtime"
     IN  /\ pc' = [u \in Threads |-> IF u = t THEN after
                                     ELSE IF woken THEN "sampleM" ELSE pc[u]]
         /\ phase' = IF woken THEN "first" ELSE phase
         /\ loc' = [loc EXCEPT ![t].which = "S"]
  /\ UNCHANGED <<now, time, lines, csr, mip, from, notes>>

\* The inputs moved: start over, or give up at the cap.
Retry(t) ==
  IF loc[t].attempt < TIMER_WIRE_UPDATE_ATTEMPTS
  THEN /\ loc' = [loc EXCEPT ![t].attempt = @ + 1]
       /\ Goto(t, "readMtime")
       /\ UNCHANGED gaveUp
  ELSE /\ gaveUp' = TRUE
       /\ loc' = [loc EXCEPT ![t] = NoLocals]
       /\ Goto(t, loc[t].next)

CheckMtime(t) ==
  /\ At(t, "checkMtime")
  /\ IF mtime = loc[t].mtime
     THEN Goto(t, "checkCompare") /\ UNCHANGED <<loc, gaveUp>>
     ELSE Retry(t)
  /\ UNCHANGED <<now, time, lines, hart, saw, torn>>

\* Mutated form of CheckCompare: the compare register is not read again.
CheckCompareNever(t) ==
  /\ At(t, "checkCompare")
  /\ Goto(t, "checkMirror")
  /\ UNCHANGED <<now, time, lines, hart, loc, notes>>

CheckCompare(t) ==
  /\ At(t, "checkCompare")
  /\ IF mtimecmp = loc[t].cmp
     THEN Goto(t, "checkMirror") /\ UNCHANGED <<loc, gaveUp>>
     ELSE Retry(t)
  /\ UNCHANGED <<now, time, lines, hart, saw, torn>>

\* Mutated form of CheckMirror: the mirror is not read again.
CheckMirrorNever(t) ==
  /\ At(t, "checkMirror")
  /\ Goto(t, loc[t].next)
  /\ loc' = [loc EXCEPT ![t] = NoLocals]
  /\ UNCHANGED <<now, time, lines, hart, notes>>

CheckMirror(t) ==
  /\ At(t, "checkMirror")
  /\ IF mirror = loc[t].mirror
     THEN /\ Goto(t, loc[t].next)
          /\ loc' = [loc EXCEPT ![t] = NoLocals]
          /\ UNCHANGED gaveUp
     ELSE Retry(t)
  /\ UNCHANGED <<now, time, lines, hart, saw, torn>>

UpdateStep(t) ==
  \/ ReadMtime(t) \/ ReadCompare(t) \/ ReadMirror(t)
  \/ StoreWire(t) \/ StoreLevel(t) \/ Notify(t)
  \/ CheckMtime(t) \/ CheckCompare(t) \/ CheckMirror(t)
-----------------------------------------------------------------------------
(* tickClint                                                                 *)

ReadEpoch(t) ==
  /\ At(t, "tick")
  /\ loc' = [loc EXCEPT ![t].epoch = epoch]
  /\ Goto(t, "clock")
  /\ UNCHANGED <<now, time, lines, hart, notes>>

\* hrtime; from here on loc.cmp holds the ticks computed from it.
ReadClock(t) ==
  /\ At(t, "clock")
  /\ loc' = [loc EXCEPT ![t].cmp = TicksAt(now, loc[t].epoch)]
  /\ Goto(t, "previous")
  /\ UNCHANGED <<now, time, lines, hart, notes>>

ReadPrevious(t) ==
  /\ At(t, "previous")
  /\ loc' = [loc EXCEPT ![t].mtime = mtime]
  /\ Goto(t, "exchange")
  /\ UNCHANGED <<now, time, lines, hart, notes>>

Exchange(t) ==
  /\ At(t, "exchange")
  /\ IF mtime = loc[t].mtime
     THEN mtime' = loc[t].cmp /\ Goto(t, "checkEpoch")
     ELSE mtime' = mtime /\ Goto(t, "tick")
  /\ UNCHANGED <<now, epoch, mtimecmp, mirror, lines, hart, loc, notes>>

\* Mutated form of CheckEpoch: the wires are left to the next change.
CheckEpochSilent(t) ==
  /\ At(t, "checkEpoch")
  /\ Goto(t, IF epoch = loc[t].epoch THEN loc[t].next ELSE "tick")
  /\ UNCHANGED <<now, time, lines, hart, loc, notes>>

\* Mutated form of CheckEpoch: a reseated epoch goes unnoticed.
CheckEpochNever(t) ==
  /\ At(t, "checkEpoch")
  /\ Update(t, loc[t].next)
  /\ UNCHANGED <<now, time, lines, hart, saw, torn>>

CheckEpoch(t) ==
  /\ At(t, "checkEpoch")
  /\ IF epoch = loc[t].epoch
     THEN Update(t, loc[t].next)
     ELSE Goto(t, "tick") /\ UNCHANGED <<loc, gaveUp>>
  /\ UNCHANGED <<now, time, lines, hart, saw, torn>>

TickStep(t) ==
  ReadEpoch(t) \/ ReadClock(t) \/ ReadPrevious(t) \/ Exchange(t) \/ CheckEpoch(t)

\* timer/run.ts: a tick, then a delay, for ever.
TimerTick ==
  /\ At("timer", "idle")
  /\ Goto("timer", "tick")
  /\ UNCHANGED <<now, time, lines, hart, loc, notes>>
-----------------------------------------------------------------------------
(* The hart: one instruction, then a sample pass                             *)

\* loadClintTimeBytes and the time CSR: tick first, then read.
LoadMtime ==
  /\ "load" \in GuestOps /\ At("hart", "idle")
  /\ Goto("hart", "tick")
  /\ loc' = [loc EXCEPT !["hart"].next = "load"]
  /\ UNCHANGED <<now, time, lines, hart, notes>>

ReturnMtime ==
  /\ At("hart", "load")
  /\ saw' = mtime
  /\ Goto("hart", "sampleM")
  /\ UNCHANGED <<now, time, lines, hart, loc, gaveUp, torn>>

StoreMtimecmp(v) ==
  /\ "mtimecmp" \in GuestOps /\ At("hart", "idle")
  /\ mtimecmp' = v
  /\ Update("hart", "sampleM")
  /\ UNCHANGED <<now, mtime, epoch, mirror, lines, hart, saw, torn>>

\* storeClintTimeBytes on mtime: exchange, then reseat the epoch, then update.
StoreMtime(v) ==
  /\ "mtime" \in GuestOps /\ At("hart", "idle")
  /\ mtime' = v
  /\ saw' = 0
  /\ loc' = [loc EXCEPT !["hart"].mtime = v]
  /\ Goto("hart", "stored")
  /\ UNCHANGED <<now, epoch, mtimecmp, mirror, lines, hart, gaveUp, torn>>

ReadClockForEpoch ==
  /\ At("hart", "stored")
  /\ loc' = [loc EXCEPT !["hart"].epoch = now]
  /\ Goto("hart", "reseat")
  /\ UNCHANGED <<now, time, lines, hart, notes>>

\* Mutated form of ReseatEpoch: mtime is taken for nanoseconds.
ReseatEpochTicks ==
  /\ At("hart", "reseat")
  /\ epoch' = (loc["hart"].epoch - loc["hart"].mtime) % TwoTo64
  /\ Update("hart", "sampleM")
  /\ UNCHANGED <<now, mtime, mtimecmp, mirror, lines, hart, saw, torn>>

ReseatEpoch ==
  /\ At("hart", "reseat")
  /\ epoch' = (loc["hart"].epoch - loc["hart"].mtime * NsPerTick) % TwoTo64
  /\ Update("hart", "sampleM")
  /\ UNCHANGED <<now, mtime, mtimecmp, mirror, lines, hart, saw, torn>>

WriteStimecmp(v) ==
  /\ "stimecmp" \in GuestOps /\ At("hart", "idle")
  /\ stimecmp' = v
  /\ Goto("hart", "sampleM")
  /\ UNCHANGED <<now, time, lines, stce, mip, phase, from, loc, notes>>

\* A store to menvcfg: with STCE off the compare is disabled and STIP dropped.
WriteMenvcfg(on) ==
  /\ "stce" \in GuestOps /\ At("hart", "idle")
  /\ stce' = on
  /\ mip' = IF stce /\ ~on THEN mip \ {"S"} ELSE mip
  /\ Goto("hart", "sampleM")
  /\ UNCHANGED <<now, time, lines, stimecmp, phase, from, loc, notes>>

\* wfi opens with a sample pass and its first check.
StartWfi ==
  /\ "wfi" \in GuestOps /\ At("hart", "idle")
  /\ Goto("hart", "sampleM")
  /\ phase' = "first"
  /\ UNCHANGED <<now, time, lines, csr, mip, from, loc, notes>>
-----------------------------------------------------------------------------
(* sampleDevicePending and the rest of wfi                                   *)

SampleM ==
  /\ At("hart", "sampleM")
  /\ mip' = (mip \ {"M"}) \cup (wire \cap {"M"})
  /\ Goto("hart", "publish")
  /\ UNCHANGED <<now, time, lines, csr, phase, from, loc, notes>>

\* Mutated form of PublishCompare: the wires wait for the next tick.
PublishCompareLazy ==
  /\ At("hart", "publish")
  /\ mirror' = IF stce THEN stimecmp ELSE AllOnes
  /\ Goto("hart", "sampleS")
  /\ UNCHANGED <<now, mtime, epoch, mtimecmp, lines, hart, loc, notes>>

\* publishSupervisorTimerCompare and setClintStimecmpMirror.
PublishCompare ==
  /\ At("hart", "publish")
  /\ mirror' = IF stce THEN stimecmp ELSE AllOnes
  /\ IF mirror' # mirror
     THEN Update("hart", "sampleS")
     ELSE Goto("hart", "sampleS") /\ UNCHANGED <<loc, gaveUp>>
  /\ UNCHANGED <<now, mtime, epoch, mtimecmp, lines, hart, saw, torn>>

\* Where the hart goes with the bits of mip it now has.
AfterSample(bits) ==
  IF phase = "run" \/ bits \cap Enabled # {}
  THEN phase' = "run" /\ Goto("hart", "idle")
  ELSE phase' = phase /\ Goto("hart", IF phase = "first" THEN "loadLevel" ELSE "wait")

SampleS ==
  /\ At("hart", "sampleS")
  /\ mip' = IF stce THEN (mip \ {"S"}) \cup (wire \cap {"S"}) ELSE mip
  /\ AfterSample(mip')
  /\ UNCHANGED <<now, time, lines, csr, from, loc, notes>>

\* Mutated form of LoadLevel: the wires are not sampled again.
LoadLevelOnce ==
  /\ At("hart", "loadLevel")
  /\ from' = level /\ torn' = (wire # level)
  /\ phase' = "second"
  /\ Goto("hart", "wait")
  /\ UNCHANGED <<now, time, lines, csr, mip, loc, saw, gaveUp>>

LoadLevel ==
  /\ At("hart", "loadLevel")
  /\ from' = level /\ torn' = (wire # level)
  /\ phase' = "second"
  /\ Goto("hart", "sampleM")
  /\ UNCHANGED <<now, time, lines, csr, mip, loc, saw, gaveUp>>

\* waitAsync compares and parks in one step; another level starts over.
WaitIrqLevel ==
  /\ At("hart", "wait")
  /\ IF level = from
     THEN Goto("hart", "parked") /\ phase' = phase
     ELSE Goto("hart", "sampleM") /\ phase' = "first"
  /\ UNCHANGED <<now, time, lines, csr, mip, from, loc, notes>>
-----------------------------------------------------------------------------
GuestStarts ==
  \/ LoadMtime \/ StartWfi
  \/ \E on \in BOOLEAN : WriteMenvcfg(on)
  \/ \E v \in Compares : StoreMtimecmp(v) \/ WriteStimecmp(v)
  \/ \E v \in Times : StoreMtime(v)

HartStep ==
  \/ TickStep("hart") \/ UpdateStep("hart")
  \/ ReturnMtime \/ ReadClockForEpoch \/ ReseatEpoch
  \/ SampleM \/ PublishCompare \/ SampleS \/ LoadLevel \/ WaitIrqLevel

TimerStep == TimerTick \/ TickStep("timer") \/ UpdateStep("timer")

Next == HostClock \/ GuestStarts \/ HartStep \/ TimerStep

Spec == Init /\ [][Next]_vars

\* Time passes, the timer worker ticks for ever, and an instruction that has
\* started finishes; which instruction comes next, if any, is the guest's choice.
FairSpec ==
  Spec /\ WF_vars(HostClock) /\ WF_vars(HartStep) /\ WF_vars(TimerStep)
-----------------------------------------------------------------------------
Ticking == {"tick", "clock", "previous", "exchange", "checkEpoch"}
Labels  == Updating \cup Ticking \cup
           {"idle", "load", "stored", "reseat", "sampleM", "publish", "sampleS",
            "loadLevel", "wait", "parked"}

\* Every word, wire and local of both threads stays in its domain.
TypeOK ==
  /\ now \in 0 .. MaxNow
  /\ {mtime, epoch, mtimecmp, mirror, stimecmp, saw} \subseteq Words
  /\ stce \in BOOLEAN
  /\ wire \subseteq Timers /\ level \subseteq Timers /\ mip \subseteq Timers
  /\ phase \in {"run", "first", "second"} /\ from \subseteq Timers
  /\ pc \in [Threads -> Labels]
  /\ loc \in [Threads -> [mtime : Words, epoch : Words, cmp : Words, mirror : Words,
                          which : Timers, attempt : 1 .. TIMER_WIRE_UPDATE_ATTEMPTS,
                          next : Labels]]
  /\ gaveUp \in BOOLEAN /\ torn \in BOOLEAN

\* The timers whose compare value mtime has reached.
Due == {t \in Timers : mtime >= Compare(t)}

\* Neither thread is inside a tick, a store or an update.
AtRest ==
  /\ At("timer", "idle")
  /\ pc["hart"] \in {"idle", "sampleM", "publish", "sampleS", "loadLevel", "wait", "parked"}

\* Once nobody is updating them, both timer wires and the level word say
\* exactly which compares mtime has reached, whatever the interleaving of the
\* timer worker's updates and the guest's stores, unless an update ran out of
\* attempts: the verify loop of updateTimerWiresFromCompare.
WiresExact == AtRest /\ ~gaveUp => wire = Due /\ level = Due

\* The timer worker is between deriving a verdict and having notified it.
Publishing == pc["timer"] \in {"level", "notify"}

\* The enabled timer wires the sample pass takes into mip.
Awaited == {t \in wire \cap Enabled : t = "S" => stce}

\* A hart asleep in wfi with an enabled timer wire high is about to be notified,
\* unless the wire bytes and the level word disagreed when wfi read the level or
\* one of them fell since: the second sample of wfi (system.ts:210).
SleepsOnlyIfQuiet ==
  At("hart", "parked") /\ Awaited # {} => Publishing \/ torn

\* The same without the exception: an expiring compare notifies the wait.
ExpiryNotifiesWait ==
  At("hart", "parked") /\ Awaited # {} => Publishing

\* A sample pass sets STIP below stimecmp only while the timer worker is inside a
\* tick or the update that ends it, and so still to verify the wires: raising
\* stimecmp clears mip.STIP without waiting for the next tick (time.ts:139).
StipFollowsCompare ==
  [][At("hart", "sampleS") /\ pc'["hart"] # "sampleS"
       => ("S" \in mip' /\ stce /\ mtime < stimecmp => ~At("timer", "idle") \/ gaveUp)]_vars

\* A load of mtime returns a time ahead of the host clock and the epoch only while
\* the timer worker is inside a tick: what it stored from an epoch that a guest
\* store replaced lasts until it notices and retries (time.ts:170). As long as no
\* store sets mtime so far ahead that the time it leaves passes 2^64 while the clock
\* runs: then mtime wraps, as the manual allows.
LoadNotAhead ==
  [][At("hart", "load") /\ pc'["hart"] # "load"
       => saw' <= TicksAt(now, epoch) \/ pc["timer"] \in Ticking]_vars

\* The epoch a store to mtime leaves makes tickClint reproduce the stored value,
\* as long as the host clock has run longer than that value (time.ts:151).
StoreReproduced ==
  [][At("hart", "reseat") /\ pc'["hart"] # "reseat"
      /\ loc["hart"].mtime * NsPerTick <= loc["hart"].epoch
       => TicksAt(loc["hart"].epoch, epoch') = loc["hart"].mtime]_vars

AtRestHart == pc["hart"] \in {"idle", "parked"}

\* A timer whose compare the clock has passed for good ends up with its wire and
\* its level bit high for good, and one whose compare it has not with both low,
\* once the guest leaves the time registers alone: the timer worker alone carries
\* mtime and the wires there.
TimerWireFollows ==
  \A t \in Timers, due \in BOOLEAN :
     <>[](AtRestHart /\ (TicksAt(now, epoch) >= Compare(t)) = due)
        => <>[](due = (t \in wire) /\ due = (t \in level))

\* The hart does not sleep for ever past an enabled compare, unless wire and
\* level disagreed when wfi read the level or one of them fell since.
WfiReturns ==
  \A t \in Enabled :
     ~<>[](At("hart", "parked") /\ ~torn /\ TicksAt(now, epoch) >= Compare(t))
=============================================================================
