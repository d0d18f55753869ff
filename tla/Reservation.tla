----------------------------- MODULE Reservation ----------------------------
(***************************************************************************)
(* The LR/SC monitor (reservation.ts) with the RAM and dispatch operations *)
(* that run under its lock (ram.ts, memory.ts) and the instructions that   *)
(* call them (amo.ts, store.ts).  A thread per hart; its steps are the     *)
(* accesses to the lock word, the slots and guest RAM.                     *)
(*                                                                         *)
(*   "cas" -> ("wait" -> "parked" ->)* then, by instruction,               *)
(*     lr     "load" "arm"                                                 *)
(*     sc     "take" "scWrite" "invalidate", or "take" alone               *)
(*     amo    "swap" "invalidate", or "swap" and again from "cas"          *)
(*     store  "invalidate" "write" (a unit at a time)                      *)
(*   -> "release" (-> "releaseSc") -> "notify" -> "idle".                  *)
(*                                                                         *)
(* Addresses are in units of four bytes.  A value is a tuple of units; the *)
(* arithmetic of the AMOs is Alu's, here they add unit by unit.            *)
(***************************************************************************)
EXTENDS Integers

CONSTANTS Harts,
          Units,      \* RAM: a prefix of the addresses
          LineUnits,  \* RESERVATION_LINE_SIZE, in units
          Modulus,    \* values of a unit
          Denied,     \* addresses PMP denies
          Device,     \* mapped addresses that are not RAM
          Workload    \* Workload[h]: the instructions hart h may execute

Values == 0 .. Modulus - 1
Ops    == [kind : {"lr", "sc", "amo", "store"}, at : Nat, width : {1, 2}, value : Values]

ASSUME ReservationAssumption ==
  /\ Units \subseteq Nat
  /\ LineUnits \in Nat \ {0}
  /\ Modulus \in Nat \ {0}
  /\ Device \subseteq Nat
  /\ \A u \in Units, d \in Device : u \div LineUnits # d \div LineUnits
  /\ \A h \in Harts : Workload[h] \subseteq Ops

VARIABLES mem,
          slot,     \* slot[h]: valid, address and width of the LR
          lock,     \* the monitor Int32: 0 free, 1 held
          depth,    \* depth[h]: monitorLockDepth
          scHeld,   \* scHeld[h]: scMonitorHeld
          pc, op,
          old,      \* old[h]: oldValue of an lr or amo
          left,     \* left[h]: units a plain store has still to write
          result,   \* result[h]: what rd receives, or the trap
          touched   \* history: RAM of the reserved line written since the LR

monitor == <<lock, depth, scHeld>>
locals  == <<op, old, left>>
vars    == <<mem, slot, monitor, pc, locals, result, touched>>

NoOp     == [kind |-> "none", at |-> 0, width |-> 1, value |-> 0]
NoResult == [kind |-> "none", value |-> <<>>]

Goto(h, label) == pc' = [pc EXCEPT ![h] = label]

Returns(h, kind, value) ==
  result' = [result EXCEPT ![h] = [kind |-> kind, value |-> value]]

Covers(o) == o.at .. o.at + o.width - 1

Read(o) == [i \in 1 .. o.width |-> mem[o.at + i - 1]]

\* Every RAM write is seen by the history of each reservation on its line.
Store(written) ==
  /\ mem' = [u \in Units |-> IF u \in DOMAIN written THEN written[u] ELSE mem[u]]
  /\ touched' = [h \in Harts |-> \/ touched[h]
                                 \/ \E u \in DOMAIN written :
                                      u \div LineUnits = slot[h].at \div LineUnits]

lineBase(a) == (a \div LineUnits) * LineUnits

rangesOverlap(aBase, aSize, bBase, bSize) ==
  /\ aSize > 0 /\ bSize > 0
  /\ aBase < bBase + bSize
  /\ bBase < aBase + aSize
-----------------------------------------------------------------------------
Init ==
  /\ mem = [u \in Units |-> 0]
  /\ slot = [h \in Harts |-> [valid |-> FALSE, at |-> 0, width |-> 0]]
  /\ lock = 0
  /\ depth = [h \in Harts |-> 0]
  /\ scHeld = [h \in Harts |-> FALSE]
  /\ pc = [h \in Harts |-> "idle"]
  /\ op = [h \in Harts |-> NoOp]
  /\ old = [h \in Harts |-> <<>>]
  /\ left = [h \in Harts |-> 0]
  /\ result = [h \in Harts |-> NoResult]
  /\ touched = [h \in Harts |-> FALSE]

\* alignedRamAddressToHostIndex and resolveGuestAddressToRegionAndOffset.
InRam(o) == Covers(o) \subseteq Units

\* The traps an instruction takes before it reaches the monitor, in order:
\* atomics check alignment, PMP, then RAM; a store its mapping, then PMP.
TrapOf(o) ==
  IF o.kind = "store"
  THEN IF ~(InRam(o) \/ Covers(o) \subseteq Device) THEN "refused"
       ELSE IF Covers(o) \cap Denied # {} THEN "denied" ELSE "none"
  ELSE IF o.at % o.width # 0 THEN "misaligned"
       ELSE IF Covers(o) \cap Denied # {} THEN "denied"
       ELSE IF ~InRam(o) THEN "refused" ELSE "none"

Start(h) ==
  /\ pc[h] = "idle"
  /\ \E o \in Workload[h] :
       /\ Returns(h, TrapOf(o), <<>>)
       /\ IF TrapOf(o) # "none"
          THEN UNCHANGED <<pc, locals>>
          ELSE /\ op' = [op EXCEPT ![h] = o]
               /\ Goto(h, IF o.kind = "amo" THEN "amoLoad" ELSE "cas")
               /\ left' = [left EXCEPT ![h] = IF InRam(o) THEN o.width ELSE 0]
               /\ UNCHANGED old
  /\ UNCHANGED <<mem, slot, monitor, touched>>

\* amoReadModifyWrite: the first load is outside the lock.
AmoLoad(h) ==
  /\ pc[h] = "amoLoad"
  /\ old' = [old EXCEPT ![h] = Read(op[h])]
  /\ Goto(h, "cas")
  /\ UNCHANGED <<mem, slot, monitor, op, left, result, touched>>

Body(o) == CASE o.kind = "lr"    -> "load"
             [] o.kind = "sc"    -> "take"
             [] o.kind = "amo"   -> "swap"
             [] o.kind = "store" -> "invalidate"

\* Mutated form of Acquire: a load and a store instead of the compareExchange's
\* test, so that a held lock is entered.
AcquireMutant(h) ==
  /\ pc[h] = "cas"
  /\ lock' = 1
  /\ depth' = [depth EXCEPT ![h] = 1]
  /\ Goto(h, Body(op[h]))
  /\ UNCHANGED <<mem, slot, scHeld, locals, result, touched>>

Acquire(h) ==
  /\ pc[h] = "cas"
  /\ IF lock = 0
     THEN /\ lock' = 1
          /\ depth' = [depth EXCEPT ![h] = 1]
          /\ Goto(h, Body(op[h]))
     ELSE Goto(h, "wait") /\ UNCHANGED <<lock, depth>>
  /\ UNCHANGED <<mem, slot, scHeld, locals, result, touched>>

\* Atomics.wait(lock, 0, 1): returns at once when the word is no longer 1.
Wait(h) ==
  /\ pc[h] = "wait"
  /\ Goto(h, IF lock = 1 THEN "parked" ELSE "cas")
  /\ UNCHANGED <<mem, slot, monitor, locals, result, touched>>
-----------------------------------------------------------------------------
\* lrW, lrD: load, then setReservationLocked, in one critical section.
Load(h) ==
  /\ pc[h] = "load"
  /\ old' = [old EXCEPT ![h] = Read(op[h])]
  /\ Goto(h, "arm")
  /\ UNCHANGED <<mem, slot, monitor, op, left, result, touched>>

Arm(h) ==
  /\ pc[h] = "arm"
  /\ slot' = [g \in Harts |->
                IF g = h THEN [valid |-> TRUE, at |-> op[h].at, width |-> op[h].width]
                ELSE IF lineBase(slot[g].at) = lineBase(op[h].at)
                     THEN [slot[g] EXCEPT !.valid = FALSE] ELSE slot[g]]
  /\ touched' = [touched EXCEPT ![h] = FALSE]
  /\ Returns(h, "value", old[h])
  /\ Goto(h, "release")
  /\ UNCHANGED <<mem, monitor, locals>>

\* reservationHoldsLocked
Holds(h) == slot[h] = [valid |-> TRUE, at |-> op[h].at, width |-> op[h].width]

\* Mutated form of TakeReservation: the width of the reservation is not compared.
TakeReservationMutant(h) ==
  /\ pc[h] = "take"
  /\ IF slot[h].valid /\ slot[h].at = op[h].at
     THEN /\ scHeld' = [scHeld EXCEPT ![h] = TRUE]
          /\ Goto(h, "scWrite")
          /\ UNCHANGED <<slot, result>>
     ELSE /\ slot' = [slot EXCEPT ![h].valid = FALSE]
          /\ Returns(h, "fail", <<>>)
          /\ Goto(h, "release")
          /\ UNCHANGED scHeld
  /\ UNCHANGED <<mem, lock, depth, locals, touched>>

\* tryTakeReservation: on success the lock stays held for the store.
TakeReservation(h) ==
  /\ pc[h] = "take"
  /\ IF Holds(h)
     THEN /\ scHeld' = [scHeld EXCEPT ![h] = TRUE]
          /\ Goto(h, "scWrite")
          /\ UNCHANGED <<slot, result>>
     ELSE /\ slot' = [slot EXCEPT ![h].valid = FALSE]
          /\ Returns(h, "fail", <<>>)
          /\ Goto(h, "release")
          /\ UNCHANGED scHeld
  /\ UNCHANGED <<mem, lock, depth, locals, touched>>

\* atomicStoreBytes of a store-conditional: withMonitorLock re-enters the lock
\* the hart still holds, and writes before it invalidates.
ScWrite(h) ==
  /\ pc[h] = "scWrite"
  /\ depth' = [depth EXCEPT ![h] = @ + 1]
  /\ Store([u \in Covers(op[h]) |-> op[h].value])
  /\ Returns(h, "ok", <<>>)
  /\ Goto(h, "invalidate")
  /\ UNCHANGED <<slot, lock, scHeld, locals>>

Combine(o, v) == [i \in DOMAIN v |-> (v[i] + o.value) % Modulus]

\* Mutated form of Swap: a failed attempt does not take the observed value over.
SwapMutant(h) ==
  /\ pc[h] = "swap"
  /\ LET next == Combine(op[h], old[h])
     IN  IF Read(op[h]) = old[h]
         THEN /\ Store([u \in Covers(op[h]) |-> next[u - op[h].at + 1]])
              /\ Returns(h, "value", old[h])
              /\ Goto(h, "invalidate")
         ELSE Goto(h, "release") /\ UNCHANGED <<mem, result, touched>>
  /\ UNCHANGED <<slot, monitor, locals>>

\* atomicRamCompareExchange of an AMO: one attempt per critical section.
Swap(h) ==
  /\ pc[h] = "swap"
  /\ LET next == Combine(op[h], old[h])
     IN  IF Read(op[h]) = old[h]
         THEN /\ Store([u \in Covers(op[h]) |-> next[u - op[h].at + 1]])
              /\ Returns(h, "value", old[h])
              /\ Goto(h, "invalidate")
              /\ UNCHANGED old
         ELSE /\ old' = [old EXCEPT ![h] = Read(op[h])]
              /\ Goto(h, "release")
              /\ UNCHANGED <<mem, result, touched>>
  /\ UNCHANGED <<slot, monitor, op, left>>

Overlaps(o, s) == s.valid /\ rangesOverlap(lineBase(s.at), LineUnits, o.at, o.width)

\* Mutated form of Invalidate: only the line of the first byte is cleared.
InvalidateMutant(h) ==
  /\ pc[h] = "invalidate"
  /\ slot' = [g \in Harts |-> IF slot[g].valid /\ lineBase(slot[g].at) = lineBase(op[h].at)
                              THEN [slot[g] EXCEPT !.valid = FALSE] ELSE slot[g]]
  /\ Goto(h, IF op[h].kind = "store" THEN "write" ELSE "release")
  /\ UNCHANGED <<mem, monitor, locals, result, touched>>

\* invalidateOverlappingReservationsLocked: before the bytes of a plain store,
\* after the atomic write of an sc or amo.
Invalidate(h) ==
  /\ pc[h] = "invalidate"
  /\ slot' = [g \in Harts |-> IF Overlaps(op[h], slot[g])
                              THEN [slot[g] EXCEPT !.valid = FALSE] ELSE slot[g]]
  /\ Goto(h, IF op[h].kind = "store" THEN "write" ELSE "release")
  /\ UNCHANGED <<mem, monitor, locals, result, touched>>

\* storeBytesToRam, a unit at a time; a device register is not RAM.
WriteUnit(h) ==
  /\ pc[h] = "write"
  /\ IF left[h] = 0
     THEN /\ Returns(h, "done", <<>>)
          /\ Goto(h, "release")
          /\ UNCHANGED <<mem, left, touched>>
     ELSE /\ Store([u \in {op[h].at + op[h].width - left[h]} |-> op[h].value])
          /\ left' = [left EXCEPT ![h] = @ - 1]
          /\ UNCHANGED <<pc, result>>
  /\ UNCHANGED <<slot, monitor, op, old>>
-----------------------------------------------------------------------------
\* Mutated form of Release: the release of the inner section frees the word.
ReleaseMutant(h) ==
  /\ pc[h] = "release"
  /\ depth' = [depth EXCEPT ![h] = @ - 1]
  /\ lock' = 0
  /\ Goto(h, IF depth[h] = 1 THEN "notify" ELSE "releaseSc")
  /\ UNCHANGED <<mem, slot, scHeld, locals, result, touched>>

\* releaseMonitorLock: only the outermost release frees the word.
Release(h) ==
  /\ pc[h] = "release"
  /\ depth' = [depth EXCEPT ![h] = @ - 1]
  /\ lock' = IF depth[h] = 1 THEN 0 ELSE lock
  /\ Goto(h, IF depth[h] = 1 THEN "notify" ELSE "releaseSc")
  /\ UNCHANGED <<mem, slot, scHeld, locals, result, touched>>

\* releaseScMonitorIfHeld
ReleaseSc(h) ==
  /\ pc[h] = "releaseSc"
  /\ scHeld[h]
  /\ scHeld' = [scHeld EXCEPT ![h] = FALSE]
  /\ depth' = [depth EXCEPT ![h] = @ - 1]
  /\ lock' = 0
  /\ Goto(h, "notify")
  /\ UNCHANGED <<mem, slot, locals, result, touched>>

Parked == {g \in Harts : pc[g] = "parked"}

\* An amo whose compare-exchange failed goes round again.
AfterRelease(h) == IF op[h].kind = "amo" /\ result[h].kind = "none" THEN "cas" ELSE "idle"

Forget(h) ==
  IF AfterRelease(h) = "idle"
  THEN /\ op' = [op EXCEPT ![h] = NoOp]
       /\ old' = [old EXCEPT ![h] = <<>>]
       /\ left' = [left EXCEPT ![h] = 0]
  ELSE UNCHANGED locals

\* Mutated form of Notify: the word is freed and nobody is woken.
NotifyMutant(h) ==
  /\ pc[h] = "notify"
  /\ Goto(h, AfterRelease(h))
  /\ Forget(h)
  /\ UNCHANGED <<mem, slot, monitor, result, touched>>

\* Atomics.notify(lock, 0, 1)
Notify(h) ==
  /\ pc[h] = "notify"
  /\ \/ Parked = {} /\ Goto(h, AfterRelease(h))
     \/ \E g \in Parked : pc' = [pc EXCEPT ![h] = AfterRelease(h), ![g] = "cas"]
  /\ Forget(h)
  /\ UNCHANGED <<mem, slot, monitor, result, touched>>

\* Every step of an instruction already begun.
Proceed(h) ==
  \/ AmoLoad(h) \/ Acquire(h) \/ Wait(h)
  \/ Load(h) \/ Arm(h)
  \/ TakeReservation(h) \/ ScWrite(h)
  \/ Swap(h) \/ Invalidate(h) \/ WriteUnit(h)
  \/ Release(h) \/ ReleaseSc(h) \/ Notify(h)

Next == \E h \in Harts : Start(h) \/ Proceed(h)

Spec == Init /\ [][Next]_vars

(***************************************************************************)
(* A worker inside an instruction keeps running: no step of it awaits.     *)
(***************************************************************************)
FairSpec == Spec /\ \A h \in Harts : WF_vars(Proceed(h))
-----------------------------------------------------------------------------
(***************************************************************************)
(* Properties.                                                             *)
(***************************************************************************)
Inside == {"load", "arm", "take", "scWrite", "swap", "invalidate", "write",
           "release", "releaseSc"}
Labels == Inside \cup {"idle", "amoLoad", "cas", "wait", "parked", "notify"}

\* The monitor slab and every worker's locals stay in their types
\* (reservation.ts, the slot layout; amo.ts, locals).
TypeOK ==
  /\ mem \in [Units -> Values]
  /\ slot \in [Harts -> [valid : BOOLEAN, at : Nat, width : {0, 1, 2}]]
  /\ lock \in {0, 1}
  /\ depth \in [Harts -> {0, 1, 2}]
  /\ scHeld \in [Harts -> BOOLEAN]
  /\ pc \in [Harts -> Labels]
  /\ op \in [Harts -> Ops \cup {NoOp}]
  /\ old \in [Harts -> {<<>>} \cup [1 .. 1 -> Values] \cup [1 .. 2 -> Values]]
  /\ left \in [Harts -> {0, 1, 2}]
  /\ touched \in [Harts -> BOOLEAN]

\* The lock word, monitorLockDepth and scMonitorHeld agree with where each
\* worker is: one worker inside, its depth two exactly between the re-entry of
\* a store-conditional and its inner release, scMonitorHeld exactly while a
\* reservation is taken (reservation.ts, acquire / release / tryTake).
MonitorOwned ==
  /\ lock = 1 <=> \E h \in Harts : pc[h] \in Inside
  /\ \A g, h \in Harts : pc[g] \in Inside /\ pc[h] \in Inside => g = h
  /\ \A h \in Harts :
       /\ depth[h] = IF pc[h] \notin Inside THEN 0
                     ELSE IF scHeld[h] /\ pc[h] \in {"invalidate", "release"} THEN 2 ELSE 1
       /\ scHeld[h] => pc[h] \in {"scWrite", "invalidate", "release", "releaseSc"}
       /\ pc[h] \in {"scWrite", "releaseSc"} => scHeld[h]

\* A store-conditional stores only if nobody has written the reserved line
\* since the load-reserved, and it holds the line alone (reservation.ts,
\* "so a remote hart cannot LR in the gap").
ScUndisturbed ==
  \A h \in Harts : pc[h] = "scWrite" =>
    /\ ~touched[h]
    /\ Holds(h)
    /\ \A g \in Harts \ {h} : slot[g].valid => lineBase(slot[g].at) # lineBase(op[h].at)

\* Nobody sleeps on the free monitor unless a notify is on its way
\* (reservation.ts, Atomics.wait / notify).
NoLostWake ==
  Parked # {} => \/ lock = 1
                 \/ \E h \in Harts : pc[h] \in {"notify", "cas", "wait"}

\* All four; ReservationProofs strengthens it to an inductive invariant.
IInv == TypeOK /\ MonitorOwned /\ ScUndisturbed /\ NoLostWake

\* An instruction ends once the other harts leave it alone: the monitor is
\* always handed back, by an SC that keeps it across a call boundary too, and an
\* AMO whose compare-exchange failed succeeds with the value it then observed
\* (amo.ts, the retry loop).
InstructionEnds ==
  \A h \in Harts :
    <>[](\A g \in Harts \ {h} : pc[g] = "idle") => []<>(pc[h] = "idle")

\* Refinement: what a store still has to write, and what an sc or amo still has
\* to invalidate, has happened for the guest.
memDone ==
  [u \in Units |->
     IF \E h \in Harts : pc[h] = "write" /\ u \in Covers(op[h])
     THEN op[CHOOSE h \in Harts : pc[h] = "write"].value
     ELSE mem[u]]

reservedDone ==
  [g \in Harts |->
     IF /\ slot[g].valid
        /\ ~\E h \in Harts : /\ pc[h] = "invalidate"
                             /\ op[h].kind # "store"
                             /\ Overlaps(op[h], slot[g])
     THEN [at |-> slot[g].at, width |-> slot[g].width]
     ELSE [at |-> -1, width |-> 0]]

\* An instruction still to take place: a store that has not invalidated, an lr, sc or amo
\* that has not returned.
Pending(h) ==
  /\ pc[h] # "idle"
  /\ IF op[h].kind = "store" THEN pc[h] \in {"cas", "wait", "parked", "invalidate"}
     ELSE result[h].kind = "none"

askedDone == [h \in Harts |-> IF Pending(h) THEN op[h] ELSE NoOp]

Abstract == INSTANCE LrSc
            WITH mem <- memDone, reserved <- reservedDone, asked <- askedDone

\* The monitor implements indivisible LR, SC, AMO and store instructions: each that is begun
\* takes place once, with its own address and operand, an AMO on the value it returns
\* however often its compare-exchange had to be repeated (reservation.ts, amo.ts, store.ts).
RefinesLrSc == Abstract!Spec
=============================================================================
