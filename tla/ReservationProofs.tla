-------------------------- MODULE ReservationProofs --------------------------
(* Proofs about Reservation, for any harts, lines, values and workloads: the *)
(* monitor is owned, a store-conditional is undisturbed, and nobody sleeps   *)
(* on a free lock; and the monitor implements LrSc: an LR, SC or AMO takes   *)
(* place in its access to memory, a plain store when it invalidates, and     *)
(* every other step is hidden.                                               *)
EXTENDS Reservation, TLAPS

\* An instruction in progress passed its checks, and is where its kind goes.
OpFits(h) ==
  /\ pc[h] # "idle" => /\ op[h] \in Ops
                       /\ InRam(op[h]) \/ (op[h].kind = "store" /\ Covers(op[h]) \subseteq Device)
  /\ pc[h] \in {"load", "arm"} => op[h].kind = "lr"
  /\ pc[h] \in {"take", "scWrite", "releaseSc"} \/ scHeld[h] => op[h].kind = "sc"
  /\ pc[h] \in {"amoLoad", "swap"} => op[h].kind = "amo"
  /\ pc[h] = "write" => op[h].kind = "store"
  /\ pc[h] = "invalidate" => op[h].kind # "lr"

\* What a hart has read is what it says it is.
OldFits(h) ==
  /\ pc[h] = "arm" => old[h] = Read(op[h])
  /\ op[h].kind = "amo" /\ pc[h] \notin {"idle", "amoLoad"} => old[h] \in [1 .. op[h].width -> Values]

\* A plain store has written the units it has not left.
LeftFits(h) ==
  /\ op[h].kind = "store" /\ pc[h] # "idle" =>
       /\ left[h] \in 0 .. op[h].width
       /\ left[h] > 0 => InRam(op[h])
       /\ InRam(op[h]) /\ pc[h] \in {"cas", "wait", "parked", "invalidate"} => left[h] = op[h].width
  /\ pc[h] = "write" =>
       \A u \in Covers(op[h]) \cap Units :
         u < op[h].at + op[h].width - left[h] => mem[u] = op[h].value

Locals == \A h \in Harts : OpFits(h) /\ OldFits(h) /\ LeftFits(h)

\* A valid slot holds a location of RAM, alone on its line, and unwritten since, except
\* that the write of an sc or amo is still to invalidate it.
SlotsFit ==
  \A h \in Harts : slot[h].valid =>
    /\ slot[h].width \in {1, 2} /\ Covers(slot[h]) \subseteq Units
    /\ \A g \in Harts \ {h} : slot[g].valid => lineBase(slot[g].at) # lineBase(slot[h].at)
    /\ touched[h] => \E g \in Harts : /\ pc[g] = "invalidate" /\ op[g].kind # "store"
                                      /\ Overlaps(op[g], slot[h])
    /\ \A g \in Harts : pc[g] = "write" => ~Overlaps(op[g], slot[h])

\* An lr, sc or amo has returned exactly when it has taken place.
ResultFits(h) ==
  /\ pc[h] \in {"amoLoad", "cas", "wait", "parked", "load", "arm", "take", "scWrite", "swap"} =>
       result[h].kind = "none"
  /\ pc[h] = "invalidate" /\ op[h].kind # "store" => result[h].kind # "none"
  /\ pc[h] \in {"release", "releaseSc", "notify"} /\ op[h].kind \in {"lr", "sc"} =>
       result[h].kind # "none"

ResultsFit == result = [h \in Harts |-> result[h]] /\ \A h \in Harts : ResultFits(h)

Strong == IInv /\ Locals /\ SlotsFit /\ ResultsFit
-----------------------------------------------------------------------------
\* An address lies on the line of another exactly between its ends.
LEMMA OnLine ==
  ASSUME NEW a \in Nat, NEW u \in Nat
  PROVE  /\ lineBase(a) \in Nat
         /\ u \div LineUnits = a \div LineUnits
              <=> lineBase(a) <= u /\ u < lineBase(a) + LineUnits
<1> DEFINE L == LineUnits
<1>1. L \in Nat /\ L > 0
  BY ReservationAssumption DEF ReservationAssumption
<1>2. PICK q \in Nat, r \in Nat : a = L * q + r /\ r < L /\ q = a \div L
  BY <1>1
<1>3. PICK p \in Nat, t \in Nat : u = L * p + t /\ t < L /\ p = u \div L
  BY <1>1
<1>4. lineBase(a) = L * q
  BY <1>1, <1>2 DEF lineBase
<1>5. p = q <=> L * q <= u /\ u < L * q + L
  BY <1>1, <1>2, <1>3
<1>6. QED
  BY <1>1, <1>2, <1>3, <1>4, <1>5

\* An access overlaps a reserved line exactly if it covers a unit of it.
LEMMA OverlapMeansUnit ==
  ASSUME NEW o \in Ops, NEW s \in [valid : BOOLEAN, at : Nat, width : {0, 1, 2}]
  PROVE  Overlaps(o, s) <=>
           s.valid /\ \E u \in Covers(o) : u \div LineUnits = s.at \div LineUnits
<1>1. LineUnits \in Nat /\ LineUnits > 0
  BY ReservationAssumption DEF ReservationAssumption
<1>2. o.at \in Nat /\ o.width \in {1, 2} /\ s.at \in Nat
  BY DEF Ops
<1>3. lineBase(s.at) \in Nat
  BY <1>2, OnLine
<1>4. Covers(o) \subseteq Nat
  BY <1>2 DEF Covers
<1>5. \A u \in Covers(o) : u \div LineUnits = s.at \div LineUnits
                             <=> lineBase(s.at) <= u /\ u < lineBase(s.at) + LineUnits
  BY <1>2, <1>4, OnLine
<1>6. (\E u \in Covers(o) : lineBase(s.at) <= u /\ u < lineBase(s.at) + LineUnits)
        <=> (o.at < lineBase(s.at) + LineUnits /\ lineBase(s.at) < o.at + o.width)
  <2> DEFINE b == lineBase(s.at)
  <2> HIDE DEF b
  <2>1. b \in Nat
    BY <1>3 DEF b
  <2>2. ASSUME NEW u \in Covers(o), b <= u, u < b + LineUnits
        PROVE  o.at < b + LineUnits /\ b < o.at + o.width
    BY <1>1, <1>2, <2>1, <2>2 DEF Covers
  <2>3. ASSUME o.at < b + LineUnits, b < o.at + o.width
        PROVE  \E u \in Covers(o) : b <= u /\ u < b + LineUnits
    <3>1. CASE b <= o.at
      <4>1. o.at \in Covers(o)
        BY <1>2 DEF Covers
      <4>2. QED
        BY <2>3, <3>1, <4>1
    <3>2. CASE ~(b <= o.at)
      <4>1. b \in Covers(o)
        BY <1>2, <2>1, <2>3, <3>2 DEF Covers
      <4>2. b < b + LineUnits
        BY <1>1, <2>1
      <4>3. QED
        BY <2>1, <4>1, <4>2
    <3>3. QED
      BY <3>1, <3>2
  <2>4. QED
    BY <2>2, <2>3 DEF b
<1>7. Overlaps(o, s) <=> s.valid /\ o.at < lineBase(s.at) + LineUnits /\ lineBase(s.at) < o.at + o.width
  BY <1>1, <1>2, <1>3 DEF Overlaps, rangesOverlap
<1>8. QED
  BY <1>5, <1>6, <1>7

\* Two addresses are on one line exactly if their bases agree.
LEMMA SameBase ==
  ASSUME NEW a \in Nat, NEW b \in Nat
  PROVE  lineBase(a) = lineBase(b) <=> a \div LineUnits = b \div LineUnits
<1>1. LineUnits \in Nat /\ LineUnits > 0
  BY ReservationAssumption DEF ReservationAssumption
<1>2. a \div LineUnits = b \div LineUnits => lineBase(a) = lineBase(b)
  BY DEF lineBase
<1>3. lineBase(b) <= b /\ b < lineBase(b) + LineUnits
  BY OnLine
<1>4. QED
  BY <1>2, <1>3, OnLine

\* The initial states.
LEMMA InitEstablishes == Init => Strong
<1> SUFFICES ASSUME Init PROVE Strong
  OBVIOUS
<1>1. 0 \in Values
  BY ReservationAssumption DEF ReservationAssumption, Values
<1>2. TypeOK
  BY <1>1 DEF Init, TypeOK, Labels
<1>3. \A h \in Harts : pc[h] = "idle" /\ ~scHeld[h] /\ ~slot[h].valid
  BY DEF Init
<1>4. MonitorOwned /\ ScUndisturbed /\ NoLostWake
  BY <1>3 DEF Init, MonitorOwned, ScUndisturbed, NoLostWake, Inside, Parked
<1>5. Locals /\ SlotsFit
  BY <1>3 DEF Locals, OpFits, OldFits, LeftFits, SlotsFit
<1>6. ResultsFit
  BY <1>3 DEF Init, ResultsFit, ResultFits
<1>7. QED
  BY <1>2, <1>4, <1>5, <1>6 DEF Strong, IInv
-----------------------------------------------------------------------------
\* Facts about hart h and its instruction that a step of h starts from.
LEMMA OpTyped ==
  ASSUME Strong, NEW h \in Harts, pc[h] # "idle"
  PROVE  /\ op[h] \in Ops /\ op[h].at \in Nat /\ op[h].width \in {1, 2} /\ op[h].value \in Values
         /\ Covers(op[h]) \subseteq Nat
BY DEF Strong, Locals, OpFits, Ops, Covers

OldValues == {<<>>} \cup [1 .. 1 -> Values] \cup [1 .. 2 -> Values]

\* What is read from RAM is a tuple of values.
LEMMA ReadTyped ==
  ASSUME Strong, NEW h \in Harts, pc[h] # "idle", op[h].kind # "store"
  PROVE  Read(op[h]) \in [1 .. op[h].width -> Values] /\ Read(op[h]) \in OldValues
<1>1. op[h].at \in Nat /\ op[h].width \in {1, 2}
  BY OpTyped
<1>2. Covers(op[h]) \subseteq Units
  BY DEF Strong, Locals, OpFits, InRam
<1>3. ASSUME NEW i \in 1 .. op[h].width PROVE mem[op[h].at + i - 1] \in Values
  <2>1. op[h].at + i - 1 \in Covers(op[h])
    BY <1>1 DEF Covers
  <2>2. QED
    BY <1>2, <2>1 DEF Strong, IInv, TypeOK
<1>4. Read(op[h]) \in [1 .. op[h].width -> Values]
  BY <1>3 DEF Read
<1>5. QED
  BY <1>1, <1>4 DEF OldValues

\* A write to RAM keeps memory and history in their types.
LEMMA StoreTyped ==
  ASSUME TypeOK, NEW written, \A u \in DOMAIN written : written[u] \in Values, Store(written)
  PROVE  mem' \in [Units -> Values] /\ touched' \in [Harts -> BOOLEAN]
<1>1. mem' \in [Units -> Values]
  BY DEF Store, TypeOK
<1>2. touched' \in [Harts -> BOOLEAN]
  <2>1. touched' = [h \in Harts |->
          \/ touched[h]
          \/ \E u \in DOMAIN written : u \div LineUnits = slot[h].at \div LineUnits]
    BY DEF Store
  <2>2. \A h \in Harts :
          (\/ touched[h]
           \/ \E u \in DOMAIN written : u \div LineUnits = slot[h].at \div LineUnits) \in BOOLEAN
    OBVIOUS
  <2>3. QED
    BY <2>1, <2>2, Zenon
<1>3. QED
  BY <1>1, <1>2

\* Types are kept by every step.
LEMMA TypeStep == ASSUME Strong, [Next]_vars PROVE TypeOK'
<1>1. TypeOK
  BY DEF Strong, IInv
<1>2. ASSUME NEW h \in Harts, Start(h) PROVE TypeOK'
  <2>1. UNCHANGED <<mem, slot, lock, depth, scHeld, touched>>
    BY <1>2 DEF Start, monitor
  <2>2. PICK o \in Workload[h] :
          IF TrapOf(o) # "none" THEN UNCHANGED <<pc, op, old, left>>
          ELSE /\ op' = [op EXCEPT ![h] = o]
               /\ pc' = [pc EXCEPT ![h] = IF o.kind = "amo" THEN "amoLoad" ELSE "cas"]
               /\ left' = [left EXCEPT ![h] = IF InRam(o) THEN o.width ELSE 0]
    BY <1>2 DEF Start, locals, Goto
  <2>3. o \in Ops
    BY ReservationAssumption DEF ReservationAssumption
  <2>4. pc' \in [Harts -> Labels] /\ left' \in [Harts -> {0, 1, 2}]
    BY <1>1, <2>2, <2>3 DEF TypeOK, Labels, Ops
  <2>5. op' \in [Harts -> Ops \cup {NoOp}] /\ UNCHANGED old
    BY <1>1, <1>2, <2>2, <2>3 DEF TypeOK, Start, locals
  <2>6. QED
    BY <1>1, <2>1, <2>4, <2>5 DEF TypeOK
<1>3. ASSUME NEW h \in Harts, AmoLoad(h) \/ Wait(h) \/ Load(h) PROVE TypeOK'
  <2>1. pc' \in [Harts -> Labels]
    BY <1>1, <1>3 DEF AmoLoad, Wait, Load, Goto, TypeOK, Labels, Inside
  <2>2. UNCHANGED <<mem, slot, lock, depth, scHeld, op, left, touched>>
    BY <1>3 DEF AmoLoad, Wait, Load, monitor, locals
  <2>3. old' \in [Harts -> OldValues]
    <3>1. CASE Wait(h)
      BY <1>1, <3>1 DEF Wait, locals, TypeOK, OldValues
    <3>2. CASE AmoLoad(h) \/ Load(h)
      <4>1. op[h].kind # "store"
        BY <3>2 DEF Strong, Locals, OpFits, AmoLoad, Load
      <4>2. Read(op[h]) \in OldValues
        BY <3>2, <4>1, ReadTyped DEF AmoLoad, Load
      <4>3. QED
        BY <1>1, <3>2, <4>2 DEF AmoLoad, Load, TypeOK, OldValues
    <3>3. QED
      BY <1>3, <3>1, <3>2
  <2>4. QED
    BY <1>1, <2>1, <2>2, <2>3 DEF TypeOK, OldValues
<1>4. ASSUME NEW h \in Harts, Acquire(h) PROVE TypeOK'
  <2>1. Body(op[h]) \in Labels
    <3>1. op[h].kind \in {"lr", "sc", "amo", "store"}
      BY <1>4, OpTyped DEF Ops, Acquire
    <3>2. QED
      BY <3>1 DEF Body, Labels, Inside
  <2>2. pc' \in [Harts -> Labels] /\ lock' \in {0, 1} /\ depth' \in [Harts -> {0, 1, 2}]
    BY <1>1, <1>4, <2>1 DEF Acquire, Goto, TypeOK, Labels
  <2>3. UNCHANGED <<mem, slot, scHeld, op, old, left, touched>>
    BY <1>4 DEF Acquire, locals
  <2>4. QED
    BY <1>1, <2>2, <2>3 DEF TypeOK
<1>5. ASSUME NEW h \in Harts, Arm(h) \/ TakeReservation(h) \/ Invalidate(h) PROVE TypeOK'
  <2>1. op[h].at \in Nat /\ op[h].width \in {1, 2}
    BY <1>5, OpTyped DEF Arm, TakeReservation, Invalidate
  <2>2. slot' \in [Harts -> [valid : BOOLEAN, at : Nat, width : {0, 1, 2}]]
    <3>1. CASE Arm(h)
      BY <1>1, <2>1, <3>1 DEF Arm, TypeOK
    <3>2. CASE TakeReservation(h)
      <4>1. slot' = slot \/ slot' = [slot EXCEPT ![h] = [slot[h] EXCEPT !.valid = FALSE]]
        BY <3>2 DEF TakeReservation
      <4>2. [slot[h] EXCEPT !.valid = FALSE] \in [valid : BOOLEAN, at : Nat, width : {0, 1, 2}]
        BY <1>1 DEF TypeOK
      <4>3. QED
        BY <1>1, <4>1, <4>2 DEF TypeOK
    <3>3. CASE Invalidate(h)
      BY <1>1, <3>3 DEF Invalidate, TypeOK
    <3>4. QED
      BY <1>5, <3>1, <3>2, <3>3
  <2>3. pc' \in [Harts -> Labels] /\ scHeld' \in [Harts -> BOOLEAN] /\ touched' \in [Harts -> BOOLEAN]
    BY <1>1, <1>5 DEF Arm, TakeReservation, Invalidate, TypeOK, Labels, Inside, Goto, monitor
  <2>4. UNCHANGED <<mem, lock, depth, op, old, left>>
    BY <1>5 DEF Arm, TakeReservation, Invalidate, monitor, locals
  <2>5. QED
    BY <1>1, <2>2, <2>3, <2>4 DEF TypeOK
<1>6. ASSUME NEW h \in Harts, ScWrite(h) PROVE TypeOK'
  <2>1. mem' \in [Units -> Values] /\ touched' \in [Harts -> BOOLEAN]
    BY <1>1, <1>6, OpTyped, StoreTyped DEF ScWrite
  <2>2. depth[h] = 1
    BY <1>6 DEF Strong, IInv, MonitorOwned, ScWrite, Inside
  <2>3. depth' \in [Harts -> {0, 1, 2}] /\ pc' \in [Harts -> Labels]
    BY <1>1, <1>6, <2>2 DEF ScWrite, TypeOK, Goto, Labels, Inside
  <2>4. UNCHANGED <<slot, lock, scHeld, op, old, left>>
    BY <1>6 DEF ScWrite, locals
  <2>5. QED
    BY <1>1, <2>1, <2>3, <2>4 DEF TypeOK
<1>7. ASSUME NEW h \in Harts, Swap(h) PROVE TypeOK'
  <2>1. pc' \in [Harts -> Labels]
    BY <1>1, <1>7 DEF Swap, TypeOK, Goto, Labels, Inside
  <2>2. UNCHANGED <<slot, lock, depth, scHeld, op, left>>
    BY <1>7 DEF Swap, monitor
  <2>3. mem' \in [Units -> Values] /\ touched' \in [Harts -> BOOLEAN]
    <3>1. CASE Read(op[h]) = old[h]
      <4> DEFINE next == Combine(op[h], old[h])
                 written == [u \in Covers(op[h]) |-> next[u - op[h].at + 1]]
      <4>1. Store(written)
        BY <1>7, <3>1 DEF Swap
      <4>2. old[h] \in [1 .. op[h].width -> Values]
        BY <1>7 DEF Strong, Locals, OpFits, OldFits, Swap
      <4>3. \A u \in Covers(op[h]) : u - op[h].at + 1 \in 1 .. op[h].width
        BY <1>7, OpTyped DEF Covers, Swap
      <4>4. \A x \in Values, y \in Values : (x + y) % Modulus \in Values
        BY ReservationAssumption DEF ReservationAssumption, Values
      <4>5. next \in [1 .. op[h].width -> Values]
        BY <1>7, <4>2, <4>4, OpTyped DEF Combine, Swap
      <4> HIDE DEF next
      <4>6. \A u \in DOMAIN written : written[u] \in Values
        BY <4>3, <4>5
      <4> HIDE DEF written
      <4>7. QED
        BY <1>1, <4>1, <4>6, StoreTyped
    <3>2. CASE Read(op[h]) # old[h]
      BY <1>1, <1>7, <3>2 DEF Swap, TypeOK
    <3>3. QED
      BY <3>1, <3>2
  <2>4. old' \in [Harts -> OldValues]
    <3>1. Read(op[h]) \in OldValues
      BY <1>7, ReadTyped DEF Strong, Locals, OpFits, Swap
    <3>2. QED
      BY <1>1, <1>7, <3>1 DEF Swap, TypeOK, OldValues
  <2>5. QED
    BY <1>1, <2>1, <2>2, <2>3, <2>4 DEF TypeOK, OldValues
<1>8. ASSUME NEW h \in Harts, WriteUnit(h) PROVE TypeOK'
  <2>1. CASE left[h] = 0
    <3>1. pc' \in [Harts -> Labels] /\ UNCHANGED <<mem, slot, lock, depth, scHeld, op, old, left, touched>>
      BY <1>1, <1>8, <2>1 DEF WriteUnit, TypeOK, Goto, Labels, Inside, monitor
    <3>2. QED
      BY <1>1, <3>1 DEF TypeOK
  <2>2. CASE left[h] # 0
    <3>1. mem' \in [Units -> Values] /\ touched' \in [Harts -> BOOLEAN]
      BY <1>1, <1>8, <2>2, OpTyped, StoreTyped DEF WriteUnit
    <3>2. left' \in [Harts -> {0, 1, 2}] /\ UNCHANGED <<pc, slot, lock, depth, scHeld, op, old>>
      <4>1. left[h] \in {1, 2}
        BY <1>1, <2>2 DEF TypeOK
      <4>2. left' = [left EXCEPT ![h] = left[h] - 1]
        BY <1>8, <2>2 DEF WriteUnit
      <4>3. left' \in [Harts -> {0, 1, 2}]
        BY <1>1, <4>1, <4>2 DEF TypeOK
      <4>4. UNCHANGED <<pc, slot, lock, depth, scHeld, op, old>>
        BY <1>8, <2>2 DEF WriteUnit, monitor
      <4>5. QED
        BY <4>3, <4>4
    <3>3. QED
      BY <1>1, <3>1, <3>2 DEF TypeOK
  <2>3. QED
    BY <2>1, <2>2
<1>9. ASSUME NEW h \in Harts, Release(h) \/ ReleaseSc(h) PROVE TypeOK'
  <2>1. depth[h] \in {1, 2}
    BY <1>9 DEF Strong, IInv, MonitorOwned, Release, ReleaseSc, Inside
  <2>2. /\ depth' \in [Harts -> {0, 1, 2}] /\ pc' \in [Harts -> Labels]
        /\ lock' \in {0, 1} /\ scHeld' \in [Harts -> BOOLEAN]
    <3>1. CASE Release(h)
      BY <1>1, <2>1, <3>1 DEF Release, TypeOK, Goto, Labels, Inside
    <3>2. CASE ReleaseSc(h)
      BY <1>1, <2>1, <3>2 DEF ReleaseSc, TypeOK, Goto, Labels, Inside
    <3>3. QED
      BY <1>9, <3>1, <3>2
  <2>3. UNCHANGED <<mem, slot, op, old, left, touched>>
    BY <1>9 DEF Release, ReleaseSc, locals
  <2>4. QED
    BY <1>1, <2>2, <2>3 DEF TypeOK
<1>10. ASSUME NEW h \in Harts, Notify(h) PROVE TypeOK'
  <2>1. AfterRelease(h) \in {"cas", "idle"}
    BY DEF AfterRelease
  <2>2. pc' \in [Harts -> Labels]
    BY <1>1, <1>10, <2>1 DEF Notify, TypeOK, Goto, Labels, Parked
  <2>3. /\ left' \in [Harts -> {0, 1, 2}] /\ op' \in [Harts -> Ops \cup {NoOp}]
        /\ old' \in [Harts -> OldValues]
    BY <1>1, <1>10 DEF Notify, Forget, TypeOK, locals, OldValues
  <2>4. UNCHANGED <<mem, slot, lock, depth, scHeld, touched>>
    BY <1>10 DEF Notify, monitor
  <2>5. QED
    BY <1>1, <2>2, <2>3, <2>4 DEF TypeOK, OldValues
<1>11. CASE UNCHANGED vars
  BY <1>1, <1>11 DEF vars, monitor, locals, TypeOK
<1>12. QED
  BY <1>2, <1>3, <1>4, <1>5, <1>6, <1>7, <1>8, <1>9, <1>10, <1>11 DEF Next, Proceed
-----------------------------------------------------------------------------
\* A step of h leaves the others where they are, except that a notify wakes a sleeper.
LEMMA OthersStay ==
  ASSUME Strong, NEW h \in Harts, Start(h) \/ Proceed(h), NEW g \in Harts, g # h
  PROVE  /\ pc'[g] = pc[g] \/ (pc[h] = "notify" /\ pc[g] = "parked" /\ pc'[g] = "cas")
         /\ op'[g] = op[g] /\ old'[g] = old[g] /\ left'[g] = left[g]
         /\ depth'[g] = depth[g] /\ scHeld'[g] = scHeld[g]
<1>1. TypeOK
  BY DEF Strong, IInv
<1> USE <1>1 DEF TypeOK, Goto, locals, monitor
<1>2. CASE Start(h)
  BY <1>2 DEF Start
<1>3. CASE AmoLoad(h) \/ Acquire(h) \/ Wait(h)
  BY <1>3 DEF AmoLoad, Acquire, Wait
<1>4. CASE Load(h) \/ Arm(h) \/ TakeReservation(h) \/ ScWrite(h)
  BY <1>4 DEF Load, Arm, TakeReservation, ScWrite
<1>5. CASE Swap(h) \/ Invalidate(h)
  BY <1>5 DEF Swap, Invalidate
<1>6. CASE WriteUnit(h)
  <2>1. CASE left[h] = 0
    BY <1>6, <2>1 DEF WriteUnit
  <2>2. CASE left[h] # 0
    BY <1>6, <2>2 DEF WriteUnit
  <2>3. QED
    BY <2>1, <2>2
<1>7. CASE Release(h) \/ ReleaseSc(h)
  BY <1>7 DEF Release, ReleaseSc
<1>8. CASE Notify(h)
  BY <1>8 DEF Notify, Forget, Parked
<1>9. QED
  BY <1>2, <1>3, <1>4, <1>5, <1>6, <1>7, <1>8 DEF Proceed

\* What the monitor's owner has done and still has to do, hart by hart.
Owns(h) ==
  /\ depth[h] = IF pc[h] \notin Inside THEN 0
                ELSE IF scHeld[h] /\ pc[h] \in {"invalidate", "release"} THEN 2 ELSE 1
  /\ scHeld[h] => pc[h] \in {"scWrite", "invalidate", "release", "releaseSc"}
  /\ pc[h] \in {"scWrite", "releaseSc"} => scHeld[h]

\* A step of a hart inside that stays inside keeps the others out.
LEMMA StayInside ==
  ASSUME Strong, NEW h \in Harts, Start(h) \/ Proceed(h), pc[h] \in Inside, pc'[h] \in Inside,
         lock' = lock, Owns(h)'
  PROVE  MonitorOwned'
<1>1. lock = 1 /\ \A g \in Harts : pc[g] \in Inside => g = h
  BY DEF Strong, IInv, MonitorOwned
<1>2. \A g \in Harts : g # h => pc'[g] \notin Inside /\ pc'[g] \in {pc[g], "cas"}
  BY <1>1, OthersStay DEF Inside
<1>3. \A g \in Harts : g # h => depth'[g] = depth[g] /\ scHeld'[g] = scHeld[g]
  BY OthersStay
<1>4. \A g \in Harts : g # h => Owns(g)'
  <2> SUFFICES ASSUME NEW g \in Harts, g # h PROVE Owns(g)'
    OBVIOUS
  <2>1. depth[g] = 0 /\ ~scHeld[g]
    BY <1>1 DEF Strong, IInv, MonitorOwned, Inside
  <2>2. QED
    BY <1>2, <1>3, <2>1 DEF Owns, Inside
<1>5. QED
  BY <1>1, <1>2, <1>4 DEF MonitorOwned, Owns

\* A step of a hart outside that stays outside changes nothing of the monitor.
LEMMA StayOutside ==
  ASSUME Strong, NEW h \in Harts, Start(h) \/ Proceed(h), pc[h] \notin Inside, pc'[h] \notin Inside,
         lock' = lock, depth'[h] = depth[h], scHeld'[h] = scHeld[h]
  PROVE  MonitorOwned'
<1>1. \A g \in Harts : pc'[g] \in Inside <=> pc[g] \in Inside
  BY OthersStay DEF Inside
<1>2. \A g \in Harts : pc[g] \in Inside => pc'[g] = pc[g]
  BY OthersStay DEF Inside
<1>3. \A g \in Harts : depth'[g] = depth[g] /\ scHeld'[g] = scHeld[g]
  BY OthersStay
<1>4. \A g \in Harts : Owns(g)'
  <2> SUFFICES ASSUME NEW g \in Harts PROVE Owns(g)'
    OBVIOUS
  <2>1. CASE pc[g] \in Inside
    BY <1>2, <1>3, <2>1 DEF Owns, Strong, IInv, MonitorOwned
  <2>2. CASE pc[g] \notin Inside
    <3>1. depth[g] = 0 /\ ~scHeld[g]
      BY <2>2 DEF Strong, IInv, MonitorOwned, Inside
    <3>2. QED
      BY <1>1, <1>3, <2>2, <3>1 DEF Owns, Inside
  <2>3. QED
    BY <2>1, <2>2
<1>5. QED
  BY <1>1, <1>4 DEF MonitorOwned, Owns, Strong, IInv

\* Ownership of the monitor is kept by every step.
LEMMA MonitorStep == ASSUME Strong, [Next]_vars PROVE MonitorOwned'
<1>1. TypeOK /\ MonitorOwned
  BY DEF Strong, IInv
<1>2. ASSUME NEW h \in Harts, Start(h) \/ AmoLoad(h) \/ Wait(h) \/ Notify(h) PROVE MonitorOwned'
  <2>1. pc[h] \notin Inside /\ lock' = lock /\ depth' = depth /\ scHeld' = scHeld
    BY <1>2 DEF Start, AmoLoad, Wait, Notify, monitor, Inside
  <2>2. pc'[h] \notin Inside
    <3>1. CASE Start(h) \/ AmoLoad(h) \/ Wait(h)
      BY <1>1, <2>1, <3>1 DEF Start, AmoLoad, Wait, Goto, TypeOK, Inside
    <3>2. CASE Notify(h)
      <4>1. pc'[h] \in {AfterRelease(h), "cas"}
        BY <1>1, <3>2 DEF Notify, Goto, TypeOK
      <4>2. QED
        BY <4>1 DEF AfterRelease, Inside
    <3>3. QED
      BY <1>2, <3>1, <3>2
  <2>3. QED
    BY <1>2, <2>1, <2>2, StayOutside DEF Proceed
<1>3. ASSUME NEW h \in Harts, Acquire(h) PROVE MonitorOwned'
  <2>0. pc[h] = "cas" /\ depth[h] = 0 /\ ~scHeld[h]
    BY <1>1, <1>3 DEF Acquire, MonitorOwned, Inside
  <2>1. CASE lock # 0
    <3>1. pc'[h] = "wait" /\ lock' = lock /\ depth' = depth /\ scHeld' = scHeld
      BY <1>1, <1>3, <2>1 DEF Acquire, Goto, TypeOK
    <3>2. pc[h] \notin Inside /\ pc'[h] \notin Inside
      BY <2>0, <3>1 DEF Inside
    <3>3. QED
      BY <1>3, <3>1, <3>2, StayOutside DEF Proceed
  <2>2. CASE lock = 0
    <3>1. \A g \in Harts : pc[g] \notin Inside
      BY <1>1, <2>2 DEF MonitorOwned
    <3>2. lock' = 1 /\ depth'[h] = 1 /\ pc'[h] = Body(op[h]) /\ scHeld' = scHeld
      BY <1>1, <1>3, <2>2 DEF Acquire, Goto, TypeOK
    <3>3. Body(op[h]) \in {"load", "take", "swap", "invalidate"}
      <4>1. op[h].kind \in {"lr", "sc", "amo", "store"}
        BY <2>0, OpTyped DEF Ops
      <4>2. QED
        BY <4>1 DEF Body
    <3>4. \A g \in Harts : g # h => /\ pc'[g] = pc[g] /\ depth'[g] = depth[g]
      BY <1>3, <2>0, OthersStay DEF Proceed
    <3>5. \A g \in Harts : pc'[g] \in Inside <=> g = h
      BY <3>1, <3>2, <3>3, <3>4 DEF Inside
    <3>6. \A g \in Harts : Owns(g)'
      BY <1>1, <2>0, <3>1, <3>2, <3>3, <3>4 DEF Owns, MonitorOwned, Inside
    <3>7. QED
      BY <3>2, <3>5, <3>6 DEF MonitorOwned, Owns
  <2>3. QED
    BY <2>1, <2>2
<1>4. ASSUME NEW h \in Harts, Load(h) \/ Arm(h) \/ TakeReservation(h) \/ ScWrite(h) \/ Swap(h)
             \/ Invalidate(h) \/ WriteUnit(h)
      PROVE MonitorOwned'
  <2>1. pc[h] \in Inside /\ lock' = lock
    BY <1>4 DEF Load, Arm, TakeReservation, ScWrite, Swap, Invalidate, WriteUnit, monitor, Inside
  <2>2. Owns(h)
    BY <1>1 DEF MonitorOwned, Owns
  <2>3. pc'[h] \in Inside /\ Owns(h)'
    <3> USE <1>1, <2>2 DEF TypeOK, Owns, Goto, Inside, monitor
    <3>1. CASE Load(h) \/ Arm(h)
      BY <3>1 DEF Load, Arm
    <3>2. CASE TakeReservation(h)
      BY <3>2 DEF TakeReservation
    <3>3. CASE ScWrite(h)
      BY <3>3 DEF ScWrite
    <3>4. CASE Swap(h)
      BY <3>4 DEF Swap
    <3>5. CASE Invalidate(h)
      <4>1. op[h].kind = "store" => ~scHeld[h]
        BY DEF Strong, Locals, OpFits
      <4>2. pc[h] = "invalidate" /\ pc' = [pc EXCEPT ![h] = IF op[h].kind = "store" THEN "write" ELSE "release"]
            /\ depth' = depth /\ scHeld' = scHeld
        BY <3>5 DEF Invalidate
      <4>3. QED
        BY <4>1, <4>2
    <3>6. CASE WriteUnit(h)
      <4>1. ~scHeld[h]
        BY <3>6 DEF WriteUnit
      <4>2. pc[h] = "write" /\ pc' \in {pc, [pc EXCEPT ![h] = "release"]} /\ depth' = depth /\ scHeld' = scHeld
        BY <3>6 DEF WriteUnit
      <4>3. QED
        BY <4>1, <4>2
    <3>7. QED
      BY <1>4, <3>1, <3>2, <3>3, <3>4, <3>5, <3>6
  <2>4. QED
    BY <1>4, <2>1, <2>3, StayInside DEF Proceed
<1>5. ASSUME NEW h \in Harts, Release(h) \/ ReleaseSc(h) PROVE MonitorOwned'
  <2>1. CASE Release(h) /\ depth[h] # 1
    <3>1. pc[h] = "release" /\ depth[h] = 2 /\ scHeld[h]
      BY <1>1, <2>1 DEF Release, MonitorOwned, Inside
    <3>2. pc'[h] = "releaseSc" /\ depth'[h] = 1 /\ scHeld' = scHeld /\ lock' = lock
      BY <1>1, <2>1, <3>1 DEF Release, Goto, TypeOK
    <3>3. pc[h] \in Inside /\ pc'[h] \in Inside /\ Owns(h)'
      BY <3>1, <3>2 DEF Inside, Owns
    <3>4. QED
      BY <2>1, <3>2, <3>3, StayInside DEF Proceed
  <2>2. CASE (Release(h) /\ depth[h] = 1) \/ ReleaseSc(h)
    <3>1. pc[h] \in Inside /\ depth[h] = 1
      BY <1>1, <2>2 DEF Release, ReleaseSc, MonitorOwned, Inside
    <3>2. pc'[h] = "notify" /\ lock' = 0 /\ depth'[h] = 0
      BY <1>1, <2>2, <3>1 DEF Release, ReleaseSc, Goto, TypeOK
    <3>3. ~scHeld'[h]
      <4>1. CASE Release(h) /\ depth[h] = 1
        BY <1>1, <4>1 DEF Release, MonitorOwned, Inside
      <4>2. CASE ReleaseSc(h)
        BY <1>1, <4>2 DEF ReleaseSc, TypeOK
      <4>3. QED
        BY <2>2, <4>1, <4>2
    <3>4. \A g \in Harts : g # h => pc'[g] = pc[g] /\ depth'[g] = depth[g] /\ scHeld'[g] = scHeld[g]
      BY <2>2, OthersStay DEF Proceed, Release, ReleaseSc
    <3>5. \A g \in Harts : g # h => pc[g] \notin Inside
      BY <1>1, <3>1 DEF MonitorOwned
    <3>6. \A g \in Harts : pc'[g] \notin Inside
      BY <3>2, <3>4, <3>5 DEF Inside
    <3>7. \A g \in Harts : Owns(g)'
      BY <1>1, <3>2, <3>3, <3>4, <3>5 DEF Owns, MonitorOwned, Inside
    <3>8. QED
      BY <3>2, <3>6, <3>7 DEF MonitorOwned, Owns
  <2>3. QED
    BY <1>5, <2>1, <2>2
<1>6. CASE UNCHANGED vars
  BY <1>1, <1>6 DEF vars, monitor, MonitorOwned
<1>7. QED
  BY <1>2, <1>3, <1>4, <1>5, <1>6 DEF Next, Proceed
-----------------------------------------------------------------------------
\* A hart that sleeps is owed a notify by whoever holds the lock or has just freed it.
LEMMA WakeStep == ASSUME Strong, [Next]_vars PROVE NoLostWake'
<1>1. TypeOK /\ MonitorOwned /\ NoLostWake
  BY DEF Strong, IInv
<1> DEFINE Awake == \E g \in Harts : pc[g] \in {"notify", "cas", "wait"}
<1>2. ASSUME NEW h \in Harts, Start(h) \/ Proceed(h), pc'[h] \in {"notify", "cas", "wait"}
      PROVE NoLostWake'
  BY <1>2 DEF NoLostWake
<1>3. ASSUME NEW h \in Harts, Start(h) \/ Proceed(h), lock' = 1 PROVE NoLostWake'
  BY <1>3 DEF NoLostWake
<1>4. ASSUME NEW h \in Harts, Start(h) \/ Proceed(h), lock' = lock, pc'[h] # "parked",
             pc[h] \notin {"notify", "cas", "wait"}
      PROVE NoLostWake'
  <2>1. \A g \in Harts : g # h =>
          pc'[g] = pc[g] \/ (pc[g] = "parked" /\ pc'[g] = "cas")
    BY <1>4, OthersStay
  <2>2. ASSUME Parked' # {} PROVE lock' = 1 \/ Awake'
    <3>1. PICK g \in Harts : pc'[g] = "parked"
      BY <2>2 DEF Parked
    <3>2. pc[g] = "parked"
      BY <1>4, <2>1, <3>1
    <3>3. lock = 1 \/ \E k \in Harts : pc[k] \in {"notify", "cas", "wait"}
      BY <1>1, <3>2 DEF NoLostWake, Parked
    <3>4. QED
      BY <1>4, <2>1, <3>3
  <2>3. QED
    BY <2>2 DEF NoLostWake
<1>5. ASSUME NEW h \in Harts, Start(h) PROVE NoLostWake'
  <2>1. pc[h] = "idle" /\ lock' = lock /\ pc'[h] # "parked"
    BY <1>1, <1>5 DEF Start, monitor, Goto, TypeOK
  <2>2. QED
    BY <1>4, <1>5, <2>1
<1>6. ASSUME NEW h \in Harts, AmoLoad(h) PROVE NoLostWake'
  <2>1. pc'[h] = "cas"
    BY <1>1, <1>6 DEF AmoLoad, Goto, TypeOK
  <2>2. QED
    BY <1>2, <1>6, <2>1 DEF Proceed
<1>7. ASSUME NEW h \in Harts, Acquire(h) PROVE NoLostWake'
  <2>1. lock' = 1 \/ pc'[h] = "wait"
    BY <1>1, <1>7 DEF Acquire, Goto, TypeOK
  <2>2. QED
    BY <1>2, <1>3, <1>7, <2>1 DEF Proceed
<1>8. ASSUME NEW h \in Harts, Wait(h) PROVE NoLostWake'
  <2>1. pc'[h] = "cas" \/ lock' = 1
    BY <1>1, <1>8 DEF Wait, Goto, TypeOK, monitor
  <2>2. QED
    BY <1>2, <1>3, <1>8, <2>1 DEF Proceed
<1>9. ASSUME NEW h \in Harts, Load(h) \/ Arm(h) \/ TakeReservation(h) \/ ScWrite(h) \/ Swap(h)
             \/ Invalidate(h) \/ WriteUnit(h)
      PROVE NoLostWake'
  <2>1. lock' = lock /\ pc[h] \in Inside
    BY <1>9 DEF Load, Arm, TakeReservation, ScWrite, Swap, Invalidate, WriteUnit, monitor, Inside
  <2>2. lock = 1
    BY <1>1, <2>1 DEF MonitorOwned
  <2>3. QED
    BY <1>3, <1>9, <2>1, <2>2 DEF Proceed
<1>10. ASSUME NEW h \in Harts, Release(h) \/ ReleaseSc(h) PROVE NoLostWake'
  <2>1. pc[h] \in Inside /\ lock = 1
    BY <1>1, <1>10 DEF Release, ReleaseSc, MonitorOwned, Inside
  <2>2. lock' = 1 \/ pc'[h] = "notify"
    BY <1>1, <1>10, <2>1 DEF Release, ReleaseSc, Goto, TypeOK
  <2>3. QED
    BY <1>2, <1>3, <1>10, <2>2 DEF Proceed
<1>11. ASSUME NEW h \in Harts, Notify(h) PROVE NoLostWake'
  <2>1. CASE Parked = {}
    <3>1. \A g \in Harts : pc'[g] # "parked"
      BY <1>1, <1>11, <2>1, OthersStay DEF Notify, Goto, TypeOK, AfterRelease, Parked, Proceed
    <3>2. QED
      BY <3>1 DEF NoLostWake, Parked
  <2>2. CASE Parked # {}
    <3>1. PICK g \in Parked : pc' = [pc EXCEPT ![h] = AfterRelease(h), ![g] = "cas"]
      BY <1>11, <2>2 DEF Notify
    <3>2. g \in Harts /\ pc'[g] = "cas"
      BY <1>1, <3>1 DEF Parked, TypeOK
    <3>3. QED
      BY <3>2 DEF NoLostWake
  <2>3. QED
    BY <2>1, <2>2
<1>12. CASE UNCHANGED vars
  BY <1>1, <1>12 DEF vars, monitor, NoLostWake, Parked
<1>13. QED
  BY <1>5, <1>6, <1>7, <1>8, <1>9, <1>10, <1>11, <1>12 DEF Next, Proceed
-----------------------------------------------------------------------------
\* Only a hart inside writes guest memory.
LEMMA WritersInside ==
  ASSUME Strong, NEW h \in Harts, Start(h) \/ Proceed(h), pc[h] \notin Inside
  PROVE  UNCHANGED <<mem, slot, touched>>
<1>1. Start(h) \/ AmoLoad(h) \/ Acquire(h) \/ Wait(h) \/ Notify(h)
  BY DEF Proceed, Load, Arm, TakeReservation, ScWrite, Swap, Invalidate, WriteUnit, Release,
     ReleaseSc, Inside
<1>2. QED
  BY <1>1 DEF Start, AmoLoad, Acquire, Wait, Notify

\* A step of h leaves what the others know true.
LEMMA OthersLocals ==
  ASSUME Strong, NEW h \in Harts, Start(h) \/ Proceed(h), NEW g \in Harts, g # h
  PROVE  OpFits(g)' /\ OldFits(g)' /\ LeftFits(g)'
<1>1. OpFits(g) /\ OldFits(g) /\ LeftFits(g)
  BY DEF Strong, Locals
<1>2. /\ pc'[g] = pc[g] \/ (pc[g] = "parked" /\ pc'[g] = "cas")
      /\ op'[g] = op[g] /\ old'[g] = old[g] /\ left'[g] = left[g] /\ scHeld'[g] = scHeld[g]
  BY OthersStay
<1>3. pc'[g] \in {"arm", "write"} => mem' = mem
  <2>1. ASSUME pc'[g] \in {"arm", "write"} PROVE pc[h] \notin Inside
    BY <1>2, <2>1 DEF Strong, IInv, MonitorOwned, Inside
  <2>2. QED
    BY <2>1, WritersInside
<1>4. OpFits(g)'
  BY <1>1, <1>2 DEF OpFits
<1>5. OldFits(g)'
  <2>1. pc'[g] = "arm" => old'[g] = Read(op[g])'
    BY <1>1, <1>2, <1>3 DEF OldFits, Read
  <2>2. QED
    BY <1>1, <1>2, <2>1 DEF OldFits
<1>6. LeftFits(g)'
  BY <1>1, <1>2, <1>3 DEF LeftFits
<1>7. QED
  BY <1>4, <1>5, <1>6

\* An instruction that passes its checks fits.
LEMMA PassesFits ==
  ASSUME NEW o \in Ops, TrapOf(o) = "none"
  PROVE  InRam(o) \/ (o.kind = "store" /\ Covers(o) \subseteq Device)
BY DEF TrapOf

\* A step of h keeps what h itself knows.
LEMMA OwnLocals ==
  ASSUME Strong, NEW h \in Harts, Start(h) \/ Proceed(h)
  PROVE  OpFits(h)' /\ OldFits(h)' /\ LeftFits(h)'
<1>1. TypeOK /\ MonitorOwned /\ OpFits(h) /\ OldFits(h) /\ LeftFits(h)
  BY DEF Strong, IInv, Locals
<1>2. CASE Start(h)
  <2>1. PICK o \in Workload[h] :
          IF TrapOf(o) # "none" THEN UNCHANGED <<pc, op, old, left>>
          ELSE /\ op' = [op EXCEPT ![h] = o]
               /\ pc' = [pc EXCEPT ![h] = IF o.kind = "amo" THEN "amoLoad" ELSE "cas"]
               /\ left' = [left EXCEPT ![h] = IF InRam(o) THEN o.width ELSE 0]
               /\ old' = old
    BY <1>2 DEF Start, locals, Goto
  <2>2. o \in Ops /\ pc[h] = "idle" /\ scHeld' = scHeld /\ ~scHeld[h]
    BY <1>1, <1>2, ReservationAssumption DEF ReservationAssumption, Start, monitor, MonitorOwned, Inside
  <2>3. CASE TrapOf(o) # "none"
    BY <1>1, <2>1, <2>2, <2>3 DEF OpFits, OldFits, LeftFits
  <2>4. CASE TrapOf(o) = "none"
    <3>1. op'[h] = o /\ pc'[h] = (IF o.kind = "amo" THEN "amoLoad" ELSE "cas")
          /\ left'[h] = (IF InRam(o) THEN o.width ELSE 0)
      BY <1>1, <2>1, <2>4 DEF TypeOK
    <3>2. OpFits(h)'
      BY <2>2, <2>4, <3>1, PassesFits DEF OpFits
    <3>3. OldFits(h)'
      BY <3>1 DEF OldFits
    <3>4. o.width \in {1, 2}
      BY <2>2 DEF Ops
    <3>5. LeftFits(h)'
      BY <3>1, <3>4 DEF LeftFits
    <3>6. QED
      BY <3>2, <3>3, <3>5
  <2>5. QED
    BY <2>3, <2>4
<1>3. CASE AmoLoad(h) \/ Load(h)
  <2>1. op[h].kind # "store" /\ op[h].kind \in {"lr", "amo"} /\ pc[h] # "idle"
    BY <1>1, <1>3 DEF AmoLoad, Load, OpFits
  <2>2. Read(op[h]) \in [1 .. op[h].width -> Values]
    BY <2>1, ReadTyped
  <2>3. old'[h] = Read(op[h]) /\ mem' = mem /\ op' = op /\ left' = left /\ scHeld' = scHeld
        /\ pc'[h] \in {"cas", "arm"} /\ (pc'[h] = "arm" => pc[h] = "load")
    BY <1>1, <1>3 DEF AmoLoad, Load, monitor, locals, Goto, TypeOK
  <2>4. OldFits(h)'
    BY <2>2, <2>3 DEF OldFits, Read
  <2>5. OpFits(h)' /\ LeftFits(h)'
    BY <1>1, <2>1, <2>3 DEF OpFits, LeftFits
  <2>6. QED
    BY <2>4, <2>5
<1>4. CASE Acquire(h)
  <2>1. pc[h] = "cas" /\ UNCHANGED <<mem, op, old, left, scHeld>>
    BY <1>4 DEF Acquire, locals
  <2>2. pc'[h] = "wait" \/ pc'[h] = Body(op[h])
    BY <1>1, <1>4 DEF Acquire, Goto, TypeOK
  <2>3. op[h].kind \in {"lr", "sc", "amo", "store"}
    BY <2>1, OpTyped DEF Ops
  <2>4. OpFits(h)' /\ OldFits(h)' /\ LeftFits(h)'
    BY <1>1, <2>1, <2>2, <2>3 DEF OpFits, OldFits, LeftFits, Body
  <2>5. QED
    BY <2>4
<1>5. CASE Wait(h)
  <2>1. pc[h] = "wait" /\ pc'[h] \in {"parked", "cas"} /\ UNCHANGED <<mem, op, old, left, scHeld>>
    BY <1>1, <1>5 DEF Wait, locals, monitor, Goto, TypeOK
  <2>2. QED
    BY <1>1, <2>1 DEF OpFits, OldFits, LeftFits
<1>6. CASE Arm(h) \/ TakeReservation(h)
  <2>1. pc[h] \in {"arm", "take"} /\ UNCHANGED <<mem, op, old, left>>
    BY <1>6 DEF Arm, TakeReservation, locals
  <2>2. pc'[h] \in {"scWrite", "release"} /\ (pc'[h] = "scWrite" => pc[h] = "take")
        /\ (scHeld'[h] => scHeld[h] \/ pc[h] = "take")
    BY <1>1, <1>6 DEF Arm, TakeReservation, monitor, Goto, TypeOK
  <2>3. op[h].kind \in {"lr", "sc"}
    BY <1>1, <2>1 DEF OpFits
  <2>4. QED
    BY <1>1, <2>1, <2>2, <2>3 DEF OpFits, OldFits, LeftFits
<1>7. CASE ScWrite(h)
  <2>1. pc[h] = "scWrite" /\ pc'[h] = "invalidate" /\ UNCHANGED <<op, old, left, scHeld>>
    BY <1>1, <1>7 DEF ScWrite, locals, Goto, TypeOK
  <2>2. QED
    BY <1>1, <2>1 DEF OpFits, OldFits, LeftFits
<1>8. CASE Swap(h)
  <2>1. pc[h] = "swap" /\ pc'[h] \in {"invalidate", "release"} /\ UNCHANGED <<op, left, scHeld>>
    BY <1>1, <1>8 DEF Swap, monitor, Goto, TypeOK
  <2>2. op[h].kind = "amo" /\ ~scHeld[h]
    BY <1>1, <2>1 DEF OpFits
  <2>3. Read(op[h]) \in [1 .. op[h].width -> Values]
    BY <2>1, <2>2, ReadTyped
  <2>4. old'[h] \in [1 .. op[h].width -> Values]
    BY <1>1, <1>8, <2>1, <2>2, <2>3 DEF Swap, OldFits, TypeOK
  <2>5. QED
    BY <1>1, <2>1, <2>2, <2>4 DEF OpFits, OldFits, LeftFits
<1>9. CASE Invalidate(h)
  <2>1. pc[h] = "invalidate" /\ pc'[h] = (IF op[h].kind = "store" THEN "write" ELSE "release")
        /\ UNCHANGED <<mem, op, old, left, scHeld>>
    BY <1>1, <1>9 DEF Invalidate, monitor, locals, Goto, TypeOK
  <2>2. OpFits(h)' /\ OldFits(h)'
    BY <1>1, <2>1 DEF OpFits, OldFits
  <2>3. LeftFits(h)'
    <3>1. CASE op[h].kind # "store"
      BY <1>1, <2>1, <3>1 DEF LeftFits
    <3>2. CASE op[h].kind = "store"
      <4>1. CASE InRam(op[h])
        <5>1. left[h] = op[h].width /\ op[h].at \in Nat /\ op[h].width \in {1, 2}
          BY <1>1, <2>1, <3>2, <4>1, OpTyped DEF LeftFits
        <5>2. \A u \in Covers(op[h]) : ~(u < op[h].at + op[h].width - left[h])
          BY <5>1 DEF Covers
        <5>3. QED
          BY <1>1, <2>1, <3>2, <5>2 DEF LeftFits
      <4>2. CASE ~InRam(op[h])
        <5>1. Covers(op[h]) \subseteq Device
          BY <1>1, <2>1, <4>2 DEF OpFits
        <5>2. Covers(op[h]) \cap Units = {}
          BY <5>1, ReservationAssumption DEF ReservationAssumption
        <5>3. QED
          BY <1>1, <2>1, <3>2, <5>2 DEF LeftFits
      <4>3. QED
        BY <4>1, <4>2
    <3>3. QED
      BY <3>1, <3>2
  <2>4. QED
    BY <2>2, <2>3
<1>10. CASE WriteUnit(h)
  <2>1. pc[h] = "write" /\ op[h].kind = "store" /\ UNCHANGED <<op, old, scHeld>>
        /\ pc'[h] \in {"write", "release"}
    BY <1>1, <1>10 DEF WriteUnit, monitor, Goto, TypeOK, OpFits
  <2>2. OpFits(h)' /\ OldFits(h)'
    BY <1>1, <2>1 DEF OpFits, OldFits
  <2>3. CASE left[h] = 0
    <3>1. left' = left /\ pc'[h] = "release"
      BY <1>1, <1>10, <2>3 DEF WriteUnit, Goto, TypeOK
    <3>2. LeftFits(h)'
      BY <1>1, <2>1, <3>1 DEF LeftFits
    <3>3. QED
      BY <2>2, <3>2
  <2>4. CASE left[h] # 0
    <3> DEFINE w == op[h].at + op[h].width - left[h]
    <3>1. left[h] \in 1 .. op[h].width /\ InRam(op[h]) /\ op[h].at \in Nat /\ op[h].width \in {1, 2}
      BY <1>1, <2>1, <2>4, OpTyped DEF LeftFits
    <3>2. left'[h] = left[h] - 1 /\ pc'[h] = "write"
          /\ mem' = [u \in Units |-> IF u = w THEN op[h].value ELSE mem[u]]
      BY <1>1, <1>10, <2>1, <2>4 DEF WriteUnit, Store, TypeOK
    <3>3. \A u \in Covers(op[h]) \cap Units :
            u < op[h].at + op[h].width - left'[h] => mem'[u] = op[h].value
      <4> SUFFICES ASSUME NEW u \in Covers(op[h]) \cap Units, u < op[h].at + op[h].width - left'[h]
                   PROVE  mem'[u] = op[h].value
        OBVIOUS
      <4>1. u \in Nat /\ (u = w \/ u < w)
        BY <3>1, <3>2 DEF Covers
      <4>2. QED
        BY <1>1, <2>1, <3>2, <4>1 DEF LeftFits
    <3>4. LeftFits(h)'
      <4>1. left'[h] \in 0 .. op[h].width
        BY <3>1, <3>2
      <4>2. QED
        BY <2>1, <3>1, <3>2, <3>3, <4>1 DEF LeftFits
    <3>5. QED
      BY <2>2, <3>4
  <2>5. QED
    BY <2>3, <2>4
<1>11. CASE Release(h) \/ ReleaseSc(h)
  <2>1. pc[h] \in {"release", "releaseSc"} /\ UNCHANGED <<mem, op, old, left>>
    BY <1>11 DEF Release, ReleaseSc, locals
  <2>2. pc'[h] \in {"notify", "releaseSc"} /\ (scHeld'[h] => scHeld[h])
        /\ (pc'[h] = "releaseSc" => scHeld[h])
    BY <1>1, <1>11 DEF Release, ReleaseSc, Goto, TypeOK, MonitorOwned, Inside
  <2>3. QED
    BY <1>1, <2>1, <2>2 DEF OpFits, OldFits, LeftFits
<1>12. CASE Notify(h)
  <2>1. pc[h] = "notify" /\ pc'[h] \in {AfterRelease(h), "cas"} /\ scHeld' = scHeld /\ ~scHeld[h]
    BY <1>1, <1>12 DEF Notify, monitor, Goto, TypeOK, MonitorOwned, Inside
  <2>2. pc'[h] = AfterRelease(h)
    BY <1>1, <1>12 DEF Notify, Goto, TypeOK, Parked
  <2>3. CASE AfterRelease(h) = "idle"
    <3>1. op'[h] = NoOp /\ pc'[h] = "idle"
      BY <1>1, <1>12, <2>2, <2>3 DEF Notify, Forget, TypeOK
    <3>2. QED
      BY <2>1, <3>1 DEF OpFits, OldFits, LeftFits
  <2>4. CASE AfterRelease(h) # "idle"
    <3>1. op[h].kind = "amo" /\ pc'[h] = "cas" /\ UNCHANGED <<op, old, left>>
      BY <1>12, <2>2, <2>4 DEF Notify, Forget, AfterRelease, locals
    <3>2. QED
      BY <1>1, <2>1, <3>1 DEF OpFits, OldFits, LeftFits
  <2>5. QED
    BY <2>3, <2>4
<1>13. QED
  BY <1>2, <1>3, <1>4, <1>5, <1>6, <1>7, <1>8, <1>9, <1>10, <1>11, <1>12 DEF Proceed

\* What the harts know of their instructions is kept by every step.
LEMMA LocalsStep == ASSUME Strong, [Next]_vars PROVE Locals'
<1>1. ASSUME NEW h \in Harts, Start(h) \/ Proceed(h) PROVE Locals'
  BY <1>1, OwnLocals, OthersLocals DEF Locals
<1>2. CASE UNCHANGED vars
  BY <1>2 DEF vars, monitor, locals, Strong, Locals, OpFits, OldFits, LeftFits, Read
<1>3. QED
  BY <1>1, <1>2 DEF Next
-----------------------------------------------------------------------------
\* A hart inside is alone there.
LEMMA Alone ==
  ASSUME Strong, NEW h \in Harts, pc[h] \in Inside
  PROVE  \A g \in Harts : pc[g] \in {"invalidate", "write"} => g = h
BY DEF Strong, IInv, MonitorOwned, Inside

\* The slots fit as long as nobody writes, invalidates, or begins or ends to.
LEMMA SlotsFrame ==
  ASSUME SlotsFit, UNCHANGED <<slot, touched>>,
         \A g \in Harts : pc[g] = "invalidate" => pc'[g] = "invalidate" /\ op'[g] = op[g],
         \A g \in Harts : pc'[g] = "write" => pc[g] = "write" /\ op'[g] = op[g]
  PROVE  SlotsFit'
BY DEF SlotsFit, Overlaps

\* The write of an sc or amo touches only lines it is about to invalidate.
LEMMA AtomicWriteFits ==
  ASSUME Strong, NEW h \in Harts, pc[h] \in {"scWrite", "swap"}, NEW written,
         DOMAIN written = Covers(op[h]), Store(written),
         slot' = slot, op' = op, pc' = [pc EXCEPT ![h] = "invalidate"]
  PROVE  SlotsFit'
<1>1. /\ \A g \in Harts : pc[g] \notin {"invalidate", "write"}
      /\ \A g \in Harts : pc'[g] = "invalidate" <=> g = h
      /\ \A g \in Harts : pc'[g] # "write"
  BY Alone DEF Inside, Strong, IInv, TypeOK
<1>2. op[h] \in Ops /\ op[h].kind # "store"
  BY OpTyped DEF Strong, Locals, OpFits
<1>3. ASSUME NEW k \in Harts, slot[k].valid
      PROVE  /\ ~touched[k]
             /\ touched'[k] => Overlaps(op[h], slot[k])
  <2>1. ~touched[k]
    BY <1>1, <1>3 DEF Strong, SlotsFit
  <2>2. touched'[k] => \E u \in Covers(op[h]) : u \div LineUnits = slot[k].at \div LineUnits
    BY <2>1 DEF Store
  <2>3. slot[k] \in [valid : BOOLEAN, at : Nat, width : {0, 1, 2}]
    BY DEF Strong, IInv, TypeOK
  <2>4. QED
    BY <1>2, <1>3, <2>1, <2>2, <2>3, OverlapMeansUnit
<1>4. QED
  BY <1>1, <1>2, <1>3 DEF Strong, SlotsFit, Overlaps

\* A step keeps the slots fitting.
LEMMA SlotsStep == ASSUME Strong, [Next]_vars PROVE SlotsFit'
<1>1. TypeOK /\ SlotsFit
  BY DEF Strong, IInv
<1>2. ASSUME NEW h \in Harts, Start(h) \/ Proceed(h), UNCHANGED <<slot, touched>>,
             pc[h] # "invalidate", pc'[h] # "write"
      PROVE  SlotsFit'
  <2>1. \A g \in Harts : pc[g] = "invalidate" => pc'[g] = "invalidate" /\ op'[g] = op[g]
    BY <1>2, OthersStay
  <2>2. \A g \in Harts : pc'[g] = "write" => pc[g] = "write" /\ op'[g] = op[g]
    BY <1>2, OthersStay
  <2>3. QED
    BY <1>1, <1>2, <2>1, <2>2, SlotsFrame
<1>3. ASSUME NEW h \in Harts, Start(h) \/ AmoLoad(h) \/ Acquire(h) \/ Wait(h) \/ Load(h)
             \/ Release(h) \/ ReleaseSc(h) \/ Notify(h)
      PROVE  SlotsFit'
  <2>1. UNCHANGED <<slot, touched>> /\ pc[h] # "invalidate"
    BY <1>3 DEF Start, AmoLoad, Acquire, Wait, Load, Release, ReleaseSc, Notify
  <2>2. pc'[h] # "write"
    <3>1. CASE Acquire(h)
      <4>1. op[h].kind \in {"lr", "sc", "amo", "store"}
        BY <3>1, OpTyped DEF Ops, Acquire
      <4>2. QED
        BY <1>1, <3>1, <4>1 DEF Acquire, Body, Goto, TypeOK
    <3>2. CASE Notify(h)
      BY <1>1, <3>2 DEF Notify, Goto, AfterRelease, TypeOK
    <3>3. CASE Start(h) \/ AmoLoad(h) \/ Wait(h) \/ Load(h) \/ Release(h) \/ ReleaseSc(h)
      BY <1>1, <3>3 DEF Start, AmoLoad, Wait, Load, Release, ReleaseSc, Goto, TypeOK
    <3>4. QED
      BY <1>3, <3>1, <3>2, <3>3
  <2>3. QED
    BY <1>2, <1>3, <2>1, <2>2 DEF Proceed
<1>4. ASSUME NEW h \in Harts, Arm(h) PROVE SlotsFit'
  <2>1. /\ pc[h] = "arm" /\ pc' = [pc EXCEPT ![h] = "release"] /\ op' = op
        /\ slot' = [g \in Harts |->
             IF g = h THEN [valid |-> TRUE, at |-> op[h].at, width |-> op[h].width]
             ELSE IF lineBase(slot[g].at) = lineBase(op[h].at)
                  THEN [slot[g] EXCEPT !.valid = FALSE] ELSE slot[g]]
        /\ touched' = [touched EXCEPT ![h] = FALSE]
    BY <1>4 DEF Arm, Goto, locals
  <2>2. \A g \in Harts : pc[g] \notin {"invalidate", "write"} /\ pc'[g] \notin {"invalidate", "write"}
    BY <1>1, <2>1, Alone DEF Inside, TypeOK
  <2>3. op[h].width \in {1, 2} /\ op[h].kind = "lr" /\ Covers(op[h]) \subseteq Units
    BY <2>1, OpTyped DEF Strong, Locals, OpFits, InRam
  <2>4. ASSUME NEW k \in Harts, slot'[k].valid
        PROVE  /\ slot'[k].width \in {1, 2} /\ Covers(slot'[k]) \subseteq Units
               /\ ~touched'[k]
    <3>1. CASE k = h
      BY <1>1, <2>1, <2>3, <3>1 DEF TypeOK, Covers
    <3>2. CASE k # h
      <4>1. slot[k].valid /\ slot'[k] = slot[k] /\ touched'[k] = touched[k]
        BY <1>1, <2>1, <2>4, <3>2 DEF TypeOK
      <4>2. QED
        BY <1>1, <2>2, <4>1 DEF SlotsFit
    <3>3. QED
      BY <3>1, <3>2
  <2>5. ASSUME NEW k \in Harts, NEW g \in Harts, g # k, slot'[k].valid, slot'[g].valid
        PROVE  lineBase(slot'[g].at) # lineBase(slot'[k].at)
    <3>1. ASSUME NEW j \in Harts, slot'[j].valid, j # h
          PROVE  slot'[j] = slot[j] /\ slot[j].valid /\ lineBase(slot[j].at) # lineBase(op[h].at)
      BY <1>1, <2>1, <3>1 DEF TypeOK
    <3>2. slot'[h].at = op[h].at
      BY <2>1
    <3>3. CASE k # h /\ g # h
      BY <1>1, <2>5, <3>1, <3>3 DEF SlotsFit
    <3>4. CASE k = h \/ g = h
      BY <2>5, <3>1, <3>2, <3>4
    <3>5. QED
      BY <3>3, <3>4
  <2>6. QED
    BY <2>2, <2>4, <2>5 DEF SlotsFit
<1>5. ASSUME NEW h \in Harts, TakeReservation(h) PROVE SlotsFit'
  <2>1. /\ pc[h] = "take" /\ op' = op /\ touched' = touched /\ pc'[h] # "write"
        /\ slot' = slot \/ slot' = [slot EXCEPT ![h] = [slot[h] EXCEPT !.valid = FALSE]]
    BY <1>1, <1>5 DEF TakeReservation, Goto, TypeOK, locals
  <2>2. CASE slot' = slot
    BY <1>2, <1>5, <2>1, <2>2 DEF Proceed
  <2>3. CASE slot' = [slot EXCEPT ![h] = [slot[h] EXCEPT !.valid = FALSE]]
    <3>1. \A k \in Harts : slot'[k].valid => slot[k].valid /\ slot'[k] = slot[k] /\ k # h
      BY <1>1, <2>3 DEF TypeOK
    <3>2. \A g \in Harts : pc[g] \notin {"invalidate", "write"} /\ pc'[g] \notin {"invalidate", "write"}
      <4>1. pc'[h] \in {"scWrite", "release"}
        BY <1>1, <1>5 DEF TakeReservation, Goto, TypeOK
      <4>2. QED
        BY <1>5, <2>1, <4>1, Alone, OthersStay DEF Inside, Proceed
    <3>3. QED
      BY <1>1, <2>1, <3>1, <3>2 DEF SlotsFit
  <2>4. QED
    BY <2>1, <2>2, <2>3
<1>6. ASSUME NEW h \in Harts, ScWrite(h) PROVE SlotsFit'
  <2>1. /\ pc[h] = "scWrite" /\ Store([u \in Covers(op[h]) |-> op[h].value])
        /\ slot' = slot /\ op' = op /\ pc' = [pc EXCEPT ![h] = "invalidate"]
    BY <1>6 DEF ScWrite, locals, Goto
  <2>2. QED
    BY <2>1, AtomicWriteFits
<1>7. ASSUME NEW h \in Harts, Swap(h) PROVE SlotsFit'
  <2>1. CASE Read(op[h]) = old[h]
    <3> DEFINE written == [u \in Covers(op[h]) |-> Combine(op[h], old[h])[u - op[h].at + 1]]
    <3>1. /\ pc[h] = "swap" /\ Store(written)
          /\ slot' = slot /\ op' = op /\ pc' = [pc EXCEPT ![h] = "invalidate"]
      BY <1>7, <2>1 DEF Swap, Goto
    <3>2. DOMAIN written = Covers(op[h])
      OBVIOUS
    <3> HIDE DEF written
    <3>3. QED
      BY <3>1, <3>2, AtomicWriteFits
  <2>2. CASE Read(op[h]) # old[h]
    <3>1. UNCHANGED <<slot, touched>> /\ pc[h] = "swap" /\ pc'[h] = "release"
      BY <1>1, <1>7, <2>2 DEF Swap, Goto, TypeOK
    <3>2. QED
      BY <1>2, <1>7, <3>1 DEF Proceed
  <2>3. QED
    BY <2>1, <2>2
<1>8. ASSUME NEW h \in Harts, Invalidate(h) PROVE SlotsFit'
  <2>1. /\ pc[h] = "invalidate" /\ op' = op /\ touched' = touched
        /\ pc' = [pc EXCEPT ![h] = IF op[h].kind = "store" THEN "write" ELSE "release"]
        /\ slot' = [g \in Harts |-> IF Overlaps(op[h], slot[g])
                                    THEN [slot[g] EXCEPT !.valid = FALSE] ELSE slot[g]]
    BY <1>8 DEF Invalidate, Goto, locals
  <2>2. \A g \in Harts : pc[g] \in {"invalidate", "write"} => g = h
    BY <2>1, Alone DEF Inside
  <2>3. \A k \in Harts : slot'[k].valid =>
          slot[k].valid /\ slot'[k] = slot[k] /\ ~Overlaps(op[h], slot[k])
    BY <1>1, <2>1 DEF TypeOK
  <2>4. \A k \in Harts : slot'[k].valid => ~touched'[k]
    BY <1>1, <2>1, <2>2, <2>3 DEF SlotsFit
  <2>5. \A g \in Harts : pc'[g] = "write" => g = h
    BY <1>1, <2>1, <2>2 DEF TypeOK
  <2>6. QED
    BY <1>1, <2>1, <2>3, <2>4, <2>5 DEF SlotsFit, Overlaps
<1>9. ASSUME NEW h \in Harts, WriteUnit(h) PROVE SlotsFit'
  <2>1. CASE left[h] = 0
    <3>1. UNCHANGED <<slot, touched>> /\ pc[h] = "write" /\ pc'[h] = "release"
      BY <1>1, <1>9, <2>1 DEF WriteUnit, Goto, TypeOK
    <3>2. QED
      BY <1>2, <1>9, <3>1 DEF Proceed
  <2>2. CASE left[h] # 0
    <3> DEFINE w == op[h].at + op[h].width - left[h]
    <3>1. pc[h] = "write" /\ Store([u \in {w} |-> op[h].value]) /\ UNCHANGED <<pc, slot, op>>
      BY <1>9, <2>2 DEF WriteUnit
    <3>2. left[h] \in 1 .. op[h].width /\ op[h].at \in Nat /\ op[h].width \in {1, 2} /\ op[h] \in Ops
      BY <2>2, <3>1, OpTyped DEF Strong, Locals, LeftFits, OpFits
    <3>3. w \in Covers(op[h])
      BY <3>2 DEF Covers
    <3>4. touched' = [k \in Harts |-> touched[k] \/ w \div LineUnits = slot[k].at \div LineUnits]
      BY <3>1 DEF Store
    <3> HIDE DEF w
    <3>5. ASSUME NEW k \in Harts, slot[k].valid PROVE ~touched'[k]
      <4>1. ~touched[k]
        BY <1>1, <3>1, <3>5, Alone DEF SlotsFit, Inside
      <4>2. ~Overlaps(op[h], slot[k])
        BY <1>1, <3>1, <3>5 DEF SlotsFit
      <4>3. slot[k] \in [valid : BOOLEAN, at : Nat, width : {0, 1, 2}]
        BY <1>1 DEF TypeOK
      <4>4. w \div LineUnits # slot[k].at \div LineUnits
        BY <3>2, <3>3, <3>5, <4>2, <4>3, OverlapMeansUnit
      <4>5. QED
        BY <3>4, <4>1, <4>4
    <3>6. QED
      BY <1>1, <3>1, <3>5 DEF SlotsFit, Overlaps
  <2>3. QED
    BY <2>1, <2>2
<1>10. CASE UNCHANGED vars
  BY <1>1, <1>10, SlotsFrame DEF vars, locals
<1>11. QED
  BY <1>3, <1>4, <1>5, <1>6, <1>7, <1>8, <1>9, <1>10 DEF Next, Proceed

\* From the reservation taken to the write of its sc, nobody comes between.
LEMMA ScStep == ASSUME Strong, [Next]_vars PROVE ScUndisturbed'
<1>1. TypeOK /\ SlotsFit /\ ScUndisturbed
  BY DEF Strong, IInv
<1>2. ASSUME NEW g \in Harts, Start(g) \/ Proceed(g), NEW h \in Harts, pc'[h] = "scWrite"
      PROVE  /\ ~touched'[h]
             /\ Holds(h)'
             /\ \A k \in Harts \ {h} : slot'[k].valid => lineBase(slot'[k].at) # lineBase(op'[h].at)
  <2>1. CASE g = h
    <3>1. TakeReservation(h) /\ Holds(h)
      <4>1. Start(h) \/ AmoLoad(h) \/ Wait(h) \/ Load(h) \/ Arm(h) \/ ScWrite(h)
              \/ Swap(h) \/ Invalidate(h) \/ Release(h) \/ ReleaseSc(h) => pc'[h] # "scWrite"
        BY <1>1 DEF Start, AmoLoad, Wait, Load, Arm, ScWrite, Swap, Invalidate, Release, ReleaseSc,
           Goto, TypeOK
      <4>2. Acquire(h) => pc'[h] # "scWrite"
        <5>1. pc[h] # "idle" => op[h].kind \in {"lr", "sc", "amo", "store"}
          BY OpTyped DEF Ops
        <5>2. QED
          BY <1>1, <5>1 DEF Acquire, Body, Goto, TypeOK
      <4>3. WriteUnit(h) => pc'[h] # "scWrite"
        BY <1>1 DEF WriteUnit, Goto, TypeOK
      <4>4. Notify(h) => pc'[h] # "scWrite"
        BY <1>1 DEF Notify, AfterRelease, Goto, TypeOK
      <4>5. TakeReservation(h)
        BY <1>2, <2>1, <4>1, <4>2, <4>3, <4>4 DEF Proceed
      <4>6. QED
        BY <1>1, <1>2, <4>5 DEF TakeReservation, Goto, TypeOK
    <3>2. pc[h] = "take" /\ UNCHANGED <<slot, touched, op>>
      BY <3>1 DEF TakeReservation, locals
    <3>3. slot[h].valid /\ slot[h].at = op[h].at
      BY <3>1 DEF Holds
    <3>4. ~touched[h]
      BY <1>1, <3>2, <3>3, Alone DEF SlotsFit, Inside
    <3>5. \A k \in Harts \ {h} : slot[k].valid => lineBase(slot[k].at) # lineBase(op[h].at)
      BY <1>1, <3>3 DEF SlotsFit
    <3>6. QED
      BY <3>1, <3>2, <3>4, <3>5 DEF Holds
  <2>2. CASE g # h
    <3>1. pc[h] = "scWrite" /\ op'[h] = op[h]
      BY <1>2, <2>2, OthersStay
    <3>2. pc[g] \notin Inside
      BY <2>2, <3>1 DEF Strong, IInv, MonitorOwned, Inside
    <3>3. UNCHANGED <<slot, touched>>
      BY <1>2, <3>2, WritersInside
    <3>4. QED
      BY <1>1, <3>1, <3>3 DEF ScUndisturbed, Holds
  <2>3. QED
    BY <2>1, <2>2
<1>3. CASE UNCHANGED vars
  BY <1>1, <1>3 DEF vars, locals, ScUndisturbed, Holds
<1>4. QED
  BY <1>2, <1>3 DEF Next, ScUndisturbed

\* A step of a hart leaves the results of the others, and returns what its action says.
LEMMA ResultStays ==
  ASSUME Strong, NEW h \in Harts, Start(h) \/ Proceed(h)
  PROVE  /\ result' = [g \in Harts |-> result'[g]]
         /\ \A g \in Harts : g # h => result'[g] = result[g]
<1>1. result = [g \in Harts |-> result[g]]
  BY DEF Strong, ResultsFit
<1>2. result' = result \/ \E kind, value : Returns(h, kind, value)
  <2>1. CASE Start(h)
    BY <2>1 DEF Start
  <2>2. CASE AmoLoad(h) \/ Acquire(h) \/ Wait(h) \/ Load(h) \/ Invalidate(h) \/ Release(h)
             \/ ReleaseSc(h) \/ Notify(h)
    BY <2>2 DEF AmoLoad, Acquire, Wait, Load, Invalidate, Release, ReleaseSc, Notify
  <2>3. CASE Arm(h)
    BY <2>3 DEF Arm
  <2>4. CASE TakeReservation(h)
    BY <2>4 DEF TakeReservation
  <2>5. CASE ScWrite(h)
    BY <2>5 DEF ScWrite
  <2>6. CASE Swap(h)
    BY <2>6 DEF Swap
  <2>7. CASE WriteUnit(h)
    BY <2>7 DEF WriteUnit
  <2>8. QED
    BY <2>1, <2>2, <2>3, <2>4, <2>5, <2>6, <2>7 DEF Proceed
<1>3. QED
  BY <1>1, <1>2 DEF Returns

\* A hart that goes on returns when its instruction takes place, and not before.
LEMMA ResultsStep == ASSUME Strong, [Next]_vars PROVE ResultsFit'
<1>1. TypeOK /\ ResultsFit /\ \A h \in Harts : OpFits(h)
  BY DEF Strong, IInv, Locals
<1>2. ASSUME NEW h \in Harts, Start(h) \/ Proceed(h) PROVE ResultFits(h)'
  <2> USE <1>1 DEF TypeOK, Goto, locals, ResultsFit, ResultFits
  <2>1. CASE Start(h)
    <3>1. PICK o \in Workload[h] :
            /\ Returns(h, TrapOf(o), <<>>)
            /\ IF TrapOf(o) # "none" THEN UNCHANGED <<pc, op>>
               ELSE pc' = [pc EXCEPT ![h] = IF o.kind = "amo" THEN "amoLoad" ELSE "cas"]
      BY <2>1 DEF Start
    <3>2. pc[h] = "idle" /\ result'[h].kind = TrapOf(o)
      BY <2>1, <3>1 DEF Start, Returns
    <3>3. pc'[h] \in {"idle", "amoLoad", "cas"} /\ (pc'[h] # "idle" => result'[h].kind = "none")
      BY <3>1, <3>2
    <3>4. QED
      BY <3>3
  <2>2. CASE AmoLoad(h) \/ Wait(h) \/ Load(h)
    BY <2>2 DEF AmoLoad, Wait, Load
  <2>3. CASE Acquire(h)
    <3>1. pc[h] = "cas" /\ op' = op /\ result' = result /\ result[h].kind = "none"
      BY <2>3 DEF Acquire
    <3>2. op[h].kind \in {"lr", "sc", "amo", "store"}
      BY <3>1, OpTyped DEF Ops
    <3>3. pc'[h] \in {"wait", "load", "take", "swap"} \/ (pc'[h] = "invalidate" /\ op[h].kind = "store")
      BY <2>3, <3>2 DEF Acquire, Body
    <3>4. QED
      BY <3>1, <3>3
  <2>4. CASE Arm(h)
    BY <2>4 DEF Arm, Returns
  <2>5. CASE TakeReservation(h)
    <3>1. CASE Holds(h)
      BY <2>5, <3>1 DEF TakeReservation
    <3>2. CASE ~Holds(h)
      <4>1. pc' = [pc EXCEPT ![h] = "release"] /\ Returns(h, "fail", <<>>)
        BY <2>5, <3>2 DEF TakeReservation
      <4>2. pc'[h] = "release" /\ result'[h].kind = "fail"
        BY <4>1 DEF Returns
      <4>3. QED
        BY <4>2
    <3>3. QED
      BY <3>1, <3>2
  <2>6. CASE ScWrite(h)
    BY <2>6 DEF ScWrite, Returns
  <2>7. CASE Swap(h)
    <3>1. op' = op /\ op[h].kind = "amo" /\ pc[h] = "swap"
      BY <2>7 DEF Swap, OpFits
    <3>2. CASE Read(op[h]) = old[h]
      <4>1. pc'[h] = "invalidate" /\ result'[h].kind = "value"
        BY <2>7, <3>2 DEF Swap, Returns
      <4>2. QED
        BY <3>1, <4>1
    <3>3. CASE Read(op[h]) # old[h]
      <4>1. pc'[h] = "release"
        BY <2>7, <3>3 DEF Swap
      <4>2. QED
        BY <3>1, <4>1
    <3>4. QED
      BY <3>2, <3>3
  <2>8. CASE Invalidate(h)
    BY <2>8, OpTyped DEF Invalidate, Ops
  <2>9. CASE WriteUnit(h)
    <3>1. op' = op /\ op[h].kind = "store" /\ pc'[h] \in {"write", "release"}
      BY <2>9 DEF WriteUnit, OpFits
    <3>2. QED
      BY <3>1
  <2>10. CASE Release(h) \/ ReleaseSc(h)
    BY <2>10 DEF Release, ReleaseSc
  <2>11. CASE Notify(h)
    <3>1. pc'[h] = AfterRelease(h) /\ result' = result
      BY <2>11 DEF Notify, Parked
    <3>2. QED
      BY <3>1 DEF AfterRelease
  <2>12. QED
    BY <1>2, <2>1, <2>2, <2>3, <2>4, <2>5, <2>6, <2>7, <2>8, <2>9, <2>10, <2>11 DEF Proceed
<1>3. ASSUME NEW h \in Harts, Start(h) \/ Proceed(h), NEW g \in Harts, g # h
      PROVE  ResultFits(g)'
  <2>1. pc'[g] = pc[g] \/ (pc[g] = "parked" /\ pc'[g] = "cas")
    BY <1>3, OthersStay
  <2>2. op'[g] = op[g] /\ result'[g] = result[g]
    BY <1>3, OthersStay, ResultStays
  <2>3. QED
    BY <1>1, <2>1, <2>2 DEF ResultsFit, ResultFits
<1>4. ASSUME NEW h \in Harts, Start(h) \/ Proceed(h) PROVE ResultsFit'
  BY <1>2, <1>3, <1>4, ResultStays DEF ResultsFit
<1>5. CASE UNCHANGED vars
  BY <1>1, <1>5 DEF vars, locals, ResultsFit, ResultFits
<1>6. QED
  BY <1>4, <1>5 DEF Next

\* Every step keeps the invariant.
LEMMA StepKeeps == Strong /\ [Next]_vars => Strong'
BY TypeStep, MonitorStep, ScStep, WakeStep, LocalsStep, SlotsStep, ResultsStep DEF Strong, IInv

\* The strengthened invariant of the monitor holds in every reachable state.
THEOREM StrongInvariant == Spec => []Strong
<1>1. Init => Strong
  BY InitEstablishes
<1>2. Strong /\ [Next]_vars => Strong'
  BY StepKeeps
<1>3. QED
  BY <1>1, <1>2, PTL DEF Spec

\* The monitor is owned by one hart, a store-conditional that stores was undisturbed, and
\* nobody sleeps on a free lock.
THEOREM MonitorCorrect == Spec => []IInv
<1>1. Strong => IInv
  BY DEF Strong
<1>2. QED
  BY <1>1, StrongInvariant, PTL

-----------------------------------------------------------------------------
\* The refinement of LrSc.

\* The locations of the abstract memory that slots and instructions name.
NoLocation  == [at |-> -1, width |-> 0]
Location(s) == [at |-> s.at, width |-> s.width]
SlotShown(s) == IF s.valid THEN Location(s) ELSE NoLocation

\* A step that changes nothing the guest sees.
Hidden ==
  /\ memDone' = memDone /\ reservedDone' = reservedDone
  /\ result' = result /\ askedDone' = askedDone

\* What the guest sees of memory, by who is writing.
MemShown ==
  /\ (\A h \in Harts : pc[h] # "write") => memDone = mem
  /\ \A h \in Harts : pc[h] = "write" =>
       memDone = [u \in Units |-> IF u \in Covers(op[h]) THEN op[h].value ELSE mem[u]]

\* The refinement mapping of memory says so.
LEMMA MemShownNow == Strong => MemShown
<1>1. mem = [u \in Units |-> mem[u]] \/ ~Strong
  BY DEF Strong, IInv, TypeOK
<1>2. Strong /\ (\A h \in Harts : pc[h] # "write") => memDone = mem
  BY <1>1 DEF memDone
<1>3. ASSUME Strong, NEW h \in Harts, pc[h] = "write"
      PROVE  memDone = [u \in Units |-> IF u \in Covers(op[h]) THEN op[h].value ELSE mem[u]]
  <2>1. \A g \in Harts : pc[g] = "write" => g = h
    BY <1>3, Alone DEF Inside
  <2>2. (CHOOSE g \in Harts : pc[g] = "write") = h
    BY <1>3, <2>1
  <2>3. \A u \in Units : (\E g \in Harts : pc[g] = "write" /\ u \in Covers(op[g])) <=> u \in Covers(op[h])
    BY <1>3, <2>1
  <2>4. QED
    BY <2>2, <2>3 DEF memDone
<1>4. QED
  BY <1>2, <1>3 DEF MemShown

\* It says so of the next state too.
LEMMA MemShownNext == Strong' => MemShown'
BY MemShownNow, PTL

\* What the guest sees of reservations while no sc or amo is about to invalidate.
LEMMA SlotsShown ==
  (\A h \in Harts : pc[h] = "invalidate" => op[h].kind = "store") =>
     reservedDone = [g \in Harts |-> SlotShown(slot[g])]
BY DEF reservedDone, SlotShown, Location, NoLocation

\* The same of the next state.
LEMMA SlotsShownNext ==
  (\A h \in Harts : pc'[h] = "invalidate" => op'[h].kind = "store") =>
     reservedDone' = [g \in Harts |-> SlotShown(slot'[g])]
BY DEF reservedDone, SlotShown, Location, NoLocation

\* A step away from the writes and invalidations changes nothing the guest sees of memory
\* and reservations.
LEMMA ShownStays ==
  ASSUME Strong, Strong', NEW h \in Harts, Start(h) \/ Proceed(h), UNCHANGED <<mem, slot>>,
         pc[h] # "write", pc'[h] # "write",
         pc[h] = "invalidate" => op[h].kind = "store",
         pc'[h] = "invalidate" => op'[h].kind = "store"
  PROVE  memDone' = memDone /\ reservedDone' = reservedDone
<1>1. \A g \in Harts \ {h} :
        /\ (pc'[g] = "write") <=> (pc[g] = "write")
        /\ (pc'[g] = "invalidate") <=> (pc[g] = "invalidate")
        /\ op'[g] = op[g]
  BY OthersStay
<1>2. memDone' = memDone
  <2>1. MemShown /\ MemShown'
    BY MemShownNow, MemShownNext
  <2>2. CASE \E g \in Harts : pc[g] = "write"
    <3>1. PICK g \in Harts : pc[g] = "write"
      BY <2>2
    <3>2. pc'[g] = "write" /\ op'[g] = op[g]
      BY <1>1, <3>1
    <3>3. memDone = [u \in Units |-> IF u \in Covers(op[g]) THEN op[g].value ELSE mem[u]]
      BY <2>1, <3>1 DEF MemShown
    <3>4. memDone' = [u \in Units |-> IF u \in Covers(op[g]) THEN op[g].value ELSE mem[u]]
      BY <2>1, <3>2 DEF MemShown, Covers
    <3>5. QED
      BY <3>3, <3>4
  <2>3. CASE \A g \in Harts : pc[g] # "write"
    BY <1>1, <2>1, <2>3 DEF MemShown
  <2>4. QED
    BY <2>2, <2>3
<1>3. reservedDone' = reservedDone
  <2>1. \A g \in Harts : (pc'[g] = "invalidate" /\ op'[g].kind # "store")
                           <=> (pc[g] = "invalidate" /\ op[g].kind # "store")
    BY <1>1
  <2>2. \A g \in Harts : pc[g] = "invalidate" /\ op[g].kind # "store" => op'[g] = op[g]
    BY <1>1
  <2>3. \A k \in Harts :
          (\E g \in Harts : pc'[g] = "invalidate" /\ op'[g].kind # "store" /\ Overlaps(op'[g], slot[k]))
            <=> (\E g \in Harts : pc[g] = "invalidate" /\ op[g].kind # "store" /\ Overlaps(op[g], slot[k]))
    BY <2>1, <2>2
  <2>4. QED
    BY <2>3 DEF reservedDone, Overlaps
<1>4. QED
  BY <1>2, <1>3

\* What the others have asked for stays asked.
LEMMA OthersAsked ==
  ASSUME Strong, NEW h \in Harts, Start(h) \/ Proceed(h), NEW g \in Harts, g # h
  PROVE  askedDone'[g] = askedDone[g]
<1>1. /\ pc'[g] = pc[g] \/ (pc[g] = "parked" /\ pc'[g] = "cas")
      /\ op'[g] = op[g] /\ result'[g] = result[g]
  BY OthersStay, ResultStays
<1>2. Pending(g)' <=> Pending(g)
  BY <1>1 DEF Pending
<1>3. QED
  BY <1>1, <1>2 DEF askedDone

\* A step that leaves the instruction of h pending, or not, changes nothing that is asked.
LEMMA AskedStays ==
  ASSUME Strong, NEW h \in Harts, Start(h) \/ Proceed(h),
         Pending(h)' <=> Pending(h), Pending(h) => op'[h] = op[h]
  PROVE  askedDone' = askedDone
<1>1. askedDone'[h] = askedDone[h]
  BY DEF askedDone
<1>2. \A g \in Harts : askedDone'[g] = askedDone[g]
  BY <1>1, OthersAsked
<1>3. QED
  BY <1>2 DEF askedDone

\* Where a store is still to take place.
StoreWaits == {"cas", "wait", "parked", "invalidate"}

\* A step inside an instruction that returns nothing takes nothing.
LEMMA AskedInside ==
  ASSUME Strong, NEW h \in Harts, Start(h) \/ Proceed(h), result' = result, op'[h] = op[h],
         pc[h] # "idle", pc'[h] # "idle",
         op[h].kind = "store" => (pc'[h] \in StoreWaits <=> pc[h] \in StoreWaits)
  PROVE  askedDone' = askedDone
<1>1. Pending(h)' <=> Pending(h)
  BY DEF Pending, StoreWaits
<1>2. QED
  BY <1>1, AskedStays

\* A step after which the instruction of h is no longer pending is where it takes place.
LEMMA AskedTaken ==
  ASSUME Strong, NEW h \in Harts, Start(h) \/ Proceed(h), Pending(h), ~Pending(h)'
  PROVE  /\ askedDone[h] = op[h]
         /\ askedDone' = [askedDone EXCEPT ![h] = NoOp]
         /\ Abstract!Takes(h, op[h].kind, Location(op[h]))
<1>1. askedDone[h] = op[h] /\ askedDone'[h] = NoOp
  BY DEF askedDone
<1>2. \A g \in Harts : g # h => askedDone'[g] = askedDone[g]
  BY OthersAsked
<1>3. askedDone' = [askedDone EXCEPT ![h] = NoOp]
  BY <1>1, <1>2 DEF askedDone
<1>4. QED
  BY <1>1, <1>3 DEF Abstract!Takes, Abstract!NoRequest, NoOp, Location

\* An lr, sc or amo that returns takes place.
LEMMA TakesPlace ==
  ASSUME Strong, NEW h \in Harts, Start(h) \/ Proceed(h),
         pc[h] \in {"arm", "take", "scWrite", "swap"}, op' = op,
         NEW kind \in {"value", "ok", "fail"}, NEW value, Returns(h, kind, value)
  PROVE  /\ askedDone[h] = op[h]
         /\ Abstract!Takes(h, op[h].kind, Location(op[h]))
<1>1. op[h].kind # "store" /\ result[h].kind = "none"
  BY DEF Strong, Locals, OpFits, ResultsFit, ResultFits
<1>2. result'[h].kind = kind
  BY DEF Strong, ResultsFit, Returns
<1>3. Pending(h) /\ ~Pending(h)'
  BY <1>1, <1>2 DEF Pending
<1>4. QED
  BY <1>3, AskedTaken

\* The location of an instruction that has reached RAM.
LEMMA LocationTyped ==
  ASSUME Strong, NEW h \in Harts, pc[h] # "idle", InRam(op[h])
  PROVE  /\ Location(op[h]) \in Abstract!Locations
         /\ Abstract!Covers(Location(op[h])) = Covers(op[h])
<1>1. op[h].at \in Nat /\ op[h].width \in {1, 2}
  BY OpTyped
<1>2. op[h].at \in Covers(op[h]) /\ Covers(op[h]) \subseteq Units
  BY <1>1 DEF Covers, InRam
<1>3. Abstract!Covers(Location(op[h])) = Covers(op[h])
  BY DEF Abstract!Covers, Covers, Location
<1>4. QED
  BY <1>1, <1>2, <1>3 DEF Abstract!Locations, Location

\* A valid slot overlaps an access in RAM exactly if the access covers a unit of its line.
LEMMA BreakShown ==
  ASSUME Strong, NEW h \in Harts, pc[h] # "idle", InRam(op[h]),
         reservedDone = [g \in Harts |-> SlotShown(slot[g])],
         reservedDone' = [g \in Harts |-> IF Overlaps(op[h], slot[g]) THEN NoLocation
                                          ELSE SlotShown(slot[g])]
  PROVE  Abstract!Break(Location(op[h]))
<1>1. op[h] \in Ops /\ Covers(op[h]) \subseteq Units
  BY OpTyped DEF InRam
<1>2. Abstract!Covers(Location(op[h])) = Covers(op[h])
  BY LocationTyped
<1>3. ASSUME NEW g \in Harts
      PROVE  Overlaps(op[h], slot[g]) <=>
               /\ SlotShown(slot[g]) # NoLocation
               /\ Abstract!Line(SlotShown(slot[g])) \cap Covers(op[h]) # {}
  <2>1. slot[g] \in [valid : BOOLEAN, at : Nat, width : {0, 1, 2}]
    BY DEF Strong, IInv, TypeOK
  <2>2. CASE ~slot[g].valid
    BY <2>2 DEF Overlaps, SlotShown
  <2>3. CASE slot[g].valid
    <3>1. SlotShown(slot[g]) = Location(slot[g])
      BY <2>3 DEF SlotShown
    <3>2. Location(slot[g]) # NoLocation
      <4>1. slot[g].at # -1
        BY <2>1
      <4>2. QED
        BY <4>1 DEF Location, NoLocation
    <3>3. Abstract!Line(Location(slot[g])) = {u \in Units : u \div LineUnits = slot[g].at \div LineUnits}
      BY DEF Abstract!Line, Location
    <3>4. Overlaps(op[h], slot[g]) <=> \E u \in Covers(op[h]) : u \div LineUnits = slot[g].at \div LineUnits
      BY <1>1, <2>1, <2>3, OverlapMeansUnit
    <3>5. QED
      BY <1>1, <3>1, <3>2, <3>3, <3>4
  <2>4. QED
    BY <2>2, <2>3
<1>4. QED
  BY <1>2, <1>3 DEF Abstract!Break, Abstract!NoLocation, NoLocation
-----------------------------------------------------------------------------
\* A load-reserved takes place when it arms its slot.
LEMMA ArmShown ==
  ASSUME Strong, Strong', NEW h \in Harts, Arm(h)
  PROVE  Abstract!LoadReserved(h, Location(op[h]))
<1> DEFINE l == Location(op[h])
<1>1. TypeOK /\ pc[h] = "arm"
  BY DEF Strong, IInv, Arm
<1>2. /\ mem' = mem /\ op' = op /\ pc' = [pc EXCEPT ![h] = "release"]
      /\ slot' = [g \in Harts |->
                   IF g = h THEN [valid |-> TRUE, at |-> op[h].at, width |-> op[h].width]
                   ELSE IF lineBase(slot[g].at) = lineBase(op[h].at)
                        THEN [slot[g] EXCEPT !.valid = FALSE] ELSE slot[g]]
      /\ Returns(h, "value", old[h])
  BY DEF Arm, Goto, locals
<1>3. \A g \in Harts : pc[g] \notin {"invalidate", "write"} /\ pc'[g] \notin {"invalidate", "write"}
  BY <1>1, <1>2, Alone DEF Inside, TypeOK
<1>4. memDone = mem /\ memDone' = mem
  BY <1>2, <1>3, MemShownNow, MemShownNext DEF MemShown
<1>5. op[h].kind = "lr" /\ InRam(op[h]) /\ old[h] = Read(op[h])
  BY <1>1 DEF Strong, Locals, OpFits, OldFits
<1>6. Abstract!Returns(h, "value", Abstract!Read(l))
  <2>1. Abstract!Read(l) = Read(op[h])
    BY <1>4 DEF Abstract!Read, Read, Location
  <2>2. QED
    BY <1>2, <1>5, <2>1 DEF Abstract!Returns, Returns
<1>7. reservedDone' = [g \in Harts |->
          IF g = h THEN l
          ELSE IF reservedDone[g] # NoLocation /\ Abstract!Line(reservedDone[g]) = Abstract!Line(l)
               THEN NoLocation ELSE reservedDone[g]]
  <2>1. /\ reservedDone = [g \in Harts |-> SlotShown(slot[g])]
        /\ reservedDone' = [g \in Harts |-> SlotShown(slot'[g])]
    BY <1>3, SlotsShown, SlotsShownNext
  <2>2. SlotShown(slot'[h]) = l
    BY <1>2 DEF SlotShown, Location
  <2>3. ASSUME NEW g \in Harts, g # h
        PROVE  SlotShown(slot'[g]) =
                 IF SlotShown(slot[g]) # NoLocation /\ Abstract!Line(SlotShown(slot[g])) = Abstract!Line(l)
                 THEN NoLocation ELSE SlotShown(slot[g])
    <3>1. slot'[g] = IF lineBase(slot[g].at) = lineBase(op[h].at)
                     THEN [slot[g] EXCEPT !.valid = FALSE] ELSE slot[g]
      BY <1>2, <2>3
    <3>2. slot[g] \in [valid : BOOLEAN, at : Nat, width : {0, 1, 2}]
      BY <1>1 DEF TypeOK
    <3>3. CASE ~slot[g].valid
      BY <3>1, <3>2, <3>3 DEF SlotShown
    <3>4. CASE slot[g].valid
      <4>1. SlotShown(slot[g]) = Location(slot[g]) /\ Location(slot[g]) # NoLocation
        BY <3>2, <3>4 DEF SlotShown, Location, NoLocation
      <4>2. Abstract!Line(Location(slot[g])) = {u \in Units : u \div LineUnits = slot[g].at \div LineUnits}
        BY DEF Abstract!Line, Location
      <4>3. Abstract!Line(l) = {u \in Units : u \div LineUnits = op[h].at \div LineUnits}
        BY DEF Abstract!Line, Location
      <4>4. op[h].at \in Units /\ op[h].at \in Nat
        BY <1>1, <1>5, OpTyped DEF InRam, Covers
      <4>5. lineBase(slot[g].at) = lineBase(op[h].at)
              <=> slot[g].at \div LineUnits = op[h].at \div LineUnits
        BY <3>2, <4>4, SameBase
      <4>6. Abstract!Line(Location(slot[g])) = Abstract!Line(l)
              <=> slot[g].at \div LineUnits = op[h].at \div LineUnits
        BY <4>2, <4>3, <4>4
      <4>7. CASE lineBase(slot[g].at) = lineBase(op[h].at)
        BY <3>1, <3>2, <4>1, <4>5, <4>6, <4>7 DEF SlotShown
      <4>8. CASE lineBase(slot[g].at) # lineBase(op[h].at)
        BY <3>1, <4>1, <4>5, <4>6, <4>8
      <4>9. QED
        BY <4>7, <4>8
    <3>5. QED
      BY <3>3, <3>4
  <2>4. QED
    BY <2>1, <2>2, <2>3
<1>9. Abstract!Takes(h, "lr", l)
  <2>1. op[h].kind = "lr" /\ Proceed(h)
    BY <1>1 DEF Strong, Locals, OpFits, Proceed
  <2>2. QED
    BY <1>1, <1>2, <2>1, TakesPlace
<1>10. QED
  BY <1>4, <1>6, <1>7, <1>9 DEF Abstract!LoadReserved, Abstract!NoLocation, NoLocation

\* A store-conditional that fails does so when it tests its slot.
LEMMA TakeFails ==
  ASSUME Strong, Strong', NEW h \in Harts, TakeReservation(h), ~Holds(h)
  PROVE  Abstract!StoreConditional(h, Location(op[h]))
<1> DEFINE l == Location(op[h])
<1>1. TypeOK /\ pc[h] = "take"
  BY DEF Strong, IInv, TakeReservation
<1>2. /\ mem' = mem /\ op' = op /\ pc' = [pc EXCEPT ![h] = "release"]
      /\ slot' = [slot EXCEPT ![h] = [slot[h] EXCEPT !.valid = FALSE]]
      /\ Returns(h, "fail", <<>>)
  BY DEF TakeReservation, Goto, locals
<1>3. \A g \in Harts : pc[g] \notin {"invalidate", "write"} /\ pc'[g] \notin {"invalidate", "write"}
  BY <1>1, <1>2, Alone DEF Inside, TypeOK
<1>4. memDone = mem /\ memDone' = mem
  BY <1>2, <1>3, MemShownNow, MemShownNext DEF MemShown
<1>5. /\ reservedDone = [g \in Harts |-> SlotShown(slot[g])]
      /\ reservedDone' = [g \in Harts |-> SlotShown(slot'[g])]
  BY <1>3, SlotsShown, SlotsShownNext
<1>6. slot[h] \in [valid : BOOLEAN, at : Nat, width : {0, 1, 2}] /\ op[h].at \in Nat
  BY <1>1, OpTyped DEF TypeOK
<1>7. reservedDone[h] # l
  <2>1. CASE slot[h].valid
    <3>1. ~(slot[h].at = op[h].at /\ slot[h].width = op[h].width)
      BY <1>6, <2>1 DEF Holds
    <3>2. QED
      BY <1>5, <2>1, <3>1 DEF SlotShown, Location
  <2>2. CASE ~slot[h].valid
    BY <1>5, <1>6, <2>2 DEF SlotShown, Location, NoLocation
  <2>3. QED
    BY <2>1, <2>2
<1>8. reservedDone' = [reservedDone EXCEPT ![h] = NoLocation]
  <2>1. SlotShown(slot'[h]) = NoLocation
    BY <1>1, <1>2, <1>6 DEF SlotShown, TypeOK
  <2>2. \A g \in Harts : g # h => slot'[g] = slot[g]
    BY <1>1, <1>2 DEF TypeOK
  <2>3. QED
    BY <1>5, <2>1, <2>2
<1>9. Abstract!Takes(h, "sc", l)
  <2>1. op[h].kind = "sc" /\ Proceed(h)
    BY <1>1 DEF Strong, Locals, OpFits, Proceed
  <2>2. QED
    BY <1>1, <1>2, <2>1, TakesPlace
<1>10. QED
  BY <1>2, <1>4, <1>7, <1>8, <1>9
     DEF Abstract!StoreConditional, Abstract!Returns, Returns, Abstract!NoLocation, NoLocation

\* The write of an sc or amo takes place with its invalidation, which is still to come.
LEMMA AtomicWriteShown ==
  ASSUME Strong, Strong', NEW h \in Harts, pc[h] \in {"scWrite", "swap"},
         slot' = slot, op' = op, pc' = [pc EXCEPT ![h] = "invalidate"]
  PROVE  /\ memDone = mem /\ memDone' = mem'
         /\ reservedDone = [g \in Harts |-> SlotShown(slot[g])]
         /\ Abstract!Break(Location(op[h]))
<1>1. /\ \A g \in Harts : pc[g] \notin {"invalidate", "write"}
      /\ \A g \in Harts : pc'[g] = "invalidate" <=> g = h
      /\ \A g \in Harts : pc'[g] # "write"
  BY Alone DEF Inside, Strong, IInv, TypeOK
<1>2. memDone = mem /\ memDone' = mem'
  BY <1>1, MemShownNow, MemShownNext DEF MemShown
<1>3. reservedDone = [g \in Harts |-> SlotShown(slot[g])]
  BY <1>1, SlotsShown
<1>4. op[h].kind # "store" /\ InRam(op[h])
  BY DEF Strong, Locals, OpFits
<1>5. reservedDone' = [g \in Harts |-> IF Overlaps(op[h], slot[g]) THEN NoLocation
                                       ELSE SlotShown(slot[g])]
  <2>1. \A k \in Harts :
          (\E g \in Harts : pc'[g] = "invalidate" /\ op'[g].kind # "store" /\ Overlaps(op'[g], slot[k]))
            <=> Overlaps(op[h], slot[k])
    BY <1>1, <1>4
  <2>2. QED
    BY <2>1 DEF reservedDone, SlotShown, Location, NoLocation, Overlaps
<1>6. QED
  BY <1>2, <1>3, <1>4, <1>5, BreakShown

\* A store-conditional that stores takes place when it writes.
LEMMA ScWriteShown ==
  ASSUME Strong, Strong', NEW h \in Harts, ScWrite(h)
  PROVE  Abstract!StoreConditional(h, Location(op[h]))
<1> DEFINE l == Location(op[h])
<1>1. /\ pc[h] = "scWrite" /\ Store([u \in Covers(op[h]) |-> op[h].value])
      /\ slot' = slot /\ op' = op /\ pc' = [pc EXCEPT ![h] = "invalidate"]
      /\ Returns(h, "ok", <<>>)
  BY DEF ScWrite, locals, Goto
<1>2. /\ memDone = mem /\ memDone' = mem'
      /\ reservedDone = [g \in Harts |-> SlotShown(slot[g])]
      /\ Abstract!Break(l)
  BY <1>1, AtomicWriteShown
<1>3. reservedDone[h] = l
  <2>1. Holds(h)
    BY <1>1 DEF Strong, IInv, ScUndisturbed
  <2>2. QED
    BY <1>2, <2>1 DEF Holds, SlotShown, Location
<1>4. Abstract!Write(l, [i \in 1 .. l.width |-> op[h].value])
  <2>1. InRam(op[h]) /\ op[h].at \in Nat /\ op[h].width \in {1, 2} /\ op[h].value \in Values
    BY <1>1, OpTyped DEF Strong, Locals, OpFits
  <2>2. Abstract!Covers(l) = Covers(op[h])
    BY <1>1, <2>1, LocationTyped
  <2>3. mem' = [u \in Units |-> IF u \in Covers(op[h]) THEN op[h].value ELSE mem[u]]
    BY <1>1 DEF Store
  <2>4. \A u \in Covers(op[h]) : u - l.at + 1 \in 1 .. l.width
    BY <2>1 DEF Covers, Location
  <2>5. \A u \in Covers(op[h]) : [i \in 1 .. l.width |-> op[h].value][u - l.at + 1] = op[h].value
    BY <2>4
  <2>6. QED
    BY <1>2, <2>1, <2>2, <2>3, <2>5 DEF Abstract!Write
<1>5. askedDone[h] = op[h] /\ Abstract!Takes(h, "sc", l)
  <2>1. op[h].kind = "sc" /\ Proceed(h)
    BY <1>1 DEF Strong, Locals, OpFits, Proceed
  <2>2. QED
    BY <1>1, <2>1, TakesPlace
<1>6. QED
  BY <1>1, <1>2, <1>3, <1>4, <1>5
     DEF Abstract!StoreConditional, Abstract!Operand, Abstract!Returns, Returns

\* An amo takes place when its compare-exchange succeeds.
LEMMA SwapShown ==
  ASSUME Strong, Strong', NEW h \in Harts, Swap(h), Read(op[h]) = old[h]
  PROVE  Abstract!ReadModifyWrite(h, Location(op[h]))
<1> DEFINE l == Location(op[h])
           next == Combine(op[h], old[h])
<1>1. /\ pc[h] = "swap" /\ Store([u \in Covers(op[h]) |-> next[u - op[h].at + 1]])
      /\ slot' = slot /\ op' = op /\ pc' = [pc EXCEPT ![h] = "invalidate"]
      /\ Returns(h, "value", old[h])
  BY DEF Swap, Goto
<1>2. /\ memDone = mem /\ memDone' = mem'
      /\ Abstract!Break(l)
  BY <1>1, AtomicWriteShown
<1>3. op[h].kind = "amo" /\ InRam(op[h]) /\ op[h].width \in {1, 2} /\ op[h].value \in Values
  BY <1>1, OpTyped DEF Strong, Locals, OpFits
<1>4. /\ askedDone[h] = op[h] /\ Abstract!Takes(h, "amo", l)
      /\ next = [i \in 1 .. l.width |-> (Abstract!Read(l)[i] + askedDone[h].value) % Modulus]
  <2>1. Proceed(h)
    BY DEF Proceed
  <2>2. askedDone[h] = op[h] /\ Abstract!Takes(h, "amo", l)
    BY <1>1, <1>3, <2>1, TakesPlace
  <2>3. Abstract!Read(l) = old[h] /\ DOMAIN old[h] = 1 .. l.width
    BY <1>2 DEF Abstract!Read, Read, Location
  <2>4. QED
    BY <2>2, <2>3 DEF Combine
<1> HIDE DEF next
<1>5. Abstract!Write(l, next)
  <2>1. Abstract!Covers(l) = Covers(op[h])
    BY <1>1, <1>3, LocationTyped
  <2>2. mem' = [u \in Units |-> IF u \in Covers(op[h]) THEN next[u - op[h].at + 1] ELSE mem[u]]
    BY <1>1 DEF Store
  <2>3. QED
    BY <1>2, <2>1, <2>2 DEF Abstract!Write, Location
<1>6. Abstract!Returns(h, "value", Abstract!Read(l))
  <2>1. Abstract!Read(l) = Read(op[h])
    BY <1>2 DEF Abstract!Read, Read, Location
  <2>2. QED
    BY <1>1, <2>1 DEF Abstract!Returns, Returns
<1>7. QED
  BY <1>2, <1>4, <1>5, <1>6 DEF Abstract!ReadModifyWrite

\* The invalidation of a plain store is where the store takes place.
LEMMA StoreShown ==
  ASSUME Strong, Strong', NEW h \in Harts, Invalidate(h), op[h].kind = "store"
  PROVE  \/ InRam(op[h]) /\ Abstract!Store(h, Location(op[h]))
         \/ Abstract!StoreDevice(h)
<1> DEFINE l == Location(op[h])
<1>1. TypeOK /\ pc[h] = "invalidate"
  BY DEF Strong, IInv, Invalidate
<1>2. /\ mem' = mem /\ op' = op /\ result' = result /\ pc' = [pc EXCEPT ![h] = "write"]
      /\ slot' = [g \in Harts |-> IF Overlaps(op[h], slot[g])
                                  THEN [slot[g] EXCEPT !.valid = FALSE] ELSE slot[g]]
  BY DEF Invalidate, Goto, locals
<1>3. \A g \in Harts : /\ pc[g] # "write" /\ (pc[g] = "invalidate" => g = h)
                       /\ pc'[g] # "invalidate"
  BY <1>1, <1>2, Alone DEF Inside, TypeOK
<1>4. /\ memDone = mem
      /\ memDone' = [u \in Units |-> IF u \in Covers(op[h]) THEN op[h].value ELSE mem[u]]
  <2>1. pc'[h] = "write"
    BY <1>1, <1>2 DEF TypeOK
  <2>2. Covers(op'[h]) = Covers(op[h])
    BY <1>2
  <2>3. QED
    BY <1>2, <1>3, <2>1, <2>2, MemShownNow, MemShownNext DEF MemShown
<1>5. /\ reservedDone = [g \in Harts |-> SlotShown(slot[g])]
      /\ reservedDone' = [g \in Harts |-> SlotShown(slot'[g])]
  BY <1>3, SlotsShown, SlotsShownNext
<1>6. reservedDone' = [g \in Harts |-> IF Overlaps(op[h], slot[g]) THEN NoLocation
                                       ELSE SlotShown(slot[g])]
  <2>1. \A g \in Harts : SlotShown(slot'[g]) = IF Overlaps(op[h], slot[g]) THEN NoLocation
                                               ELSE SlotShown(slot[g])
    BY <1>1, <1>2 DEF SlotShown, TypeOK
  <2>2. QED
    BY <1>5, <2>1
<1>7. op[h] \in Ops /\ op[h].at \in Nat /\ op[h].width \in {1, 2} /\ op[h].value \in Values
  BY <1>1, OpTyped
<1>taken. /\ askedDone[h] = op[h] /\ Abstract!Takes(h, "store", l)
  <2>1. Pending(h) /\ ~Pending(h)'
    BY <1>1, <1>2 DEF Pending, TypeOK
  <2>2. QED
    BY <2>1, AskedTaken DEF Proceed
<1>8. CASE InRam(op[h])
  <2>1. Abstract!Covers(l) = Covers(op[h])
    BY <1>1, <1>8, LocationTyped
  <2>2. \A u \in Covers(op[h]) : [i \in 1 .. l.width |-> op[h].value][u - l.at + 1] = op[h].value
    <3>1. \A u \in Covers(op[h]) : u - l.at + 1 \in 1 .. l.width
      BY <1>7 DEF Covers, Location
    <3>2. QED
      BY <3>1
  <2>3. Abstract!Write(l, [i \in 1 .. l.width |-> op[h].value])
    BY <1>4, <2>1, <2>2 DEF Abstract!Write
  <2>4. Abstract!Break(l)
    BY <1>1, <1>5, <1>6, <1>8, BreakShown
  <2>5. QED
    BY <1>2, <1>8, <1>taken, <2>3, <2>4 DEF Abstract!Store, Abstract!Operand
<1>9. CASE ~InRam(op[h])
  <2>1. Covers(op[h]) \subseteq Device
    BY <1>1, <1>9 DEF Strong, Locals, OpFits
  <2>2. \A u \in Units, d \in Covers(op[h]) : u \div LineUnits # d \div LineUnits
    BY <2>1, ReservationAssumption DEF ReservationAssumption
  <2>3. memDone' = memDone
    BY <1>1, <1>4, <2>2 DEF TypeOK
  <2>4. ASSUME NEW g \in Harts PROVE ~Overlaps(op[h], slot[g])
    <3>1. CASE slot[g].valid
      <4>1. slot[g].width \in {1, 2} /\ Covers(slot[g]) \subseteq Units /\ slot[g].at \in Nat
        BY <1>1, <3>1 DEF Strong, SlotsFit, TypeOK
      <4>2. slot[g].at \in Units
        BY <4>1 DEF Covers
      <4>3. slot[g] \in [valid : BOOLEAN, at : Nat, width : {0, 1, 2}]
        BY <1>1 DEF TypeOK
      <4>4. QED
        BY <1>7, <2>2, <4>2, <4>3, OverlapMeansUnit
    <3>2. CASE ~slot[g].valid
      BY <3>2 DEF Overlaps
    <3>3. QED
      BY <3>1, <3>2
  <2>5. reservedDone' = reservedDone
    BY <1>5, <1>6, <2>4
  <2>6. Location(op[h]) \notin Abstract!Locations
    <3>1. op[h].at \in Covers(op[h]) /\ Covers(op[h]) = Abstract!Covers(Location(op[h]))
      BY <1>7 DEF Covers, Abstract!Covers, Location
    <3>2. QED
      BY <1>9, <3>1 DEF InRam, Abstract!Locations
  <2>7. QED
    BY <1>1, <1>2, <1>taken, <2>3, <2>5, <2>6
       DEF Abstract!StoreDevice, Abstract!Takes, Location
<1>10. QED
  BY <1>8, <1>9

\* The invalidation of an sc or amo has taken place with its write.
LEMMA AtomicInvalidateShown ==
  ASSUME Strong, Strong', NEW h \in Harts, Invalidate(h), op[h].kind # "store"
  PROVE  Hidden
<1>1. TypeOK /\ pc[h] = "invalidate"
  BY DEF Strong, IInv, Invalidate
<1>2. /\ mem' = mem /\ op' = op /\ result' = result /\ pc' = [pc EXCEPT ![h] = "release"]
      /\ slot' = [g \in Harts |-> IF Overlaps(op[h], slot[g])
                                  THEN [slot[g] EXCEPT !.valid = FALSE] ELSE slot[g]]
  BY DEF Invalidate, Goto, locals
<1>3. \A g \in Harts : /\ pc[g] # "write" /\ (pc[g] = "invalidate" => g = h)
                       /\ pc'[g] \notin {"invalidate", "write"}
  BY <1>1, <1>2, Alone DEF Inside, TypeOK
<1>4. memDone' = memDone
  BY <1>2, <1>3, MemShownNow, MemShownNext DEF MemShown
<1>5. reservedDone' = [g \in Harts |-> SlotShown(slot'[g])]
  BY <1>3, SlotsShownNext
<1>6. reservedDone = [g \in Harts |-> IF slot[g].valid /\ ~Overlaps(op[h], slot[g])
                                      THEN Location(slot[g]) ELSE NoLocation]
  <2>1. \A k \in Harts :
          (\E g \in Harts : pc[g] = "invalidate" /\ op[g].kind # "store" /\ Overlaps(op[g], slot[k]))
            <=> Overlaps(op[h], slot[k])
    BY <1>1, <1>3
  <2>2. QED
    BY <2>1 DEF reservedDone, Location, NoLocation
<1>7. \A g \in Harts : SlotShown(slot'[g]) = IF slot[g].valid /\ ~Overlaps(op[h], slot[g])
                                             THEN Location(slot[g]) ELSE NoLocation
  BY <1>1, <1>2 DEF SlotShown, TypeOK, Overlaps
<1>8. askedDone' = askedDone
  <2>1. ~Pending(h) /\ ~Pending(h)'
    BY <1>1, <1>2 DEF Pending, Strong, ResultsFit, ResultFits
  <2>2. QED
    BY <2>1, AskedStays DEF Proceed
<1>9. QED
  BY <1>2, <1>4, <1>5, <1>6, <1>7, <1>8 DEF Hidden

\* The units of a plain store have been shown; its last step ends the instruction.
LEMMA WriteUnitShown ==
  ASSUME Strong, Strong', NEW h \in Harts, WriteUnit(h)
  PROVE  Hidden \/ Abstract!Finish(h)
<1>1. TypeOK /\ pc[h] = "write" /\ slot' = slot /\ op' = op
  BY DEF Strong, IInv, WriteUnit
<1>2. /\ \A g \in Harts : pc[g] \in {"write", "invalidate"} => g = h
      /\ pc'[h] \in {"write", "release"}
      /\ \A g \in Harts : g # h => pc'[g] = pc[g]
  BY <1>1, Alone DEF Inside, WriteUnit, Goto, TypeOK
<1>3. reservedDone' = reservedDone
  <2>1. \A g \in Harts : pc[g] # "invalidate" /\ pc'[g] # "invalidate"
    BY <1>1, <1>2
  <2>2. QED
    BY <1>1, <2>1, SlotsShown, SlotsShownNext
<1>4. memDone = [u \in Units |-> IF u \in Covers(op[h]) THEN op[h].value ELSE mem[u]]
  BY <1>1, MemShownNow DEF MemShown
<1>5. op[h].at \in Nat /\ op[h].width \in {1, 2} /\ LeftFits(h) /\ op[h].kind = "store"
  BY <1>1, OpTyped DEF Strong, Locals, OpFits
<1>asked. askedDone' = askedDone /\ askedDone[h] = NoOp
  <2>1. ~Pending(h) /\ ~Pending(h)'
    BY <1>1, <1>2, <1>5 DEF Pending
  <2>2. QED
    BY <2>1, AskedStays DEF Proceed, askedDone
<1>6. CASE left[h] = 0
  <2>1. mem' = mem /\ Returns(h, "done", <<>>) /\ pc'[h] = "release"
    BY <1>1, <1>6 DEF WriteUnit, Goto, TypeOK
  <2>2. memDone' = mem
    <3>1. \A g \in Harts : pc'[g] # "write"
      BY <1>2, <2>1
    <3>2. QED
      BY <2>1, <3>1, MemShownNext DEF MemShown
  <2>3. \A u \in Covers(op[h]) \cap Units : mem[u] = op[h].value
    <3>1. \A u \in Covers(op[h]) : u < op[h].at + op[h].width - left[h]
      BY <1>5, <1>6 DEF Covers
    <3>2. QED
      BY <1>1, <1>5, <3>1 DEF LeftFits
  <2>4. memDone = mem
    BY <1>1, <1>4, <2>3 DEF TypeOK
  <2>5. QED
    BY <1>3, <1>asked, <2>1, <2>2, <2>4
       DEF Abstract!Finish, Abstract!Returns, Returns, Abstract!NoRequest, NoOp
<1>7. CASE left[h] # 0
  <2> DEFINE w == op[h].at + op[h].width - left[h]
  <2>1. Store([u \in {w} |-> op[h].value]) /\ result' = result /\ pc' = pc
    BY <1>7 DEF WriteUnit
  <2>2. w \in Covers(op[h])
    BY <1>1, <1>5, <1>7 DEF LeftFits, Covers
  <2> HIDE DEF w
  <2>3. mem' = [u \in Units |-> IF u = w THEN op[h].value ELSE mem[u]]
    BY <2>1 DEF Store
  <2>4. memDone' = [u \in Units |-> IF u \in Covers(op[h]) THEN op[h].value ELSE mem'[u]]
    <3>1. pc'[h] = "write" /\ op'[h] = op[h]
      BY <1>1, <2>1
    <3>2. memDone' = [u \in Units |-> IF u \in Covers(op'[h]) THEN op'[h].value ELSE mem'[u]]
      BY <3>1, MemShownNext DEF MemShown
    <3>3. Covers(op'[h]) = Covers(op[h])
      BY <3>1
    <3>4. QED
      BY <3>1, <3>2, <3>3
  <2>5. memDone' = memDone
    BY <1>4, <2>2, <2>3, <2>4
  <2>6. QED
    BY <1>3, <1>asked, <2>1, <2>5 DEF Hidden
<1>8. QED
  BY <1>6, <1>7

\* Every step of a hart is a step of LrSc, or hidden.
LEMMA StepShown ==
  ASSUME Strong, Strong', NEW h \in Harts, Start(h) \/ Proceed(h)
  PROVE  Abstract!Next \/ Hidden
<1>1. TypeOK
  BY DEF Strong, IInv
<1>2. ASSUME pc[h] # "idle", InRam(op[h]),
             \/ Abstract!LoadReserved(h, Location(op[h]))
             \/ Abstract!StoreConditional(h, Location(op[h]))
             \/ Abstract!ReadModifyWrite(h, Location(op[h]))
             \/ Abstract!Store(h, Location(op[h]))
      PROVE  Abstract!Next
  <2>1. Location(op[h]) \in Abstract!Locations
    BY <1>2, LocationTyped
  <2>2. QED
    BY <1>2, <2>1 DEF Abstract!Next
<1>3. CASE Start(h)
  <2>1. PICK o \in Workload[h] :
          /\ Returns(h, TrapOf(o), <<>>)
          /\ TrapOf(o) = "none" => /\ pc' = [pc EXCEPT ![h] = IF o.kind = "amo" THEN "amoLoad" ELSE "cas"]
                                   /\ op' = [op EXCEPT ![h] = o]
          /\ TrapOf(o) # "none" => pc' = pc
    BY <1>3 DEF Start, Goto
  <2>2. pc[h] = "idle" /\ UNCHANGED <<mem, slot>>
    BY <1>3 DEF Start
  <2>3. pc'[h] \notin {"write", "invalidate"}
    BY <1>1, <2>1, <2>2 DEF TypeOK
  <2>4. memDone' = memDone /\ reservedDone' = reservedDone
    BY <1>3, <2>2, <2>3, ShownStays
  <2>5. TrapOf(o) \in {"none", "misaligned", "denied", "refused"}
    BY DEF TrapOf
  <2>6. Abstract!Returns(h, TrapOf(o), <<>>)
    BY <2>1 DEF Abstract!Returns, Returns
  <2>7. ~Pending(h) /\ askedDone[h] = Abstract!NoRequest
    BY <2>2 DEF Pending, askedDone, Abstract!NoRequest, NoOp
  <2>8. CASE TrapOf(o) = "none"
    <3>1. o \in Ops /\ Values = 0 .. Modulus - 1
      BY ReservationAssumption DEF ReservationAssumption, Values
    <3>2. /\ pc'[h] = (IF o.kind = "amo" THEN "amoLoad" ELSE "cas") /\ op'[h] = o
          /\ result'[h].kind = "none"
      <4>1. pc'[h] = (IF o.kind = "amo" THEN "amoLoad" ELSE "cas") /\ op'[h] = o
        BY <1>1, <2>1, <2>8 DEF TypeOK
      <4>2. Returns(h, "none", <<>>) /\ result = [g \in Harts |-> result[g]]
        BY <2>1, <2>8 DEF Strong, ResultsFit
      <4>3. QED
        BY <4>1, <4>2 DEF Returns
    <3>3. askedDone'[h] = o
      <4>1. Pending(h)'
        BY <3>2 DEF Pending
      <4>2. QED
        BY <3>2, <4>1 DEF askedDone
    <3>4. askedDone' = [askedDone EXCEPT ![h] = askedDone'[h]]
      <4>1. \A g \in Harts : g # h => askedDone'[g] = askedDone[g]
        BY <1>3, OthersAsked
      <4>2. QED
        BY <4>1 DEF askedDone
    <3>5. askedDone'[h] \in Abstract!Requests
      BY <3>1, <3>3 DEF Ops, Abstract!Requests
    <3>6. Abstract!Begin(h)
      BY <2>4, <2>6, <2>7, <2>8, <3>4, <3>5 DEF Abstract!Begin
    <3>7. QED
      BY <3>6 DEF Abstract!Next
  <2>9. CASE TrapOf(o) # "none"
    <3>1. ~Pending(h)'
      BY <2>1, <2>2, <2>9 DEF Pending
    <3>2. askedDone' = askedDone
      BY <1>3, <2>7, <3>1, AskedStays
    <3>3. Abstract!Trap(h)
      BY <2>4, <2>5, <2>6, <2>7, <2>9, <3>2 DEF Abstract!Trap
    <3>4. QED
      BY <3>3 DEF Abstract!Next
  <2>10. QED
    BY <2>8, <2>9
<1>4. CASE AmoLoad(h) \/ Wait(h) \/ Load(h) \/ Release(h) \/ ReleaseSc(h)
  <2>1. UNCHANGED <<mem, slot, result>> /\ pc[h] \notin {"write", "invalidate"}
    BY <1>4 DEF AmoLoad, Wait, Load, Release, ReleaseSc
  <2>2. pc'[h] \notin {"write", "invalidate"}
    BY <1>1, <1>4 DEF AmoLoad, Wait, Load, Release, ReleaseSc, Goto, TypeOK
  <2>3. askedDone' = askedDone
    <3>1. op' = op /\ pc[h] # "idle" /\ pc'[h] # "idle"
      BY <1>1, <1>4 DEF AmoLoad, Wait, Load, Release, ReleaseSc, Goto, TypeOK, locals
    <3>2. op[h].kind = "store" => ~AmoLoad(h) /\ ~Load(h)
      BY DEF AmoLoad, Load, Strong, Locals, OpFits
    <3>3. op[h].kind = "store" => (pc'[h] \in StoreWaits <=> pc[h] \in StoreWaits)
      BY <1>1, <1>4, <3>2 DEF Wait, Release, ReleaseSc, Goto, TypeOK, StoreWaits
    <3>4. QED
      BY <1>4, <2>1, <3>1, <3>3, AskedInside
  <2>4. QED
    BY <2>1, <2>2, <2>3, ShownStays DEF Hidden
<1>5. CASE Notify(h)
  <2>1. UNCHANGED <<mem, slot, result>> /\ pc[h] = "notify"
    BY <1>5 DEF Notify
  <2>2. pc'[h] \notin {"write", "invalidate"}
    BY <1>1, <1>5 DEF Notify, Goto, AfterRelease, TypeOK
  <2>3. askedDone' = askedDone
    <3>1. pc'[h] = AfterRelease(h)
      BY <1>1, <1>5 DEF Notify, Goto, TypeOK, Parked
    <3>2. CASE AfterRelease(h) = "cas"
      <4>1. op[h].kind = "amo" /\ op' = op
        BY <1>5, <3>2 DEF Notify, Forget, AfterRelease, locals
      <4>2. QED
        BY <1>5, <2>1, <3>1, <3>2, <4>1, AskedInside
    <3>3. CASE AfterRelease(h) = "idle"
      <4>1. op[h].kind \in {"lr", "sc", "amo", "store"}
        BY <2>1, OpTyped DEF Ops
      <4>2. ~Pending(h)
        BY <2>1, <3>3, <4>1 DEF Pending, AfterRelease, Strong, ResultsFit, ResultFits
      <4>3. ~Pending(h)'
        BY <3>1, <3>3 DEF Pending
      <4>4. QED
        BY <1>5, <4>2, <4>3, AskedStays
    <3>4. QED
      BY <3>2, <3>3 DEF AfterRelease
  <2>4. QED
    BY <2>1, <2>2, <2>3, ShownStays DEF Hidden
<1>6. CASE Acquire(h)
  <2>1. UNCHANGED <<mem, slot, result, op>> /\ pc[h] = "cas"
    BY <1>6 DEF Acquire, locals
  <2>2. op[h].kind \in {"lr", "sc", "amo", "store"}
    BY <2>1, OpTyped DEF Ops
  <2>3. pc'[h] # "write" /\ (pc'[h] = "invalidate" => op'[h].kind = "store")
    BY <1>1, <1>6, <2>1, <2>2 DEF Acquire, Goto, Body, TypeOK
  <2>4. askedDone' = askedDone
    <3>1. pc'[h] \in {"wait", "load", "take", "swap", "invalidate"}
          /\ (op[h].kind = "store" => pc'[h] \in {"wait", "invalidate"})
      BY <1>1, <1>6, <2>1, <2>2 DEF Acquire, Goto, Body, TypeOK
    <3>2. QED
      BY <1>6, <2>1, <3>1, AskedInside DEF StoreWaits
  <2>5. QED
    BY <2>1, <2>3, <2>4, ShownStays DEF Hidden
<1>7. CASE Arm(h)
  <2>1. pc[h] = "arm" /\ InRam(op[h])
    BY <1>7 DEF Arm, Strong, Locals, OpFits
  <2>2. QED
    BY <1>2, <1>7, <2>1, ArmShown
<1>8. CASE TakeReservation(h)
  <2>1. pc[h] = "take" /\ InRam(op[h])
    BY <1>8 DEF TakeReservation, Strong, Locals, OpFits
  <2>2. CASE Holds(h)
    <3>1. UNCHANGED <<mem, slot, result, op>> /\ pc'[h] = "scWrite"
      BY <1>1, <1>8, <2>2 DEF TakeReservation, Goto, TypeOK, locals
    <3>2. askedDone' = askedDone
      BY <1>8, <2>1, <3>1, AskedInside DEF Strong, Locals, OpFits, StoreWaits
    <3>3. QED
      BY <2>1, <3>1, <3>2, ShownStays DEF Hidden
  <2>3. CASE ~Holds(h)
    BY <1>2, <1>8, <2>1, <2>3, TakeFails
  <2>4. QED
    BY <2>2, <2>3
<1>9. CASE ScWrite(h)
  <2>1. pc[h] = "scWrite" /\ InRam(op[h])
    BY <1>9 DEF ScWrite, Strong, Locals, OpFits
  <2>2. QED
    BY <1>2, <1>9, <2>1, ScWriteShown
<1>10. CASE Swap(h)
  <2>1. pc[h] = "swap" /\ InRam(op[h])
    BY <1>10 DEF Swap, Strong, Locals, OpFits
  <2>2. CASE Read(op[h]) = old[h]
    BY <1>2, <1>10, <2>1, <2>2, SwapShown
  <2>3. CASE Read(op[h]) # old[h]
    <3>1. UNCHANGED <<mem, slot, result, op>> /\ pc'[h] = "release"
      BY <1>1, <1>10, <2>3 DEF Swap, Goto, TypeOK
    <3>2. askedDone' = askedDone
      BY <1>10, <2>1, <3>1, AskedInside DEF Strong, Locals, OpFits, StoreWaits
    <3>3. QED
      BY <2>1, <3>1, <3>2, ShownStays DEF Hidden
  <2>4. QED
    BY <2>2, <2>3
<1>11. CASE Invalidate(h)
  <2>1. pc[h] = "invalidate"
    BY <1>11 DEF Invalidate
  <2>2. QED
    BY <1>2, <1>11, <2>1, StoreShown, AtomicInvalidateShown DEF Abstract!Next
<1>12. CASE WriteUnit(h)
  BY <1>12, WriteUnitShown DEF Abstract!Next
<1>13. QED
  BY <1>3, <1>4, <1>5, <1>6, <1>7, <1>8, <1>9, <1>10, <1>11, <1>12 DEF Proceed

\* The monitor implements indivisible LR, SC, AMO and store instructions.
THEOREM MonitorRefinesLrSc == Spec => RefinesLrSc
<1>1. Init => Abstract!Init
  <2> SUFFICES ASSUME Init PROVE Abstract!Init
    OBVIOUS
  <2>1. Strong /\ \A h \in Harts : pc[h] = "idle" /\ ~slot[h].valid
    BY InitEstablishes DEF Init
  <2>2. memDone = mem
    BY <2>1, MemShownNow DEF MemShown
  <2>3. reservedDone = [g \in Harts |-> NoLocation]
    BY <2>1 DEF reservedDone, NoLocation
  <2>4. askedDone = [h \in Harts |-> NoOp]
    BY <2>1 DEF askedDone, Pending
  <2>5. QED
    BY <2>2, <2>3, <2>4
       DEF Init, NoResult, NoOp, Abstract!Init, Abstract!NoLocation, Abstract!NoRequest, NoLocation
<1>2. Strong /\ Strong' /\ [Next]_vars => [Abstract!Next]_(Abstract!vars)
  <2>1. Strong /\ Strong' /\ Next => Abstract!Next \/ UNCHANGED Abstract!vars
    BY StepShown DEF Next, Hidden, Abstract!vars
  <2>2. UNCHANGED vars => UNCHANGED Abstract!vars
    BY DEF vars, monitor, locals, Abstract!vars, memDone, reservedDone, askedDone, Pending,
           Covers, Overlaps
  <2>3. QED
    BY <2>1, <2>2
<1>3. QED
  BY <1>1, <1>2, StrongInvariant, PTL DEF Spec, RefinesLrSc, Abstract!Spec
=============================================================================
