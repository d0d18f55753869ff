-------------------------- MODULE PlicGatewayProofs -------------------------
(* The gateway's safety for any number of threads, any sources and           *)
(* priorities and any workload: IInv is inductive and implies the safety     *)
(* properties that the runs check.                                           *)
EXTENDS PlicGateway, TLAPS

\* What each kind of operation carries.
LEMMA OpFields ==
  ASSUME NEW o \in Ops
  PROVE  /\ o.kind \in {"input", "claim", "complete", "priority", "threshold", "enable"}
         /\ o.kind = "input" => o.source \in Sources /\ o.high \in BOOLEAN
         /\ o.kind = "claim" => o.context \in Contexts
         /\ o.kind = "complete" => o.context \in Contexts /\ o.source \in Sources
         /\ o.kind = "priority" => o.source \in Sources /\ o.value \in Priorities
         /\ o.kind = "threshold" => o.context \in Contexts /\ o.value \in Priorities
         /\ o.kind = "enable" => /\ o.context \in Contexts /\ o.byte \in EnableBytes
                                /\ o.bits \subseteq EnableByte(o.byte)
<1>1. CASE o \in InputOps
  BY <1>1 DEF InputOps
<1>2. CASE o \in ClaimOps
  BY <1>2 DEF ClaimOps
<1>3. CASE o \in CompleteOps
  BY <1>3 DEF CompleteOps
<1>4. CASE o \in PriorityOps
  BY <1>4 DEF PriorityOps
<1>5. CASE o \in ThresholdOps
  BY <1>5 DEF ThresholdOps
<1>6. CASE o \in EnableOps
  BY <1>6 DEF EnableOps, EnableByte
<1>7. QED
  BY <1>1, <1>2, <1>3, <1>4, <1>5, <1>6 DEF Ops, GuestOps

\* The contexts an operation refreshes.
LEMMA RefreshedContexts ==
  ASSUME NEW o \in Ops
  PROVE  /\ FirstContext(o) \in Contexts /\ LastContext(o) \in Contexts
         /\ o.kind \in {"enable", "threshold"} =>
              FirstContext(o) = o.context /\ LastContext(o) = o.context
         /\ o.kind \notin {"enable", "threshold"} =>
              FirstContext(o) = "machine" /\ LastContext(o) = "supervisor"
BY OpFields, GatewayAssumption DEF GatewayAssumption, FirstContext, LastContext

-----------------------------------------------------------------------------
LEMMA TypeStep ==
  ASSUME TypeOK, OpsTyped, HalfDone, NEW t \in Threads, Start(t) \/ Proceed(t)
  PROVE  TypeOK' /\ OpsTyped'
<1> USE DEF TypeOK, OpsTyped, Goto, Labels, config, local
<1>1. CASE Start(t)
  BY <1>1, WorkloadAssumption DEF Start, WorkloadAssumption
<1>2. CASE Acquire(t)
  BY <1>2 DEF Acquire
<1>3. CASE Wait(t)
  BY <1>3 DEF Wait
<1>4. CASE First(t)
  <2>1. op[t] \in Ops
    BY <1>4 DEF First, FirstInput, FirstClaim, FirstComplete, StoreRegister
  <2>2. CASE FirstInput(t)
    BY <2>1, <2>2, OpFields DEF FirstInput
  <2>3. CASE FirstClaim(t)
    BY <2>1, <2>3, OpFields, RefreshedContexts DEF FirstClaim, GoRefresh, IsBest, Eligible
  <2>4. CASE FirstComplete(t)
    BY <2>1, <2>4, OpFields DEF FirstComplete
  <2>5. CASE StoreRegister(t)
    BY <2>1, <2>5, OpFields, RefreshedContexts DEF StoreRegister, GoRefresh, EnableByte
  <2>6. QED
    BY <1>4, <2>2, <2>3, <2>4, <2>5 DEF First
<1>5. CASE Second(t)
  <2>1. op[t] \in Ops
    BY <1>5 DEF Second, SecondInput, SecondClaim, SecondComplete
  <2>2. CASE SecondInput(t)
    BY <2>1, <2>2, OpFields, RefreshedContexts DEF SecondInput, GoRefresh
  <2>3. CASE SecondClaim(t)
    <3>1. picked[t] \in Sources
      BY <2>3 DEF HalfDone, SecondClaim
    <3>2. QED
      BY <2>1, <2>3, <3>1, OpFields, RefreshedContexts DEF SecondClaim, GoRefresh
  <2>4. CASE SecondComplete(t)
    BY <2>1, <2>4, OpFields, RefreshedContexts DEF SecondComplete, GoRefresh
  <2>5. QED
    BY <1>5, <2>2, <2>3, <2>4 DEF Second
<1>6. CASE Select(t)
  BY <1>6 DEF Select
<1>7. CASE Drive(t)
  BY <1>7 DEF Drive
<1>8. CASE Publish(t)
  BY <1>8, RefreshedContexts DEF Publish
<1>9. CASE Release(t)
  BY <1>9 DEF Release
<1>10. CASE Notify(t)
  BY <1>10, GatewayAssumption DEF Notify, Parked, GatewayAssumption
<1>11. QED
  BY <1>1, <1>2, <1>3, <1>4, <1>5, <1>6, <1>7, <1>8, <1>9, <1>10 DEF Proceed

LEMMA MutexStep ==
  ASSUME TypeOK, MutualExclusion, NEW t \in Threads, Start(t) \/ Proceed(t)
  PROVE  MutualExclusion'
<1> USE DEF TypeOK, MutualExclusion, InCritical, Goto, GoRefresh
<1>1. CASE Start(t)
  BY <1>1 DEF Start
<1>2. CASE Acquire(t)
  BY <1>2 DEF Acquire
<1>3. CASE Wait(t)
  BY <1>3 DEF Wait
<1>4. CASE First(t)
  BY <1>4 DEF First, FirstInput, FirstClaim, FirstComplete, StoreRegister
<1>5. CASE Second(t)
  BY <1>5 DEF Second, SecondInput, SecondClaim, SecondComplete
<1>6. CASE Select(t) \/ Drive(t) \/ Publish(t)
  BY <1>6 DEF Select, Drive, Publish
<1>7. CASE Release(t)
  BY <1>7 DEF Release
<1>8. CASE Notify(t)
  BY <1>8 DEF Notify, Parked
<1>9. QED
  BY <1>1, <1>2, <1>3, <1>4, <1>5, <1>6, <1>7, <1>8 DEF Proceed

\* While t is inside, nobody else is: the others are neither half done nor stale.
LEMMA Alone ==
  ASSUME MutualExclusion, NEW t \in Threads, InCritical(t), NEW u \in Threads, u # t
  PROVE  ~InCritical(u)
BY DEF MutualExclusion

LEMMA ServiceStep ==
  ASSUME IInv, NEW t \in Threads, Start(t) \/ Proceed(t)
  PROVE  ServiceExclusive'
<1> USE GatewayAssumption DEF IInv, TypeOK, ServiceExclusive, InService, GatewayAssumption
<1>1. CASE pc[t] \notin {"first", "second"}
  BY <1>1 DEF Proceed, First, Second, Start, Acquire, Wait, FirstInput, FirstClaim, FirstComplete,
              StoreRegister, SecondInput, SecondClaim, SecondComplete, Select, Drive, Publish,
              Release, Notify
<1>2. CASE First(t)
  BY <1>2, OpFields DEF First, FirstInput, FirstClaim, FirstComplete, StoreRegister
<1>3. CASE Second(t)
  <2>1. CASE SecondInput(t)
    BY <2>1 DEF SecondInput
  <2>2. CASE SecondClaim(t)
    BY <2>2 DEF SecondClaim, HalfDone
  <2>3. CASE SecondComplete(t)
    BY <2>3 DEF SecondComplete, HalfDone
  <2>4. QED
    BY <1>3, <2>1, <2>2, <2>3 DEF Second
<1>4. QED
  BY <1>1, <1>2, <1>3 DEF Proceed, Start, Acquire, Wait, Select, Drive, Publish, Release, Notify

\* Steps that touch neither the input, pending and claimed bits nor an
\* operation past its first write.
LEMMA PendingFrame ==
  ASSUME IInv, NEW t \in Threads,
         UNCHANGED <<inputLevel, pending, claimed>>,
         pc[t] # "second",
         \A u \in Threads : pc'[u] = "second" =>
           pc[u] = "second" /\ op'[u] = op[u] /\ picked'[u] = picked[u],
         \A u \in Threads : pc[u] = "second" => pc'[u] = "second"
  PROVE  HalfDone' /\ PendingExact'
<1>1. InService' = InService
  BY DEF InService
<1>2. HalfDone'
  BY <1>1 DEF IInv, HalfDone
<1>3. PendingExact'
  BY <1>1 DEF IInv, PendingExact
<1>4. QED
  BY <1>2, <1>3

LEMMA PendingStep ==
  ASSUME IInv, NEW t \in Threads, Start(t) \/ Proceed(t)
  PROVE  HalfDone' /\ PendingExact'
<1> USE DEF Goto, GoRefresh, config, local
<1>1. TypeOK /\ MutualExclusion /\ OpsTyped /\ HalfDone /\ PendingExact /\ ServiceExclusive
  BY DEF IInv
<1>2. CASE Start(t)
  BY <1>1, <1>2, PendingFrame DEF Start, TypeOK
<1>3. CASE Acquire(t) \/ Wait(t)
  BY <1>1, <1>3, PendingFrame DEF Acquire, Wait, TypeOK
<1>4. CASE First(t)
  <2>1. \A u \in Threads : u # t => pc[u] # "second"
    BY <1>4, Alone, <1>1 DEF InCritical, First, FirstInput, FirstClaim, FirstComplete, StoreRegister
  <2>2. pending = inputLevel \ InService /\ op[t] \in Ops
    BY <1>1, <1>4, <2>1 DEF PendingExact, OpsTyped, First, FirstInput, FirstClaim, FirstComplete,
                            StoreRegister
  <2>3. CASE FirstInput(t)
    <3>1. InService' = InService /\ op' = op /\ pending' = pending
      BY <2>3 DEF FirstInput, InService
    <3>2. pc' = [pc EXCEPT ![t] = "second"]
      BY <2>3 DEF FirstInput
    <3>3. /\ op[t].high <=> op[t].source \in inputLevel'
          /\ inputLevel' \ {op[t].source} = inputLevel \ {op[t].source}
      BY <2>2, <2>3, OpFields DEF FirstInput
    <3>4. QED
      BY <1>1, <2>1, <2>2, <2>3, <3>1, <3>2, <3>3 DEF FirstInput, HalfDone, PendingExact, TypeOK
  <2>4. CASE FirstClaim(t)
    <3>1. InService' = InService /\ op' = op /\ inputLevel' = inputLevel
      BY <2>4 DEF FirstClaim, InService
    <3>2. CASE Eligible(op[t].context) = {}
      BY <1>1, <2>1, <2>2, <2>4, <3>1, <3>2 DEF FirstClaim, HalfDone, PendingExact, TypeOK, IsBest
    <3>3. CASE Eligible(op[t].context) # {}
      <4>1. PICK s \in Eligible(op[t].context) :
              /\ pending' = pending \ {s}
              /\ picked' = [picked EXCEPT ![t] = s]
              /\ pc' = [pc EXCEPT ![t] = "second"]
        BY <2>4, <3>3 DEF FirstClaim
      <4>2. s \in pending /\ op[t].kind = "claim"
        BY <2>4 DEF Eligible, FirstClaim
      <4>3. QED
        BY <1>1, <2>1, <2>2, <3>1, <4>1, <4>2 DEF HalfDone, PendingExact, TypeOK
    <3>4. QED
      BY <3>2, <3>3
  <2>5. CASE FirstComplete(t)
    <3>1. op' = op /\ inputLevel' = inputLevel /\ pending' = pending
      BY <2>5 DEF FirstComplete
    <3>2. op[t].kind = "complete" /\ op[t].context \in Contexts
      BY <2>2, <2>5, OpFields DEF FirstComplete
    <3>3. CASE op[t].source \in claimed[op[t].context]
      <4>1. InService' = InService \ {op[t].source}
        BY <1>1, <2>5, <3>2, <3>3, GatewayAssumption
           DEF FirstComplete, InService, ServiceExclusive, TypeOK, GatewayAssumption
      <4>2. op[t].source \in InService
        BY <3>2, <3>3, GatewayAssumption DEF InService, GatewayAssumption
      <4>3. pc' = [pc EXCEPT ![t] = "second"]
        BY <2>5, <3>3 DEF FirstComplete
      <4>4. QED
        BY <1>1, <2>1, <2>2, <3>1, <3>2, <4>1, <4>2, <4>3 DEF HalfDone, PendingExact, TypeOK
    <3>4. CASE op[t].source \notin claimed[op[t].context]
      <4>1. claimed' = claimed
        BY <1>1, <2>5, <3>2, <3>4 DEF FirstComplete, TypeOK
      <4>2. QED
        BY <1>1, <2>1, <2>5, <3>1, <3>4, <4>1, PendingFrame DEF FirstComplete, TypeOK
    <3>5. QED
      BY <3>3, <3>4
  <2>6. CASE StoreRegister(t)
    BY <1>1, <2>6, PendingFrame DEF StoreRegister, TypeOK
  <2>7. QED
    BY <1>4, <2>3, <2>4, <2>5, <2>6 DEF First
<1>5. CASE Second(t)
  <2>1. \A u \in Threads : u # t => pc[u] # "second"
    BY <1>5, Alone, <1>1 DEF InCritical, Second, SecondInput, SecondClaim, SecondComplete
  <2>2. pc[t] = "second" /\ pc' = [pc EXCEPT ![t] = "select"] /\ op[t] \in Ops
    BY <1>1, <1>5 DEF OpsTyped, Second, SecondInput, SecondClaim, SecondComplete
  <2>3. HalfDone'
    BY <1>1, <2>1, <2>2 DEF HalfDone, TypeOK
  <2>4. pending' = inputLevel' \ InService'
    <3>1. CASE SecondInput(t)
      <4>1. op[t].kind = "input" /\ InService' = InService /\ inputLevel' = inputLevel
        BY <3>1 DEF SecondInput, InService
      <4>2. /\ op[t].high <=> op[t].source \in inputLevel
            /\ pending \ {op[t].source} = (inputLevel \ InService) \ {op[t].source}
        BY <1>1, <2>2, <4>1 DEF HalfDone
      <4>3. CASE op[t].high
        <5>1. pending' = pending \cup ({op[t].source} \ InService)
          BY <3>1, <4>3 DEF SecondInput
        <5>2. op[t].source \in InService => op[t].source \notin pending
          BY <1>1 DEF ServiceExclusive
        <5>3. QED
          BY <4>1, <4>2, <4>3, <5>1, <5>2
      <4>4. CASE ~op[t].high
        <5>1. pending' = pending \ {op[t].source}
          BY <3>1, <4>4 DEF SecondInput
        <5>2. QED
          BY <4>1, <4>2, <4>4, <5>1
      <4>5. QED
        BY <4>3, <4>4
    <3>2. CASE SecondClaim(t)
      <4>1. op[t].kind = "claim" /\ op[t].context \in Contexts
        BY <2>2, <3>2, OpFields DEF SecondClaim
      <4>2. InService' = InService \cup {picked[t]}
        BY <1>1, <3>2, <4>1, GatewayAssumption DEF SecondClaim, InService, TypeOK, GatewayAssumption
      <4>3. QED
        BY <1>1, <2>2, <3>2, <4>1, <4>2 DEF SecondClaim, HalfDone
    <3>3. CASE SecondComplete(t)
      BY <1>1, <2>2, <3>3 DEF SecondComplete, HalfDone, InService
    <3>4. QED
      BY <1>5, <3>1, <3>2, <3>3 DEF Second
  <2>5. QED
    BY <2>3, <2>4 DEF PendingExact
<1>6. CASE Select(t) \/ Drive(t) \/ Publish(t)
  BY <1>1, <1>6, PendingFrame DEF Select, Drive, Publish, TypeOK
<1>7. CASE Release(t)
  BY <1>1, <1>7, PendingFrame DEF Release, TypeOK
<1>8. CASE Notify(t)
  <2>1. \A u \in Threads : u # t => op'[u] = op[u] /\ picked'[u] = picked[u]
    BY <1>1, <1>8 DEF Notify, TypeOK
  <2>2. \A u \in Threads : (pc'[u] = "second" <=> pc[u] = "second") /\ pc'[t] # "second"
    BY <1>1, <1>8 DEF Notify, TypeOK, Parked
  <2>3. QED
    BY <1>8, <2>1, <2>2, PendingFrame DEF Notify
<1>9. QED
  BY <1>2, <1>3, <1>4, <1>5, <1>6, <1>7, <1>8 DEF Proceed

\* Outside the critical section a thread changes only itself and the waiters.
LEMMA OutsideFrame ==
  ASSUME TypeOK, NEW t \in Threads, Start(t) \/ Acquire(t) \/ Wait(t) \/ Notify(t)
  PROVE  /\ UNCHANGED <<inputLevel, pending, claimed, priority, enable, threshold, wire, level>>
         /\ \A u \in Threads : pc'[u] \in {"second", "select", "drive", "publish"} =>
              /\ pc'[u] = pc[u] /\ op'[u] = op[u]
              /\ cursor'[u] = cursor[u] /\ found'[u] = found[u]
         /\ \A u \in Threads : pc[u] \in {"second", "select", "drive", "publish"} => pc'[u] = pc[u]
BY DEF Start, Acquire, Wait, Notify, Parked, TypeOK, Goto, config, local

\* Inside it, it changes only its own control point.
LEMMA InsideFrame ==
  ASSUME TypeOK, MutualExclusion, NEW t \in Threads, InCritical(t),
         First(t) \/ Second(t) \/ Select(t) \/ Drive(t) \/ Publish(t) \/ Release(t)
  PROVE  \A u \in Threads : u # t =>
           pc[u] \notin {"second", "select", "drive", "publish"} /\ pc'[u] = pc[u]
<1>1. \A u \in Threads : u # t => pc[u] \notin {"second", "select", "drive", "publish"}
  BY Alone DEF InCritical
<1>2. \A u \in Threads : u # t => pc'[u] = pc[u]
  BY DEF First, Second, FirstInput, FirstClaim, FirstComplete, StoreRegister, SecondInput,
         SecondClaim, SecondComplete, Select, Drive, Publish, Release, Goto, GoRefresh, TypeOK
<1>3. QED
  BY <1>1, <1>2

LEMMA RefreshStep ==
  ASSUME IInv, NEW t \in Threads, Start(t) \/ Proceed(t)
  PROVE  RefreshCurrent'
<1> USE DEF Goto, GoRefresh, config, local
<1>1. TypeOK /\ MutualExclusion /\ OpsTyped /\ RefreshCurrent
  BY DEF IInv
<1>2. CASE Start(t) \/ Acquire(t) \/ Wait(t) \/ Notify(t)
  BY <1>1, <1>2, OutsideFrame
     DEF RefreshCurrent, Eligible, FirstContext, LastContext
<1>3. CASE First(t) \/ Second(t)
  <2>1. InCritical(t) /\ op[t] \in Ops /\ op' = op
    BY <1>1, <1>3 DEF OpsTyped, InCritical, First, Second, FirstInput, FirstClaim, FirstComplete,
                      StoreRegister, SecondInput, SecondClaim, SecondComplete
  <2>2. pc'[t] = "select" => cursor'[t] = FirstContext(op[t])
    BY <1>1, <1>3 DEF First, Second, FirstInput, FirstClaim, FirstComplete, StoreRegister,
                      SecondInput, SecondClaim, SecondComplete, TypeOK
  <2>3. pc'[t] \notin {"drive", "publish"}
    BY <1>1, <1>3 DEF First, Second, FirstInput, FirstClaim, FirstComplete, StoreRegister,
                      SecondInput, SecondClaim, SecondComplete, TypeOK
  <2>4. QED
    BY <1>1, <1>3, <2>1, <2>2, <2>3, InsideFrame DEF RefreshCurrent
<1>4. CASE Select(t)
  <2>1. InCritical(t)
    BY <1>4 DEF InCritical, Select
  <2>2. /\ pc'[t] = "drive" /\ cursor' = cursor /\ op' = op
        /\ (found[t] = (Eligible(cursor[t]) # {}))'
    BY <1>1, <1>4 DEF Select, TypeOK, Eligible
  <2>3. cursor[t] \in {FirstContext(op[t]), LastContext(op[t])}
    BY <1>1, <1>4 DEF RefreshCurrent, Select
  <2>4. \A u \in Threads : u # t => pc'[u] \notin {"select", "drive", "publish"}
    BY <1>1, <1>4, <2>1, InsideFrame
  <2>5. QED
    BY <2>2, <2>3, <2>4 DEF RefreshCurrent, FirstContext, LastContext
<1>5. CASE Drive(t)
  <2>1. InCritical(t) /\ cursor[t] \in Contexts
    BY <1>1, <1>5 DEF InCritical, Drive, TypeOK
  <2>2. /\ pc'[t] = "publish" /\ cursor' = cursor /\ op' = op /\ found' = found
        /\ Eligible(cursor[t])' = Eligible(cursor[t])
        /\ wire'[cursor[t]] = found[t]
    BY <1>1, <1>5, <2>1 DEF Drive, TypeOK, Eligible
  <2>3. QED
    BY <1>1, <1>5, <2>1, <2>2, InsideFrame DEF RefreshCurrent, Drive
<1>6. CASE Publish(t)
  <2>1. InCritical(t) /\ op' = op /\ pc'[t] \notin {"drive", "publish"}
    BY <1>1, <1>6 DEF InCritical, Publish, TypeOK
  <2>2. pc'[t] = "select" => cursor'[t] = LastContext(op[t])
    BY <1>1, <1>6 DEF Publish, TypeOK
  <2>3. QED
    BY <1>1, <1>6, <2>1, <2>2, InsideFrame DEF RefreshCurrent
<1>7. CASE Release(t)
  <2>1. InCritical(t) /\ pc'[t] = "notify"
    BY <1>1, <1>7 DEF InCritical, Release, TypeOK
  <2>2. QED
    BY <1>1, <1>7, <2>1, InsideFrame DEF RefreshCurrent
<1>8. QED
  BY <1>2, <1>3, <1>4, <1>5, <1>6, <1>7 DEF Proceed

LEMMA SettledStep ==
  ASSUME IInv, NEW t \in Threads, Start(t) \/ Proceed(t)
  PROVE  StaleOrSettled'
<1> USE DEF Goto, GoRefresh, config, local
<1>1. TypeOK /\ MutualExclusion /\ OpsTyped /\ StaleOrSettled /\ RefreshCurrent
  BY DEF IInv
<1>2. CASE Start(t) \/ Acquire(t) \/ Wait(t) \/ Notify(t)
  <2>1. ASSUME NEW u \in Threads PROVE Stale(u)' = Stale(u)
    <3>1. CASE pc[u] \in {"second", "select", "drive", "publish"}
      <4>1. pc'[u] = pc[u] /\ op'[u] = op[u] /\ cursor'[u] = cursor[u]
        BY <1>1, <1>2, <3>1, OutsideFrame
      <4>2. QED
        BY <4>1 DEF Stale, LastContext
    <3>2. CASE pc[u] \notin {"second", "select", "drive", "publish"}
      <4>1. pc'[u] \notin {"second", "select", "drive", "publish"}
        BY <1>1, <1>2, <3>2, OutsideFrame
      <4>2. QED
        BY <3>2, <4>1 DEF Stale
    <3>3. QED
      BY <3>1, <3>2
  <2>2. \A c \in Contexts : Settled(c)' = Settled(c)
    BY <1>1, <1>2, OutsideFrame DEF Settled, Eligible
  <2>3. QED
    BY <1>1, <2>1, <2>2 DEF StaleOrSettled
<1>3. CASE First(t) \/ Second(t) \/ Select(t) \/ Drive(t) \/ Publish(t) \/ Release(t)
  <2>1. InCritical(t) /\ op[t] \in Ops /\ op' = op
    BY <1>1, <1>3 DEF OpsTyped, InCritical, First, Second, FirstInput, FirstClaim, FirstComplete,
                      StoreRegister, SecondInput, SecondClaim, SecondComplete, Select, Drive,
                      Publish, Release
  <2>2. \A u \in Threads : u # t => Stale(u) = {} /\ Stale(u)' = {}
    BY <1>1, <1>3, <2>1, InsideFrame DEF Stale
  <2>3. SUFFICES ASSUME NEW c \in Contexts, c \notin Stale(t)'
                 PROVE  Settled(c)'
    BY DEF StaleOrSettled
  <2>4. c \notin Stale(t) => Settled(c)
    BY <1>1, <2>2 DEF StaleOrSettled
  <2>5. Contexts = {"machine", "supervisor"}
    BY GatewayAssumption DEF GatewayAssumption
  <2>6. CASE First(t)
    <3>1. pc[t] = "first" /\ Stale(t) = {}
      BY <2>6 DEF First, FirstInput, FirstClaim, FirstComplete, StoreRegister, Stale
    <3>2. CASE FirstInput(t)
      BY <1>1, <2>3, <3>2 DEF FirstInput, Stale, TypeOK
    <3>3. CASE FirstClaim(t)
      <4>1. \/ pc'[t] = "second"
            \/ pc'[t] = "select" /\ cursor'[t] = "machine" /\ LastContext(op[t]) = "supervisor"
        BY <1>1, <2>1, <3>3, RefreshedContexts DEF FirstClaim, TypeOK
      <4>2. Stale(t)' = Contexts
        BY <2>1, <2>5, <4>1 DEF Stale, LastContext
      <4>3. QED
        BY <2>3, <4>2
    <3>4. CASE FirstComplete(t)
      <4>1. pc'[t] # "second"
        BY <2>3 DEF Stale
      <4>2. UNCHANGED <<pending, enable, priority, threshold, wire, level>>
        BY <3>4 DEF FirstComplete
      <4>3. Settled(c)' = Settled(c)
        BY <4>2 DEF Settled, Eligible
      <4>4. QED
        BY <2>4, <3>1, <4>3
    <3>5. CASE StoreRegister(t)
      <4>1. /\ pc'[t] = "select" /\ cursor'[t] = FirstContext(op[t])
            /\ UNCHANGED <<pending, wire, level>>
        BY <1>1, <3>5 DEF StoreRegister, TypeOK
      <4>2. Stale(t)' = {FirstContext(op[t]), LastContext(op[t])}
        BY <2>1, <4>1 DEF Stale, LastContext
      <4>3. op[t].kind \in {"enable", "threshold"} /\ c # op[t].context
        BY <2>1, <2>3, <2>5, <4>2, RefreshedContexts
      <4>4. priority' = priority /\ enable'[c] = enable[c] /\ threshold'[c] = threshold[c]
        BY <1>1, <3>5, <4>3 DEF StoreRegister, TypeOK
      <4>5. Settled(c)' = Settled(c)
        BY <4>1, <4>4 DEF Settled, Eligible
      <4>6. QED
        BY <2>4, <3>1, <4>5
    <3>6. QED
      BY <2>6, <3>2, <3>3, <3>4, <3>5 DEF First
  <2>7. CASE Second(t)
    <3>1. /\ pc'[t] = "select" /\ cursor'[t] = FirstContext(op[t])
          /\ op[t].kind \in {"input", "claim", "complete"}
      BY <1>1, <2>7 DEF Second, SecondInput, SecondClaim, SecondComplete, TypeOK
    <3>2. Stale(t)' = {FirstContext(op[t]), LastContext(op[t])}
      BY <2>1, <3>1 DEF Stale, LastContext
    <3>3. QED
      BY <2>1, <2>3, <2>5, <3>1, <3>2, RefreshedContexts
  <2>8. CASE Select(t) \/ Release(t)
    <3>1. UNCHANGED <<pending, enable, priority, threshold, wire, level>>
      BY <2>8 DEF Select, Release
    <3>2. Settled(c)' = Settled(c)
      BY <3>1 DEF Settled, Eligible
    <3>3. Stale(t)' = Stale(t)
      BY <1>1, <2>1, <2>8 DEF Select, Release, Stale, LastContext, TypeOK
    <3>4. QED
      BY <2>3, <2>4, <3>2, <3>3
  <2>9. CASE Drive(t)
    <3>1. /\ pc[t] = "drive" /\ pc'[t] = "publish" /\ cursor' = cursor
          /\ wire' = [wire EXCEPT ![cursor[t]] = found[t]]
          /\ UNCHANGED <<pending, enable, priority, threshold, level>>
      BY <1>1, <2>9 DEF Drive, TypeOK
    <3>2. Stale(t)' = Stale(t) /\ c # cursor[t]
      BY <2>1, <2>3, <3>1 DEF Stale, LastContext
    <3>3. wire'[c] = wire[c] /\ Eligible(c)' = Eligible(c)
      BY <1>1, <3>1, <3>2 DEF TypeOK, Eligible
    <3>4. QED
      BY <2>3, <2>4, <3>1, <3>2, <3>3 DEF Settled
  <2>10. CASE Publish(t)
    <3>1. /\ pc[t] = "publish" /\ cursor[t] \in Contexts
          /\ level' = IF found[t] THEN level \cup {cursor[t]} ELSE level \ {cursor[t]}
          /\ UNCHANGED <<pending, enable, priority, threshold, wire>>
      BY <1>1, <2>10 DEF Publish, TypeOK
    <3>2. Eligible(c)' = Eligible(c)
      BY <3>1 DEF Eligible
    <3>3. CASE c = cursor[t]
      <4>1. found[t] = (Eligible(c) # {}) /\ wire[c] = found[t]
        BY <1>1, <3>1, <3>3 DEF RefreshCurrent
      <4>2. (c \in level') = found[t]
        BY <1>1, <3>1, <3>3 DEF TypeOK
      <4>3. QED
        BY <3>1, <3>2, <4>1, <4>2 DEF Settled
    <3>4. CASE c # cursor[t]
      <4>1. c # LastContext(op[t])
        <5>1. CASE cursor[t] = LastContext(op[t])
          BY <3>4, <5>1
        <5>2. CASE cursor[t] # LastContext(op[t])
          <6>1. pc'[t] = "select" /\ cursor'[t] = LastContext(op[t])
            BY <1>1, <2>10, <5>2 DEF Publish, TypeOK
          <6>2. QED
            BY <2>3, <6>1 DEF Stale
        <5>3. QED
          BY <5>1, <5>2
      <4>2. Settled(c)
        BY <2>4, <3>1, <3>4, <4>1 DEF Stale
      <4>3. c \in level' <=> c \in level
        BY <3>1, <3>4
      <4>4. QED
        BY <3>1, <3>2, <4>2, <4>3 DEF Settled
    <3>5. QED
      BY <3>3, <3>4
  <2>11. QED
    BY <1>3, <2>6, <2>7, <2>8, <2>9, <2>10
<1>4. QED
  BY <1>2, <1>3 DEF Proceed

-----------------------------------------------------------------------------
LEMMA InitEstablishes == Init => IInv
<1> SUFFICES ASSUME Init PROVE IInv
  OBVIOUS
<1> USE GatewayAssumption DEF Init, GatewayAssumption
<1>1. TypeOK
  BY DEF TypeOK, Labels
<1>2. MutualExclusion
  BY DEF MutualExclusion, InCritical
<1>3. OpsTyped /\ HalfDone /\ RefreshCurrent
  BY DEF OpsTyped, HalfDone, RefreshCurrent
<1>4. PendingExact /\ ServiceExclusive
  BY DEF PendingExact, ServiceExclusive, InService
<1>5. StaleOrSettled
  <2>1. \A c \in Contexts : Eligible(c) = {} /\ wire[c] = FALSE /\ c \notin level
    BY DEF Eligible
  <2>2. ASSUME NEW c \in Contexts PROVE Settled(c)
    <3>1. (Eligible(c) # {}) = FALSE /\ (c \in level) = FALSE
      BY <2>1
    <3>2. QED
      BY <2>1, <3>1 DEF Settled
  <2>3. QED
    BY <2>2 DEF StaleOrSettled
<1>6. QED
  BY <1>1, <1>2, <1>3, <1>4, <1>5 DEF IInv

LEMMA StepKeeps == IInv /\ [Next]_vars => IInv'
<1>1. ASSUME IInv, NEW t \in Threads, Start(t) \/ Proceed(t)
      PROVE  IInv'
  <2>1. TypeOK' /\ OpsTyped'
    BY <1>1, TypeStep DEF IInv
  <2>2. MutualExclusion'
    BY <1>1, MutexStep DEF IInv
  <2>3. HalfDone' /\ PendingExact'
    BY <1>1, PendingStep
  <2>4. ServiceExclusive'
    BY <1>1, ServiceStep
  <2>5. StaleOrSettled' /\ RefreshCurrent'
    BY <1>1, SettledStep, RefreshStep
  <2>6. QED
    BY <2>1, <2>2, <2>3, <2>4, <2>5 DEF IInv
<1>2. ASSUME IInv, UNCHANGED vars PROVE IInv'
  <2> USE <1>2 DEF IInv, vars, config, local, InService, Eligible
  <2>1. TypeOK' /\ OpsTyped' /\ MutualExclusion'
    BY DEF TypeOK, OpsTyped, MutualExclusion, InCritical
  <2>2. HalfDone' /\ PendingExact' /\ ServiceExclusive'
    BY DEF HalfDone, PendingExact, ServiceExclusive
  <2>3. RefreshCurrent'
    BY DEF RefreshCurrent, FirstContext, LastContext
  <2>4. StaleOrSettled'
    <3>1. \A u \in Threads : Stale(u)' = Stale(u)
      BY DEF Stale, LastContext
    <3>2. \A c \in Contexts : Settled(c)' = Settled(c)
      BY DEF Settled
    <3>3. QED
      BY <3>1, <3>2 DEF StaleOrSettled
  <2>5. QED
    BY <2>1, <2>2, <2>3, <2>4
<1>3. QED
  BY <1>1, <1>2 DEF Next

THEOREM InductiveInvariant == Spec => []IInv
BY InitEstablishes, StepKeeps, PTL DEF Spec

\* Types of the whole gateway state, at every step of every operation.
THEOREM TypeCorrect == Spec => []TypeOK
<1>1. IInv => TypeOK
  BY DEF IInv
<1>2. QED
  BY <1>1, InductiveInvariant, PTL

\* The lock word admits one thread at a time between acquire and release.
THEOREM GatewayMutualExclusion == Spec => []MutualExclusion
<1>1. IInv => MutualExclusion
  BY DEF IInv
<1>2. QED
  BY <1>1, InductiveInvariant, PTL

\* A source is never in service twice, nor pending while in service.
THEOREM ClaimsExclusive == Spec => []ServiceExclusive
<1>1. IInv => ServiceExclusive
  BY DEF IInv
<1>2. QED
  BY <1>1, InductiveInvariant, PTL

\* Outside the critical section no interrupt is lost or invented.
THEOREM PendingIsExact == Spec => []GatewayExact
<1>1. IInv => GatewayExact
  BY DEF IInv, GatewayExact, PendingExact, MutualExclusion, InCritical, TypeOK
<1>2. QED
  BY <1>1, InductiveInvariant, PTL

\* A source leaves service only by a completion that names it, from the context
\* that claimed it.
THEOREM OwnerReleases == Spec => ReleasedByOwner
<1> DEFINE Released ==
      \A c \in Contexts : \A s \in claimed[c] \ claimed'[c] :
        \E t \in Threads : /\ InCritical(t)
                           /\ op[t] = [kind |-> "complete", context |-> c, source |-> s]
<1>1. ASSUME IInv, NEW t \in Threads, Start(t) \/ Proceed(t) PROVE Released
  <2> USE <1>1 DEF IInv, TypeOK
  <2>1. CASE FirstComplete(t)
    <3>1. op[t] \in CompleteOps /\ InCritical(t)
      BY <2>1 DEF FirstComplete, OpsTyped, Ops, InputOps, GuestOps, ClaimOps, CompleteOps,
                  PriorityOps, ThresholdOps, EnableOps, InCritical
    <3>2. \A c \in Contexts : \A s \in claimed[c] \ claimed'[c] :
            c = op[t].context /\ s = op[t].source
      BY <2>1 DEF FirstComplete
    <3>3. \A c \in Contexts : \A s \in claimed[c] \ claimed'[c] :
            op[t] = [kind |-> "complete", context |-> c, source |-> s]
      BY <3>1, <3>2 DEF CompleteOps
    <3>4. QED
      BY <3>1, <3>3
  <2>2. CASE SecondClaim(t)
    <3>1. \A c \in Contexts : claimed[c] \subseteq claimed'[c]
      BY <2>2 DEF SecondClaim
    <3>2. QED
      BY <3>1
  <2>3. CASE claimed' = claimed
    BY <2>3
  <2>4. QED
    BY <1>1, <2>1, <2>2, <2>3
       DEF Start, Proceed, Acquire, Wait, First, FirstInput, FirstClaim, StoreRegister, Second,
           SecondInput, SecondComplete, Select, Drive, Publish, Release, Notify
<1>2. IInv /\ [Next]_vars => [Released]_vars
  BY <1>1 DEF Next
<1>3. QED
  BY <1>2, InductiveInvariant, PTL DEF Spec, ReleasedByOwner

\* Outside the critical section the wires and the irq-level bits are current.
THEOREM WiresAreSettled == Spec => []WiresSettled
<1>1. IInv => WiresSettled
  <2>1. SUFFICES ASSUME IInv, lock = 0, NEW c \in Contexts PROVE Settled(c)
    BY DEF WiresSettled, Settled
  <2>2. \A t \in Threads : Stale(t) = {}
    BY <2>1 DEF IInv, MutualExclusion, InCritical, Stale, TypeOK
  <2>3. QED
    BY <2>1, <2>2 DEF IInv, StaleOrSettled
<1>2. QED
  BY <1>1, InductiveInvariant, PTL

\* A sleeper on the gateway lock always has somebody left to wake it.
THEOREM SleepersAreWoken == Spec => []NoLostWake
<1>1. Init => NoLostWake
  BY DEF Init, NoLostWake, Parked
<1>2. ASSUME IInv, NoLostWake, NEW t \in Threads, Start(t) \/ Proceed(t)
      PROVE  NoLostWake'
  <2> USE <1>2 DEF IInv, TypeOK, NoLostWake, Parked, Goto, GoRefresh
  <2>1. CASE Start(t)
    BY <2>1 DEF Start
  <2>2. CASE Acquire(t)
    BY <2>2 DEF Acquire
  <2>3. CASE Wait(t)
    BY <2>3 DEF Wait
  <2>4. CASE First(t) \/ Second(t) \/ Select(t) \/ Drive(t) \/ Publish(t)
    <3>1. InCritical(t)
      BY <2>4 DEF InCritical, First, Second, FirstInput, FirstClaim, FirstComplete, StoreRegister,
                  SecondInput, SecondClaim, SecondComplete, Select, Drive, Publish
    <3>2. lock = 1 /\ lock' = lock
      BY <2>4, <3>1 DEF MutualExclusion, First, Second, FirstInput, FirstClaim, FirstComplete,
                        StoreRegister, SecondInput, SecondClaim, SecondComplete, Select, Drive,
                        Publish
    <3>3. QED
      BY <3>2
  <2>5. CASE Release(t)
    BY <2>5 DEF Release
  <2>6. CASE Notify(t)
    <3>1. CASE Parked = {}
      BY <2>6, <3>1 DEF Notify
    <3>2. CASE Parked # {}
      <4>1. PICK u \in Threads : pc[u] = "parked" /\ pc' = [pc EXCEPT ![t] = "idle", ![u] = "cas"]
        BY <2>6, <3>2 DEF Notify
      <4>2. pc'[u] = "cas"
        BY <4>1
      <4>3. QED
        BY <4>2
    <3>3. QED
      BY <3>1, <3>2
  <2>7. QED
    BY <1>2, <2>1, <2>2, <2>3, <2>4, <2>5, <2>6 DEF Proceed
<1>3. NoLostWake /\ UNCHANGED vars => NoLostWake'
  BY DEF NoLostWake, Parked, vars
<1>4. IInv /\ NoLostWake /\ [Next]_vars => NoLostWake'
  BY <1>2, <1>3 DEF Next
<1>5. QED
  BY <1>1, <1>4, InductiveInvariant, PTL DEF Spec

-----------------------------------------------------------------------------
(* Refinement: every step is one step of PlicAtomic, or a stutter.           *)

MidClaim(t) == pc[t] = "second" /\ op[t].kind = "claim"

\* With no claim half done the abstract in-service sets are the claimed bits.
LEMMA BarPlain ==
  ASSUME TypeOK, \A u \in Threads : ~MidClaim(u)
  PROVE  claimedBar = claimed
BY DEF TypeOK, MidClaim, claimedBar

LEMMA BarPlainNext ==
  ASSUME TypeOK', \A u \in Threads : ~MidClaim(u)'
  PROVE  claimedBar' = claimed'
BY DEF TypeOK, MidClaim, claimedBar

\* With one half done, its source is already in service.
LEMMA BarMid ==
  ASSUME TypeOK, NEW t \in Threads, MidClaim(t), \A u \in Threads : u # t => ~MidClaim(u)
  PROVE  claimedBar = [claimed EXCEPT ![op[t].context] = @ \cup {picked[t]}]
BY DEF TypeOK, MidClaim, claimedBar

LEMMA BarMidNext ==
  ASSUME TypeOK', NEW t \in Threads, MidClaim(t)', \A u \in Threads : u # t => ~MidClaim(u)'
  PROVE  claimedBar' = [claimed' EXCEPT ![op'[t].context] = @ \cup {picked'[t]}]
BY DEF TypeOK, MidClaim, claimedBar

\* Steps that leave half-done claims and the claimed bits alone.
LEMMA BarFrame ==
  ASSUME claimed' = claimed,
         \A u \in Threads : MidClaim(u)' <=> MidClaim(u),
         \A u \in Threads : MidClaim(u) => op'[u] = op[u] /\ picked'[u] = picked[u]
  PROVE  claimedBar' = claimedBar
<1>1. \A c \in Contexts :
        {picked[t] : t \in {u \in Threads : MidClaim(u) /\ op[u].context = c}}' =
        {picked[t] : t \in {u \in Threads : MidClaim(u) /\ op[u].context = c}}
  OBVIOUS
<1>2. QED
  BY <1>1 DEF claimedBar, MidClaim

LEMMA RefinementStep ==
  ASSUME IInv, IInv', NEW t \in Threads, Start(t) \/ Proceed(t)
  PROVE  Atomic!Next \/ UNCHANGED Atomic!vars
<1> USE DEF Goto, GoRefresh, config, local
<1>1. TypeOK /\ TypeOK' /\ MutualExclusion /\ OpsTyped /\ HalfDone /\ PendingExact
  BY DEF IInv
<1>2. CASE Start(t) \/ Acquire(t) \/ Wait(t) \/ Notify(t)
  <2>1. \A u \in Threads : MidClaim(u)' <=> MidClaim(u)
    BY <1>1, <1>2, OutsideFrame DEF MidClaim
  <2>2. \A u \in Threads : MidClaim(u) => op'[u] = op[u] /\ picked'[u] = picked[u]
    BY <1>1, <1>2 DEF MidClaim, Start, Acquire, Wait, Notify, TypeOK
  <2>3. QED
    BY <1>1, <1>2, <2>1, <2>2, OutsideFrame, BarFrame DEF Atomic!vars
<1>3. CASE Select(t) \/ Drive(t) \/ Publish(t) \/ Release(t)
  <2>1. \A u \in Threads : MidClaim(u)' <=> MidClaim(u)
    BY <1>1, <1>3 DEF MidClaim, Select, Drive, Publish, Release, TypeOK
  <2>2. op' = op /\ picked' = picked /\ UNCHANGED <<inputLevel, claimed, priority, enable, threshold>>
    BY <1>3 DEF Select, Drive, Publish, Release
  <2>3. QED
    BY <2>1, <2>2, BarFrame DEF Atomic!vars
<1>4. CASE First(t)
  <2>1. /\ InCritical(t) /\ op[t] \in Ops /\ op' = op /\ pc[t] = "first"
        /\ \A u \in Threads : u # t => pc[u] # "second" /\ pc'[u] # "second"
    BY <1>1, <1>4, InsideFrame
       DEF OpsTyped, InCritical, First, FirstInput, FirstClaim, FirstComplete, StoreRegister
  <2>2. claimedBar = claimed /\ pending = inputLevel \ InService
    BY <1>1, <2>1, BarPlain DEF MidClaim, PendingExact
  <2>3. op'[t].kind # "claim" => claimedBar' = claimed'
    BY <1>1, <2>1, BarPlainNext DEF MidClaim
  <2>4. \A c \in Contexts : Atomic!Eligible(c, Atomic!Pending) = Eligible(c)
    BY <2>2 DEF Atomic!Eligible, Atomic!Pending, Atomic!InService, Eligible, InService
  <2>5. CASE FirstInput(t)
    <3>1. Atomic!SetInput(op[t].source, op[t].high)
      BY <2>1, <2>2, <2>3, <2>5 DEF FirstInput, Atomic!SetInput
    <3>2. op[t].source \in Sources /\ op[t].high \in BOOLEAN
      BY <2>1, <2>5, OpFields DEF FirstInput
    <3>3. QED
      BY <3>1, <3>2 DEF Atomic!Next
  <2>6. CASE FirstClaim(t)
    <3>1. op[t].kind = "claim" /\ op[t].context \in Contexts
      BY <2>1, <2>6, OpFields DEF FirstClaim
    <3>2. CASE Eligible(op[t].context) = {}
      <4>1. pc'[t] = "select"
        BY <1>1, <2>6, <3>2 DEF FirstClaim, TypeOK, IsBest
      <4>2. claimedBar' = claimed'
        BY <1>1, <2>1, <4>1, BarPlainNext DEF MidClaim
      <4>3. QED
        BY <2>2, <2>6, <4>2 DEF FirstClaim, Atomic!vars
    <3>3. CASE Eligible(op[t].context) # {}
      <4>1. PICK s \in Eligible(op[t].context) :
              /\ IsBest(s, Eligible(op[t].context))
              /\ picked' = [picked EXCEPT ![t] = s]
              /\ pc' = [pc EXCEPT ![t] = "second"]
        BY <2>6, <3>3 DEF FirstClaim
      <4>2. s \in Sources /\ UNCHANGED <<inputLevel, claimed, priority, enable, threshold>>
        BY <1>1, <2>6, <4>1 DEF FirstClaim, Eligible, TypeOK
      <4>3. MidClaim(t)' /\ picked'[t] = s
        BY <1>1, <2>1, <3>1, <4>1 DEF MidClaim, TypeOK
      <4>4. claimedBar' = [claimed EXCEPT ![op[t].context] = @ \cup {s}]
        BY <1>1, <2>1, <4>2, <4>3, BarMidNext DEF MidClaim
      <4>5. Atomic!IsBest(s, Atomic!Eligible(op[t].context, Atomic!Pending))
        BY <2>4, <3>1, <4>1 DEF IsBest, Atomic!IsBest
      <4>6. Atomic!Claim(op[t].context, s)
        BY <2>2, <4>2, <4>4, <4>5 DEF Atomic!Claim
      <4>7. QED
        BY <3>1, <4>2, <4>6 DEF Atomic!Next
    <3>4. QED
      BY <3>2, <3>3
  <2>7. CASE FirstComplete(t)
    <3>1. op[t].kind = "complete" /\ op[t].context \in Contexts /\ op[t].source \in Sources
      BY <2>1, <2>7, OpFields DEF FirstComplete
    <3>2. /\ claimedBar' = [claimedBar EXCEPT ![op[t].context] = @ \ {op[t].source}]
          /\ UNCHANGED <<inputLevel, priority, enable, threshold>>
      BY <2>1, <2>2, <2>3, <2>7, <3>1 DEF FirstComplete
    <3>3. CASE op[t].source \in claimed[op[t].context]
      BY <2>2, <3>1, <3>2, <3>3 DEF Atomic!Next, Atomic!Complete
    <3>4. CASE op[t].source \notin claimed[op[t].context]
      <4>1. claimedBar' = claimedBar
        BY <1>1, <2>2, <3>1, <3>2, <3>4 DEF TypeOK
      <4>2. QED
        BY <3>2, <4>1 DEF Atomic!vars
    <3>5. QED
      BY <3>3, <3>4
  <2>8. CASE StoreRegister(t)
    <3>1. op[t].kind \in {"priority", "enable", "threshold"}
      BY <2>8 DEF StoreRegister
    <3>2. claimedBar' = claimedBar /\ inputLevel' = inputLevel
      BY <2>1, <2>2, <2>3, <2>8, <3>1 DEF StoreRegister
    <3>3. CASE op[t].kind = "priority"
      <4>1. Atomic!StorePriority(op[t].source, op[t].value)
        BY <2>8, <3>2, <3>3 DEF StoreRegister, Atomic!StorePriority
      <4>2. QED
        BY <2>1, <3>3, <4>1, OpFields DEF Atomic!Next
    <3>4. CASE op[t].kind = "enable"
      <4>1. Atomic!StoreEnable(op[t].context, op[t].byte, op[t].bits)
        BY <2>8, <3>2, <3>4 DEF StoreRegister, Atomic!StoreEnable, Atomic!EnableByte, EnableByte
      <4>2. /\ op[t].context \in Contexts /\ op[t].byte \in Atomic!EnableBytes
            /\ op[t].bits \in SUBSET Atomic!EnableByte(op[t].byte)
        BY <2>1, <3>4, OpFields DEF Atomic!EnableByte, Atomic!EnableBytes, EnableByte, EnableBytes
      <4>3. QED
        BY <4>1, <4>2 DEF Atomic!Next
    <3>5. CASE op[t].kind = "threshold"
      <4>1. Atomic!StoreThreshold(op[t].context, op[t].value)
        BY <2>8, <3>2, <3>5 DEF StoreRegister, Atomic!StoreThreshold
      <4>2. QED
        BY <2>1, <3>5, <4>1, OpFields DEF Atomic!Next
    <3>6. QED
      BY <3>1, <3>3, <3>4, <3>5
  <2>9. QED
    BY <1>4, <2>5, <2>6, <2>7, <2>8 DEF First
<1>5. CASE Second(t)
  <2>1. /\ InCritical(t) /\ op[t] \in Ops /\ op' = op /\ pc[t] = "second" /\ pc'[t] = "select"
        /\ \A u \in Threads : u # t => pc[u] # "second" /\ pc'[u] # "second"
    BY <1>1, <1>5, InsideFrame
       DEF OpsTyped, InCritical, Second, SecondInput, SecondClaim, SecondComplete, TypeOK
  <2>2. claimedBar' = claimed'
    BY <1>1, <2>1, BarPlainNext DEF MidClaim
  <2>3. UNCHANGED <<inputLevel, priority, enable, threshold>>
    BY <1>5 DEF Second, SecondInput, SecondClaim, SecondComplete
  <2>4. claimedBar = claimed'
    <3>1. CASE SecondClaim(t)
      <4>1. MidClaim(t)
        BY <3>1 DEF SecondClaim, MidClaim
      <4>2. claimedBar = [claimed EXCEPT ![op[t].context] = @ \cup {picked[t]}]
        BY <1>1, <2>1, <4>1, BarMid DEF MidClaim
      <4>3. QED
        BY <3>1, <4>2 DEF SecondClaim
    <3>2. CASE SecondInput(t) \/ SecondComplete(t)
      <4>1. claimed' = claimed /\ \A u \in Threads : ~MidClaim(u)
        BY <2>1, <3>2 DEF SecondInput, SecondComplete, MidClaim
      <4>2. QED
        BY <1>1, <4>1, BarPlain
    <3>3. QED
      BY <1>5, <3>1, <3>2 DEF Second
  <2>5. QED
    BY <2>2, <2>3, <2>4 DEF Atomic!vars
<1>6. QED
  BY <1>2, <1>3, <1>4, <1>5 DEF Proceed

\* The lock-based gateway implements the indivisible PLIC of PlicAtomic.
THEOREM GatewayRefinesAtomic == Spec => RefinesAtomic
<1>1. Init => Atomic!Init
  <2>1. Init => TypeOK /\ \A u \in Threads : ~MidClaim(u)
    BY InitEstablishes DEF Init, IInv, MidClaim
  <2>2. Init => claimedBar = claimed
    BY <2>1, BarPlain
  <2>3. QED
    BY <2>2 DEF Init, Atomic!Init
<1>2. IInv /\ IInv' /\ [Next]_vars => [Atomic!Next]_(Atomic!vars)
  <2>1. IInv /\ IInv' /\ Next => Atomic!Next \/ UNCHANGED Atomic!vars
    BY RefinementStep DEF Next
  <2>2. UNCHANGED vars => UNCHANGED Atomic!vars
    BY DEF vars, config, local, Atomic!vars, claimedBar
  <2>3. QED
    BY <2>1, <2>2
<1>3. QED
  BY <1>1, <1>2, InductiveInvariant, PTL DEF Spec, RefinesAtomic, Atomic!Spec
=============================================================================
