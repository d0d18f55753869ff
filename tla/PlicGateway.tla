----------------------------- MODULE PlicGateway ----------------------------
(***************************************************************************)
(* plic/gateway.ts and plic/memory.ts at the grain of their accesses to    *)
(* the shared buffer.  The CPU worker (guest loads and stores, and the     *)
(* UART refreshes they cause) and the terminal worker (UART refreshes)     *)
(* run these operations concurrently; gatewayLock serialises them.         *)
(*                                                                         *)
(* An operation of thread t goes through                                   *)
(*   "cas" -> ("wait" -> "parked" ->)*  first -> second                    *)
(*         -> (select -> drive -> publish) per refreshed context           *)
(*         -> "release" -> "notify" -> "idle".                             *)
(* The reentry depth of the lock is not modelled: no caller nests it.      *)
(***************************************************************************)
EXTENDS Integers

CONSTANTS Sources, Contexts, Priorities,
          Threads,     \* worker threads that reach the gateway
          Workload     \* Workload[t]: the operations thread t may perform

ASSUME GatewayAssumption ==
  /\ Sources \subseteq 1 .. 31
  /\ Contexts = {"machine", "supervisor"}
  /\ Priorities \subseteq Nat
  /\ 0 \in Priorities

VARIABLES inputLevel, pending, claimed, priority, enable, threshold,
          wire,        \* wire[c]: the MEIP / SEIP wire byte
          level,       \* contexts whose bit is set in the irq-level word
          lock,        \* the gateway Int32: 0 free, 1 held
          pc,          \* pc[t]: where t is in its operation
          op,          \* op[t]: the operation, NoOp when idle
          picked,      \* picked[t]: the source a claim selected
          cursor,      \* cursor[t]: the context being refreshed
          found        \* found[t]: selectClaimableSource(cursor[t]) # 0

config == <<priority, enable, threshold>>
local  == <<op, picked, cursor, found>>
vars   == <<inputLevel, pending, claimed, config, wire, level, lock, pc, local>>

EnableByte(b) == {s \in Sources : s \div 8 = b}
EnableBytes   == {s \div 8 : s \in Sources}
-----------------------------------------------------------------------------
\* The operations, with the arguments their callers pass.
NoOp == [kind |-> "none"]

InputOps     == [kind : {"input"}, source : Sources, high : BOOLEAN]
ClaimOps     == [kind : {"claim"}, context : Contexts]
CompleteOps  == [kind : {"complete"}, context : Contexts, source : Sources]
PriorityOps  == [kind : {"priority"}, source : Sources, value : Priorities]
ThresholdOps == [kind : {"threshold"}, context : Contexts, value : Priorities]
EnableOps    ==
  UNION {[kind : {"enable"}, context : Contexts, byte : {b}, bits : SUBSET EnableByte(b)] :
         b \in EnableBytes}

GuestOps == ClaimOps \cup CompleteOps \cup PriorityOps \cup ThresholdOps \cup EnableOps
Ops      == InputOps \cup GuestOps

\* The CPU worker performs guest accesses and drives inputs; the terminal
\* worker only drives inputs.
ASSUME WorkloadAssumption == \A t \in Threads : Workload[t] \subseteq Ops

\* A store of an enable or threshold byte refreshes only its own context.
FirstContext(o) == IF o.kind \in {"enable", "threshold"} THEN o.context ELSE "machine"
\* Mutated form of LastContext: a completion refreshes the machine wire only.
LastContextMutant(o) ==
  IF o.kind \in {"enable", "threshold"} THEN o.context
  ELSE IF o.kind = "complete" THEN "machine" ELSE "supervisor"

LastContext(o)  == IF o.kind \in {"enable", "threshold"} THEN o.context ELSE "supervisor"
-----------------------------------------------------------------------------
InService == claimed["machine"] \cup claimed["supervisor"]

Eligible(c) == {s \in pending \cap enable[c] : priority[s] > threshold[c]}

\* selectClaimableSource: highest priority, ties to the lowest id.
IsBest(s, E) ==
  /\ s \in E
  /\ \A r \in E : \/ priority[r] < priority[s]
                  \/ priority[r] = priority[s] /\ s <= r
-----------------------------------------------------------------------------
Init ==
  /\ inputLevel = {}
  /\ pending = {}
  /\ claimed = [c \in Contexts |-> {}]
  /\ priority = [s \in Sources |-> 0]
  /\ enable = [c \in Contexts |-> {}]
  /\ threshold = [c \in Contexts |-> 0]
  /\ wire = [c \in Contexts |-> FALSE]
  /\ level = {}
  /\ lock = 0
  /\ pc = [t \in Threads |-> "idle"]
  /\ op = [t \in Threads |-> NoOp]
  /\ picked = [t \in Threads |-> 0]
  /\ cursor = [t \in Threads |-> "machine"]
  /\ found = [t \in Threads |-> FALSE]

Goto(t, label) == pc' = [pc EXCEPT ![t] = label]

\* The thread enters setPlicSourcePending, claim, complete or a register store.
Start(t) ==
  /\ pc[t] = "idle"
  /\ \E o \in Workload[t] : op' = [op EXCEPT ![t] = o]
  /\ Goto(t, "cas")
  /\ UNCHANGED <<inputLevel, pending, claimed, config, wire, level, lock, picked, cursor, found>>

\* acquirePlicGatewayLock: the compareExchange of 0 with 1.
Acquire(t) ==
  /\ pc[t] = "cas"
  /\ IF lock = 0 THEN lock' = 1 /\ Goto(t, "first")
                 ELSE lock' = lock /\ Goto(t, "wait")
  /\ UNCHANGED <<inputLevel, pending, claimed, config, wire, level, local>>

\* Mutated form of Wait: a returning wait enters without a new compareExchange.
WaitMutant(t) ==
  /\ pc[t] = "wait"
  /\ Goto(t, IF lock = 1 THEN "parked" ELSE "first")
  /\ UNCHANGED <<inputLevel, pending, claimed, config, wire, level, lock, local>>

\* Atomics.wait(lock, 0, 1): returns at once when the word is no longer 1.
Wait(t) ==
  /\ pc[t] = "wait"
  /\ Goto(t, IF lock = 1 THEN "parked" ELSE "cas")
  /\ UNCHANGED <<inputLevel, pending, claimed, config, wire, level, lock, local>>

\* After the writes of an operation: on to the wires.
GoRefresh(t) ==
  /\ Goto(t, "select")
  /\ cursor' = [cursor EXCEPT ![t] = FirstContext(op[t])]

FirstInput(t) ==
  /\ pc[t] = "first"
  /\ op[t].kind = "input"
  /\ inputLevel' = IF op[t].high THEN inputLevel \cup {op[t].source}
                                  ELSE inputLevel \ {op[t].source}
  /\ Goto(t, "second")
  /\ UNCHANGED <<pending, claimed, config, wire, level, lock, local>>

\* Mutated form of SecondInput: pends a source that is in service.
SecondInputMutant(t) ==
  /\ pc[t] = "second"
  /\ op[t].kind = "input"
  /\ pending' = IF op[t].high THEN pending \cup {op[t].source} ELSE pending \ {op[t].source}
  /\ GoRefresh(t)
  /\ UNCHANGED <<inputLevel, claimed, config, wire, level, lock, op, picked, found>>

SecondInput(t) ==
  /\ pc[t] = "second"
  /\ op[t].kind = "input"
  /\ pending' = IF op[t].high THEN pending \cup ({op[t].source} \ InService)
                               ELSE pending \ {op[t].source}
  /\ GoRefresh(t)
  /\ UNCHANGED <<inputLevel, claimed, config, wire, level, lock, op, picked, found>>

\* Mutated forms of FirstClaim: a claim of nothing is recorded as source 0, and a
\* claim takes any eligible source.
FirstClaimMutant(t) ==
  /\ pc[t] = "first"
  /\ op[t].kind = "claim"
  /\ LET E == Eligible(op[t].context)
     IN  \E s \in E \cup {0} : /\ IF E = {} THEN s = 0 ELSE IsBest(s, E)
                               /\ pending' = pending \ {s}
                               /\ picked' = [picked EXCEPT ![t] = s]
  /\ Goto(t, "second")
  /\ UNCHANGED <<inputLevel, claimed, config, wire, level, lock, op, cursor, found>>

FirstClaim(t) ==
  /\ pc[t] = "first"
  /\ op[t].kind = "claim"
  /\ LET E == Eligible(op[t].context)
     IN  \/ /\ E = {}
            /\ GoRefresh(t)
            /\ UNCHANGED <<pending, picked>>
         \/ \E s \in E :
              /\ IsBest(s, E)
              /\ pending' = pending \ {s}
              /\ picked' = [picked EXCEPT ![t] = s]
              /\ Goto(t, "second")
              /\ UNCHANGED cursor
  /\ UNCHANGED <<inputLevel, claimed, config, wire, level, lock, op, found>>

SecondClaim(t) ==
  /\ pc[t] = "second"
  /\ op[t].kind = "claim"
  /\ claimed' = [claimed EXCEPT ![op[t].context] = @ \cup {picked[t]}]
  /\ GoRefresh(t)
  /\ UNCHANGED <<inputLevel, pending, config, wire, level, lock, op, picked, found>>

\* Mutated form of FirstComplete: completes whichever context holds the source.
FirstCompleteMutant(t) ==
  /\ pc[t] = "first"
  /\ op[t].kind = "complete"
  /\ claimed' = [c \in Contexts |-> claimed[c] \ {op[t].source}]
  /\ Goto(t, IF op[t].source \in InService THEN "second" ELSE "release")
  /\ UNCHANGED <<inputLevel, pending, config, wire, level, lock, local>>

\* A completion of a source this context has not claimed is ignored.
FirstComplete(t) ==
  /\ pc[t] = "first"
  /\ op[t].kind = "complete"
  /\ claimed' = [claimed EXCEPT ![op[t].context] = @ \ {op[t].source}]
  /\ Goto(t, IF op[t].source \in claimed[op[t].context] THEN "second" ELSE "release")
  /\ UNCHANGED <<inputLevel, pending, config, wire, level, lock, local>>

\* Mutated forms of SecondComplete: no re-pend while the input is high, and a
\* re-pend that does not refresh the wires.
SecondCompleteLoses(t) ==
  /\ pc[t] = "second"
  /\ op[t].kind = "complete"
  /\ GoRefresh(t)
  /\ UNCHANGED <<inputLevel, pending, claimed, config, wire, level, lock, op, picked, found>>

SecondCompleteSilent(t) ==
  /\ pc[t] = "second"
  /\ op[t].kind = "complete"
  /\ pending' = pending \cup ({op[t].source} \cap inputLevel)
  /\ Goto(t, "release")
  /\ UNCHANGED <<inputLevel, claimed, config, wire, level, lock, local>>

SecondComplete(t) ==
  /\ pc[t] = "second"
  /\ op[t].kind = "complete"
  /\ pending' = pending \cup ({op[t].source} \cap inputLevel)
  /\ GoRefresh(t)
  /\ UNCHANGED <<inputLevel, claimed, config, wire, level, lock, op, picked, found>>

\* storePlicByte of a priority, enable or threshold byte.
StoreRegister(t) ==
  /\ pc[t] = "first"
  /\ \/ /\ op[t].kind = "priority"
        /\ priority' = [priority EXCEPT ![op[t].source] = op[t].value]
        /\ UNCHANGED <<enable, threshold>>
     \/ /\ op[t].kind = "enable"
        /\ enable' = [enable EXCEPT ![op[t].context] = (@ \ EnableByte(op[t].byte)) \cup op[t].bits]
        /\ UNCHANGED <<priority, threshold>>
     \/ /\ op[t].kind = "threshold"
        /\ threshold' = [threshold EXCEPT ![op[t].context] = op[t].value]
        /\ UNCHANGED <<priority, enable>>
  /\ GoRefresh(t)
  /\ UNCHANGED <<inputLevel, pending, claimed, wire, level, lock, op, picked, found>>

\* refreshContextWire: compute the level, store the wire byte, publish the bit.
Select(t) ==
  /\ pc[t] = "select"
  /\ found' = [found EXCEPT ![t] = Eligible(cursor[t]) # {}]
  /\ Goto(t, "drive")
  /\ UNCHANGED <<inputLevel, pending, claimed, config, wire, level, lock, op, picked, cursor>>

Drive(t) ==
  /\ pc[t] = "drive"
  /\ wire' = [wire EXCEPT ![cursor[t]] = found[t]]
  /\ Goto(t, "publish")
  /\ UNCHANGED <<inputLevel, pending, claimed, config, level, lock, local>>

Publish(t) ==
  /\ pc[t] = "publish"
  /\ level' = IF found[t] THEN level \cup {cursor[t]} ELSE level \ {cursor[t]}
  /\ IF cursor[t] = LastContext(op[t])
     THEN Goto(t, "release") /\ UNCHANGED cursor
     ELSE Goto(t, "select") /\ cursor' = [cursor EXCEPT ![t] = LastContext(op[t])]
  /\ UNCHANGED <<inputLevel, pending, claimed, config, wire, lock, op, picked, found>>

\* releasePlicGatewayLock: store 0, then notify one waiter.
Release(t) ==
  /\ pc[t] = "release"
  /\ lock' = 0
  /\ Goto(t, "notify")
  /\ UNCHANGED <<inputLevel, pending, claimed, config, wire, level, local>>

Parked == {u \in Threads : pc[u] = "parked"}

\* Mutated form of Notify: the lock is stored free and nobody is notified.
NotifyMutant(t) ==
  /\ pc[t] = "notify"
  /\ Goto(t, "idle")
  /\ op' = [op EXCEPT ![t] = NoOp]
  /\ picked' = [picked EXCEPT ![t] = 0]
  /\ cursor' = [cursor EXCEPT ![t] = "machine"]
  /\ found' = [found EXCEPT ![t] = FALSE]
  /\ UNCHANGED <<inputLevel, pending, claimed, config, wire, level, lock>>

Notify(t) ==
  /\ pc[t] = "notify"
  /\ \/ /\ Parked = {}
        /\ Goto(t, "idle")
     \/ \E u \in Parked : pc' = [pc EXCEPT ![t] = "idle", ![u] = "cas"]
  /\ op' = [op EXCEPT ![t] = NoOp]
  /\ picked' = [picked EXCEPT ![t] = 0]
  /\ cursor' = [cursor EXCEPT ![t] = "machine"]
  /\ found' = [found EXCEPT ![t] = FALSE]
  /\ UNCHANGED <<inputLevel, pending, claimed, config, wire, level, lock>>

First(t)  == FirstInput(t) \/ FirstClaim(t) \/ FirstComplete(t) \/ StoreRegister(t)
Second(t) == SecondInput(t) \/ SecondClaim(t) \/ SecondComplete(t)

\* Every step of an operation already begun.
Proceed(t) ==
  \/ Acquire(t) \/ Wait(t)
  \/ First(t) \/ Second(t)
  \/ Select(t) \/ Drive(t) \/ Publish(t)
  \/ Release(t) \/ Notify(t)

Next == \E t \in Threads : Start(t) \/ Proceed(t)

Spec == Init /\ [][Next]_vars

(***************************************************************************)
(* A thread inside an operation keeps running: the code between acquire    *)
(* and release never awaits, and the operating system schedules every      *)
(* worker.  Nothing obliges a thread to start another operation.           *)
(***************************************************************************)
FairSpec == Spec /\ \A t \in Threads : WF_vars(Proceed(t))
-----------------------------------------------------------------------------
(***************************************************************************)
(* Properties.                                                             *)
(***************************************************************************)
Labels == {"idle", "cas", "wait", "parked", "first", "second",
           "select", "drive", "publish", "release", "notify"}

\* Between a successful compareExchange and the store of 0.
InCritical(t) == pc[t] \in {"first", "second", "select", "drive", "publish", "release"}

\* The state and every thread's locals stay in their types (layout of the PLIC
\* slab, plic/layout.ts; locals of plic/gateway.ts).
TypeOK ==
  /\ inputLevel \subseteq Sources
  /\ pending \subseteq Sources
  /\ claimed \in [Contexts -> SUBSET Sources]
  /\ priority \in [Sources -> Priorities]
  /\ enable \in [Contexts -> SUBSET Sources]
  /\ threshold \in [Contexts -> Priorities]
  /\ wire \in [Contexts -> BOOLEAN]
  /\ level \subseteq Contexts
  /\ lock \in {0, 1}
  /\ pc \in [Threads -> Labels]
  /\ op \in [Threads -> Ops \cup {NoOp}]
  /\ picked \in [Threads -> Sources \cup {0}]
  /\ cursor \in [Threads -> Contexts]
  /\ found \in [Threads -> BOOLEAN]

\* At most one thread is between acquire and release, and the word says so
\* ("Gateway mutations ... run under gatewayLock", gateway.ts:20).
MutualExclusion ==
  /\ \A t, u \in Threads : InCritical(t) /\ InCritical(u) => t = u
  /\ lock = 1 <=> \E t \in Threads : InCritical(t)

\* No interrupt is lost or invented by the gateway: whenever the lock is free
\* the pending bits are the high inputs that nobody has in service, although
\* setPlicSourcePending, claim and complete each write them in several steps.
GatewayExact == lock = 0 => pending = inputLevel \ InService

\* A source is in service in at most one context, and never pending meanwhile,
\* at every step of every operation: no handler runs twice for one claim.
ServiceExclusive ==
  /\ claimed["machine"] \cap claimed["supervisor"] = {}
  /\ pending \cap InService = {}

\* A source leaves service only by a completion that names it, from the context
\* that claimed it: a stray or repeated completion releases nothing.
ReleasedByOwner ==
  [][\A c \in Contexts : \A s \in claimed[c] \ claimed'[c] :
       \E t \in Threads : /\ InCritical(t)
                          /\ op[t] = [kind |-> "complete", context |-> c, source |-> s]]_vars

\* Whenever the lock is free both wires, and their bits in the irq-level word,
\* agree with the configuration: no store, claim or level change forgot a
\* context it affects.
WiresSettled ==
  lock = 0 => \A c \in Contexts : /\ wire[c] = (Eligible(c) # {})
                                  /\ wire[c] = (c \in level)

\* A thread sleeps in Atomics.wait only while someone will still notify it:
\* the lock is held, or a releaser has yet to notify, or another thread is
\* awake and about to compete for the lock (and will release it).
NoLostWake ==
  Parked # {} => \/ lock = 1
                 \/ \E t \in Threads : pc[t] \in {"notify", "wait", "cas"}

\* A claimable source that stays claimable ends up on the wire and in the
\* irq-level word, however the other thread keeps refreshing.
WireFollows ==
  \A c \in Contexts : <>[](Eligible(c) # {}) => <>[](wire[c] /\ c \in level)

\* The gateway implements the indivisible PLIC: a claim takes effect when the
\* pending bit falls, a completion when the claimed bit falls, an input when
\* its level bit changes, and the pending bits and the wires are redundant.
claimedBar ==
  [c \in Contexts |->
     claimed[c] \cup {picked[t] : t \in {u \in Threads : /\ pc[u] = "second"
                                                         /\ op[u].kind = "claim"
                                                         /\ op[u].context = c}}]

Atomic == INSTANCE PlicAtomic WITH claimed <- claimedBar

RefinesAtomic == Atomic!Spec
-----------------------------------------------------------------------------
(***************************************************************************)
(* The inductive invariant: what holds in the middle of an operation.      *)
(***************************************************************************)
\* Every thread past Start carries one of its operations.
OpsTyped == \A t \in Threads : pc[t] # "idle" => op[t] \in Ops

\* Between the two writes of an operation the pending bits miss exactly what
\* the second write will bring.
HalfDone ==
  \A t \in Threads : pc[t] = "second" =>
    LET o == op[t]
    IN  \/ /\ o.kind = "input"
           /\ o.high <=> o.source \in inputLevel
           /\ pending \ {o.source} = (inputLevel \ InService) \ {o.source}
        \/ /\ o.kind = "claim"
           /\ picked[t] \in inputLevel \ InService
           /\ pending = (inputLevel \ InService) \ {picked[t]}
        \/ /\ o.kind = "complete"
           /\ o.source \notin InService
           /\ pending = (inputLevel \ InService) \ {o.source}

PendingExact == (\A t \in Threads : pc[t] # "second") => pending = inputLevel \ InService

\* Contexts whose wire thread t has still to bring up to date.
Stale(t) ==
  CASE pc[t] = "second" -> Contexts
    [] pc[t] \in {"select", "drive", "publish"} -> {cursor[t], LastContext(op[t])}
    [] OTHER -> {}

Settled(c) == wire[c] = (Eligible(c) # {}) /\ wire[c] = (c \in level)

StaleOrSettled == \A c \in Contexts : (\A t \in Threads : c \notin Stale(t)) => Settled(c)

\* The level computed under the lock is still the right one when it is stored
\* and when it is published.
RefreshCurrent ==
  \A t \in Threads :
    /\ pc[t] \in {"select", "drive", "publish"} =>
         cursor[t] \in {FirstContext(op[t]), LastContext(op[t])}
    /\ pc[t] \in {"drive", "publish"} => found[t] = (Eligible(cursor[t]) # {})
    /\ pc[t] = "publish" => wire[cursor[t]] = found[t]

\* Implies every safety invariant above; PlicGatewayProofs proves it inductive.
IInv ==
  /\ TypeOK /\ MutualExclusion /\ OpsTyped
  /\ HalfDone /\ PendingExact /\ ServiceExclusive
  /\ StaleOrSettled /\ RefreshCurrent
=============================================================================
