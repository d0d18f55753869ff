----------------------------- MODULE PlicAtomic -----------------------------
(***************************************************************************)
(* What the PLIC promises its clients: a gateway that behaves as if every  *)
(* operation of plic/gateway.ts and every guest store of plic/memory.ts    *)
(* were one indivisible step.                                              *)
(*                                                                         *)
(* The abstract state holds neither the pending bits nor the context       *)
(* wires: both are functions of the rest.  A source is pending exactly     *)
(* when its device drives it high and no context has it in service, and a  *)
(* context's wire is high exactly when some source is claimable there.     *)
(* PlicGateway shows that the lock-based code keeps redundant copies of    *)
(* both and implements this module.                                        *)
(***************************************************************************)
EXTENDS Integers

CONSTANTS Sources,     \* interrupt source ids, a subset of 1..PLIC_MAX_SOURCE
          Contexts,    \* the hart contexts, "machine" and "supervisor"
          Priorities   \* values of the 32-bit priority and threshold words

VARIABLES inputLevel,  \* sources whose device drives a high level
          claimed,     \* claimed[c]: sources context c has in service
          priority,    \* priority[s]: the source's priority word
          enable,      \* enable[c]: sources enabled in context c
          threshold    \* threshold[c]: the context's threshold word

vars == <<inputLevel, claimed, priority, enable, threshold>>
-----------------------------------------------------------------------------
\* Guest stores reach the enable words a byte at a time (storePlicByte).
EnableByte(b) == {s \in Sources : s \div 8 = b}
EnableBytes   == {s \div 8 : s \in Sources}

InService == claimed["machine"] \cup claimed["supervisor"]

\* The claim gateway: a level is latched as pending unless in service.
Pending == inputLevel \ InService

\* Sources a context may claim out of the pending set P.
Eligible(c, P) == {s \in P \cap enable[c] : priority[s] > threshold[c]}

\* s wins the selection: highest priority, ties to the lowest id.
IsBest(s, E) ==
  /\ s \in E
  /\ \A r \in E : \/ priority[r] < priority[s]
                  \/ priority[r] = priority[s] /\ s <= r

\* The level-sensitive line to the hart.
Wire(c) == Eligible(c, Pending) # {}
-----------------------------------------------------------------------------
Init ==
  /\ inputLevel = {}
  /\ claimed = [c \in Contexts |-> {}]
  /\ priority = [s \in Sources |-> 0]
  /\ enable = [c \in Contexts |-> {}]
  /\ threshold = [c \in Contexts |-> 0]

SetInput(s, level) ==
  /\ inputLevel' = IF level THEN inputLevel \cup {s} ELSE inputLevel \ {s}
  /\ UNCHANGED <<claimed, priority, enable, threshold>>

Claim(c, s) ==
  /\ IsBest(s, Eligible(c, Pending))
  /\ claimed' = [claimed EXCEPT ![c] = @ \cup {s}]
  /\ UNCHANGED <<inputLevel, priority, enable, threshold>>

Complete(c, s) ==
  /\ s \in claimed[c]
  /\ claimed' = [claimed EXCEPT ![c] = @ \ {s}]
  /\ UNCHANGED <<inputLevel, priority, enable, threshold>>

StorePriority(s, p) ==
  /\ priority' = [priority EXCEPT ![s] = p]
  /\ UNCHANGED <<inputLevel, claimed, enable, threshold>>

StoreEnable(c, b, S) ==
  /\ enable' = [enable EXCEPT ![c] = (@ \ EnableByte(b)) \cup S]
  /\ UNCHANGED <<inputLevel, claimed, priority, threshold>>

StoreThreshold(c, p) ==
  /\ threshold' = [threshold EXCEPT ![c] = p]
  /\ UNCHANGED <<inputLevel, claimed, priority, enable>>

Next ==
  \/ \E s \in Sources, level \in BOOLEAN : SetInput(s, level)
  \/ \E c \in Contexts, s \in Sources : Claim(c, s) \/ Complete(c, s)
  \/ \E s \in Sources, p \in Priorities : StorePriority(s, p)
  \/ \E c \in Contexts, b \in EnableBytes : \E S \in SUBSET EnableByte(b) : StoreEnable(c, b, S)
  \/ \E c \in Contexts, p \in Priorities : StoreThreshold(c, p)

Spec == Init /\ [][Next]_vars
=============================================================================
