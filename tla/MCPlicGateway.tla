--------------------------- MODULE MCPlicGateway ----------------------------
(* Instances of PlicGateway: the CPU worker against the terminal worker.     *)
EXTENDS PlicGateway

CONSTANTS hart, terminal,
          Driven,      \* sources the terminal worker drives
          OwnDriven,   \* and the hart, through its UART accesses
          Tuned        \* sources whose priority the guest moves

MCThreads  == {hart, terminal}
MCContexts == {"machine", "supervisor"}

\* The guest enables every source of a byte or none, and moves the supervisor's
\* threshold; the machine threshold, whose code is the same, stays 0.
WholeBytes   == {o \in EnableOps : o.bits \in {{}, EnableByte(o.byte)}}
OneThreshold == {o \in ThresholdOps : o.context = "supervisor"}

MCWorkload ==
  [t \in MCThreads |->
     IF t = terminal THEN {o \in InputOps : o.source \in Driven}
     ELSE {o \in InputOps : o.source \in OwnDriven}
          \cup {o \in PriorityOps : o.source \in Tuned}
          \cup ClaimOps \cup CompleteOps \cup WholeBytes \cup OneThreshold]
=============================================================================
