------------------------------- MODULE MCUart -------------------------------
(* Instances of Uart for TLC: what the guest and stdin do in each run.       *)
EXTENDS Uart

\* Output: the guest polls LSR, stores to THR and accesses the PLIC.
TransmitOps == {"thr", "lsr", "plic"}

\* Input: the guest polls LSR and IIR, loads RBR, and moves the
\* interrupt enables and the divisor latch bit.
ReceiveOps == {"rbr", "lsr", "lcr", "ier", "iir"}

\* Interrupts: the guest enables conditions, asks IIR why, and serves both.
InterruptOps == {"rbr", "thr", "ier", "iir"}
=============================================================================
