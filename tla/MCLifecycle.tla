----------------------------- MODULE MCLifecycle -----------------------------
(* The machine for TLC: one byte at a time waits for the terminal worker.    *)
EXTENDS Lifecycle
=============================================================================
