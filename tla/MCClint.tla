------------------------------ MODULE MCClint -------------------------------
(* Workloads for TLC: which guest operations a run combines.                 *)
EXTENDS Clint

\* The machine timer: mtime loaded and stored, mtimecmp.
TimeOps == {"load", "mtime", "mtimecmp"}

\* The supervisor timer and a guest that sleeps on it.
SstcOps == {"stimecmp", "stce", "wfi"}

WfiOps  == {"mtimecmp", "wfi"}
=============================================================================
