------------------------------- MODULE MCHart -------------------------------
(* Instances of Hart for TLC: five guest programs.  Each is a set of         *)
(* instructions that may be executed in any order and any number of times.   *)
EXTENDS Hart

Csr(how, i, v) == [op |-> "csr", how |-> how, csr |-> i, value |-> v, writes |-> TRUE]
Get(i)         == [op |-> "csr", how |-> "rs", csr |-> i, value |-> {}, writes |-> FALSE]
Plain(op)      == [op |-> op]
Other(n, F)    == [op |-> "ordinary", length |-> n, faults |-> F]

\* The privilege stack: traps to both modes, nested, returned from by both.
Stack ==
  {Csr("rs", "mstatus", {"MPP0", "MIE", "MPRV"}), Csr("rw", "mstatus", {"MPP1", "SPP"}),
   Csr("rs", "sstatus", {"SIE", "MIE", "SPP"}),
   Csr("rs", "mie", {"SEI", "MTI", "unused"}), Csr("rw", "mideleg", {"SEI", "MTI"}),
   Csr("rw", "sepc", 5), Plain("ecall"), Plain("mret"), Plain("sret")}

\* Pending bits, their views and their owners.
Pending ==
  {Csr("rs", "mip", {"SEI", "MTI"}), Csr("rc", "mip", {"STI", "SEI"}), Csr("rs", "mip", {}),
   Csr("rw", "mip", {"STI", "unused"}), Csr("rs", "sip", {"STI", "SSI", "SEI"}),
   Csr("rw", "sip", {}), Csr("rw", "sie", {"STI", "MTI"}),
   Csr("rs", "menvcfg", {"STCE", "unused"}), Csr("rc", "menvcfg", {"STCE"}),
   Csr("rs", "mstatus", {"MPP0"}), Plain("mret")}

\* Retirement: instructions that complete, trap, wait or fault.
Counters ==
  {Csr("rw", "mcountinhibit", {"IR", "TM"}), Csr("rc", "mcountinhibit", {"IR"}),
   Csr("rw", "minstret", 1), Csr("rw", "mcycle", 0), Csr("rw", "mie", {"MSI"}),
   Csr("rw", "mtvec", [base |-> 4, mode |-> 3]), Csr("rw", "mhartid", 1),
   Other(2, {4, 5, 6, 7}), Plain("ecall"), Plain("ebreak"), Plain("wfi"), Plain("illegal")}

\* What M withholds from S and U: TVM, TSR and TW.
Virtual ==
  {Csr("rs", "mstatus", {"TVM", "TSR", "TW", "MPP0"}), Csr("rc", "mstatus", {"TVM"}),
   Csr("rw", "satp", 1), Csr("rw", "medeleg", {2, 8, 11}),
   Plain("mret"), Plain("sret"), Plain("sfence.vma"), Plain("wfi"), Plain("ecall")}

\* What M withholds from S and U: the counters and the timer compare.
Timer ==
  {Csr("rs", "mstatus", {"MPP0"}), Csr("rw", "stimecmp", 0), Csr("rw", "menvcfg", {"STCE"}),
   Csr("rw", "mcounteren", {"TM", "unused"}), Csr("rw", "mcounteren", {"IR"}),
   Csr("rw", "scounteren", {"IR"}), Get("instret"), Get("time"), Get("fflags"),
   Csr("rw", "stvec", [base |-> 4, mode |-> 1]), Plain("mret")}

MCPrograms    == <<Stack, Pending, Counters, Virtual, Timer>>
MCDeviceWires == <<{"MTI", "SEI"}, {"STI", "SEI"}, {"MSI"}, {}, {}>>
MCResets      == <<{0}, {0}, {0, 1}, {0}, {0}>>
MCExecutable  == [p \in Privileges |-> IF p = PRIVILEGE_USER THEN {0} ELSE Addresses]
=============================================================================
