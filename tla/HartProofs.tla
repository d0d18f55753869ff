----------------------------- MODULE HartProofs -----------------------------
(* Proofs about Hart: registers hold legal values, handlers return to what    *)
(* was interrupted, lower modes are confined, instructions are counted once   *)
(* and pending bits have their owner, for every program.                      *)
EXTENDS Hart, TLAPS

CsrNames == MachineRegisters \cup (SupervisorRegisters \ {"sstatus", "sie", "sip"})
Counters == {"mcycle", "minstret"}

\* r has the fields of Registers, and its csr the slots of the file.
Shaped(r) ==
  /\ r \in [csr : {r.csr}, pc : {r.pc}, privilege : {r.privilege},
            plicSupervisorExternalPending : {r.plicSupervisorExternalPending},
            retire : {r.retire}]
  /\ r.csr = [i \in CsrNames |-> r.csr[i]]

\* Where the hart and its traps may go, and what the counters may hold.
Placed(r) ==
  /\ r.pc \in Addresses /\ r.privilege \in Privileges
  /\ r.csr.mepc \in Addresses /\ r.csr.sepc \in Addresses
  /\ r.csr.mtvec \in [base : Addresses, mode : {0, 1}]
  /\ r.csr.stvec \in [base : Addresses, mode : {0, 1}]
  /\ r.csr.mcycle \in 0 .. CounterSize - 1 /\ r.csr.minstret \in 0 .. CounterSize - 1
  /\ r.plicSupervisorExternalPending \in BOOLEAN
  /\ ~r.retire

\* The frame of each mode is what its registers describe.
FrameHeld(mode, r) ==
  frame[mode].live =>
    IF mode = PRIVILEGE_MACHINE
    THEN /\ r.csr.mepc = frame[mode].pc
         /\ PrivilegeFromMpp(r.csr.mstatus) = frame[mode].privilege
         /\ ("MPIE" \in r.csr.mstatus) = frame[mode].enabled
    ELSE /\ r.csr.sepc = frame[mode].pc
         /\ frame[mode].privilege \in {PRIVILEGE_USER, PRIVILEGE_SUPERVISOR}
         /\ ("SPP" \in r.csr.mstatus) = (frame[mode].privilege = PRIVILEGE_SUPERVISOR)
         /\ ("SPIE" \in r.csr.mstatus) = frame[mode].enabled

Control ==
  /\ program \in DOMAIN Programs
  /\ phase \in {"sample", "run", "wfi", "woken"}
  /\ frame = [mode \in TrapModes |-> frame[mode]]

Framed == \A mode \in TrapModes : FrameHeld(mode, registers)

\* Software asks for no STIP that the timer compare owns.
Unasked == SupervisorTimerCompareEnabled(registers) => "STI" \notin asked

Well == Shaped(registers) /\ Placed(registers) /\ Control /\ Legal

IInv == Well /\ Framed /\ RetiredOnce /\ PendingOwned /\ Unasked
-----------------------------------------------------------------------------
(* What each operator does to the registers.                                 *)

\* Registers q are r but for the slots in S.
SameBut(r, q, S) == \A i \in CsrNames \ S : q.csr[i] = r.csr[i]

\* BeginRetire and CancelRetire touch the retire flag only.
LEMMA RetireFlag ==
  ASSUME NEW r, Shaped(r)
  PROVE  /\ Shaped(BeginRetire(r)) /\ Shaped(CancelRetire(r))
         /\ BeginRetire(r).csr = r.csr /\ CancelRetire(r).csr = r.csr
         /\ BeginRetire(r).pc = r.pc /\ CancelRetire(r).pc = r.pc
         /\ BeginRetire(r).privilege = r.privilege /\ CancelRetire(r).privilege = r.privilege
         /\ BeginRetire(r).plicSupervisorExternalPending = r.plicSupervisorExternalPending
         /\ CancelRetire(r).plicSupervisorExternalPending = r.plicSupervisorExternalPending
         /\ BeginRetire(r).retire = TRUE /\ CancelRetire(r).retire = FALSE
BY DEF Shaped, BeginRetire, CancelRetire

\* A commit counts an instruction that began and was not cancelled.
LEMMA CommitCounts ==
  ASSUME NEW r, Shaped(r), r.retire = TRUE
  PROVE  LET q == CommitRetire(r)
         IN /\ Shaped(q) /\ ~q.retire /\ q.pc = r.pc /\ q.privilege = r.privilege
            /\ q.plicSupervisorExternalPending = r.plicSupervisorExternalPending
            /\ SameBut(r, q, Counters)
            /\ q.csr.mcycle = (r.csr.mcycle + Counting(r, "CY")) % CounterSize
            /\ q.csr.minstret = (r.csr.minstret + Counting(r, "IR")) % CounterSize
<1>1. CommitRetire(r) = [r EXCEPT !.retire = FALSE,
                 !.csr.mcycle   = (@ + Counting(r, "CY")) % CounterSize,
                 !.csr.minstret = (@ + Counting(r, "IR")) % CounterSize]
  BY DEF CommitRetire
<1>2. "mcycle" \in CsrNames /\ "minstret" \in CsrNames
  BY DEF CsrNames, MachineRegisters
<1>3. CommitRetire(r).csr = [r.csr EXCEPT !.mcycle = (@ + Counting(r, "CY")) % CounterSize,
                                          !.minstret = (@ + Counting(r, "IR")) % CounterSize]
  BY <1>1 DEF Shaped
<1>4. r.csr = [i \in CsrNames |-> r.csr[i]]
  BY DEF Shaped
<1>5. /\ CommitRetire(r).csr = [i \in CsrNames |-> CommitRetire(r).csr[i]]
      /\ SameBut(r, CommitRetire(r), Counters)
      /\ CommitRetire(r).csr.mcycle = (r.csr.mcycle + Counting(r, "CY")) % CounterSize
      /\ CommitRetire(r).csr.minstret = (r.csr.minstret + Counting(r, "IR")) % CounterSize
  BY <1>2, <1>3, <1>4 DEF SameBut, Counters
<1>6. QED
  BY <1>1, <1>5 DEF Shaped

\* A commit after a cancelled retirement does nothing.
LEMMA CommitNothing ==
  ASSUME NEW r, ~r.retire PROVE CommitRetire(r) = r
BY DEF CommitRetire

\* The jump to the next instruction.
LEMMA PcAdvances ==
  ASSUME NEW r, Shaped(r), NEW n
  PROVE  LET q == AdvancePc(r, n)
         IN /\ Shaped(q) /\ q.csr = r.csr /\ q.privilege = r.privilege /\ q.retire = r.retire
            /\ q.plicSupervisorExternalPending = r.plicSupervisorExternalPending
            /\ q.pc = (r.pc + n) % AddressSize
BY DEF Shaped, AdvancePc

MachineEntered(s, p) ==
  LegalMstatus((Put(s, "MPIE", "MIE" \in s) \ {"MIE", "MPP0", "MPP1"}) \cup MppBits(p))

SupervisorEntered(s, p) ==
  LegalMstatus(Put(Put(s, "SPIE", "SIE" \in s) \ {"SIE"}, "SPP", p = PRIVILEGE_SUPERVISOR))

\* A trap to M.
LEMMA MachineTrapEnters ==
  ASSUME NEW r, Shaped(r), NEW cause
  PROVE  LET q == EnterMachineTrap(r, cause)
         IN /\ Shaped(q) /\ q.privilege = PRIVILEGE_MACHINE
            /\ q.pc = Handler(r.csr.mtvec, cause) /\ q.retire = r.retire
            /\ q.plicSupervisorExternalPending = r.plicSupervisorExternalPending
            /\ SameBut(r, q, {"mepc", "mcause", "mstatus"})
            /\ q.csr.mepc = LegalXepc(r.pc)
            /\ q.csr.mstatus = MachineEntered(r.csr.mstatus, r.privilege)
<1>1. {"mepc", "mcause", "mstatus"} \subseteq CsrNames
  BY DEF CsrNames, MachineRegisters
<1>2. EnterMachineTrap(r, cause).csr =
        [r.csr EXCEPT !.mepc = LegalXepc(r.pc), !.mcause = cause,
             !.mstatus = MachineEntered(r.csr.mstatus, r.privilege)]
  BY DEF Shaped, EnterMachineTrap, MachineEntered
<1>3. r.csr = [i \in CsrNames |-> r.csr[i]]
  BY DEF Shaped
<1>4. /\ EnterMachineTrap(r, cause).csr = [i \in CsrNames |-> EnterMachineTrap(r, cause).csr[i]]
      /\ SameBut(r, EnterMachineTrap(r, cause), {"mepc", "mcause", "mstatus"})
      /\ EnterMachineTrap(r, cause).csr.mepc = LegalXepc(r.pc)
      /\ EnterMachineTrap(r, cause).csr.mstatus = MachineEntered(r.csr.mstatus, r.privilege)
  BY <1>1, <1>2, <1>3 DEF SameBut
<1>5. QED
  BY <1>4 DEF Shaped, EnterMachineTrap, MachineEntered

\* A trap to S.
LEMMA SupervisorTrapEnters ==
  ASSUME NEW r, Shaped(r), NEW cause
  PROVE  LET q == EnterSupervisorTrap(r, cause)
         IN /\ Shaped(q) /\ q.privilege = PRIVILEGE_SUPERVISOR
            /\ q.pc = Handler(r.csr.stvec, cause) /\ q.retire = r.retire
            /\ q.plicSupervisorExternalPending = r.plicSupervisorExternalPending
            /\ SameBut(r, q, {"sepc", "scause", "mstatus"})
            /\ q.csr.sepc = LegalXepc(r.pc)
            /\ q.csr.mstatus = SupervisorEntered(r.csr.mstatus, r.privilege)
<1>1. {"sepc", "scause", "mstatus"} \subseteq CsrNames
  BY DEF CsrNames, MachineRegisters, SupervisorRegisters
<1>2. EnterSupervisorTrap(r, cause).csr =
        [r.csr EXCEPT !.sepc = LegalXepc(r.pc), !.scause = cause,
             !.mstatus = SupervisorEntered(r.csr.mstatus, r.privilege)]
  BY DEF Shaped, EnterSupervisorTrap, SupervisorEntered
<1>3. r.csr = [i \in CsrNames |-> r.csr[i]]
  BY DEF Shaped
<1>4. /\ EnterSupervisorTrap(r, cause).csr
           = [i \in CsrNames |-> EnterSupervisorTrap(r, cause).csr[i]]
      /\ SameBut(r, EnterSupervisorTrap(r, cause), {"sepc", "scause", "mstatus"})
      /\ EnterSupervisorTrap(r, cause).csr.sepc = LegalXepc(r.pc)
      /\ EnterSupervisorTrap(r, cause).csr.mstatus = SupervisorEntered(r.csr.mstatus, r.privilege)
  BY <1>1, <1>2, <1>3 DEF SameBut
<1>5. QED
  BY <1>4 DEF Shaped, EnterSupervisorTrap, SupervisorEntered

MachineLeft(s) ==
  LET left == (Put(s, "MIE", "MPIE" \in s) \cup {"MPIE"}) \ {"MPP0", "MPP1"}
  IN LegalMstatus(IF PrivilegeFromMpp(s) = PRIVILEGE_MACHINE THEN left ELSE left \ {"MPRV"})

SupervisorLeft(s) ==
  LegalMstatus((Put(s, "SIE", "SPIE" \in s) \cup {"SPIE"}) \ {"SPP", "MPRV"})

\* mret.
LEMMA MachineTrapReturns ==
  ASSUME NEW r, Shaped(r)
  PROVE  LET q == ReturnFromMachineTrap(r)
         IN /\ Shaped(q) /\ q.privilege = PrivilegeFromMpp(r.csr.mstatus)
            /\ q.pc = r.csr.mepc /\ q.retire = r.retire
            /\ q.plicSupervisorExternalPending = r.plicSupervisorExternalPending
            /\ SameBut(r, q, {"mstatus"})
            /\ q.csr.mstatus = MachineLeft(r.csr.mstatus)
<1>1. "mstatus" \in CsrNames
  BY DEF CsrNames, MachineRegisters
<1>2. ReturnFromMachineTrap(r).csr = [r.csr EXCEPT !.mstatus = MachineLeft(r.csr.mstatus)]
  BY DEF Shaped, ReturnFromMachineTrap, MachineLeft
<1>3. r.csr = [i \in CsrNames |-> r.csr[i]]
  BY DEF Shaped
<1>4. /\ ReturnFromMachineTrap(r).csr = [i \in CsrNames |-> ReturnFromMachineTrap(r).csr[i]]
      /\ SameBut(r, ReturnFromMachineTrap(r), {"mstatus"})
      /\ ReturnFromMachineTrap(r).csr.mstatus = MachineLeft(r.csr.mstatus)
  BY <1>1, <1>2, <1>3 DEF SameBut
<1>5. QED
  BY <1>4 DEF Shaped, ReturnFromMachineTrap, MachineLeft

\* sret.
LEMMA SupervisorTrapReturns ==
  ASSUME NEW r, Shaped(r)
  PROVE  LET q == ReturnFromSupervisorTrap(r)
         IN /\ Shaped(q) /\ q.pc = r.csr.sepc /\ q.retire = r.retire
            /\ q.privilege = IF "SPP" \in r.csr.mstatus THEN PRIVILEGE_SUPERVISOR
                                                        ELSE PRIVILEGE_USER
            /\ q.plicSupervisorExternalPending = r.plicSupervisorExternalPending
            /\ SameBut(r, q, {"mstatus"})
            /\ q.csr.mstatus = SupervisorLeft(r.csr.mstatus)
<1>1. "mstatus" \in CsrNames
  BY DEF CsrNames, MachineRegisters
<1>2. ReturnFromSupervisorTrap(r).csr = [r.csr EXCEPT !.mstatus = SupervisorLeft(r.csr.mstatus)]
  BY DEF Shaped, ReturnFromSupervisorTrap, SupervisorLeft
<1>3. r.csr = [i \in CsrNames |-> r.csr[i]]
  BY DEF Shaped
<1>4. /\ ReturnFromSupervisorTrap(r).csr = [i \in CsrNames |-> ReturnFromSupervisorTrap(r).csr[i]]
      /\ SameBut(r, ReturnFromSupervisorTrap(r), {"mstatus"})
      /\ ReturnFromSupervisorTrap(r).csr.mstatus = SupervisorLeft(r.csr.mstatus)
  BY <1>1, <1>2, <1>3 DEF SameBut
<1>5. QED
  BY <1>4 DEF Shaped, ReturnFromSupervisorTrap, SupervisorLeft

\* mip once the wires are sampled at W.
SampledMip(r, W) ==
  (r.csr.mip \cap {"SSI", "SEI"}) \cup (W \cap MachineInterrupts)
    \cup (IF SupervisorTimerCompareEnabled(r) THEN W \cap {"STI"} ELSE r.csr.mip \cap {"STI"})

\* A sample of the wires.
LEMMA SampleTakes ==
  ASSUME NEW r, Shaped(r), NEW W
  PROVE  LET q == SampleDevicePending(r, W)
         IN /\ Shaped(q) /\ q.pc = r.pc /\ q.privilege = r.privilege /\ q.retire = r.retire
            /\ q.plicSupervisorExternalPending = ("SEI" \in W)
            /\ SameBut(r, q, {"mip"})
            /\ q.csr.mip = SampledMip(r, W)
<1>1. "mip" \in CsrNames
  BY DEF CsrNames, MachineRegisters
<1>2. SampleDevicePending(r, W).csr = [r.csr EXCEPT !.mip = SampledMip(r, W)]
  BY DEF Shaped, SampleDevicePending, SampledMip
<1>3. r.csr = [i \in CsrNames |-> r.csr[i]]
  BY DEF Shaped
<1>4. /\ SampleDevicePending(r, W).csr = [i \in CsrNames |-> SampleDevicePending(r, W).csr[i]]
      /\ SameBut(r, SampleDevicePending(r, W), {"mip"})
      /\ SampleDevicePending(r, W).csr.mip = SampledMip(r, W)
  BY <1>1, <1>2, <1>3 DEF SameBut
<1>5. /\ SampleDevicePending(r, W).pc = r.pc
      /\ SampleDevicePending(r, W).privilege = r.privilege
      /\ SampleDevicePending(r, W).retire = r.retire
      /\ SampleDevicePending(r, W).plicSupervisorExternalPending = ("SEI" \in W)
      /\ SampleDevicePending(r, W)
           \in [csr : {SampleDevicePending(r, W).csr}, pc : {r.pc}, privilege : {r.privilege},
               plicSupervisorExternalPending : {"SEI" \in W}, retire : {r.retire}]
  BY DEF Shaped, SampleDevicePending
<1>6. QED
  BY <1>4, <1>5 DEF Shaped

\* One slot of the register file changes.
LEMMA OneSlot ==
  ASSUME NEW c, c = [j \in CsrNames |-> c[j]], NEW i \in CsrNames, NEW x
  PROVE  /\ [c EXCEPT ![i] = x] = [j \in CsrNames |-> [c EXCEPT ![i] = x][j]]
         /\ [c EXCEPT ![i] = x][i] = x
         /\ \A j \in CsrNames \ {i} : [c EXCEPT ![i] = x][j] = c[j]
OBVIOUS

\* What becomes of q when v is written to register i of r, the slots of X apart.
Written(r, q, i, v, X) ==
  /\ i \in Implemented \ ReadOnly
  /\ i = "misa" => SameBut(r, q, X)
  /\ i = "sstatus" =>
       /\ SameBut(r, q, {"mstatus"} \cup X)
       /\ q.csr.mstatus = LegalMstatus((r.csr.mstatus \ SSTATUS_MASK) \cup (v \cap SSTATUS_MASK))
  /\ i = "sie" =>
       /\ SameBut(r, q, {"mie"} \cup X)
       /\ q.csr.mie = (r.csr.mie \ SupervisorInterrupts) \cup (v \cap SupervisorInterrupts)
  /\ i = "sip" => SameBut(r, q, {"mip"} \cup X) /\ q.csr.mip = MergeSip(r, v)
  /\ i = "mip" => SameBut(r, q, {"mip"} \cup X) /\ q.csr.mip = MergeMip(r, v)
  /\ i = "menvcfg" => /\ SameBut(r, q, {"menvcfg", "mip"} \cup X)
                      /\ q.csr.menvcfg = v \cap {"STCE"} /\ q.csr.mip = MipUnder(r, v)
  /\ i \in {"mstatus", "mie", "mideleg", "medeleg", "mtvec", "stvec", "mepc", "sepc",
            "mcounteren", "scounteren", "mcountinhibit", "mscratch", "mcause", "mcycle",
            "minstret", "sscratch", "scause", "stimecmp", "satp"} =>
       SameBut(r, q, {i} \cup X)
  /\ i = "mstatus" => q.csr.mstatus = LegalMstatus(v)
  /\ i = "mie" => q.csr.mie = v \cap Interrupts
  /\ i = "mideleg" => q.csr.mideleg = v \cap SupervisorInterrupts
  /\ i = "medeleg" => q.csr.medeleg = v \ {CAUSE_ECALL_FROM_M}
  /\ i \in {"mtvec", "stvec"} => q.csr[i] = LegalXtvec(v)
  /\ i \in {"mepc", "sepc"} => q.csr[i] = LegalXepc(v)
  /\ i \in Counters \ X => q.csr[i] = v

\* A write of each register, its views and its legal values.
LEMMA WriteEffect ==
  ASSUME NEW r, Shaped(r), NEW i \in Implemented \ ReadOnly, NEW v
  PROVE  LET q == Write(r, i, v)
         IN /\ Shaped(q) /\ q.pc = r.pc /\ q.privilege = r.privilege /\ q.retire = r.retire
            /\ q.plicSupervisorExternalPending = r.plicSupervisorExternalPending
            /\ Written(r, q, i, v, {})
<1> DEFINE q == Write(r, i, v)
           sstatus == LegalMstatus((r.csr.mstatus \ SSTATUS_MASK) \cup (v \cap SSTATUS_MASK))
           sie == (r.csr.mie \ SupervisorInterrupts) \cup (v \cap SupervisorInterrupts)
           new == CASE i \in ReadOnly \cup {"misa"} -> r.csr
      [] i = "sstatus" -> [r.csr EXCEPT !.mstatus = sstatus]
      [] i = "sie" -> [r.csr EXCEPT !.mie = sie]
      [] i = "sip"     -> [r.csr EXCEPT !.mip = MergeSip(r, v)]
      [] i = "mstatus" -> [r.csr EXCEPT !.mstatus = LegalMstatus(v)]
      [] i = "mie"     -> [r.csr EXCEPT !.mie = v \cap Interrupts]
      [] i = "mip"     -> [r.csr EXCEPT !.mip = MergeMip(r, v)]
      [] i = "menvcfg" -> [r.csr EXCEPT !.menvcfg = v \cap {"STCE"}, !.mip = MipUnder(r, v)]
      [] i = "mideleg" -> [r.csr EXCEPT !.mideleg = v \cap SupervisorInterrupts]
      [] i = "medeleg" -> [r.csr EXCEPT !.medeleg = v \ {CAUSE_ECALL_FROM_M}]
      [] i \in {"mcounteren", "scounteren"} -> [r.csr EXCEPT ![i] = v \cap COUNTEREN_MASK]
      [] i = "mcountinhibit" -> [r.csr EXCEPT !.mcountinhibit = v \cap MCOUNTINHIBIT_MASK]
      [] i \in {"mtvec", "stvec"} -> [r.csr EXCEPT ![i] = LegalXtvec(v)]
      [] i \in {"mepc", "sepc"}   -> [r.csr EXCEPT ![i] = LegalXepc(v)]
      [] OTHER -> [r.csr EXCEPT ![i] = v]
<1>1. q = [r EXCEPT !.csr = new]
  BY DEF Write
<1>2. /\ q.csr = new /\ q.pc = r.pc /\ q.privilege = r.privilege /\ q.retire = r.retire
      /\ q.plicSupervisorExternalPending = r.plicSupervisorExternalPending
      /\ q \in [csr : {q.csr}, pc : {q.pc}, privilege : {q.privilege},
                plicSupervisorExternalPending : {q.plicSupervisorExternalPending},
                retire : {q.retire}]
  <2> HIDE DEF new
  <2>1. QED
    BY <1>1 DEF Shaped
<1>3. r.csr = [j \in CsrNames |-> r.csr[j]]
  BY DEF Shaped
<1> DEFINE kept == q.csr = [j \in CsrNames |-> q.csr[j]]
<1> HIDE DEF q
<1>4. CASE i = "misa"
  <2>1. q.csr = r.csr
    BY <1>2, <1>4
  <2>2. kept /\ SameBut(r, q, {})
    BY <1>3, <2>1 DEF SameBut
  <2>3. QED
    BY <1>2, <1>4, <2>2 DEF Shaped, q, Written, Counters, SameBut
<1>5. CASE i = "menvcfg"
  <2>1. q.csr = [r.csr EXCEPT !.menvcfg = v \cap {"STCE"}, !.mip = MipUnder(r, v)]
    BY <1>2, <1>5 DEF ReadOnly, UserRegisters
  <2>2. {"menvcfg", "mip"} \subseteq CsrNames
    BY DEF CsrNames, MachineRegisters
  <2>3. /\ kept /\ SameBut(r, q, {"menvcfg", "mip"})
        /\ q.csr.menvcfg = v \cap {"STCE"} /\ q.csr.mip = MipUnder(r, v)
    BY <1>3, <2>1, <2>2 DEF SameBut
  <2>4. QED
    BY <1>2, <1>5, <2>3 DEF Shaped, q, Written, Counters, SameBut
<1>6. ASSUME NEW j \in CsrNames, NEW x, q.csr = [r.csr EXCEPT ![j] = x]
       PROVE  kept /\ SameBut(r, q, {j}) /\ q.csr[j] = x
  BY <1>3, <1>6, OneSlot DEF SameBut
<1>7. CASE i = "sstatus"
  <2>1. q.csr = [r.csr EXCEPT !["mstatus"] = sstatus] /\ "mstatus" \in CsrNames
    BY <1>2, <1>7 DEF ReadOnly, UserRegisters, CsrNames, MachineRegisters, SupervisorRegisters
  <2>2. kept /\ SameBut(r, q, {"mstatus"}) /\ q.csr["mstatus"] = sstatus
    BY <1>6, <2>1
  <2>3. QED
    BY <1>2, <1>7, <2>2 DEF Shaped, q, Written, Counters, SameBut
<1>8. CASE i = "sie"
  <2>1. q.csr = [r.csr EXCEPT !["mie"] = sie] /\ "mie" \in CsrNames
    BY <1>2, <1>8 DEF ReadOnly, UserRegisters, CsrNames, MachineRegisters, SupervisorRegisters
  <2>2. kept /\ SameBut(r, q, {"mie"}) /\ q.csr["mie"] = sie
    BY <1>6, <2>1
  <2>3. QED
    BY <1>2, <1>8, <2>2 DEF Shaped, q, Written, Counters, SameBut
<1>9. CASE i = "sip"
  <2>1. q.csr = [r.csr EXCEPT !["mip"] = MergeSip(r, v)] /\ "mip" \in CsrNames
    BY <1>2, <1>9 DEF ReadOnly, UserRegisters, CsrNames, MachineRegisters, SupervisorRegisters
  <2>2. kept /\ SameBut(r, q, {"mip"}) /\ q.csr["mip"] = MergeSip(r, v)
    BY <1>6, <2>1
  <2>3. QED
    BY <1>2, <1>9, <2>2 DEF Shaped, q, Written, Counters, SameBut
<1>10. CASE i = "mstatus"
  <2>1. q.csr = [r.csr EXCEPT !["mstatus"] = LegalMstatus(v)] /\ "mstatus" \in CsrNames
    BY <1>2, <1>10 DEF ReadOnly, UserRegisters, CsrNames, MachineRegisters, SupervisorRegisters
  <2>2. kept /\ SameBut(r, q, {"mstatus"}) /\ q.csr["mstatus"] = LegalMstatus(v)
    BY <1>6, <2>1
  <2>3. QED
    BY <1>2, <1>10, <2>2 DEF Shaped, q, Written, Counters, SameBut
<1>11. CASE i = "mie"
  <2>1. q.csr = [r.csr EXCEPT !["mie"] = v \cap Interrupts] /\ "mie" \in CsrNames
    BY <1>2, <1>11 DEF ReadOnly, UserRegisters, CsrNames, MachineRegisters, SupervisorRegisters
  <2>2. kept /\ SameBut(r, q, {"mie"}) /\ q.csr["mie"] = v \cap Interrupts
    BY <1>6, <2>1
  <2>3. QED
    BY <1>2, <1>11, <2>2 DEF Shaped, q, Written, Counters, SameBut
<1>12. CASE i = "mip"
  <2>1. q.csr = [r.csr EXCEPT !["mip"] = MergeMip(r, v)] /\ "mip" \in CsrNames
    BY <1>2, <1>12 DEF ReadOnly, UserRegisters, CsrNames, MachineRegisters, SupervisorRegisters
  <2>2. kept /\ SameBut(r, q, {"mip"}) /\ q.csr["mip"] = MergeMip(r, v)
    BY <1>6, <2>1
  <2>3. QED
    BY <1>2, <1>12, <2>2 DEF Shaped, q, Written, Counters, SameBut
<1>13. CASE i = "mideleg"
  <2>1. /\ q.csr = [r.csr EXCEPT !["mideleg"] = v \cap SupervisorInterrupts]
        /\ "mideleg" \in CsrNames
    BY <1>2, <1>13 DEF ReadOnly, UserRegisters, CsrNames, MachineRegisters, SupervisorRegisters
  <2>2. kept /\ SameBut(r, q, {"mideleg"}) /\ q.csr["mideleg"] = v \cap SupervisorInterrupts
    BY <1>6, <2>1
  <2>3. QED
    BY <1>2, <1>13, <2>2 DEF Shaped, q, Written, Counters, SameBut
<1>14. CASE i = "medeleg"
  <2>1. q.csr = [r.csr EXCEPT !["medeleg"] = v \ {CAUSE_ECALL_FROM_M}] /\ "medeleg" \in CsrNames
    BY <1>2, <1>14 DEF ReadOnly, UserRegisters, CsrNames, MachineRegisters, SupervisorRegisters
  <2>2. kept /\ SameBut(r, q, {"medeleg"}) /\ q.csr["medeleg"] = v \ {CAUSE_ECALL_FROM_M}
    BY <1>6, <2>1
  <2>3. QED
    BY <1>2, <1>14, <2>2 DEF Shaped, q, Written, Counters, SameBut
<1>15. CASE i \in {"mcounteren", "scounteren"}
  <2>1. q.csr = [r.csr EXCEPT ![i] = v \cap COUNTEREN_MASK] /\ i \in CsrNames
    BY <1>2, <1>15 DEF ReadOnly, UserRegisters, CsrNames, MachineRegisters, SupervisorRegisters
  <2>2. kept /\ SameBut(r, q, {i}) /\ q.csr[i] = v \cap COUNTEREN_MASK
    BY <1>6, <2>1
  <2>3. QED
    BY <1>2, <1>15, <2>2 DEF Shaped, q, Written, Counters, SameBut
<1>16. CASE i = "mcountinhibit"
  <2>1. /\ q.csr = [r.csr EXCEPT !["mcountinhibit"] = v \cap MCOUNTINHIBIT_MASK]
        /\ "mcountinhibit" \in CsrNames
    BY <1>2, <1>16 DEF ReadOnly, UserRegisters, CsrNames, MachineRegisters, SupervisorRegisters
  <2>2. /\ kept /\ SameBut(r, q, {"mcountinhibit"})
        /\ q.csr["mcountinhibit"] = v \cap MCOUNTINHIBIT_MASK
    BY <1>6, <2>1
  <2>3. QED
    BY <1>2, <1>16, <2>2 DEF Shaped, q, Written, Counters, SameBut
<1>17. CASE i \in {"mtvec", "stvec"}
  <2>1. q.csr = [r.csr EXCEPT ![i] = LegalXtvec(v)] /\ i \in CsrNames
    BY <1>2, <1>17 DEF ReadOnly, UserRegisters, CsrNames, MachineRegisters, SupervisorRegisters
  <2>2. kept /\ SameBut(r, q, {i}) /\ q.csr[i] = LegalXtvec(v)
    BY <1>6, <2>1
  <2>3. QED
    BY <1>2, <1>17, <2>2 DEF Shaped, q, Written, Counters, SameBut
<1>18. CASE i \in {"mepc", "sepc"}
  <2>1. q.csr = [r.csr EXCEPT ![i] = LegalXepc(v)] /\ i \in CsrNames
    BY <1>2, <1>18 DEF ReadOnly, UserRegisters, CsrNames, MachineRegisters, SupervisorRegisters
  <2>2. kept /\ SameBut(r, q, {i}) /\ q.csr[i] = LegalXepc(v)
    BY <1>6, <2>1
  <2>3. QED
    BY <1>2, <1>18, <2>2 DEF Shaped, q, Written, Counters, SameBut
<1>19. CASE i \in {"mscratch", "mcause", "mcycle", "minstret",
                  "sscratch", "scause", "stimecmp", "satp"}
  <2>1. q.csr = [r.csr EXCEPT ![i] = v] /\ i \in CsrNames
    BY <1>2, <1>19 DEF ReadOnly, UserRegisters, CsrNames, MachineRegisters, SupervisorRegisters
  <2>2. kept /\ SameBut(r, q, {i}) /\ q.csr[i] = v
    BY <1>6, <2>1
  <2>3. QED
    BY <1>2, <1>19, <2>2 DEF Shaped, q, Written, Counters, SameBut
<1>20. QED
  BY <1>4, <1>5, <1>7, <1>8, <1>9, <1>10, <1>11, <1>12, <1>13, <1>14, <1>15, <1>16, <1>17,
     <1>18, <1>19 DEF Implemented, MachineRegisters, SupervisorRegisters, UserRegisters, ReadOnly

\* The counters may move on after the write.
LEMMA WrittenOn ==
  ASSUME NEW r, NEW s, NEW a, NEW q, NEW i, NEW v, Written(r, a, i, v, {}),
         r.csr = s.csr, SameBut(a, q, Counters)
  PROVE  Written(s, q, i, v, Counters)
<1>1. \A S : SameBut(r, a, S) => SameBut(s, q, S \cup Counters)
  BY DEF SameBut
<1>2. {"mstatus", "mie", "mip", "menvcfg", "mideleg", "medeleg", "mtvec", "stvec", "mepc", "sepc"}
        \subseteq CsrNames \ Counters
  BY DEF CsrNames, MachineRegisters, SupervisorRegisters, Counters
<1>3. \A j \in CsrNames \ Counters : q.csr[j] = a.csr[j]
  BY DEF SameBut
<1>4. \A S : S \cup {} = S
  OBVIOUS
<1>5. {} \cup Counters = Counters
  OBVIOUS
<1>6. /\ i \in Implemented \ ReadOnly
      /\ i = "misa" => SameBut(s, q, Counters)
      /\ i \in {"mstatus", "mie", "mideleg", "medeleg", "mtvec", "stvec", "mepc", "sepc",
            "mcounteren", "scounteren", "mcountinhibit", "mscratch", "mcause", "mcycle",
            "minstret", "sscratch", "scause", "stimecmp", "satp"} =>
           SameBut(s, q, {i} \cup Counters)
  BY <1>1, <1>4, <1>5 DEF Written
<1>7. i = "sstatus" =>
       /\ SameBut(s, q, {"mstatus"} \cup Counters)
       /\ q.csr.mstatus = LegalMstatus((s.csr.mstatus \ SSTATUS_MASK) \cup (v \cap SSTATUS_MASK))
  BY <1>1, <1>2, <1>3, <1>4 DEF Written
<1>8. i = "sie" =>
       /\ SameBut(s, q, {"mie"} \cup Counters)
       /\ q.csr.mie = (s.csr.mie \ SupervisorInterrupts) \cup (v \cap SupervisorInterrupts)
  BY <1>1, <1>2, <1>3, <1>4 DEF Written
<1>9. MergeSip(r, v) = MergeSip(s, v) /\ MergeMip(r, v) = MergeMip(s, v)
      /\ MipUnder(r, v) = MipUnder(s, v)
  BY DEF MergeSip, MergeMip, MipUnder, SoftTimer, HardTimer, SupervisorTimerCompareEnabled
<1>10. /\ i = "sip" => SameBut(s, q, {"mip"} \cup Counters) /\ q.csr.mip = MergeSip(s, v)
       /\ i = "mip" => SameBut(s, q, {"mip"} \cup Counters) /\ q.csr.mip = MergeMip(s, v)
       /\ i = "menvcfg" => /\ SameBut(s, q, {"menvcfg", "mip"} \cup Counters)
                           /\ q.csr.menvcfg = v \cap {"STCE"} /\ q.csr.mip = MipUnder(s, v)
  BY <1>1, <1>2, <1>3, <1>4, <1>9 DEF Written
<1>11. /\ i = "mstatus" => q.csr.mstatus = LegalMstatus(v)
       /\ i = "mie" => q.csr.mie = v \cap Interrupts
       /\ i = "mideleg" => q.csr.mideleg = v \cap SupervisorInterrupts
       /\ i = "medeleg" => q.csr.medeleg = v \ {CAUSE_ECALL_FROM_M}
       /\ i \in {"mtvec", "stvec"} => q.csr[i] = LegalXtvec(v)
       /\ i \in {"mepc", "sepc"} => q.csr[i] = LegalXepc(v)
  BY <1>2, <1>3 DEF Written
<1>12. QED
  BY <1>6, <1>7, <1>8, <1>10, <1>11 DEF Written
-----------------------------------------------------------------------------
(* The bits of mstatus.                                                      *)

\* No reserved MPP.
LegalMpp(s) == ~("MPP1" \in s /\ "MPP0" \notin s)

\* Legalisation leaves a legal value alone and makes any other legal.
LEMMA MstatusLegal ==
  ASSUME NEW s
  PROVE  /\ LegalMpp(LegalMstatus(s))
         /\ LegalMpp(s) => LegalMstatus(s) = s
         /\ \A b : b # "MPP1" => (b \in LegalMstatus(s) <=> b \in s)
BY DEF LegalMpp, LegalMstatus

\* A trap to M stacks MIE and the privilege; the bits of S stay.
LEMMA MachineEnteredBits ==
  ASSUME NEW s, NEW p \in Privileges
  PROVE  /\ LegalMpp(MachineEntered(s, p))
         /\ PrivilegeFromMpp(MachineEntered(s, p)) = p
         /\ "MPIE" \in MachineEntered(s, p) <=> "MIE" \in s
         /\ \A b : b \notin {"MIE", "MPIE", "MPP0", "MPP1"} =>
              (b \in MachineEntered(s, p) <=> b \in s)
<1> DEFINE e == (Put(s, "MPIE", "MIE" \in s) \ {"MIE", "MPP0", "MPP1"}) \cup MppBits(p)
<1>1. p = 0 \/ p = 1 \/ p = 3
  BY DEF Privileges, PRIVILEGE_USER, PRIVILEGE_SUPERVISOR, PRIVILEGE_MACHINE
<1>2. /\ "MPP1" \in e <=> p = 3
      /\ "MPP0" \in e <=> p \in {1, 3}
  BY <1>1 DEF MppBits, PRIVILEGE_MACHINE, PRIVILEGE_SUPERVISOR, Put
<1>3. LegalMpp(e)
  BY <1>1, <1>2 DEF LegalMpp
<1>4. MachineEntered(s, p) = e
  BY <1>3, MstatusLegal DEF MachineEntered
<1>5. PrivilegeFromMpp(e) = p
  <2> HIDE DEF e
  <2>1. QED
    BY <1>1, <1>2 DEF PrivilegeFromMpp, PRIVILEGE_USER, PRIVILEGE_SUPERVISOR, PRIVILEGE_MACHINE
<1>6. \A b : b \notin {"MPP0", "MPP1"} => b \notin MppBits(p)
  BY <1>1 DEF MppBits, PRIVILEGE_MACHINE, PRIVILEGE_SUPERVISOR
<1>7. /\ "MPIE" \in e <=> "MIE" \in s
      /\ \A b : b \notin {"MIE", "MPIE", "MPP0", "MPP1"} => (b \in e <=> b \in s)
  BY <1>6 DEF Put
<1>8. QED
  BY <1>3, <1>4, <1>5, <1>7

\* A trap to S stacks SIE and whether it came from S; the bits of M stay.
LEMMA SupervisorEnteredBits ==
  ASSUME NEW s, LegalMpp(s), NEW p
  PROVE  /\ "SPIE" \in SupervisorEntered(s, p) <=> "SIE" \in s
         /\ "SPP" \in SupervisorEntered(s, p) <=> p = PRIVILEGE_SUPERVISOR
         /\ \A b : b \notin {"SIE", "SPIE", "SPP"} => (b \in SupervisorEntered(s, p) <=> b \in s)
<1> DEFINE e == Put(Put(s, "SPIE", "SIE" \in s) \ {"SIE"}, "SPP", p = PRIVILEGE_SUPERVISOR)
<1>1. /\ "SPIE" \in e <=> "SIE" \in s
      /\ "SPP" \in e <=> p = PRIVILEGE_SUPERVISOR
      /\ \A b : b \notin {"SIE", "SPIE", "SPP"} => (b \in e <=> b \in s)
  BY DEF Put
<1>2. SupervisorEntered(s, p) = e
  BY <1>1, MstatusLegal DEF SupervisorEntered, LegalMpp
<1>3. QED
  BY <1>1, <1>2

\* mret unstacks MIE and empties MPP; MPRV survives a return to M only.
LEMMA MachineLeftBits ==
  ASSUME NEW s
  PROVE  /\ LegalMpp(MachineLeft(s))
         /\ "MIE" \in MachineLeft(s) <=> "MPIE" \in s
         /\ "MPRV" \in MachineLeft(s) =>
              "MPRV" \in s /\ PrivilegeFromMpp(s) = PRIVILEGE_MACHINE
         /\ \A b : b \notin {"MIE", "MPIE", "MPP0", "MPP1", "MPRV"} =>
              (b \in MachineLeft(s) <=> b \in s)
<1> DEFINE left == (Put(s, "MIE", "MPIE" \in s) \cup {"MPIE"}) \ {"MPP0", "MPP1"}
           e == IF PrivilegeFromMpp(s) = PRIVILEGE_MACHINE THEN left ELSE left \ {"MPRV"}
<1>1. /\ "MIE" \in left <=> "MPIE" \in s
      /\ "MPP1" \notin left
      /\ \A b : b \notin {"MIE", "MPIE", "MPP0", "MPP1"} => (b \in left <=> b \in s)
  BY DEF Put
<1> HIDE DEF left
<1>2. MachineLeft(s) = e
  BY <1>1, MstatusLegal DEF MachineLeft, LegalMpp, left
<1>3. QED
  BY <1>1, <1>2 DEF LegalMpp

\* sret unstacks SIE, empties SPP and clears MPRV.
LEMMA SupervisorLeftBits ==
  ASSUME NEW s, LegalMpp(s)
  PROVE  /\ "SIE" \in SupervisorLeft(s) <=> "SPIE" \in s
         /\ "MPRV" \notin SupervisorLeft(s)
         /\ \A b : b \notin {"SIE", "SPIE", "SPP", "MPRV"} =>
              (b \in SupervisorLeft(s) <=> b \in s)
<1> DEFINE e == (Put(s, "SIE", "SPIE" \in s) \cup {"SPIE"}) \ {"SPP", "MPRV"}
<1>1. /\ "SIE" \in e <=> "SPIE" \in s
      /\ "MPRV" \notin e
      /\ \A b : b \notin {"SIE", "SPIE", "SPP", "MPRV"} => (b \in e <=> b \in s)
  BY DEF Put
<1>2. SupervisorLeft(s) = e
  BY <1>1, MstatusLegal DEF SupervisorLeft, LegalMpp
<1>3. QED
  BY <1>1, <1>2
-----------------------------------------------------------------------------
(* The effect of each step.                                                  *)

\* A step other than a sample; the counters keep their count.
Settled ==
  /\ Shaped(registers') /\ ~registers'.retire
  /\ registers'.plicSupervisorExternalPending = registers.plicSupervisorExternalPending
  /\ phase # "sample" /\ phase' \in {"sample", "wfi"}
  /\ UNCHANGED <<wires, program>>
  /\ registers'.csr.mcycle \in 0 .. CounterSize - 1
  /\ registers'.csr.minstret \in 0 .. CounterSize - 1
  /\ RetiredOnce => RetiredOnce'

Causes == [interrupt : BOOLEAN, code : Nat]

EntersMachine ==
  /\ \E cause \in Causes : registers'.pc = Handler(registers.csr.mtvec, cause)
  /\ registers'.privilege = PRIVILEGE_MACHINE
  /\ SameBut(registers, registers', {"mepc", "mcause", "mstatus"} \cup Counters)
  /\ registers'.csr.mepc = LegalXepc(registers.pc)
  /\ registers'.csr.mstatus = MachineEntered(registers.csr.mstatus, registers.privilege)
  /\ frame' = [frame EXCEPT ![PRIVILEGE_MACHINE] = FrameOf(registers, PRIVILEGE_MACHINE)]

EntersSupervisor ==
  /\ \E cause \in Causes : registers'.pc = Handler(registers.csr.stvec, cause)
  /\ registers.privilege # PRIVILEGE_MACHINE /\ registers'.privilege = PRIVILEGE_SUPERVISOR
  /\ SameBut(registers, registers', {"sepc", "scause", "mstatus"} \cup Counters)
  /\ registers'.csr.sepc = LegalXepc(registers.pc)
  /\ registers'.csr.mstatus = SupervisorEntered(registers.csr.mstatus, registers.privilege)
  /\ frame' = [frame EXCEPT ![PRIVILEGE_SUPERVISOR] = FrameOf(registers, PRIVILEGE_SUPERVISOR)]

ReturnsMachine ==
  /\ registers.privilege = PRIVILEGE_MACHINE
  /\ registers'.privilege = PrivilegeFromMpp(registers.csr.mstatus)
  /\ registers'.pc = registers.csr.mepc
  /\ SameBut(registers, registers', {"mstatus"} \cup Counters)
  /\ registers'.csr.mstatus = MachineLeft(registers.csr.mstatus)
  /\ frame' = [frame EXCEPT ![PRIVILEGE_MACHINE] = NoFrame]

ReturnsSupervisor ==
  /\ registers'.privilege = IF "SPP" \in registers.csr.mstatus THEN PRIVILEGE_SUPERVISOR
                                                               ELSE PRIVILEGE_USER
  /\ registers'.pc = registers.csr.sepc
  /\ SameBut(registers, registers', {"mstatus"} \cup Counters)
  /\ registers'.csr.mstatus = SupervisorLeft(registers.csr.mstatus)
  /\ frame' = [frame EXCEPT ![PRIVILEGE_SUPERVISOR] = NoFrame]

Proceeds ==
  /\ registers'.pc \in Addresses /\ registers'.privilege = registers.privilege
  /\ SameBut(registers, registers', Counters)
  /\ frame' = frame

\* The value a csr instruction writes.
Operated(insn) == Combine(insn.how, Read(registers, insn.csr), insn.value)

Writes(insn) ==
  /\ insn.op = "csr" /\ insn.writes /\ AccessAllowed(registers, insn.csr, TRUE)
  /\ Written(registers, registers', insn.csr, Operated(insn), Counters)
  /\ registers'.pc \in Addresses /\ registers'.privilege = registers.privilege
  /\ phase' = "sample" /\ frame' = ForgetFrames(insn.csr)
  /\ asked' = AskedAfter(insn, registers')
  /\ latched' = LatchedAfter(insn)

\* The counter rests on its value or moves to one in range.
LEMMA CounterRange ==
  ASSUME NEW r, NEW bit, NEW n \in 0 .. CounterSize - 1
  PROVE  (n + Counting(r, bit)) % CounterSize \in 0 .. CounterSize - 1
BY HartAssumption DEF Counting

\* An exception is a trap to M or, when delegated, to S.
LEMMA ExceptionEnters ==
  ASSUME Well, NEW code \in Nat, NEW r, Shaped(r), SameBut(registers, r, Counters),
         r.pc = registers.pc, r.privilege = registers.privilege,
         r.plicSupervisorExternalPending = registers.plicSupervisorExternalPending,
         registers' = CommitRetire(EnterTrap(r, code)), ExceptionFrame(registers, code)
  PROVE  /\ Shaped(registers') /\ ~registers'.retire
         /\ registers'.plicSupervisorExternalPending = registers.plicSupervisorExternalPending
         /\ EntersMachine \/ EntersSupervisor
         /\ registers'.csr.mcycle = r.csr.mcycle /\ registers'.csr.minstret = r.csr.minstret
<1> DEFINE c     == CancelRetire(r)
           cause == [interrupt |-> FALSE, code |-> code]
<1>1. /\ Shaped(c) /\ c.csr = r.csr /\ c.pc = registers.pc /\ c.privilege = registers.privilege
      /\ c.plicSupervisorExternalPending = registers.plicSupervisorExternalPending
      /\ c.retire = FALSE
  BY RetireFlag
<1>2. EnterTrap(r, code) = IF Delegated(r, code) THEN EnterSupervisorTrap(c, cause)
                                                 ELSE EnterMachineTrap(c, cause)
  BY DEF EnterTrap
<1>3. cause \in Causes
  BY DEF Causes
<1>4. Delegated(r, code) <=> Delegated(registers, code)
  BY DEF Delegated, SameBut, CsrNames, MachineRegisters, Counters
<1> HIDE DEF c, cause
<1>5. CASE Delegated(registers, code)
  <2>1. EnterTrap(r, code) = EnterSupervisorTrap(c, cause)
    BY <1>2, <1>4, <1>5
  <2>2. EnterTrap(r, code).retire = FALSE
    BY <1>1, <2>1, SupervisorTrapEnters
  <2>3. registers' = EnterSupervisorTrap(c, cause)
    BY <2>1, <2>2, CommitNothing
  <2>4. /\ Shaped(registers') /\ registers'.privilege = PRIVILEGE_SUPERVISOR
        /\ registers'.pc = Handler(c.csr.stvec, cause) /\ registers'.retire = FALSE
        /\ registers'.plicSupervisorExternalPending = registers.plicSupervisorExternalPending
        /\ SameBut(c, registers', {"sepc", "scause", "mstatus"})
        /\ registers'.csr.sepc = LegalXepc(registers.pc)
        /\ registers'.csr.mstatus = SupervisorEntered(c.csr.mstatus, registers.privilege)
    BY <1>1, <2>3, SupervisorTrapEnters
  <2>5. c.csr.stvec = registers.csr.stvec /\ c.csr.mstatus = registers.csr.mstatus
    BY <1>1 DEF SameBut, CsrNames, MachineRegisters, SupervisorRegisters, Counters
  <2>6. SameBut(registers, registers', {"sepc", "scause", "mstatus"} \cup Counters)
    BY <1>1, <2>4 DEF SameBut
  <2>7. registers'.csr.mcycle = r.csr.mcycle /\ registers'.csr.minstret = r.csr.minstret
    BY <1>1, <2>4 DEF SameBut, CsrNames, MachineRegisters
  <2>8. frame' = [frame EXCEPT ![PRIVILEGE_SUPERVISOR] = FrameOf(registers, PRIVILEGE_SUPERVISOR)]
    BY <1>5 DEF ExceptionFrame, EnterFrame
  <2>9. registers.privilege # PRIVILEGE_MACHINE
    BY <1>5 DEF Delegated
  <2>10. EntersSupervisor
    BY <1>3, <2>4, <2>5, <2>6, <2>8, <2>9 DEF EntersSupervisor
  <2>11. QED
    BY <2>4, <2>7, <2>10
<1>6. CASE ~Delegated(registers, code)
  <2>1. EnterTrap(r, code) = EnterMachineTrap(c, cause)
    BY <1>2, <1>4, <1>6
  <2>2. EnterTrap(r, code).retire = FALSE
    BY <1>1, <2>1, MachineTrapEnters
  <2>3. registers' = EnterMachineTrap(c, cause)
    BY <2>1, <2>2, CommitNothing
  <2>4. /\ Shaped(registers') /\ registers'.privilege = PRIVILEGE_MACHINE
        /\ registers'.pc = Handler(c.csr.mtvec, cause) /\ registers'.retire = FALSE
        /\ registers'.plicSupervisorExternalPending = registers.plicSupervisorExternalPending
        /\ SameBut(c, registers', {"mepc", "mcause", "mstatus"})
        /\ registers'.csr.mepc = LegalXepc(registers.pc)
        /\ registers'.csr.mstatus = MachineEntered(c.csr.mstatus, registers.privilege)
    BY <1>1, <2>3, MachineTrapEnters
  <2>5. c.csr.mtvec = registers.csr.mtvec /\ c.csr.mstatus = registers.csr.mstatus
    BY <1>1 DEF SameBut, CsrNames, MachineRegisters, Counters
  <2>6. SameBut(registers, registers', {"mepc", "mcause", "mstatus"} \cup Counters)
    BY <1>1, <2>4 DEF SameBut
  <2>7. registers'.csr.mcycle = r.csr.mcycle /\ registers'.csr.minstret = r.csr.minstret
    BY <1>1, <2>4 DEF SameBut, CsrNames, MachineRegisters
  <2>8. frame' = [frame EXCEPT ![PRIVILEGE_MACHINE] = FrameOf(registers, PRIVILEGE_MACHINE)]
    BY <1>6 DEF ExceptionFrame, EnterFrame
  <2>9. EntersMachine
    BY <1>3, <2>4, <2>5, <2>6, <2>8 DEF EntersMachine
  <2>10. QED
    BY <2>4, <2>7, <2>9
<1>7. QED
  BY <1>5, <1>6

\* An instruction completes: counted once, and gone on.
LEMMA CompletionCounts ==
  ASSUME Well, phase = "run", NEW q, Shaped(q), q.retire = TRUE,
         q.plicSupervisorExternalPending = registers.plicSupervisorExternalPending,
         q.csr.mcycle = registers.csr.mcycle, q.csr.minstret = registers.csr.minstret,
         q.csr.mcountinhibit = registers.csr.mcountinhibit,
         registers' = CommitRetire(q), Tally(q, retired.cycles, retired.instructions),
         phase' \in {"sample", "wfi"}, UNCHANGED <<wires, program>>
  PROVE  /\ Settled /\ SameBut(q, registers', Counters)
         /\ registers'.pc = q.pc /\ registers'.privilege = q.privilege
<1>1. /\ Shaped(registers') /\ ~registers'.retire
      /\ registers'.pc = q.pc /\ registers'.privilege = q.privilege
      /\ registers'.plicSupervisorExternalPending = registers.plicSupervisorExternalPending
      /\ SameBut(q, registers', Counters)
      /\ registers'.csr.mcycle = (registers.csr.mcycle + Counting(q, "CY")) % CounterSize
      /\ registers'.csr.minstret = (registers.csr.minstret + Counting(q, "IR")) % CounterSize
  BY CommitCounts
<1>2. /\ registers'.csr.mcycle \in 0 .. CounterSize - 1
      /\ registers'.csr.minstret \in 0 .. CounterSize - 1
  BY <1>1, CounterRange DEF Well, Placed
<1>3. RetiredOnce => RetiredOnce'
  BY <1>1 DEF RetiredOnce, Tally
<1>4. QED
  BY <1>1, <1>2, <1>3 DEF Settled

\* An instruction that raises an exception is not counted.
LEMMA RaiseEffect ==
  ASSUME Well, phase = "run", NEW code \in Nat, Raises(code)
  PROVE  Settled /\ (EntersMachine \/ EntersSupervisor) /\ UNCHANGED <<asked, latched>>
<1> DEFINE r == BeginRetire(registers)
<1>1. /\ Shaped(r) /\ r.csr = registers.csr /\ r.pc = registers.pc
      /\ r.privilege = registers.privilege
      /\ r.plicSupervisorExternalPending = registers.plicSupervisorExternalPending
  BY RetireFlag DEF Well
<1>2. SameBut(registers, r, Counters)
  BY <1>1 DEF SameBut
<1>3. /\ registers' = CommitRetire(EnterTrap(r, code)) /\ ExceptionFrame(registers, code)
      /\ phase' = "sample" /\ UNCHANGED <<wires, program, asked, latched, retired>>
  BY DEF Raises, Iterate
<1> HIDE DEF r
<1>4. /\ Shaped(registers') /\ ~registers'.retire
      /\ registers'.plicSupervisorExternalPending = registers.plicSupervisorExternalPending
      /\ EntersMachine \/ EntersSupervisor
      /\ registers'.csr.mcycle = r.csr.mcycle /\ registers'.csr.minstret = r.csr.minstret
  BY <1>1, <1>2, <1>3, ExceptionEnters
<1>5. RetiredOnce => RetiredOnce'
  BY <1>1, <1>3, <1>4 DEF RetiredOnce
<1>6. QED
  BY <1>1, <1>3, <1>4, <1>5 DEF Settled, Well, Placed

\* So is one that could not be fetched.
LEMMA FetchEffect ==
  ASSUME Well, phase = "run", NEW code \in Nat, Iterate(EnterTrap(registers, code)),
         ExceptionFrame(registers, code), UNCHANGED <<asked, latched, retired>>
  PROVE  Settled /\ (EntersMachine \/ EntersSupervisor) /\ UNCHANGED <<asked, latched>>
<1>1. SameBut(registers, registers, Counters) /\ Shaped(registers)
  BY DEF SameBut, Well
<1>2. EnterTrap(registers, code).retire = FALSE
  <2>1. CancelRetire(registers).retire = FALSE /\ Shaped(CancelRetire(registers))
    BY <1>1, RetireFlag
  <2>2. QED
    BY <2>1, MachineTrapEnters, SupervisorTrapEnters DEF EnterTrap
<1>3. registers' = CommitRetire(EnterTrap(registers, code))
  BY <1>2, CommitNothing DEF Iterate
<1>4. /\ Shaped(registers') /\ ~registers'.retire
      /\ registers'.plicSupervisorExternalPending = registers.plicSupervisorExternalPending
      /\ EntersMachine \/ EntersSupervisor
      /\ registers'.csr.mcycle = registers.csr.mcycle
      /\ registers'.csr.minstret = registers.csr.minstret
  BY <1>1, <1>3, ExceptionEnters
<1>5. phase' = "sample" /\ UNCHANGED <<wires, program, retired>>
  BY DEF Iterate
<1>6. RetiredOnce => RetiredOnce'
  BY <1>4, <1>5 DEF RetiredOnce
<1>7. QED
  BY <1>4, <1>5, <1>6 DEF Settled, Well, Placed

\* ecall and ebreak are counted and then trap.
LEMMA EnvironmentEffect ==
  ASSUME Well, phase = "run", NEW code \in Nat, EnvironmentTrap(code)
  PROVE  Settled /\ (EntersMachine \/ EntersSupervisor) /\ UNCHANGED <<asked, latched>>
<1> DEFINE b == BeginRetire(registers)
           r == RetireNow(b)
<1>1. /\ Shaped(BeginRetire(b)) /\ BeginRetire(b).csr = registers.csr
      /\ BeginRetire(b).pc = registers.pc /\ BeginRetire(b).privilege = registers.privilege
      /\ BeginRetire(b).plicSupervisorExternalPending = registers.plicSupervisorExternalPending
      /\ BeginRetire(b).retire = TRUE
  BY RetireFlag DEF Well
<1>2. r = CommitRetire(BeginRetire(b))
  BY DEF RetireNow
<1>3. /\ registers' = CommitRetire(EnterTrap(r, code)) /\ ExceptionFrame(registers, code)
      /\ phase' = "sample" /\ UNCHANGED <<wires, program, asked, latched>>
      /\ Tally(registers, retired.cycles, retired.instructions)
  BY DEF EnvironmentTrap, Iterate
<1> HIDE DEF b, r
<1>4. /\ Shaped(r) /\ r.pc = registers.pc /\ r.privilege = registers.privilege
      /\ r.plicSupervisorExternalPending = registers.plicSupervisorExternalPending
      /\ SameBut(BeginRetire(b), r, Counters)
      /\ r.csr.mcycle = (registers.csr.mcycle + Counting(BeginRetire(b), "CY")) % CounterSize
      /\ r.csr.minstret = (registers.csr.minstret + Counting(BeginRetire(b), "IR")) % CounterSize
  BY <1>1, <1>2, CommitCounts
<1>5. SameBut(registers, r, Counters)
  BY <1>1, <1>4 DEF SameBut
<1>6. /\ r.csr.mcycle = (registers.csr.mcycle + Counting(registers, "CY")) % CounterSize
      /\ r.csr.minstret = (registers.csr.minstret + Counting(registers, "IR")) % CounterSize
  BY <1>1, <1>4 DEF Counting
<1>7. /\ Shaped(registers') /\ ~registers'.retire
      /\ registers'.plicSupervisorExternalPending = registers.plicSupervisorExternalPending
      /\ EntersMachine \/ EntersSupervisor
      /\ registers'.csr.mcycle = r.csr.mcycle /\ registers'.csr.minstret = r.csr.minstret
  BY <1>3, <1>4, <1>5, ExceptionEnters
<1>8. /\ registers'.csr.mcycle \in 0 .. CounterSize - 1
      /\ registers'.csr.minstret \in 0 .. CounterSize - 1
  BY <1>6, <1>7, CounterRange DEF Well, Placed
<1>9. RetiredOnce => RetiredOnce'
  BY <1>3, <1>6, <1>7 DEF RetiredOnce, Tally
<1>10. QED
  BY <1>3, <1>7, <1>8, <1>9 DEF Settled

\* An instruction that only moves on.
LEMMA AdvanceEffect ==
  ASSUME Well, phase = "run", NEW n \in Nat,
         registers' = CommitRetire(AdvancePc(BeginRetire(registers), n)),
         Tally(registers, retired.cycles, retired.instructions),
         phase' \in {"sample", "wfi"}, UNCHANGED <<wires, program, frame>>
  PROVE  Settled /\ Proceeds
<1> DEFINE q == AdvancePc(BeginRetire(registers), n)
<1>1. /\ Shaped(q) /\ q.csr = registers.csr /\ q.privilege = registers.privilege
      /\ q.plicSupervisorExternalPending = registers.plicSupervisorExternalPending
      /\ q.retire = TRUE /\ q.pc = (registers.pc + n) % AddressSize
  <2>1. /\ Shaped(BeginRetire(registers)) /\ BeginRetire(registers).csr = registers.csr
        /\ BeginRetire(registers).privilege = registers.privilege
        /\ BeginRetire(registers).plicSupervisorExternalPending
             = registers.plicSupervisorExternalPending
        /\ BeginRetire(registers).retire = TRUE /\ BeginRetire(registers).pc = registers.pc
    BY RetireFlag DEF Well
  <2>2. QED
    BY <2>1, PcAdvances
<1>2. registers' = CommitRetire(q)
  OBVIOUS
<1> HIDE DEF q
<1>3. Tally(q, retired.cycles, retired.instructions)
  BY <1>1 DEF Tally, Counting
<1>4. /\ Settled /\ SameBut(q, registers', Counters)
      /\ registers'.pc = q.pc /\ registers'.privilege = q.privilege
  BY <1>1, <1>2, <1>3, CompletionCounts
<1>5. SameBut(registers, registers', Counters)
  BY <1>1, <1>4 DEF SameBut
<1>6. q.pc \in Addresses
  BY <1>1, HartAssumption DEF Well, Placed, Addresses
<1>7. QED
  BY <1>1, <1>4, <1>5, <1>6 DEF Proceeds

\* The interrupt selected is one that may be taken.
LEMMA SelectedIsTakeable ==
  ASSUME Well, Takeable(registers) # {}
  PROVE  SelectTakeable(registers) \in Takeable(registers) \cap Interrupts
<1> DEFINE ranks == {k \in DOMAIN INTERRUPT_PRIORITY :
                       INTERRUPT_PRIORITY[k] \in Takeable(registers)}
<1>1. DOMAIN INTERRUPT_PRIORITY = 1 .. 6
  BY DEF INTERRUPT_PRIORITY
<1>2. Takeable(registers) \subseteq Interrupts
  BY DEF Takeable, PendingEnabled, Well, Legal
<1>3. \A x \in Interrupts : \E k \in 1 .. 6 : INTERRUPT_PRIORITY[k] = x
  <2>1. /\ INTERRUPT_PRIORITY[1] = "MEI" /\ INTERRUPT_PRIORITY[2] = "MSI"
        /\ INTERRUPT_PRIORITY[3] = "MTI" /\ INTERRUPT_PRIORITY[4] = "SEI"
        /\ INTERRUPT_PRIORITY[5] = "SSI" /\ INTERRUPT_PRIORITY[6] = "STI"
    BY DEF INTERRUPT_PRIORITY
  <2>2. QED
    BY <2>1 DEF Interrupts, SupervisorInterrupts, MachineInterrupts
<1>4. ranks # {} /\ ranks \subseteq 1 .. 6
  BY <1>1, <1>2, <1>3
<1>5. \E k \in ranks : \A j \in ranks : k <= j
  <2> HIDE DEF ranks
  <2>1. \/ 1 \in ranks \/ 2 \in ranks \/ 3 \in ranks
        \/ 4 \in ranks \/ 5 \in ranks \/ 6 \in ranks
    <3>1. PICK k \in ranks : k \in 1 .. 6
      BY <1>4
    <3>2. k = 1 \/ k = 2 \/ k = 3 \/ k = 4 \/ k = 5 \/ k = 6
      BY <3>1
    <3>3. QED
      BY <3>2
  <2>2. QED
    BY <1>4, <2>1
<1>6. (CHOOSE k \in ranks : \A j \in ranks : k <= j) \in ranks
  <2> HIDE DEF ranks
  <2>1. QED
    BY <1>5
<1>7. SelectTakeable(registers) = INTERRUPT_PRIORITY[CHOOSE k \in ranks : \A j \in ranks : k <= j]
  BY DEF SelectTakeable
<1>8. QED
  BY <1>2, <1>6, <1>7

\* An interrupt traps to the mode it belongs to, which has it enabled.
LEMMA InterruptEffect ==
  ASSUME Well, TakeInterrupt
  PROVE  Settled /\ (EntersMachine \/ EntersSupervisor) /\ UNCHANGED <<asked, latched>>
<1> DEFINE x     == SelectTakeable(registers)
           cause == [interrupt |-> TRUE, code |-> InterruptCode[x]]
<1>1. /\ phase = "run" /\ Takeable(registers) # {} /\ phase' = "sample"
      /\ UNCHANGED <<wires, program, asked, latched, retired>>
  BY DEF TakeInterrupt, Iterate
<1>2. x \in Takeable(registers) /\ x \in Interrupts
  BY <1>1, SelectedIsTakeable
<1>3. cause \in Causes
  <2>1. \A y \in Interrupts : InterruptCode[y] \in Nat
    BY DEF InterruptCode, Interrupts, SupervisorInterrupts, MachineInterrupts
  <2>2. QED
    BY <1>2, <2>1 DEF Causes
<1>4. Shaped(registers) /\ registers.retire = FALSE
      /\ registers.csr.mcycle \in 0 .. CounterSize - 1
      /\ registers.csr.minstret \in 0 .. CounterSize - 1
  <2>1. registers.retire = FALSE
    BY DEF Well, Placed, Shaped
  <2>2. QED
    BY <2>1 DEF Well, Placed
<1>5. CASE x \in registers.csr.mideleg
  <2>1. /\ registers' = EnterSupervisorTrap(registers, cause)
        /\ frame' = EnterFrame(registers, PRIVILEGE_SUPERVISOR, TRUE)
    BY <1>5 DEF TakeInterrupt, Iterate
  <2>2. SupervisorGloballyEnabled(registers)
    BY <1>2, <1>5 DEF Takeable
  <2>3. /\ registers.privilege # PRIVILEGE_MACHINE
        /\ registers.privilege = PRIVILEGE_SUPERVISOR => "SIE" \in registers.csr.mstatus
    BY <2>2 DEF SupervisorGloballyEnabled, PRIVILEGE_USER, PRIVILEGE_SUPERVISOR, PRIVILEGE_MACHINE
  <2>4. frame' = [frame EXCEPT ![PRIVILEGE_SUPERVISOR] = FrameOf(registers, PRIVILEGE_SUPERVISOR)]
    BY <2>1, <2>3 DEF EnterFrame, EnableBit, PRIVILEGE_SUPERVISOR, PRIVILEGE_MACHINE
  <2> HIDE DEF x, cause
  <2>5. /\ Shaped(registers') /\ registers'.privilege = PRIVILEGE_SUPERVISOR
        /\ registers'.pc = Handler(registers.csr.stvec, cause) /\ registers'.retire = FALSE
        /\ registers'.plicSupervisorExternalPending = registers.plicSupervisorExternalPending
        /\ SameBut(registers, registers', {"sepc", "scause", "mstatus"})
        /\ registers'.csr.sepc = LegalXepc(registers.pc)
        /\ registers'.csr.mstatus = SupervisorEntered(registers.csr.mstatus, registers.privilege)
    BY <1>4, <2>1, SupervisorTrapEnters
  <2>6. /\ registers'.csr.mcycle = registers.csr.mcycle
        /\ registers'.csr.minstret = registers.csr.minstret
    BY <2>5 DEF SameBut, CsrNames, MachineRegisters
  <2>7. EntersSupervisor
    BY <1>3, <2>3, <2>4, <2>5 DEF EntersSupervisor, SameBut
  <2>8. Settled
    BY <1>1, <1>4, <2>5, <2>6 DEF Settled, RetiredOnce
  <2>9. QED
    BY <1>1, <2>7, <2>8
<1>6. CASE x \notin registers.csr.mideleg
  <2>1. /\ registers' = EnterMachineTrap(registers, cause)
        /\ frame' = EnterFrame(registers, PRIVILEGE_MACHINE, TRUE)
    BY <1>6 DEF TakeInterrupt, Iterate
  <2>2. MachineGloballyEnabled(registers)
    BY <1>2, <1>6 DEF Takeable
  <2>3. frame' = [frame EXCEPT ![PRIVILEGE_MACHINE] = FrameOf(registers, PRIVILEGE_MACHINE)]
    BY <2>1, <2>2 DEF EnterFrame, EnableBit, MachineGloballyEnabled
  <2> HIDE DEF x, cause
  <2>4. /\ Shaped(registers') /\ registers'.privilege = PRIVILEGE_MACHINE
        /\ registers'.pc = Handler(registers.csr.mtvec, cause) /\ registers'.retire = FALSE
        /\ registers'.plicSupervisorExternalPending = registers.plicSupervisorExternalPending
        /\ SameBut(registers, registers', {"mepc", "mcause", "mstatus"})
        /\ registers'.csr.mepc = LegalXepc(registers.pc)
        /\ registers'.csr.mstatus = MachineEntered(registers.csr.mstatus, registers.privilege)
    BY <1>4, <2>1, MachineTrapEnters
  <2>5. /\ registers'.csr.mcycle = registers.csr.mcycle
        /\ registers'.csr.minstret = registers.csr.minstret
    BY <2>4 DEF SameBut, CsrNames, MachineRegisters
  <2>6. EntersMachine
    BY <1>3, <2>3, <2>4 DEF EntersMachine, SameBut
  <2>7. Settled
    BY <1>1, <1>4, <2>4, <2>5 DEF Settled, RetiredOnce
  <2>8. QED
    BY <1>1, <2>6, <2>7
<1>7. QED
  BY <1>5, <1>6

\* mret is counted under the registers it leaves.
LEMMA MretEffect ==
  ASSUME Well, Mret
  PROVE  Settled /\ ReturnsMachine /\ UNCHANGED <<asked, latched>>
<1> DEFINE b == BeginRetire(registers)
<1>1. /\ Shaped(b) /\ b.csr = registers.csr /\ b.privilege = registers.privilege
      /\ b.plicSupervisorExternalPending = registers.plicSupervisorExternalPending
      /\ b.retire = TRUE
  BY RetireFlag DEF Well
<1> DEFINE q == ReturnFromMachineTrap(b)
<1>2. /\ registers' = CommitRetire(q) /\ Tally(q, retired.cycles, retired.instructions)
      /\ phase = "run" /\ phase' = "sample" /\ UNCHANGED <<wires, program, asked, latched>>
      /\ registers.privilege = PRIVILEGE_MACHINE
      /\ frame' = [frame EXCEPT ![PRIVILEGE_MACHINE] = NoFrame]
  BY DEF Mret, MretAllowed, Completes, Iterate, Executes, Fetching
<1> HIDE DEF b
<1>3. /\ Shaped(q) /\ q.privilege = PrivilegeFromMpp(registers.csr.mstatus)
      /\ q.pc = registers.csr.mepc /\ q.retire = TRUE
      /\ q.plicSupervisorExternalPending = registers.plicSupervisorExternalPending
      /\ SameBut(b, q, {"mstatus"}) /\ q.csr.mstatus = MachineLeft(registers.csr.mstatus)
  BY <1>1, MachineTrapReturns
<1> HIDE DEF q
<1>4. /\ q.csr.mcycle = registers.csr.mcycle /\ q.csr.minstret = registers.csr.minstret
      /\ q.csr.mcountinhibit = registers.csr.mcountinhibit
  BY <1>1, <1>3 DEF SameBut, CsrNames, MachineRegisters
<1>5. /\ Settled /\ SameBut(q, registers', Counters)
      /\ registers'.pc = q.pc /\ registers'.privilege = q.privilege
  BY <1>2, <1>3, <1>4, CompletionCounts
<1>6. SameBut(registers, registers', {"mstatus"} \cup Counters)
  BY <1>1, <1>3, <1>5 DEF SameBut
<1>7. registers'.csr.mstatus = MachineLeft(registers.csr.mstatus)
  BY <1>3, <1>5 DEF SameBut, CsrNames, MachineRegisters, Counters
<1>8. QED
  BY <1>2, <1>3, <1>5, <1>6, <1>7 DEF ReturnsMachine

\* So is sret.
LEMMA SretEffect ==
  ASSUME Well, Sret
  PROVE  Settled /\ ReturnsSupervisor /\ UNCHANGED <<asked, latched>>
<1> DEFINE b == BeginRetire(registers)
<1>1. /\ Shaped(b) /\ b.csr = registers.csr /\ b.privilege = registers.privilege
      /\ b.plicSupervisorExternalPending = registers.plicSupervisorExternalPending
      /\ b.retire = TRUE
  BY RetireFlag DEF Well
<1> DEFINE q == ReturnFromSupervisorTrap(b)
<1>2. /\ registers' = CommitRetire(q) /\ Tally(q, retired.cycles, retired.instructions)
      /\ phase = "run" /\ phase' = "sample" /\ UNCHANGED <<wires, program, asked, latched>>
      /\ frame' = [frame EXCEPT ![PRIVILEGE_SUPERVISOR] = NoFrame]
  BY DEF Sret, Completes, Iterate, Executes, Fetching
<1> HIDE DEF b
<1>3. /\ Shaped(q) /\ q.pc = registers.csr.sepc /\ q.retire = TRUE
      /\ q.privilege = IF "SPP" \in registers.csr.mstatus THEN PRIVILEGE_SUPERVISOR
                                                          ELSE PRIVILEGE_USER
      /\ q.plicSupervisorExternalPending = registers.plicSupervisorExternalPending
      /\ SameBut(b, q, {"mstatus"}) /\ q.csr.mstatus = SupervisorLeft(registers.csr.mstatus)
  BY <1>1, SupervisorTrapReturns
<1> HIDE DEF q
<1>4. /\ q.csr.mcycle = registers.csr.mcycle /\ q.csr.minstret = registers.csr.minstret
      /\ q.csr.mcountinhibit = registers.csr.mcountinhibit
  BY <1>1, <1>3 DEF SameBut, CsrNames, MachineRegisters
<1>5. /\ Settled /\ SameBut(q, registers', Counters)
      /\ registers'.pc = q.pc /\ registers'.privilege = q.privilege
  BY <1>2, <1>3, <1>4, CompletionCounts
<1>6. SameBut(registers, registers', {"mstatus"} \cup Counters)
  BY <1>1, <1>3, <1>5 DEF SameBut
<1>7. registers'.csr.mstatus = SupervisorLeft(registers.csr.mstatus)
  BY <1>3, <1>5 DEF SameBut, CsrNames, MachineRegisters, Counters
<1>8. QED
  BY <1>2, <1>3, <1>5, <1>6, <1>7 DEF ReturnsSupervisor

\* A csr instruction that writes: the register takes the legal value, the counters
\* count under what was written.
LEMMA CsrWriteEffect ==
  ASSUME Well, CsrWrite
  PROVE  \E insn \in Programs[program] : Settled /\ Writes(insn)
<1>1. PICK insn \in Programs[program] :
        /\ Executes(insn, "csr") /\ insn.writes
        /\ AccessAllowed(registers, insn.csr, TRUE)
        /\ LET r       == BeginRetire(registers)
               written == Combine(insn.how, Read(r, insn.csr), insn.value)
               after   == Write(r, insn.csr, written)
           IN /\ Iterate(CommitRetire(AdvancePc(after, 4)))
              /\ frame'   = ForgetFrames(insn.csr)
              /\ asked'   = AskedAfter(insn, after)
              /\ latched' = LatchedAfter(insn)
              /\ Tally(after, IF insn.csr = "mcycle" THEN insn.value ELSE retired.cycles,
                       IF insn.csr = "minstret" THEN insn.value ELSE retired.instructions)
  BY DEF CsrWrite
<1> DEFINE r     == BeginRetire(registers)
           i     == insn.csr
           v     == Operated(insn)
           after == Write(r, i, v)
           q     == AdvancePc(after, 4)
<1>2. /\ phase = "run" /\ insn.op = "csr" /\ insn.writes
      /\ AccessAllowed(registers, i, TRUE) /\ i \in Implemented \ ReadOnly
  BY <1>1 DEF Executes, Fetching, AccessAllowed
<1>3. Operand(insn)
  BY <1>2, HartAssumption DEF Well, Control
<1>4. /\ Shaped(r) /\ r.csr = registers.csr /\ r.pc = registers.pc
      /\ r.privilege = registers.privilege /\ r.retire = TRUE
      /\ r.plicSupervisorExternalPending = registers.plicSupervisorExternalPending
  BY RetireFlag DEF Well
<1>5. Read(r, i) = Read(registers, i)
  BY <1>4 DEF Read, MipWithPlicSeip
<1>6. /\ registers' = CommitRetire(q) /\ phase' = "sample" /\ UNCHANGED <<wires, program>>
      /\ frame' = ForgetFrames(i) /\ asked' = AskedAfter(insn, after)
      /\ latched' = LatchedAfter(insn)
      /\ Tally(after, IF i = "mcycle" THEN insn.value ELSE retired.cycles,
               IF i = "minstret" THEN insn.value ELSE retired.instructions)
  BY <1>1, <1>5 DEF Operated, Iterate
<1> HIDE DEF r
<1> HIDE DEF v
<1>7. /\ Shaped(after) /\ after.pc = registers.pc /\ after.privilege = registers.privilege
      /\ after.plicSupervisorExternalPending = registers.plicSupervisorExternalPending
      /\ after.retire = TRUE
  BY <1>2, <1>4, WriteEffect
<1>8. Written(r, after, i, v, {})
  BY <1>2, <1>4, WriteEffect
<1> HIDE DEF after
<1>9. /\ after.csr.mcycle = (IF i = "mcycle" THEN insn.value ELSE registers.csr.mcycle)
      /\ after.csr.minstret = (IF i = "minstret" THEN insn.value ELSE registers.csr.minstret)
  <2>1. Counters \subseteq CsrNames
    BY DEF Counters, CsrNames, MachineRegisters
  <2>2. \A j \in Counters : j # i => after.csr[j] = registers.csr[j]
    BY <1>4, <1>8, <2>1
       DEF Written, SameBut, Counters, Implemented, MachineRegisters, SupervisorRegisters,
           UserRegisters, ReadOnly
  <2>3. i \in Counters => after.csr[i] = insn.value
    <3>1. i \in Counters => v = insn.value
      BY <1>3 DEF Operated, Operand, Combine, Counters, v
    <3>2. QED
      BY <1>8, <3>1 DEF Written
  <2>4. QED
    BY <2>2, <2>3 DEF Counters
<1>10. /\ Shaped(q) /\ q.csr = after.csr /\ q.privilege = registers.privilege
       /\ q.plicSupervisorExternalPending = registers.plicSupervisorExternalPending
       /\ q.retire = TRUE /\ q.pc = (registers.pc + 4) % AddressSize
  BY <1>7, PcAdvances
<1> HIDE DEF q
<1>11. /\ Shaped(registers') /\ ~registers'.retire
       /\ registers'.pc = q.pc /\ registers'.privilege = registers.privilege
       /\ registers'.plicSupervisorExternalPending = registers.plicSupervisorExternalPending
       /\ SameBut(q, registers', Counters)
       /\ registers'.csr.mcycle = (q.csr.mcycle + Counting(q, "CY")) % CounterSize
       /\ registers'.csr.minstret = (q.csr.minstret + Counting(q, "IR")) % CounterSize
  BY <1>6, <1>10, CommitCounts
<1>12. /\ q.csr.mcycle \in 0 .. CounterSize - 1 /\ q.csr.minstret \in 0 .. CounterSize - 1
  BY <1>3, <1>9, <1>10 DEF Well, Placed, Operand
<1>13. /\ registers'.csr.mcycle \in 0 .. CounterSize - 1
       /\ registers'.csr.minstret \in 0 .. CounterSize - 1
  BY <1>11, <1>12, CounterRange
<1>14. RetiredOnce => RetiredOnce'
  BY <1>6, <1>9, <1>10, <1>11 DEF RetiredOnce, Tally, Counting
<1>15. Settled
  BY <1>2, <1>6, <1>11, <1>13, <1>14 DEF Settled
<1>16. Written(registers, registers', i, v, Counters)
  <2>1. SameBut(after, registers', Counters)
    BY <1>10, <1>11 DEF SameBut
  <2>2. QED
    BY <1>4, <1>8, <2>1, WrittenOn
<1>17. AskedAfter(insn, after) = AskedAfter(insn, registers')
  BY <1>10, <1>11 DEF AskedAfter, SupervisorTimerCompareEnabled, SameBut, Counters, CsrNames,
     MachineRegisters
<1>18. registers'.pc \in Addresses
  BY <1>10, <1>11, HartAssumption DEF Well, Placed, Addresses
<1>19. QED
  BY <1>2, <1>6, <1>11, <1>15, <1>16, <1>17, <1>18 DEF Writes, v

\* wfi goes on once something enabled is pending; it has been counted before.
LEMMA WfiReturnEffect ==
  ASSUME Well, WfiReturn
  PROVE  Settled /\ Proceeds /\ UNCHANGED <<asked, latched>>
<1>1. registers' = registers /\ phase = "woken" /\ phase' = "sample"
      /\ UNCHANGED <<wires, program, frame, asked, latched, retired>>
  BY CommitNothing DEF Well, Placed, WfiReturn, Iterate, history
<1>2. Settled
  BY <1>1 DEF Settled, Well, Placed, RetiredOnce
<1>3. QED
  BY <1>1, <1>2 DEF Proceeds, Well, Placed, SameBut

SamplesWires ==
  /\ \E W : Sampled(W)
  /\ phase # "run" /\ phase' \in {"run", "woken"}

\* Moving on leaves the file as it is.
LEMMA AdvancedFile ==
  ASSUME NEW r, Shaped(r), NEW n
  PROVE  AdvancePc(BeginRetire(r), n).csr = r.csr
<1>1. Shaped(BeginRetire(r)) /\ BeginRetire(r).csr = r.csr
  BY RetireFlag
<1>2. QED
  BY <1>1, PcAdvances

\* What any step does.
LEMMA Effects ==
  ASSUME Well, Next
  PROVE  \/ SamplesWires
         \/ /\ Settled /\ UNCHANGED <<asked, latched>>
            /\ \/ EntersMachine \/ EntersSupervisor
               \/ ReturnsMachine \/ ReturnsSupervisor \/ Proceeds
         \/ \E insn \in Programs[program] : Settled /\ Writes(insn)
<1>1. CASE Sample \/ WfiSample
  BY <1>1 DEF Sample, WfiSample, SamplesWires
<1>2. CASE TakeInterrupt
  BY <1>2, InterruptEffect
<1>3. CASE MisalignedPc \/ FetchFault
  BY <1>3, FetchEffect DEF MisalignedPc, FetchFault, Fetching,
     CAUSE_INSTRUCTION_ADDRESS_MISALIGNED, CAUSE_INSTRUCTION_ACCESS_FAULT
<1>4. CASE Ordinary
  <2>1. PICK insn \in Programs[program] :
          /\ Executes(insn, "ordinary")
          /\ \/ /\ Completes(AdvancePc(BeginRetire(registers), insn.length))
                /\ UNCHANGED <<frame, asked, latched>>
             \/ \E code \in insn.faults : Raises(code)
    BY <1>4 DEF Ordinary
  <2>2. phase = "run" /\ insn.length \in Nat /\ insn.faults \subseteq Nat
    BY <2>1, HartAssumption DEF Executes, Fetching, Well, Control
  <2>3. CASE \E code \in insn.faults : Raises(code)
    BY <2>2, <2>3, RaiseEffect
  <2>4. CASE /\ Completes(AdvancePc(BeginRetire(registers), insn.length))
             /\ UNCHANGED <<frame, asked, latched>>
    <3>1. Tally(registers, retired.cycles, retired.instructions)
      <4>1. AdvancePc(BeginRetire(registers), insn.length).csr = registers.csr
        BY AdvancedFile DEF Well
      <4>2. QED
        BY <2>4, <4>1 DEF Completes, Tally, Counting
    <3>2. QED
      BY <2>2, <2>4, <3>1, AdvanceEffect DEF Completes, Iterate
  <2>5. QED
    BY <2>1, <2>3, <2>4
<1>5. CASE Ecall \/ Ebreak
  <2>1. CAUSE_ECALL[registers.privilege] \in Nat /\ CAUSE_BREAKPOINT \in Nat
    BY DEF CAUSE_ECALL, CAUSE_BREAKPOINT, Well, Placed, Privileges, PRIVILEGE_USER,
       PRIVILEGE_SUPERVISOR, PRIVILEGE_MACHINE
  <2>2. QED
    BY <1>5, <2>1, EnvironmentEffect DEF Ecall, Ebreak, Executes, Fetching
<1>6. CASE Mret \/ Sret
  BY <1>6, MretEffect, SretEffect
<1>7. CASE SfenceVma \/ CsrRead \/ Wfi
  <2>1. AdvancePc(BeginRetire(registers), 4).csr = registers.csr
    BY AdvancedFile DEF Well
  <2>2. CASE SfenceVma \/ CsrRead
    <3>1. /\ Completes(AdvancePc(BeginRetire(registers), 4)) /\ phase = "run"
          /\ UNCHANGED <<frame, asked, latched>>
      BY <2>2 DEF SfenceVma, CsrRead, Executes, Fetching
    <3>2. Tally(registers, retired.cycles, retired.instructions)
      BY <2>1, <3>1 DEF Completes, Tally, Counting
    <3>3. QED
      BY <3>1, <3>2, AdvanceEffect DEF Completes, Iterate
  <2>3. CASE Wfi
    <3> DEFINE a == AdvancePc(BeginRetire(registers), 4)
    <3>1. /\ registers' = RetireNow(a) /\ phase = "run" /\ phase' = "wfi"
          /\ Tally(registers, retired.cycles, retired.instructions)
          /\ UNCHANGED <<wires, program, frame, asked, latched>>
      BY <2>3 DEF Wfi, Executes, Fetching
    <3>2. BeginRetire(a) = a
      BY DEF AdvancePc, BeginRetire, Well, Shaped
    <3>3. registers' = CommitRetire(a)
      BY <3>1, <3>2 DEF RetireNow
    <3>4. QED
      BY <3>1, <3>3, AdvanceEffect
  <2>4. QED
    BY <1>7, <2>2, <2>3
<1>8. CASE WfiReturn
  BY <1>8, WfiReturnEffect
<1>9. CASE Illegal \/ CsrIllegal
  <2>1. phase = "run" /\ Raises(CAUSE_ILLEGAL_INSTRUCTION)
    BY <1>9 DEF Illegal, CsrIllegal, Executes, Fetching
  <2>2. QED
    BY <2>1, RaiseEffect DEF CAUSE_ILLEGAL_INSTRUCTION
<1>10. CASE CsrWrite
  BY <1>10, CsrWriteEffect
<1>11. QED
  BY <1>1, <1>2, <1>3, <1>4, <1>5, <1>6, <1>7, <1>8, <1>9, <1>10 DEF Next
-----------------------------------------------------------------------------
(* The invariant.                                                            *)

\* The slots that the invariant speaks of.
LEMMA SlotsNamed ==
  {"mstatus", "mideleg", "medeleg", "mie", "mip", "mtvec", "stvec", "mepc", "sepc", "menvcfg",
   "mcounteren", "satp", "stimecmp", "mcycle", "minstret"} \subseteq CsrNames
BY DEF CsrNames, MachineRegisters, SupervisorRegisters

\* A trap handler lies in the address space.
LEMMA HandlerPlaced ==
  ASSUME NEW t \in [base : Addresses, mode : {0, 1}], NEW cause \in Causes
  PROVE  Handler(t, cause) \in Addresses
BY HartAssumption DEF Handler, Causes, Addresses

\* A legal return address is even and lies in the address space.
LEMMA ReturnPlaced ==
  ASSUME NEW a \in Addresses
  PROVE  LegalXepc(a) \in Addresses /\ LegalXepc(a) % 2 = 0
<1>1. AddressSize \in Nat /\ a \in 0 .. AddressSize - 1
  BY HartAssumption DEF Addresses
<1>2. a % 2 = 0 \/ a % 2 = 1
  BY <1>1
<1>3. LegalXepc(a) \in 0 .. AddressSize - 1 /\ LegalXepc(a) % 2 = 0
  BY <1>1, <1>2 DEF LegalXepc
<1>4. QED
  BY <1>3 DEF Addresses

\* MPP names a privilege.
LEMMA MppPrivilege == ASSUME NEW s PROVE PrivilegeFromMpp(s) \in Privileges
BY DEF PrivilegeFromMpp, Privileges

\* A register of the machine is written by M only.
LEMMA MachineRegistersProtected ==
  ASSUME NEW i, AccessAllowed(registers, i, TRUE), registers.privilege \in Privileges
  PROVE  i \in MachineRegisters => registers.privilege = PRIVILEGE_MACHINE
<1>1. ASSUME i \in MachineRegisters PROVE registers.privilege = PRIVILEGE_MACHINE
  <2>1. i \notin SupervisorRegisters /\ i \notin UserRegisters
    BY <1>1 DEF MachineRegisters, SupervisorRegisters, UserRegisters
  <2>2. RequiredPrivilege(i) = PRIVILEGE_MACHINE
    BY <1>1, <2>1 DEF RequiredPrivilege
  <2>3. registers.privilege >= 3
    BY <2>2 DEF AccessAllowed, PRIVILEGE_MACHINE
  <2>4. QED
    BY <2>3 DEF Privileges, PRIVILEGE_USER, PRIVILEGE_SUPERVISOR, PRIVILEGE_MACHINE
<1>2. QED
  BY <1>1

\* What a step leaves in the registers it may write.
LEMMA WriteWell ==
  ASSUME Well, NEW insn \in Programs[program], Settled, Writes(insn)
  PROVE  Placed(registers') /\ Legal'
<1> DEFINE r == registers
           q == registers'
           i == insn.csr
           v == Operated(insn)
<1>1. Written(r, q, i, v, Counters) /\ q.pc \in Addresses /\ q.privilege = r.privilege
  BY DEF Writes
<1>2. r.privilege \in Privileges /\ (i \in MachineRegisters => r.privilege = PRIVILEGE_MACHINE)
  BY MachineRegistersProtected DEF Writes, Well, Placed
<1>3. Operand(insn)
  BY HartAssumption DEF Writes, Well, Control
<1>4. i \in {"mepc", "sepc"} => v \in Addresses
  BY <1>3 DEF Operand, Operated, Combine
<1>5. i \in {"mtvec", "stvec"} => v \in [base : Addresses, mode : 0 .. 3]
  BY <1>3 DEF Operand, Operated, Combine
<1>6. i \in {"mtvec", "stvec"} => LegalXtvec(v) \in [base : Addresses, mode : {0, 1}]
  BY <1>5 DEF LegalXtvec
<1>7. /\ LegalMpp(r.csr.mstatus)
      /\ "MPRV" \in r.csr.mstatus => r.privilege = PRIVILEGE_MACHINE
      /\ r.csr.mideleg \subseteq SupervisorInterrupts
      /\ r.csr.mie \subseteq Interrupts /\ r.csr.mip \subseteq Interrupts
      /\ CAUSE_ECALL_FROM_M \notin r.csr.medeleg
      /\ r.csr.mepc % 2 = 0 /\ r.csr.sepc % 2 = 0
      /\ r.csr.mepc \in Addresses /\ r.csr.sepc \in Addresses
      /\ r.csr.mtvec \in [base : Addresses, mode : {0, 1}]
      /\ r.csr.stvec \in [base : Addresses, mode : {0, 1}]
  BY DEF Well, Placed, Legal, LegalMpp
<1> HIDE DEF v
<1>8. LegalMpp(q.csr.mstatus) /\ ("MPRV" \in q.csr.mstatus => q.privilege = PRIVILEGE_MACHINE)
  <2>1. CASE i = "mstatus"
    BY <1>1, <1>2, <2>1, MstatusLegal DEF Written, MachineRegisters
  <2>2. CASE i = "sstatus"
    BY <1>1, <1>7, <2>2, MstatusLegal DEF Written, SSTATUS_MASK
  <2>3. CASE i \notin {"mstatus", "sstatus"}
    <3>1. q.csr.mstatus = r.csr.mstatus
      BY <1>1, <2>3, SlotsNamed DEF Written, SameBut, Counters, Implemented, MachineRegisters,
         SupervisorRegisters, ReadOnly
    <3>2. QED
      BY <1>1, <1>7, <3>1
  <2>4. QED
    BY <2>1, <2>2, <2>3
<1>9. q.csr.mie \subseteq Interrupts
  <2>1. CASE i = "mie"
    BY <1>1, <2>1 DEF Written
  <2>2. CASE i = "sie"
    BY <1>1, <1>7, <2>2 DEF Written, Interrupts
  <2>3. CASE i \notin {"mie", "sie"}
    BY <1>1, <1>7, <2>3, SlotsNamed DEF Written, SameBut, Counters, Implemented, MachineRegisters,
       SupervisorRegisters, ReadOnly
  <2>4. QED
    BY <2>1, <2>2, <2>3
<1>10. q.csr.mip \subseteq Interrupts
  <2>1. CASE i \in {"mip", "sip", "menvcfg"}
    BY <1>1, <1>7, <2>1 DEF Written, MergeMip, MergeSip, MipUnder, Interrupts,
       SupervisorInterrupts, MachineInterrupts, SoftTimer
  <2>2. CASE i \notin {"mip", "sip", "menvcfg"}
    BY <1>1, <1>7, <2>2, SlotsNamed DEF Written, SameBut, Counters, Implemented, MachineRegisters,
       SupervisorRegisters, ReadOnly
  <2>3. QED
    BY <2>1, <2>2
<1>11. /\ q.csr.mideleg \subseteq SupervisorInterrupts /\ CAUSE_ECALL_FROM_M \notin q.csr.medeleg
  <2>1. CASE i \in {"mideleg", "medeleg"}
    BY <1>1, <1>7, <2>1, SlotsNamed DEF Written, SameBut, Counters
  <2>2. CASE i \notin {"mideleg", "medeleg"}
    BY <1>1, <1>7, <2>2, SlotsNamed DEF Written, SameBut, Counters, Implemented, MachineRegisters,
       SupervisorRegisters, ReadOnly
  <2>3. QED
    BY <2>1, <2>2
<1>12. /\ q.csr.mtvec \in [base : Addresses, mode : {0, 1}]
       /\ q.csr.stvec \in [base : Addresses, mode : {0, 1}]
  <2>1. CASE i \in {"mtvec", "stvec"}
    BY <1>1, <1>6, <1>7, <2>1, SlotsNamed DEF Written, SameBut, Counters
  <2>2. CASE i \notin {"mtvec", "stvec"}
    BY <1>1, <1>7, <2>2, SlotsNamed DEF Written, SameBut, Counters, Implemented, MachineRegisters,
       SupervisorRegisters, ReadOnly
  <2>3. QED
    BY <2>1, <2>2
<1>13. /\ q.csr.mepc \in Addresses /\ q.csr.sepc \in Addresses
       /\ q.csr.mepc % 2 = 0 /\ q.csr.sepc % 2 = 0
  <2>1. CASE i \in {"mepc", "sepc"}
    BY <1>1, <1>4, <1>7, <2>1, SlotsNamed, ReturnPlaced DEF Written, SameBut, Counters
  <2>2. CASE i \notin {"mepc", "sepc"}
    BY <1>1, <1>7, <2>2, SlotsNamed DEF Written, SameBut, Counters, Implemented, MachineRegisters,
       SupervisorRegisters, ReadOnly
  <2>3. QED
    BY <2>1, <2>2
<1>14. q.plicSupervisorExternalPending \in BOOLEAN
  BY DEF Settled, Well, Placed
<1>15. Placed(q)
  BY <1>1, <1>2, <1>12, <1>13, <1>14 DEF Settled, Placed
<1>16. Legal'
  BY <1>1, <1>2, <1>8, <1>9, <1>10, <1>11, <1>12, <1>13 DEF Legal, LegalMpp
<1>17. QED
  BY <1>15, <1>16

\* The frames keep a place for both modes.
LEMMA FrameShape ==
  ASSUME NEW f, f = [mode \in TrapModes |-> f[mode]], NEW m, NEW x
  PROVE  [f EXCEPT ![m] = x] = [mode \in TrapModes |-> [f EXCEPT ![m] = x][mode]]
OBVIOUS

\* A sample moves mip and the PLIC wire only.
LEMMA SampleEffect ==
  ASSUME Well, SamplesWires
  PROVE  \E W :
    /\ Shaped(registers') /\ Placed(registers') /\ wires' = W
    /\ registers'.pc = registers.pc /\ registers'.privilege = registers.privilege
    /\ registers'.plicSupervisorExternalPending = ("SEI" \in W)
    /\ SameBut(registers, registers', {"mip"})
    /\ registers'.csr.mip = SampledMip(registers, W)
    /\ UNCHANGED <<program, frame, asked, latched, retired>>
<1>1. PICK W : Sampled(W)
  BY DEF SamplesWires
<1>2. /\ registers' = SampleDevicePending(registers, W) /\ wires' = W /\ Shaped(registers)
      /\ UNCHANGED <<program, frame, asked, latched, retired>>
  BY <1>1 DEF Sampled, history, Well
<1>3. /\ Shaped(registers') /\ registers'.retire = registers.retire
      /\ registers'.pc = registers.pc /\ registers'.privilege = registers.privilege
      /\ registers'.plicSupervisorExternalPending = ("SEI" \in W)
      /\ SameBut(registers, registers', {"mip"})
      /\ registers'.csr.mip = SampledMip(registers, W)
  BY <1>2, SampleTakes
<1>4. \A j \in {"mepc", "sepc", "mtvec", "stvec", "mcycle", "minstret"} :
        registers'.csr[j] = registers.csr[j]
  BY <1>3, SlotsNamed DEF SameBut
<1>5. Placed(registers')
  <2>1. ("SEI" \in W) \in BOOLEAN
    OBVIOUS
  <2>2. QED
    BY <1>3, <1>4, <2>1 DEF Placed, Well
<1>6. QED
  BY <1>2, <1>3, <1>5

\* Every step keeps shapes, places and legal values.
LEMMA WellKept == ASSUME Well, Next PROVE Well'
<1>1. /\ LegalMpp(registers.csr.mstatus)
      /\ "MPRV" \in registers.csr.mstatus => registers.privilege = PRIVILEGE_MACHINE
      /\ registers.csr.mideleg \subseteq SupervisorInterrupts
      /\ registers.csr.mie \subseteq Interrupts /\ registers.csr.mip \subseteq Interrupts
      /\ CAUSE_ECALL_FROM_M \notin registers.csr.medeleg
      /\ registers.csr.mepc % 2 = 0 /\ registers.csr.sepc % 2 = 0
      /\ registers.csr.mepc \in Addresses /\ registers.csr.sepc \in Addresses
      /\ registers.csr.mtvec \in [base : Addresses, mode : {0, 1}]
      /\ registers.csr.stvec \in [base : Addresses, mode : {0, 1}]
      /\ registers.pc \in Addresses /\ registers.privilege \in Privileges
  BY DEF Well, Placed, Legal, LegalMpp
<1> DEFINE Mode == /\ registers'.pc \in Addresses /\ registers'.privilege \in Privileges
                   /\ LegalMpp(registers'.csr.mstatus)
                   /\ "MPRV" \in registers'.csr.mstatus =>
                        registers'.privilege = PRIVILEGE_MACHINE
           Trapped == {"mepc", "mcause", "sepc", "scause", "mstatus"} \cup Counters
           Frames == frame' = [mode \in TrapModes |-> frame'[mode]]
\* A trap or return moves mstatus and one return address.
<1>2. ASSUME Settled, Mode, Frames,
             SameBut(registers, registers', Trapped),
             registers'.csr.mepc \in {registers.csr.mepc, LegalXepc(registers.pc)},
             registers'.csr.sepc \in {registers.csr.sepc, LegalXepc(registers.pc)}
      PROVE  Well'
  <2>1. \A j \in {"mideleg", "medeleg", "mie", "mip", "mtvec", "stvec"} :
          registers'.csr[j] = registers.csr[j]
    BY <1>2, SlotsNamed DEF SameBut, Counters
  <2>2. /\ registers'.csr.mepc \in Addresses /\ registers'.csr.mepc % 2 = 0
        /\ registers'.csr.sepc \in Addresses /\ registers'.csr.sepc % 2 = 0
    BY <1>1, <1>2, ReturnPlaced
  <2>3. registers'.plicSupervisorExternalPending \in BOOLEAN
    BY <1>2 DEF Settled, Well, Placed
  <2>4. Placed(registers')
    BY <1>1, <1>2, <2>1, <2>2, <2>3 DEF Settled, Placed
  <2>5. Legal'
    BY <1>1, <1>2, <2>1, <2>2 DEF Legal, LegalMpp
  <2>6. Control'
    BY <1>2 DEF Settled, Well, Control
  <2>7. QED
    BY <1>2, <2>4, <2>5, <2>6 DEF Settled, Well
<1>3. Frames \/ SamplesWires
  <2>1. frame = [mode \in TrapModes |-> frame[mode]]
    BY DEF Well, Control
  <2>2. \A m, x : [frame EXCEPT ![m] = x] = [mode \in TrapModes |-> [frame EXCEPT ![m] = x][mode]]
    BY <2>1
  <2>3. \A i : ForgetFrames(i) = [mode \in TrapModes |-> ForgetFrames(i)[mode]]
    BY DEF ForgetFrames
  <2>4. QED
    BY <2>1, <2>2, <2>3, Effects
       DEF EntersMachine, EntersSupervisor, ReturnsMachine, ReturnsSupervisor, Proceeds, Writes
<1>4. PRIVILEGE_MACHINE \in Privileges /\ PRIVILEGE_SUPERVISOR \in Privileges
      /\ PRIVILEGE_USER \in Privileges
  BY DEF Privileges
<1>5. CASE SamplesWires
  <2>1. PICK W :
          /\ Shaped(registers') /\ Placed(registers')
          /\ registers'.pc = registers.pc /\ registers'.privilege = registers.privilege
          /\ SameBut(registers, registers', {"mip"})
          /\ registers'.csr.mip = SampledMip(registers, W)
          /\ UNCHANGED <<program, frame, asked, latched, retired>>
    BY <1>5, SampleEffect
  <2>2. \A j \in {"mstatus", "mideleg", "medeleg", "mie", "mtvec", "stvec", "mepc", "sepc"} :
          registers'.csr[j] = registers.csr[j]
    BY <2>1, SlotsNamed DEF SameBut
  <2>3. registers'.csr.mip \subseteq Interrupts
    BY <2>1 DEF SampledMip, Interrupts, SupervisorInterrupts, MachineInterrupts
  <2>4. Legal'
    BY <1>1, <2>1, <2>2, <2>3 DEF Legal, LegalMpp
  <2>5. Control'
    BY <1>5, <2>1 DEF SamplesWires, Well, Control
  <2>6. QED
    BY <2>1, <2>4, <2>5 DEF Well
<1>6. CASE Settled /\ EntersMachine
  <2>1. registers'.pc \in Addresses
    BY <1>1, <1>6, HandlerPlaced DEF EntersMachine
  <2>2. LegalMpp(registers'.csr.mstatus)
    BY <1>1, <1>6, MachineEnteredBits DEF EntersMachine
  <2>3. registers'.csr.sepc = registers.csr.sepc
    BY <1>6, SlotsNamed DEF EntersMachine, SameBut, Counters
  <2>4. SameBut(registers, registers', Trapped)
    BY <1>6 DEF EntersMachine, SameBut
  <2>5. Frames
    BY <1>6, FrameShape DEF EntersMachine, Well, Control
  <2>6. QED
    BY <1>2, <1>4, <1>6, <2>1, <2>2, <2>3, <2>4, <2>5 DEF EntersMachine
<1>7. CASE Settled /\ EntersSupervisor
  <2>1. registers'.pc \in Addresses
    BY <1>1, <1>7, HandlerPlaced DEF EntersSupervisor
  <2>2. LegalMpp(registers'.csr.mstatus) /\ "MPRV" \notin registers'.csr.mstatus
    BY <1>1, <1>7, SupervisorEnteredBits DEF EntersSupervisor, LegalMpp
  <2>3. registers'.csr.mepc = registers.csr.mepc
    BY <1>7, SlotsNamed DEF EntersSupervisor, SameBut, Counters
  <2>4. SameBut(registers, registers', Trapped)
    BY <1>7 DEF EntersSupervisor, SameBut
  <2>5. Frames
    BY <1>7, FrameShape DEF EntersSupervisor, Well, Control
  <2>6. QED
    BY <1>2, <1>4, <1>7, <2>1, <2>2, <2>3, <2>4, <2>5 DEF EntersSupervisor
<1>8. CASE Settled /\ ReturnsMachine
  <2>1. registers'.pc \in Addresses /\ registers'.privilege \in Privileges
    BY <1>1, <1>8, MppPrivilege DEF ReturnsMachine
  <2>2. /\ LegalMpp(registers'.csr.mstatus)
        /\ "MPRV" \in registers'.csr.mstatus => registers'.privilege = PRIVILEGE_MACHINE
    BY <1>8, MachineLeftBits DEF ReturnsMachine
  <2>3. registers'.csr.mepc = registers.csr.mepc /\ registers'.csr.sepc = registers.csr.sepc
    BY <1>8, SlotsNamed DEF ReturnsMachine, SameBut, Counters
  <2>4. SameBut(registers, registers', Trapped)
    BY <1>8 DEF ReturnsMachine, SameBut
  <2>5. Frames
    BY <1>8, FrameShape DEF ReturnsMachine, Well, Control
  <2>6. QED
    BY <1>2, <1>8, <2>1, <2>2, <2>3, <2>4, <2>5
<1>9. CASE Settled /\ ReturnsSupervisor
  <2>1. registers'.pc \in Addresses /\ registers'.privilege \in Privileges
    BY <1>1, <1>4, <1>9 DEF ReturnsSupervisor
  <2>2. LegalMpp(registers'.csr.mstatus) /\ "MPRV" \notin registers'.csr.mstatus
    BY <1>1, <1>9, SupervisorLeftBits DEF ReturnsSupervisor, LegalMpp
  <2>3. registers'.csr.mepc = registers.csr.mepc /\ registers'.csr.sepc = registers.csr.sepc
    BY <1>9, SlotsNamed DEF ReturnsSupervisor, SameBut, Counters
  <2>4. SameBut(registers, registers', Trapped)
    BY <1>9 DEF ReturnsSupervisor, SameBut
  <2>5. Frames
    BY <1>9, FrameShape DEF ReturnsSupervisor, Well, Control
  <2>6. QED
    BY <1>2, <1>9, <2>1, <2>2, <2>3, <2>4, <2>5
<1>10. CASE Settled /\ Proceeds
  <2>1. \A j \in {"mstatus", "mepc", "sepc"} : registers'.csr[j] = registers.csr[j]
    BY <1>10, SlotsNamed DEF Proceeds, SameBut, Counters
  <2>2. SameBut(registers, registers', Trapped)
    BY <1>10 DEF Proceeds, SameBut
  <2>3. Frames
    BY <1>10 DEF Proceeds, Well, Control
  <2>4. QED
    BY <1>1, <1>2, <1>10, <2>1, <2>2, <2>3 DEF Proceeds
<1>11. CASE \E insn \in Programs[program] : Settled /\ Writes(insn)
  <2>1. PICK insn \in Programs[program] : Settled /\ Writes(insn)
    BY <1>11
  <2>2. Placed(registers') /\ Legal'
    BY <2>1, WriteWell
  <2>3. Frames
    BY <2>1 DEF Writes, ForgetFrames
  <2>4. Control'
    BY <2>1, <2>3 DEF Settled, Well, Control
  <2>5. QED
    BY <2>1, <2>2, <2>4 DEF Settled, Well
<1>12. QED
  BY <1>5, <1>6, <1>7, <1>8, <1>9, <1>10, <1>11, Effects

\* Every step keeps the frames: a trap describes what it interrupted, the other
\* mode's frame stays, and a write of its registers gives a frame up.
LEMMA FramedKept == ASSUME Well, Framed, Next PROVE Framed'
<1> DEFINE m == registers.csr.mstatus
           n == registers'.csr.mstatus
           Machine(f, r) == f.live => /\ r.csr.mepc = f.pc
                                      /\ PrivilegeFromMpp(r.csr.mstatus) = f.privilege
                                      /\ ("MPIE" \in r.csr.mstatus) = f.enabled
           Supervisor(f, r) ==
             f.live => /\ r.csr.sepc = f.pc
                       /\ f.privilege \in {PRIVILEGE_USER, PRIVILEGE_SUPERVISOR}
                       /\ ("SPP" \in r.csr.mstatus) = (f.privilege = PRIVILEGE_SUPERVISOR)
                       /\ ("SPIE" \in r.csr.mstatus) = f.enabled
<1>1. Framed => Machine(frame[3], registers) /\ Supervisor(frame[1], registers)
  BY DEF Framed, FrameHeld, TrapModes, PRIVILEGE_SUPERVISOR, PRIVILEGE_MACHINE
<1>2. Machine(frame'[3], registers') /\ Supervisor(frame'[1], registers') => Framed'
  BY DEF Framed, FrameHeld, TrapModes, PRIVILEGE_SUPERVISOR, PRIVILEGE_MACHINE
<1>3. frame = [mode \in {1, 3} |-> frame[mode]]
  BY DEF Well, Control, TrapModes, PRIVILEGE_SUPERVISOR, PRIVILEGE_MACHINE
<1>4. LegalMpp(m) /\ registers.privilege \in Privileges
  BY DEF Well, Placed, Legal, LegalMpp
<1>5. \A f : PrivilegeFromMpp(m) = PrivilegeFromMpp(n) /\ ("MPIE" \in m) = ("MPIE" \in n)
               /\ registers'.csr.mepc = registers.csr.mepc
             => (Machine(f, registers) => Machine(f, registers'))
  OBVIOUS
<1>6. \A f : ("SPP" \in m) = ("SPP" \in n) /\ ("SPIE" \in m) = ("SPIE" \in n)
               /\ registers'.csr.sepc = registers.csr.sepc
             => (Supervisor(f, registers) => Supervisor(f, registers'))
  OBVIOUS
<1> HIDE DEF Machine, Supervisor
<1>7. CASE /\ frame' = frame
           /\ \A j \in {"mstatus", "mepc", "sepc"} : registers'.csr[j] = registers.csr[j]
  BY <1>1, <1>2, <1>5, <1>6, <1>7
<1>8. CASE SamplesWires
  <2>1. frame' = frame /\ SameBut(registers, registers', {"mip"})
    BY <1>8, SampleEffect
  <2>2. QED
    BY <1>7, <2>1, SlotsNamed DEF SameBut
<1>9. CASE Settled /\ Proceeds
  BY <1>7, <1>9, SlotsNamed DEF Proceeds, SameBut, Counters
<1>10. CASE EntersMachine
  <2>1. /\ frame' = [frame EXCEPT ![3] = FrameOf(registers, PRIVILEGE_MACHINE)]
        /\ registers'.csr.mepc = LegalXepc(registers.pc)
        /\ n = MachineEntered(m, registers.privilege)
        /\ registers'.csr.sepc = registers.csr.sepc
    BY <1>10, SlotsNamed DEF EntersMachine, SameBut, Counters, PRIVILEGE_MACHINE
  <2>2. frame'[3] = FrameOf(registers, PRIVILEGE_MACHINE) /\ frame'[1] = frame[1]
    BY <1>3, <2>1
  <2>3. /\ PrivilegeFromMpp(n) = registers.privilege
        /\ "MPIE" \in n <=> "MIE" \in m
        /\ "SPP" \in n <=> "SPP" \in m
        /\ "SPIE" \in n <=> "SPIE" \in m
    BY <1>4, <2>1, MachineEnteredBits
  <2>4. Machine(frame'[3], registers')
    BY <2>1, <2>2, <2>3 DEF Machine, FrameOf, EnableBit
  <2>5. Supervisor(frame'[1], registers')
    BY <1>1, <1>6, <2>1, <2>2, <2>3
  <2>6. QED
    BY <1>2, <2>4, <2>5
<1>11. CASE EntersSupervisor
  <2>1. /\ frame' = [frame EXCEPT ![1] = FrameOf(registers, PRIVILEGE_SUPERVISOR)]
        /\ registers'.csr.sepc = LegalXepc(registers.pc)
        /\ n = SupervisorEntered(m, registers.privilege)
        /\ registers'.csr.mepc = registers.csr.mepc
        /\ registers.privilege # PRIVILEGE_MACHINE
    BY <1>11, SlotsNamed DEF EntersSupervisor, SameBut, Counters, PRIVILEGE_SUPERVISOR
  <2>2. frame'[1] = FrameOf(registers, PRIVILEGE_SUPERVISOR) /\ frame'[3] = frame[3]
    BY <1>3, <2>1
  <2>3. /\ "SPIE" \in n <=> "SIE" \in m
        /\ "SPP" \in n <=> registers.privilege = PRIVILEGE_SUPERVISOR
        /\ "MPIE" \in n <=> "MPIE" \in m
        /\ "MPP0" \in n <=> "MPP0" \in m
        /\ "MPP1" \in n <=> "MPP1" \in m
    BY <1>4, <2>1, SupervisorEnteredBits
  <2>4. registers.privilege \in {PRIVILEGE_USER, PRIVILEGE_SUPERVISOR}
    BY <1>4, <2>1 DEF Privileges
  <2>5. Supervisor(frame'[1], registers')
    BY <2>1, <2>2, <2>3, <2>4
       DEF Supervisor, FrameOf, EnableBit, PRIVILEGE_SUPERVISOR, PRIVILEGE_MACHINE
  <2>6. Machine(frame'[3], registers')
    <3>1. PrivilegeFromMpp(m) = PrivilegeFromMpp(n)
      BY <2>3 DEF PrivilegeFromMpp
    <3>2. QED
      BY <1>1, <1>5, <2>1, <2>2, <2>3, <3>1
  <2>7. QED
    BY <1>2, <2>5, <2>6
<1>12. CASE ReturnsMachine
  <2>1. /\ frame' = [frame EXCEPT ![3] = NoFrame] /\ n = MachineLeft(m)
        /\ registers'.csr.sepc = registers.csr.sepc
    BY <1>12, SlotsNamed DEF ReturnsMachine, SameBut, Counters, PRIVILEGE_MACHINE
  <2>2. frame'[3] = NoFrame /\ frame'[1] = frame[1]
    BY <1>3, <2>1
  <2>3. /\ "SPP" \in n <=> "SPP" \in m
        /\ "SPIE" \in n <=> "SPIE" \in m
    BY <2>1, MachineLeftBits
  <2>4. Machine(frame'[3], registers')
    BY <2>2 DEF Machine, NoFrame
  <2>5. QED
    BY <1>1, <1>2, <1>6, <2>1, <2>2, <2>3, <2>4
<1>13. CASE ReturnsSupervisor
  <2>1. /\ frame' = [frame EXCEPT ![1] = NoFrame] /\ n = SupervisorLeft(m)
        /\ registers'.csr.mepc = registers.csr.mepc
    BY <1>13, SlotsNamed DEF ReturnsSupervisor, SameBut, Counters, PRIVILEGE_SUPERVISOR
  <2>2. frame'[1] = NoFrame /\ frame'[3] = frame[3]
    BY <1>3, <2>1
  <2>3. /\ "MPIE" \in n <=> "MPIE" \in m
        /\ "MPP0" \in n <=> "MPP0" \in m
        /\ "MPP1" \in n <=> "MPP1" \in m
    BY <1>4, <2>1, SupervisorLeftBits
  <2>4. PrivilegeFromMpp(m) = PrivilegeFromMpp(n)
    BY <2>3 DEF PrivilegeFromMpp
  <2>5. Supervisor(frame'[1], registers')
    BY <2>2 DEF Supervisor, NoFrame
  <2>6. QED
    BY <1>1, <1>2, <1>5, <2>1, <2>2, <2>3, <2>4, <2>5
<1>14. CASE \E insn \in Programs[program] : Settled /\ Writes(insn)
  <2>1. PICK insn \in Programs[program] : Writes(insn)
    BY <1>14
  <2> DEFINE i == insn.csr
  <2>2. /\ Written(registers, registers', i, Operated(insn), Counters)
        /\ frame' = ForgetFrames(i)
    BY <2>1 DEF Writes
  <2>3. /\ frame'[3] = IF i \in {"mstatus", "mepc"} THEN NoFrame ELSE frame[3]
        /\ frame'[1] = IF i \in {"mstatus", "sstatus", "sepc"} THEN NoFrame ELSE frame[1]
    BY <2>2 DEF ForgetFrames, TrapModes, PRIVILEGE_SUPERVISOR, PRIVILEGE_MACHINE
  <2> HIDE DEF i
  <2>4. i \notin {"mstatus", "sstatus"} => n = m
    BY <2>2, SlotsNamed DEF Written, SameBut, Counters, Implemented, MachineRegisters,
       SupervisorRegisters, ReadOnly
  <2>5. /\ i # "mepc" => registers'.csr.mepc = registers.csr.mepc
        /\ i # "sepc" => registers'.csr.sepc = registers.csr.sepc
    BY <2>2, SlotsNamed DEF Written, SameBut, Counters, Implemented, MachineRegisters,
       SupervisorRegisters, ReadOnly
  <2>6. ASSUME i = "sstatus"
        PROVE  PrivilegeFromMpp(m) = PrivilegeFromMpp(n) /\ ("MPIE" \in m) = ("MPIE" \in n)
    <3> DEFINE s == (m \ SSTATUS_MASK) \cup (Operated(insn) \cap SSTATUS_MASK)
    <3>1. n = LegalMstatus(s)
      BY <2>2, <2>6 DEF Written
    <3>2. \A b \in {"MPIE", "MPP0", "MPP1"} : b \in s <=> b \in m
      BY DEF SSTATUS_MASK
    <3> HIDE DEF s
    <3>3. n = s
      BY <1>4, <3>1, <3>2, MstatusLegal DEF LegalMpp
    <3>4. QED
      BY <3>2, <3>3 DEF PrivilegeFromMpp
  <2>7. Machine(frame'[3], registers')
    <3>1. CASE i \in {"mstatus", "mepc"}
      BY <2>3, <3>1 DEF Machine, NoFrame
    <3>2. CASE i \notin {"mstatus", "mepc"}
      BY <1>1, <1>5, <2>3, <2>4, <2>5, <2>6, <3>2
    <3>3. QED
      BY <3>1, <3>2
  <2>8. Supervisor(frame'[1], registers')
    <3>1. CASE i \in {"mstatus", "sstatus", "sepc"}
      BY <2>3, <3>1 DEF Supervisor, NoFrame
    <3>2. CASE i \notin {"mstatus", "sstatus", "sepc"}
      BY <1>1, <1>6, <2>3, <2>4, <2>5, <3>2
    <3>3. QED
      BY <3>1, <3>2
  <2>9. QED
    BY <1>2, <2>7, <2>8
<1>15. QED
  BY <1>8, <1>9, <1>10, <1>11, <1>12, <1>13, <1>14, Effects

\* A written mip, sip or menvcfg keeps every pending bit with its owner; no other
\* register touches them.
LEMMA WritePending ==
  ASSUME Well, PendingOwned, Unasked, NEW insn \in Programs[program], Settled, Writes(insn)
  PROVE  PendingOwned' /\ Unasked'
<1> DEFINE r == registers
           q == registers'
           i == insn.csr
           v == Operated(insn)
           compare == SupervisorTimerCompareEnabled(r)
           compareAfter == SupervisorTimerCompareEnabled(q)
<1>1. /\ Written(r, q, i, v, Counters) /\ phase' = "sample" /\ phase # "sample"
      /\ asked' = AskedAfter(insn, q) /\ latched' = LatchedAfter(insn)
      /\ q.plicSupervisorExternalPending = r.plicSupervisorExternalPending /\ wires' = wires
      /\ v = Combine(insn.how, Read(r, i), insn.value)
  BY DEF Writes, Settled, Operated
<1>2. i \in {"mip", "sip", "menvcfg"} => insn.how \in {"rw", "rs", "rc"}
  BY HartAssumption DEF Writes, Well, Control, Operand
<1>3. /\ r.csr.mip \cap MachineInterrupts = wires \cap MachineInterrupts
      /\ r.plicSupervisorExternalPending = ("SEI" \in wires)
      /\ ("SEI" \in r.csr.mip) = ("SEI" \in asked \/ latched)
      /\ ~compare => (("STI" \in r.csr.mip) = ("STI" \in asked))
  BY DEF PendingOwned
<1>4. compare => "STI" \notin asked
  BY DEF Unasked
<1>5. compareAfter => "STI" \notin asked'
  BY <1>1 DEF AskedAfter
<1>6. i # "menvcfg" => q.csr.menvcfg = r.csr.menvcfg
  BY <1>1, SlotsNamed DEF Written, SameBut, Counters, Implemented, MachineRegisters,
     SupervisorRegisters, ReadOnly
<1>7. i # "menvcfg" => (compareAfter <=> compare)
  BY <1>6 DEF SupervisorTimerCompareEnabled
<1>8. SoftTimer(r) = IF compare THEN {} ELSE {"STI"}
  BY DEF SoftTimer
<1>9. HardTimer(r) = IF compare THEN {"STI"} ELSE {}
  BY <1>8 DEF HardTimer
<1> DEFINE Owned == /\ \A x \in MachineInterrupts : x \in q.csr.mip <=> x \in r.csr.mip
                    /\ "SEI" \in q.csr.mip <=> ("SEI" \in asked' \/ latched')
                    /\ ~compareAfter => ("STI" \in q.csr.mip <=> "STI" \in asked')
<1>10. Owned => PendingOwned' /\ Unasked'
  <2>1. ASSUME Owned PROVE PendingOwned'
    <3>1. q.csr.mip \cap MachineInterrupts = wires \cap MachineInterrupts
      BY <1>3, <2>1
    <3>2. QED
      BY <1>1, <1>3, <2>1, <3>1 DEF PendingOwned
  <2>2. QED
    BY <1>5, <2>1 DEF Unasked
<1> HIDE DEF compare, compareAfter, v
<1>11. CASE i = "mip"
  <2>1. q.csr.mip = (v \cap ({"SSI", "SEI"} \cup SoftTimer(r)))
                      \cup (r.csr.mip \cap (MachineInterrupts \cup HardTimer(r)))
    BY <1>1, <1>11 DEF Written, MergeMip
  <2>2. \A x \in MachineInterrupts : x \in q.csr.mip <=> x \in r.csr.mip
    BY <1>8, <1>9, <2>1 DEF MachineInterrupts
  <2>3. "SEI" \in q.csr.mip <=> "SEI" \in v
    BY <1>8, <1>9, <2>1 DEF MachineInterrupts
  <2>4. ~compare => ("STI" \in q.csr.mip <=> "STI" \in v)
    BY <1>8, <1>9, <2>1 DEF MachineInterrupts
  <2>5. v = Combine(insn.how, MipWithPlicSeip(r), insn.value)
    BY <1>1, <1>11 DEF Read
  <2>6. /\ "SEI" \in MipWithPlicSeip(r) <=>
             "SEI" \in asked \/ latched \/ r.plicSupervisorExternalPending
        /\ ~compare => ("STI" \in MipWithPlicSeip(r) <=> "STI" \in asked)
    BY <1>3 DEF MipWithPlicSeip
  <2> DEFINE w    == Combine(insn.how, asked, insn.value)
             soft == {"SEI"} \cup SoftTimer(r)
  <2>7. asked' = IF compareAfter THEN ((asked \ soft) \cup (w \cap soft)) \ {"STI"}
                 ELSE (asked \ soft) \cup (w \cap soft)
    BY <1>1, <1>11 DEF AskedAfter, compareAfter
  <2>8. /\ "SEI" \in asked' <=> "SEI" \in w
        /\ ~compareAfter => ("STI" \in asked' <=> "STI" \in w)
    <3> HIDE DEF w
    <3>1. "SEI" \in asked' <=> "SEI" \in w
      BY <2>7
    <3>2. ASSUME ~compareAfter PROVE "STI" \in asked' <=> "STI" \in w
      BY <1>7, <1>8, <1>11, <2>7, <3>2
    <3>3. QED
      BY <3>1, <3>2
  <2>9. latched' <=> /\ insn.how # "rw"
                     /\ ~(insn.how = "rc" /\ "SEI" \in insn.value)
                     /\ latched \/ r.plicSupervisorExternalPending
    BY <1>1, <1>11 DEF LatchedAfter
  <2>10. "SEI" \in v <=> ("SEI" \in w \/ latched')
    <3>1. CASE insn.how = "rw"
      BY <2>5, <2>9, <3>1 DEF Combine
    <3>2. CASE insn.how = "rs"
      BY <2>5, <2>6, <2>9, <3>2 DEF Combine
    <3>3. CASE insn.how = "rc"
      BY <2>5, <2>6, <2>9, <3>3 DEF Combine
    <3>4. QED
      BY <1>2, <1>11, <3>1, <3>2, <3>3
  <2>11. ~compare => ("STI" \in v <=> "STI" \in w)
    <3>1. CASE insn.how = "rw"
      BY <2>5, <3>1 DEF Combine
    <3>2. CASE insn.how = "rs"
      BY <2>5, <2>6, <3>2 DEF Combine
    <3>3. CASE insn.how = "rc"
      BY <2>5, <2>6, <3>3 DEF Combine
    <3>4. QED
      BY <1>2, <1>11, <3>1, <3>2, <3>3
  <2> HIDE DEF w
  <2>12. QED
    BY <1>7, <1>10, <1>11, <2>2, <2>3, <2>4, <2>8, <2>10, <2>11
<1>12. CASE i = "sip"
  <2>1. q.csr.mip = MergeSip(r, v)
    BY <1>1, <1>12 DEF Written
  <2>2. \A x \in MachineInterrupts : x \in q.csr.mip <=> x \in r.csr.mip
    BY <1>8, <2>1 DEF MergeSip, MachineInterrupts, SupervisorInterrupts
  <2>3. "SEI" \in q.csr.mip <=> "SEI" \in r.csr.mip
    BY <1>8, <2>1 DEF MergeSip, MachineInterrupts, SupervisorInterrupts
  <2>4. ~compare => ("STI" \in q.csr.mip <=> "STI" \in v)
    BY <1>8, <1>9, <2>1 DEF MergeSip, MachineInterrupts, SupervisorInterrupts
  <2>5. v = Combine(insn.how, MipWithPlicSeip(r) \cap SupervisorInterrupts, insn.value)
    BY <1>1, <1>12 DEF Read
  <2>6. ~compare => ("STI" \in MipWithPlicSeip(r) \cap SupervisorInterrupts <=> "STI" \in asked)
    BY <1>3 DEF MipWithPlicSeip, SupervisorInterrupts
  <2> DEFINE w == Combine(insn.how, asked, insn.value)
  <2>7. /\ ~compareAfter => asked' = (asked \ SoftTimer(r)) \cup (w \cap SoftTimer(r))
        /\ compareAfter => asked' = asked \ {"STI"}
    <3>1. asked' = IF compareAfter
                   THEN (IF SoftTimer(r) = {} THEN asked
                         ELSE (asked \ SoftTimer(r)) \cup (w \cap SoftTimer(r))) \ {"STI"}
                   ELSE IF SoftTimer(r) = {} THEN asked
                         ELSE (asked \ SoftTimer(r)) \cup (w \cap SoftTimer(r))
      BY <1>1, <1>12 DEF AskedAfter, compareAfter
    <3> HIDE DEF w
    <3>2. QED
      BY <1>7, <1>8, <1>12, <3>1
  <2> HIDE DEF w
  <2>8. /\ "SEI" \in asked' <=> "SEI" \in asked
        /\ ~compareAfter => ("STI" \in asked' <=> "STI" \in w)
    <3>1. CASE compareAfter
      BY <2>7, <3>1
    <3>2. CASE ~compareAfter
      BY <1>7, <1>8, <1>12, <2>7, <3>2
    <3>3. QED
      BY <3>1, <3>2
  <2>9. ~compare => ("STI" \in v <=> "STI" \in w)
    <3>1. CASE insn.how = "rw"
      BY <2>5, <3>1 DEF Combine, w
    <3>2. CASE insn.how = "rs"
      BY <2>5, <2>6, <3>2 DEF Combine, w
    <3>3. CASE insn.how = "rc"
      BY <2>5, <2>6, <3>3 DEF Combine, w
    <3>4. QED
      BY <1>2, <1>12, <3>1, <3>2, <3>3
  <2>10. latched' = latched
    BY <1>1, <1>12 DEF LatchedAfter
  <2>11. QED
    BY <1>3, <1>7, <1>10, <1>12, <2>2, <2>3, <2>4, <2>8, <2>9, <2>10
<1>13. CASE i \notin {"mip", "sip"}
  <2>1. asked' = IF compareAfter THEN asked \ {"STI"} ELSE asked
    BY <1>1, <1>13 DEF AskedAfter, compareAfter
  <2>2. latched' = latched
    BY <1>1, <1>13 DEF LatchedAfter
  <2>3. CASE i = "menvcfg"
    <3>1. q.csr.mip = IF compare /\ ~compareAfter THEN r.csr.mip \ {"STI"} ELSE r.csr.mip
      BY <1>1, <2>3 DEF Written, MipUnder, compare, compareAfter, SupervisorTimerCompareEnabled
    <3>2. \A x \in MachineInterrupts : x \in q.csr.mip <=> x \in r.csr.mip
      BY <3>1 DEF MachineInterrupts
    <3>3. "SEI" \in q.csr.mip <=> "SEI" \in r.csr.mip
      BY <3>1
    <3>4. ~compareAfter => ("STI" \in q.csr.mip <=> "STI" \in asked)
      BY <1>3, <1>4, <3>1
    <3>5. QED
      BY <1>3, <1>10, <2>1, <2>2, <3>2, <3>3, <3>4
  <2>4. CASE i # "menvcfg"
    <3>1. q.csr.mip = r.csr.mip
      BY <1>1, <1>13, <2>4, SlotsNamed DEF Written, SameBut, Counters, Implemented,
         MachineRegisters, SupervisorRegisters, ReadOnly
    <3>2. QED
      BY <1>3, <1>7, <1>10, <2>1, <2>2, <2>4, <3>1
  <2>5. QED
    BY <2>3, <2>4
<1>14. QED
  BY <1>11, <1>12, <1>13

\* Every step keeps the owners.
LEMMA PendingKept == ASSUME Well, PendingOwned, Unasked, Next PROVE PendingOwned' /\ Unasked'
<1>1. ASSUME Settled, registers'.csr.mip = registers.csr.mip,
             registers'.csr.menvcfg = registers.csr.menvcfg, UNCHANGED <<asked, latched>>
      PROVE  PendingOwned' /\ Unasked'
  BY <1>1 DEF Settled, PendingOwned, Unasked, SupervisorTimerCompareEnabled
<1>2. CASE SamplesWires
  <2>1. PICK W :
          /\ wires' = W /\ registers'.plicSupervisorExternalPending = ("SEI" \in W)
          /\ SameBut(registers, registers', {"mip"})
          /\ registers'.csr.mip = SampledMip(registers, W)
          /\ UNCHANGED <<program, frame, asked, latched, retired>>
    BY <1>2, SampleEffect
  <2>2. registers'.csr.menvcfg = registers.csr.menvcfg
    BY <2>1, SlotsNamed DEF SameBut
  <2>3. SupervisorTimerCompareEnabled(registers') <=> SupervisorTimerCompareEnabled(registers)
    BY <2>2 DEF SupervisorTimerCompareEnabled
  <2>4. registers'.csr.mip \cap MachineInterrupts = W \cap MachineInterrupts
    BY <2>1 DEF SampledMip, MachineInterrupts
  <2>5. "SEI" \in registers'.csr.mip <=> "SEI" \in registers.csr.mip
    BY <2>1 DEF SampledMip, MachineInterrupts
  <2>6. IF SupervisorTimerCompareEnabled(registers)
        THEN "STI" \in registers'.csr.mip <=> "STI" \in W
        ELSE "STI" \in registers'.csr.mip <=> "STI" \in registers.csr.mip
    BY <2>1 DEF SampledMip, MachineInterrupts
  <2>7. PendingOwned'
    BY <2>1, <2>3, <2>4, <2>5, <2>6 DEF PendingOwned
  <2>8. QED
    BY <2>1, <2>3, <2>7 DEF Unasked
<1>3. CASE /\ Settled /\ UNCHANGED <<asked, latched>>
           /\ \/ EntersMachine \/ EntersSupervisor
              \/ ReturnsMachine \/ ReturnsSupervisor \/ Proceeds
  BY <1>1, <1>3, SlotsNamed DEF EntersMachine, EntersSupervisor, ReturnsMachine,
     ReturnsSupervisor, Proceeds, SameBut, Counters
<1>4. CASE \E insn \in Programs[program] : Settled /\ Writes(insn)
  BY <1>4, WritePending
<1>5. QED
  BY <1>2, <1>3, <1>4, Effects

\* The invariant holds at reset.
LEMMA InitInvariant == ASSUME Init PROVE IInv
<1>1. /\ program \in DOMAIN Programs /\ wires = {} /\ phase = "sample"
      /\ frame = [mode \in TrapModes |-> NoFrame] /\ asked = {} /\ latched = FALSE
      /\ retired = [cycles |-> 0, instructions |-> 0]
  BY DEF Init
<1>2. PICK reset \in Resets[program] :
        registers = [csr |-> CsrFile, pc |-> reset, privilege |-> PRIVILEGE_MACHINE,
                     plicSupervisorExternalPending |-> FALSE, retire |-> FALSE]
  BY DEF Init
<1>3. /\ reset \in Addresses /\ 0 \in Addresses /\ 0 \in 0 .. CounterSize - 1
  BY <1>1, <1>2, HartAssumption DEF Addresses
<1>4. /\ registers.csr = CsrFile /\ registers.pc = reset
      /\ registers.privilege = PRIVILEGE_MACHINE
      /\ registers.plicSupervisorExternalPending = FALSE /\ registers.retire = FALSE
  BY <1>2
<1>5. CsrFile = [i \in CsrNames |-> CsrFile[i]]
  BY DEF CsrFile, CsrNames
<1>6. /\ \A i \in {"mstatus", "mideleg", "medeleg", "mie", "mip", "menvcfg"} : CsrFile[i] = {}
      /\ \A i \in {"mepc", "sepc", "mcycle", "minstret"} : CsrFile[i] = 0
      /\ \A i \in {"mtvec", "stvec"} : CsrFile[i] = [base |-> 0, mode |-> 0]
  BY DEF CsrFile, MachineRegisters, SupervisorRegisters
<1>7. Shaped(registers)
  BY <1>2, <1>4, <1>5 DEF Shaped
<1>8. Placed(registers)
  <2>1. [base |-> 0, mode |-> 0] \in [base : Addresses, mode : {0, 1}]
    BY <1>3
  <2>2. /\ registers.csr.mepc = 0 /\ registers.csr.sepc = 0
        /\ registers.csr.mcycle = 0 /\ registers.csr.minstret = 0
        /\ registers.csr.mtvec = [base |-> 0, mode |-> 0]
        /\ registers.csr.stvec = [base |-> 0, mode |-> 0]
    BY <1>4, <1>6
  <2>3. QED
    BY <1>3, <1>4, <2>1, <2>2 DEF Placed, Privileges
<1>9. Control
  BY <1>1 DEF Control
<1>10. Legal
  <2>1. 0 % 2 = 0
    OBVIOUS
  <2>2. QED
    BY <1>3, <1>4, <1>6, <2>1 DEF Legal, Privileges
<1>11. Framed
  BY <1>1 DEF Framed, FrameHeld, NoFrame
<1>12. RetiredOnce
  BY <1>1, <1>4, <1>6 DEF RetiredOnce
<1>13. PendingOwned /\ Unasked
  <2>1. registers.csr.mip = {} /\ registers.csr.menvcfg = {}
    BY <1>4, <1>6
  <2>2. ~SupervisorTimerCompareEnabled(registers)
    BY <2>1 DEF SupervisorTimerCompareEnabled
  <2>3. registers.plicSupervisorExternalPending = ("SEI" \in wires)
    <3>1. "SEI" \notin wires
      BY <1>1
    <3>2. registers.plicSupervisorExternalPending <=> "SEI" \in wires
      BY <1>4, <3>1, Zenon
    <3>3. registers.plicSupervisorExternalPending \in BOOLEAN
      BY <1>4
    <3>4. QED
      BY <3>2, <3>3
  <2>4. ("SEI" \in registers.csr.mip) = ("SEI" \in asked \/ latched)
    BY <1>1, <2>1
  <2>5. QED
    BY <1>1, <2>1, <2>2, <2>3, <2>4 DEF PendingOwned, Unasked
<1>14. QED
  BY <1>7, <1>8, <1>9, <1>10, <1>11, <1>12, <1>13 DEF IInv, Well

\* Every step keeps the invariant.
LEMMA NextInvariant == ASSUME IInv, [Next]_vars PROVE IInv'
<1>1. CASE Next
  <2>1. Well' /\ Framed' /\ PendingOwned' /\ Unasked'
    BY <1>1, WellKept, FramedKept, PendingKept DEF IInv
  <2>2. RetiredOnce'
    <3>1. CASE SamplesWires
      <4>1. retired' = retired /\ SameBut(registers, registers', {"mip"})
        BY <3>1, SampleEffect DEF IInv
      <4>2. QED
        BY <4>1, SlotsNamed DEF SameBut, RetiredOnce, IInv
    <3>2. CASE Settled
      BY <3>2 DEF Settled, IInv
    <3>3. QED
      BY <1>1, <3>1, <3>2, Effects DEF IInv
  <2>3. QED
    BY <2>1, <2>2 DEF IInv
<1>2. CASE UNCHANGED vars
  <2>1. UNCHANGED <<registers, wires, phase, program, frame, asked, latched, retired>>
    BY <1>2 DEF vars, history
  <2>2. Well' /\ RetiredOnce' /\ PendingOwned' /\ Unasked'
    BY <2>1 DEF IInv, Well, Shaped, Placed, Control, Legal, RetiredOnce, PendingOwned, Unasked,
       SupervisorTimerCompareEnabled
  <2>3. Framed'
    BY <2>1 DEF IInv, Framed, FrameHeld
  <2>4. QED
    BY <2>2, <2>3 DEF IInv
<1>3. QED
  BY <1>1, <1>2

\* The inductive invariant of the hart.
THEOREM Invariant == Spec => []IInv
<1>1. Init => IInv
  BY InitInvariant
<1>2. IInv /\ [Next]_vars => IInv'
  BY NextInvariant
<1>3. QED
  BY <1>1, <1>2, PTL DEF Spec

\* Registers only ever hold values they may hold: no reserved MPP, no interrupt
\* delegated that S does not have, even return addresses, legal vector modes,
\* and MPRV never set below M.
THEOREM LegalAlways == Spec => []Legal
<1>1. IInv => Legal
  BY DEF IInv, Well
<1>2. QED
  BY <1>1, Invariant, PTL

\* Each retired instruction is counted once, whatever it does and whatever its
\* own write of a counter or of mcountinhibit says.
THEOREM CountedOnce == Spec => []RetiredOnce
<1>1. IInv => RetiredOnce
  BY DEF IInv
<1>2. QED
  BY <1>1, Invariant, PTL

\* Every pending bit has its owner: the wires, the timer compare or software.
THEOREM PendingHasOwner == Spec => []PendingOwned
<1>1. IInv => PendingOwned
  BY DEF IInv
<1>2. QED
  BY <1>1, Invariant, PTL
-----------------------------------------------------------------------------
(* Confinement and return.                                                   *)

\* A write below M that is allowed is to a register of S.
LEMMA SupervisorWrites ==
  ASSUME Well, registers.privilege # PRIVILEGE_MACHINE, NEW insn \in Programs[program],
         Writes(insn)
  PROVE  /\ MachineState(registers') = MachineState(registers)
         /\ "TVM" \in registers.csr.mstatus => registers'.csr.satp = registers.csr.satp
         /\ (~SupervisorTimerCompareEnabled(registers)
               \/ "TM" \notin registers.csr.mcounteren) =>
              registers'.csr.stimecmp = registers.csr.stimecmp
<1> DEFINE r == registers
           q == registers'
           i == insn.csr
           v == Operated(insn)
<1>1. Written(r, q, i, v, Counters) /\ AccessAllowed(r, i, TRUE)
  BY DEF Writes
<1>2. i \notin MachineRegisters /\ r.privilege \in Privileges /\ LegalMpp(r.csr.mstatus)
  BY <1>1, MachineRegistersProtected DEF Well, Placed, Legal, LegalMpp
<1>3. i \in SupervisorRegisters
  BY <1>1, <1>2 DEF AccessAllowed, Implemented, ReadOnly
<1> HIDE DEF v
<1>4. \A j \in MachineRegisters \ {"mstatus", "mie", "mip", "mcycle", "minstret"} :
        q.csr[j] = r.csr[j]
  BY <1>1, <1>2, <1>3 DEF Written, SameBut, Counters, CsrNames, MachineRegisters,
     SupervisorRegisters
<1>5. q.csr.mstatus \ {"SIE", "SPIE", "SPP", "SUM"}
        = r.csr.mstatus \ {"SIE", "SPIE", "SPP", "SUM"}
  <2>1. CASE i = "sstatus"
    <3> DEFINE s == (r.csr.mstatus \ SSTATUS_MASK) \cup (v \cap SSTATUS_MASK)
    <3>1. q.csr.mstatus = LegalMstatus(s)
      BY <1>1, <2>1 DEF Written
    <3>2. LegalMpp(s)
      BY <1>2 DEF LegalMpp, SSTATUS_MASK
    <3>3. q.csr.mstatus = s
      BY <3>1, <3>2, MstatusLegal
    <3>4. QED
      BY <3>3 DEF SSTATUS_MASK
  <2>2. CASE i # "sstatus"
    <3>1. q.csr.mstatus = r.csr.mstatus
      BY <1>1, <1>2, <1>3, <2>2, SlotsNamed DEF Written, SameBut, Counters, MachineRegisters,
         SupervisorRegisters
    <3>2. QED
      BY <3>1
  <2>3. QED
    BY <2>1, <2>2
<1>6. q.csr.mie \ SupervisorInterrupts = r.csr.mie \ SupervisorInterrupts
  <2>1. CASE i = "sie"
    BY <1>1, <2>1 DEF Written
  <2>2. CASE i # "sie"
    <3>1. q.csr.mie = r.csr.mie
      BY <1>1, <1>2, <1>3, <2>2, SlotsNamed DEF Written, SameBut, Counters, MachineRegisters,
         SupervisorRegisters
    <3>2. QED
      BY <3>1
  <2>3. QED
    BY <2>1, <2>2
<1>7. SoftTimer(q) = SoftTimer(r)
  <2>1. q.csr.menvcfg = r.csr.menvcfg
    BY <1>4 DEF MachineRegisters
  <2>2. QED
    BY <2>1 DEF SoftTimer, SupervisorTimerCompareEnabled
<1>8. q.csr.mip \ ({"SSI"} \cup SoftTimer(r)) = r.csr.mip \ ({"SSI"} \cup SoftTimer(r))
  <2>1. CASE i = "sip"
    <3>1. q.csr.mip = MergeSip(r, v)
      BY <1>1, <2>1 DEF Written
    <3>2. SoftTimer(r) \in {{}, {"STI"}}
      BY DEF SoftTimer
    <3>3. r.csr.mip \subseteq Interrupts
      BY DEF Well, Legal
    <3>4. QED
      BY <3>1, <3>2, <3>3 DEF MergeSip, HardTimer, Interrupts, SupervisorInterrupts,
         MachineInterrupts
  <2>2. CASE i # "sip"
    <3>1. q.csr.mip = r.csr.mip
      BY <1>1, <1>2, <1>3, <2>2, SlotsNamed DEF Written, SameBut, Counters, MachineRegisters,
         SupervisorRegisters
    <3>2. QED
      BY <3>1
  <2>3. QED
    BY <2>1, <2>2
<1>9. MachineState(q) = MachineState(r)
  BY <1>4, <1>5, <1>6, <1>7, <1>8 DEF MachineState
<1>10. ASSUME "TVM" \in r.csr.mstatus PROVE q.csr.satp = r.csr.satp
  <2>1. i = "satp" => r.privilege = PRIVILEGE_SUPERVISOR
    <3>1. RequiredPrivilege("satp") = 1
      BY DEF RequiredPrivilege, MachineRegisters, SupervisorRegisters, UserRegisters,
         PRIVILEGE_SUPERVISOR
    <3>2. QED
      BY <1>1, <1>2, <3>1 DEF AccessAllowed, Privileges, PRIVILEGE_USER, PRIVILEGE_SUPERVISOR,
         PRIVILEGE_MACHINE
  <2>2. i # "satp"
    BY <1>1, <1>10, <2>1 DEF AccessAllowed, SatpBlockedByTvm
  <2>3. QED
    BY <1>1, <1>2, <1>3, <2>2, SlotsNamed DEF Written, SameBut, Counters, MachineRegisters,
       SupervisorRegisters
<1>11. ASSUME ~SupervisorTimerCompareEnabled(r) \/ "TM" \notin r.csr.mcounteren
       PROVE  q.csr.stimecmp = r.csr.stimecmp
  <2>1. r.privilege < PRIVILEGE_MACHINE
    BY <1>2 DEF Privileges, PRIVILEGE_USER, PRIVILEGE_SUPERVISOR, PRIVILEGE_MACHINE
  <2>2. i # "stimecmp"
    <3>1. CounterEnableBit["time"] = "TM"
      BY DEF CounterEnableBit
    <3>2. QED
      BY <1>1, <1>11, <2>1, <3>1 DEF AccessAllowed, CounterAccessEnabled
  <2>3. QED
    BY <1>1, <1>2, <1>3, <2>2, SlotsNamed DEF Written, SameBut, Counters, MachineRegisters,
       SupervisorRegisters
<1>12. QED
  BY <1>9, <1>10, <1>11

\* Registers that differ in the bits and slots of S only agree on the state of M.
LEMMA SameMachineState ==
  ASSUME NEW S, S \subseteq {"sepc", "scause", "mstatus"} \cup Counters,
         SameBut(registers, registers', S),
         \A b : b \notin {"SIE", "SPIE", "SPP", "SUM"} =>
           (b \in registers'.csr.mstatus <=> b \in registers.csr.mstatus)
  PROVE  /\ MachineState(registers') = MachineState(registers)
         /\ registers'.csr.satp = registers.csr.satp
         /\ registers'.csr.stimecmp = registers.csr.stimecmp
<1>1. \A j \in (MachineRegisters \ {"mstatus", "mcycle", "minstret"}) \cup {"satp", "stimecmp"} :
        registers'.csr[j] = registers.csr[j]
  BY DEF SameBut, Counters, CsrNames, MachineRegisters, SupervisorRegisters
<1>2. registers'.csr.mstatus \ {"SIE", "SPIE", "SPP", "SUM"}
        = registers.csr.mstatus \ {"SIE", "SPIE", "SPP", "SUM"}
  OBVIOUS
<1>3. /\ registers'.csr.mie = registers.csr.mie /\ registers'.csr.mip = registers.csr.mip
      /\ registers'.csr.menvcfg = registers.csr.menvcfg
  BY <1>1 DEF MachineRegisters
<1>4. SoftTimer(registers') = SoftTimer(registers)
  BY <1>3 DEF SoftTimer, SupervisorTimerCompareEnabled
<1>5. QED
  BY <1>1, <1>2, <1>3, <1>4 DEF MachineState

\* A step of the hart below M that stays below M.
LEMMA ConfinedStep ==
  ASSUME Well, Next, phase = "run", registers.privilege # PRIVILEGE_MACHINE,
         registers'.privilege # PRIVILEGE_MACHINE
  PROVE  /\ MachineState(registers') = MachineState(registers)
         /\ "TVM" \in registers.csr.mstatus => registers'.csr.satp = registers.csr.satp
         /\ (~SupervisorTimerCompareEnabled(registers)
               \/ "TM" \notin registers.csr.mcounteren) =>
              registers'.csr.stimecmp = registers.csr.stimecmp
<1>1. /\ LegalMpp(registers.csr.mstatus) /\ "MPRV" \notin registers.csr.mstatus
  BY DEF Well, Legal, LegalMpp
<1>2. CASE EntersSupervisor
  <2>1. \A b : b \notin {"SIE", "SPIE", "SPP", "SUM"} =>
          (b \in registers'.csr.mstatus <=> b \in registers.csr.mstatus)
    BY <1>1, <1>2, SupervisorEnteredBits DEF EntersSupervisor
  <2>2. QED
    BY <1>2, <2>1, SameMachineState DEF EntersSupervisor
<1>3. CASE ReturnsSupervisor
  <2>1. \A b : b \notin {"SIE", "SPIE", "SPP", "SUM"} =>
          (b \in registers'.csr.mstatus <=> b \in registers.csr.mstatus)
    BY <1>1, <1>3, SupervisorLeftBits DEF ReturnsSupervisor
  <2>2. QED
    BY <1>3, <2>1, SameMachineState DEF ReturnsSupervisor
<1>4. CASE Proceeds
  <2>1. registers'.csr.mstatus = registers.csr.mstatus
    BY <1>4, SlotsNamed DEF Proceeds, SameBut, Counters
  <2>2. QED
    BY <1>4, <2>1, SameMachineState DEF Proceeds
<1>5. CASE \E insn \in Programs[program] : Settled /\ Writes(insn)
  BY <1>5, SupervisorWrites
<1>6. QED
  BY <1>2, <1>3, <1>4, <1>5, Effects DEF SamplesWires, EntersMachine, ReturnsMachine

\* Below M nothing but a trap changes the state of M: not through sstatus, sie
\* or sip, not through satp under TVM, not through stimecmp unless M allows it.
THEOREM LowerModesConfined == Spec => SupervisorConfined
<1> DEFINE A == LET r == registers
                    s == registers'
                IN (phase = "run" /\ r.privilege # PRIVILEGE_MACHINE
                      /\ s.privilege # PRIVILEGE_MACHINE) =>
                     /\ MachineState(s) = MachineState(r)
                     /\ "TVM" \in r.csr.mstatus => s.csr.satp = r.csr.satp
                     /\ (~SupervisorTimerCompareEnabled(r) \/ "TM" \notin r.csr.mcounteren) =>
                          s.csr.stimecmp = r.csr.stimecmp
<1>1. IInv /\ [Next]_vars => [A]_vars
  BY ConfinedStep DEF IInv
<1>2. QED
  BY <1>1, Invariant, PTL DEF Spec, SupervisorConfined

\* mret restores what M's frame describes, sret what S's frame describes.
LEMMA ReturnRestores ==
  ASSUME Well, Framed
  PROVE  (Mret => Restores(PRIVILEGE_MACHINE)) /\ (Sret => Restores(PRIVILEGE_SUPERVISOR))
<1>1. ASSUME Mret PROVE Restores(PRIVILEGE_MACHINE)
  <2>1. ReturnsMachine
    BY <1>1, MretEffect
  <2>2. "MIE" \in registers'.csr.mstatus <=> "MPIE" \in registers.csr.mstatus
    BY <2>1, MachineLeftBits DEF ReturnsMachine
  <2>3. FrameHeld(PRIVILEGE_MACHINE, registers)
    BY DEF Framed, TrapModes
  <2>4. QED
    BY <2>1, <2>2, <2>3 DEF ReturnsMachine, Restores, FrameHeld, EnableBit
<1>2. ASSUME Sret PROVE Restores(PRIVILEGE_SUPERVISOR)
  <2>1. ReturnsSupervisor
    BY <1>2, SretEffect
  <2>2. "SIE" \in registers'.csr.mstatus <=> "SPIE" \in registers.csr.mstatus
    BY <2>1, SupervisorLeftBits DEF ReturnsSupervisor, Well, Legal, LegalMpp
  <2>3. FrameHeld(PRIVILEGE_SUPERVISOR, registers)
    BY DEF Framed, TrapModes
  <2>4. QED
    BY <2>1, <2>2, <2>3 DEF ReturnsSupervisor, Restores, FrameHeld, EnableBit, PRIVILEGE_USER,
       PRIVILEGE_SUPERVISOR, PRIVILEGE_MACHINE
<1>3. QED
  BY <1>1, <1>2

\* A handler that leaves its return state alone goes back to the privilege, the
\* address and the interrupt enable its trap interrupted, however traps nest.
THEOREM ReturnsCorrectly == Spec => ReturnsToInterrupted
<1>1. IInv /\ [Next]_vars
        => [(Mret => Restores(PRIVILEGE_MACHINE))
              /\ (Sret => Restores(PRIVILEGE_SUPERVISOR))]_vars
  BY ReturnRestores DEF IInv
<1>2. QED
  BY <1>1, Invariant, PTL DEF Spec, ReturnsToInterrupted
=============================================================================
