-------------------------------- MODULE Hart --------------------------------
(***************************************************************************)
(* One hart (cpu/run.ts): sampling of the device wires, interrupts, fetch, *)
(* the system instructions, and the control and status registers behind    *)
(* them (cpu/registers.ts, cpu/trap.ts, instructions/system.ts).           *)
(*                                                                         *)
(* The hart is one thread and only the wires come from outside, so a step  *)
(* is a sample of the wires, or one instruction up to its retirement; wfi  *)
(* takes a step more for every further sample.  A register is the set of   *)
(* its bits where bits matter; "unused" stands for the bits a register     *)
(* does not implement.  General registers, mtval and stval are left out,   *)
(* the PMP registers are in Pmp, stimecmp against the timebase is in Clint.*)
(***************************************************************************)
EXTENDS Integers, Sequences

CONSTANTS Programs,     \* the instructions each guest program is made of
          Resets,       \* where each may be started
          Executable,   \* per privilege, where the memory map and the PMP allow a fetch
          DeviceWires,  \* per program, the wires its devices drive
          AddressSize,  \* modulus of addresses
          CounterSize   \* modulus of mcycle and minstret

PRIVILEGE_USER       == 0
PRIVILEGE_SUPERVISOR == 1
PRIVILEGE_MACHINE    == 3
Privileges           == {PRIVILEGE_USER, PRIVILEGE_SUPERVISOR, PRIVILEGE_MACHINE}

Addresses == 0 .. AddressSize - 1

SupervisorInterrupts == {"SSI", "STI", "SEI"}      \* SIE_SIP_MASK_BYTES, MIDELEG_MASK_BYTES
MachineInterrupts    == {"MSI", "MTI", "MEI"}      \* MIP_HARDWARE_MASK_BYTES
Interrupts           == SupervisorInterrupts \cup MachineInterrupts
InterruptCode == [SSI |-> 1, MSI |-> 3, STI |-> 5, MTI |-> 7, SEI |-> 9, MEI |-> 11]

CAUSE_INSTRUCTION_ADDRESS_MISALIGNED == 0
CAUSE_INSTRUCTION_ACCESS_FAULT       == 1
CAUSE_ILLEGAL_INSTRUCTION            == 2
CAUSE_BREAKPOINT                     == 3
CAUSE_ECALL_FROM_M                   == 11
CAUSE_ECALL == [p \in Privileges |-> 8 + p]

\* What an instruction writes to a register.  Registers kept as numbers or records
\* are written by csrrw: csrrs and csrrc write them a value that csrrw may write too.
Operand(insn) ==
  CASE insn.csr \in {"mepc", "sepc"}      -> insn.how = "rw" /\ insn.value \in Addresses
    [] insn.csr \in {"mcycle", "minstret"} -> insn.how = "rw" /\ insn.value \in 0 .. CounterSize - 1
    [] insn.csr \in {"mtvec", "stvec"}     -> /\ insn.how = "rw"
                                             /\ insn.value \in [base : Addresses, mode : 0 .. 3]
    [] OTHER                              -> insn.how \in {"rw", "rs", "rc"}

\* Addresses are halfword-aligned or not in a space of even size; programs consist of
\* instructions with operands their registers can take.
ASSUME HartAssumption ==
  /\ AddressSize \in Nat \ {0} /\ AddressSize % 2 = 0
  /\ CounterSize \in Nat \ {0}
  /\ \A p \in DOMAIN Programs :
       /\ Resets[p] \subseteq Addresses
       /\ \A insn \in Programs[p] :
            /\ insn.op = "ordinary" => insn.length \in Nat /\ insn.faults \subseteq Nat
            /\ insn.op = "csr" => insn.writes \in BOOLEAN /\ (insn.writes => Operand(insn))

VARIABLES registers,  \* the Registers of cpu/types.ts
          wires,      \* the device wires, as last sampled
          phase,      \* "sample", "run" (sampled), "wfi" (inside it) or "woken" (and sampled)
          program,    \* the program in memory: an index of Programs
          frame,      \* history: per mode, what its last trap interrupted, while intact
          asked,      \* history: pending bits set by software
          latched,    \* history: a read-modify-write of mip stored the PLIC wire
          retired     \* history: instructions retired, as counted by the counters

history == <<frame, asked, latched, retired>>
vars == <<registers, wires, phase, program, history>>
-----------------------------------------------------------------------------
(* Control and status registers                                              *)

MachineRegisters ==
  {"mstatus", "misa", "medeleg", "mideleg", "mie", "mtvec", "mcounteren", "menvcfg",
   "mcountinhibit", "mscratch", "mepc", "mcause", "mip", "mcycle", "minstret", "mhartid"}
SupervisorRegisters ==
  {"sstatus", "sie", "stvec", "scounteren", "sscratch", "sepc", "scause", "sip",
   "stimecmp", "satp"}
UserRegisters == {"cycle", "time", "instret"}
Implemented   == MachineRegisters \cup SupervisorRegisters \cup UserRegisters
ReadOnly      == {"mhartid"} \cup UserRegisters

RequiredPrivilege(i) ==
  CASE i \in MachineRegisters    -> PRIVILEGE_MACHINE
    [] i \in SupervisorRegisters -> PRIVILEGE_SUPERVISOR
    [] i \in UserRegisters       -> PRIVILEGE_USER

\* Mutated form of SSTATUS_MASK: a bit of the machine is among them.
SstatusMaskWide == {"SIE", "MIE", "SPIE", "SPP", "SUM"}

SSTATUS_MASK == {"SIE", "SPIE", "SPP", "SUM"}
COUNTEREN_MASK == {"CY", "TM", "IR"}
MCOUNTINHIBIT_MASK == {"CY", "IR"}

CounterEnableBit == [cycle |-> "CY", time |-> "TM", instret |-> "IR"]

SupervisorTimerCompareEnabled(r) == "STCE" \in r.csr.menvcfg

CounterAccessEnabled(r, i) ==
  /\ r.privilege < PRIVILEGE_MACHINE => CounterEnableBit[i] \in r.csr.mcounteren
  /\ r.privilege = PRIVILEGE_USER => CounterEnableBit[i] \in r.csr.scounteren

SatpBlockedByTvm(r, i) ==
  i = "satp" /\ r.privilege = PRIVILEGE_SUPERVISOR /\ "TVM" \in r.csr.mstatus

\* isControlAndStatusRegisterAccessAllowed.
AccessAllowed(r, i, writes) ==
  /\ i \in Implemented
  /\ r.privilege >= RequiredPrivilege(i)
  /\ i = "stimecmp" /\ r.privilege < PRIVILEGE_MACHINE =>
       SupervisorTimerCompareEnabled(r) /\ CounterAccessEnabled(r, "time")
  /\ writes => i \notin ReadOnly
  /\ ~SatpBlockedByTvm(r, i)
  /\ i \in UserRegisters => CounterAccessEnabled(r, i)

\* mip as read: the slot, and the PLIC wire in SEIP.
MipWithPlicSeip(r) ==
  r.csr.mip \cup IF r.plicSupervisorExternalPending THEN {"SEI"} ELSE {}

\* readControlAndStatusRegister; time belongs to Clint.
Read(r, i) ==
  CASE i = "cycle"   -> r.csr.mcycle
    [] i = "instret" -> r.csr.minstret
    [] i = "sstatus" -> r.csr.mstatus \cap SSTATUS_MASK
    [] i = "sie"     -> r.csr.mie \cap SupervisorInterrupts
    [] i = "sip"     -> MipWithPlicSeip(r) \cap SupervisorInterrupts
    [] i = "mip"     -> MipWithPlicSeip(r)
    [] OTHER         -> r.csr[i]

\* legalizeMstatus: the reserved MPP encoding becomes U.
LegalMstatus(s) == IF "MPP1" \in s /\ "MPP0" \notin s THEN s \ {"MPP1"} ELSE s

\* STIP is writable while menvcfg.STCE is clear, hardware's while it is set.
SoftTimer(r) == IF SupervisorTimerCompareEnabled(r) THEN {} ELSE {"STI"}
HardTimer(r) == {"STI"} \ SoftTimer(r)

LegalXtvec(v) == IF v.mode \in {0, 1} THEN v ELSE [v EXCEPT !.mode = 0]
LegalXepc(a)  == a - (a % 2)

\* sip: SSIP and a software-owned STIP change, software SEIP and the rest stay.
MergeSip(r, v) ==
  (r.csr.mip \ SupervisorInterrupts)
    \cup (r.csr.mip \cap (MachineInterrupts \cup HardTimer(r)))
    \cup (r.csr.mip \cap {"SEI"})
    \cup (v \cap ({"SSI"} \cup SoftTimer(r)))

\* mip: hardware bits stay.
MergeMip(r, v) ==
  (v \cap ({"SSI", "SEI"} \cup SoftTimer(r)))
    \cup (r.csr.mip \cap (MachineInterrupts \cup HardTimer(r)))

\* Mutated form of MipUnder: turning STCE off leaves STIP pending.
MipKept(r, v) == r.csr.mip

\* mip after a write of menvcfg: turning STCE off hands STIP back to software.
MipUnder(r, v) ==
  IF SupervisorTimerCompareEnabled(r) /\ "STCE" \notin v
  THEN r.csr.mip \ {"STI"} ELSE r.csr.mip

\* writeControlAndStatusRegister.
Write(r, i, v) ==
  [r EXCEPT !.csr =
    CASE i \in ReadOnly \cup {"misa"} -> @
      [] i = "sstatus" ->
           [@ EXCEPT !.mstatus = LegalMstatus((@ \ SSTATUS_MASK) \cup (v \cap SSTATUS_MASK))]
      [] i = "sie" ->
           [@ EXCEPT !.mie = (@ \ SupervisorInterrupts) \cup (v \cap SupervisorInterrupts)]
      [] i = "sip"     -> [@ EXCEPT !.mip = MergeSip(r, v)]
      [] i = "mstatus" -> [@ EXCEPT !.mstatus = LegalMstatus(v)]
      [] i = "mie"     -> [@ EXCEPT !.mie = v \cap Interrupts]
      [] i = "mip"     -> [@ EXCEPT !.mip = MergeMip(r, v)]
      [] i = "menvcfg" -> [@ EXCEPT !.menvcfg = v \cap {"STCE"}, !.mip = MipUnder(r, v)]
      [] i = "mideleg" -> [@ EXCEPT !.mideleg = v \cap SupervisorInterrupts]
      [] i = "medeleg" -> [@ EXCEPT !.medeleg = v \ {CAUSE_ECALL_FROM_M}]
      [] i \in {"mcounteren", "scounteren"} -> [@ EXCEPT ![i] = v \cap COUNTEREN_MASK]
      [] i = "mcountinhibit" -> [@ EXCEPT !.mcountinhibit = v \cap MCOUNTINHIBIT_MASK]
      [] i \in {"mtvec", "stvec"} -> [@ EXCEPT ![i] = LegalXtvec(v)]
      [] i \in {"mepc", "sepc"}   -> [@ EXCEPT ![i] = LegalXepc(v)]
      [] OTHER -> [@ EXCEPT ![i] = v]]
-----------------------------------------------------------------------------
(* Retirement                                                                *)

BeginRetire(r)  == [r EXCEPT !.retire = TRUE]

\* Mutated form of CancelRetire: a trap leaves the instruction to be counted.
KeepRetire(r)   == r

CancelRetire(r) == [r EXCEPT !.retire = FALSE]

Counting(r, bit) == IF bit \in r.csr.mcountinhibit THEN 0 ELSE 1

\* commitInstructionRetire.
CommitRetire(r) ==
  IF ~r.retire THEN r
  ELSE [r EXCEPT !.retire = FALSE,
                 !.csr.mcycle   = (@ + Counting(r, "CY")) % CounterSize,
                 !.csr.minstret = (@ + Counting(r, "IR")) % CounterSize]

RetireNow(r) == CommitRetire(BeginRetire(r))

AdvancePc(r, n) == [r EXCEPT !.pc = (@ + n) % AddressSize]
-----------------------------------------------------------------------------
(* Trap entry and return                                                     *)

\* S with bit b set or cleared.
Put(S, b, on) == IF on THEN S \cup {b} ELSE S \ {b}

MppBits(p) == CASE p = PRIVILEGE_MACHINE    -> {"MPP0", "MPP1"}
                [] p = PRIVILEGE_SUPERVISOR -> {"MPP0"}
                [] OTHER                    -> {}

PrivilegeFromMpp(s) ==
  CASE {"MPP0", "MPP1"} \subseteq s           -> PRIVILEGE_MACHINE
    [] "MPP0" \in s /\ "MPP1" \notin s        -> PRIVILEGE_SUPERVISOR
    [] OTHER                                  -> PRIVILEGE_USER

\* trapHandlerProgramCounter.
Handler(xtvec, cause) ==
  IF xtvec.mode = 1 /\ cause.interrupt
  THEN (xtvec.base + 4 * cause.code) % AddressSize ELSE xtvec.base

EnterMachineTrap(r, cause) ==
  LET s == r.csr.mstatus
      entered == (Put(s, "MPIE", "MIE" \in s) \ {"MIE", "MPP0", "MPP1"})
                   \cup MppBits(r.privilege)
  IN [r EXCEPT !.csr.mepc = LegalXepc(r.pc), !.csr.mcause = cause,
               !.csr.mstatus = LegalMstatus(entered),
               !.privilege = PRIVILEGE_MACHINE, !.pc = Handler(r.csr.mtvec, cause)]

EnterSupervisorTrap(r, cause) ==
  LET s == r.csr.mstatus
      entered == Put(Put(s, "SPIE", "SIE" \in s) \ {"SIE"}, "SPP",
                     r.privilege = PRIVILEGE_SUPERVISOR)
  IN [r EXCEPT !.csr.sepc = LegalXepc(r.pc), !.csr.scause = cause,
               !.csr.mstatus = LegalMstatus(entered),
               !.privilege = PRIVILEGE_SUPERVISOR, !.pc = Handler(r.csr.stvec, cause)]

\* shouldDelegateExceptionToSupervisor.
Delegated(r, code) == r.privilege # PRIVILEGE_MACHINE /\ code \in r.csr.medeleg

EnterTrap(r, code) ==
  LET cancelled == CancelRetire(r)
      cause     == [interrupt |-> FALSE, code |-> code]
  IN IF Delegated(r, code) THEN EnterSupervisorTrap(cancelled, cause)
                           ELSE EnterMachineTrap(cancelled, cause)

\* mret and sret; the mode returned to decides whether MPRV survives.
ReturnFromMachineTrap(r) ==
  LET s    == r.csr.mstatus
      mode == PrivilegeFromMpp(s)
      left == (Put(s, "MIE", "MPIE" \in s) \cup {"MPIE"}) \ {"MPP0", "MPP1"}
  IN [r EXCEPT !.csr.mstatus = LegalMstatus(IF mode = PRIVILEGE_MACHINE THEN left
                                            ELSE left \ {"MPRV"}),
               !.privilege = mode, !.pc = r.csr.mepc]

\* Mutated form of ReturnFromSupervisorTrap: MPRV survives an sret from M.
SretKeepsMprv(r) ==
  LET s == r.csr.mstatus
  IN [r EXCEPT !.csr.mstatus = (Put(s, "SIE", "SPIE" \in s) \cup {"SPIE"}) \ {"SPP"},
               !.privilege = IF "SPP" \in s THEN PRIVILEGE_SUPERVISOR ELSE PRIVILEGE_USER,
               !.pc = r.csr.sepc]

ReturnFromSupervisorTrap(r) ==
  LET s    == r.csr.mstatus
      left == (Put(s, "SIE", "SPIE" \in s) \cup {"SPIE"}) \ {"SPP", "MPRV"}
  IN [r EXCEPT !.csr.mstatus = LegalMstatus(left),
               !.privilege = IF "SPP" \in s THEN PRIVILEGE_SUPERVISOR ELSE PRIVILEGE_USER,
               !.pc = r.csr.sepc]
-----------------------------------------------------------------------------
(* Interrupts                                                                *)

INTERRUPT_PRIORITY == <<"MEI", "MSI", "MTI", "SEI", "SSI", "STI">>

PendingEnabled(r) == MipWithPlicSeip(r) \cap r.csr.mie

SupervisorGloballyEnabled(r) ==
  \/ r.privilege = PRIVILEGE_USER
  \/ r.privilege = PRIVILEGE_SUPERVISOR /\ "SIE" \in r.csr.mstatus

\* Mutated form of MachineGloballyEnabled: MIE is not looked at.
MachineAlwaysEnabled(r) == TRUE

MachineGloballyEnabled(r) ==
  r.privilege # PRIVILEGE_MACHINE \/ "MIE" \in r.csr.mstatus

Takeable(r) ==
  {x \in PendingEnabled(r) : IF x \in r.csr.mideleg THEN SupervisorGloballyEnabled(r)
                                                    ELSE MachineGloballyEnabled(r)}

\* selectTakeableInterrupt: the first of INTERRUPT_PRIORITY.
SelectTakeable(r) ==
  LET ranks == {k \in DOMAIN INTERRUPT_PRIORITY : INTERRUPT_PRIORITY[k] \in Takeable(r)}
  IN INTERRUPT_PRIORITY[CHOOSE k \in ranks : \A j \in ranks : k <= j]

\* sampleDevicePending with the wires at W: STIP only while STCE is set.
SampleDevicePending(r, W) ==
  LET timer == IF SupervisorTimerCompareEnabled(r) THEN W \cap {"STI"}
                                                   ELSE r.csr.mip \cap {"STI"}
  IN [r EXCEPT !.csr.mip = (@ \cap {"SSI", "SEI"}) \cup (W \cap MachineInterrupts) \cup timer,
               !.plicSupervisorExternalPending = "SEI" \in W]
-----------------------------------------------------------------------------
(* History: what each trap interrupted, as long as nobody meant to change it *)

NoFrame == [live |-> FALSE, privilege |-> 0, pc |-> 0, enabled |-> FALSE]

EnableBit(mode) == IF mode = PRIVILEGE_MACHINE THEN "MIE" ELSE "SIE"
TrapModes       == {PRIVILEGE_SUPERVISOR, PRIVILEGE_MACHINE}

FrameOf(r, mode) ==
  [live |-> TRUE, privilege |-> r.privilege, pc |-> LegalXepc(r.pc),
   enabled |-> EnableBit(mode) \in r.csr.mstatus]

\* A trap to a mode replaces its frame, except an interrupt the mode has off.
EnterFrame(r, mode, interrupt) ==
  IF interrupt /\ r.privilege = mode /\ EnableBit(mode) \notin r.csr.mstatus
  THEN frame ELSE [frame EXCEPT ![mode] = FrameOf(r, mode)]

\* A write of the registers that hold a frame gives it up.
ForgetFrames(i) ==
  [mode \in TrapModes |->
     IF i = "mstatus" \/ (mode = PRIVILEGE_SUPERVISOR /\ i \in {"sstatus", "sepc"})
                      \/ (mode = PRIVILEGE_MACHINE /\ i = "mepc")
     THEN NoFrame ELSE frame[mode]]
-----------------------------------------------------------------------------
(* The run loop                                                              *)

CsrFile ==
  [i \in MachineRegisters \cup (SupervisorRegisters \ {"sstatus", "sie", "sip"}) |->
     CASE i \in {"mtvec", "stvec"} -> [base |-> 0, mode |-> 0]
       [] i \in {"mcause", "scause"} -> [interrupt |-> FALSE, code |-> 0]
       [] i \in {"mepc", "sepc", "mcycle", "minstret", "mhartid", "mscratch", "sscratch",
                 "satp"} -> 0
       [] i = "stimecmp" -> 1
       [] OTHER -> {}]

\* createRegisters, and the reset PC.
Init ==
  /\ program \in DOMAIN Programs
  /\ \E reset \in Resets[program] :
       registers = [csr |-> CsrFile, pc |-> reset, privilege |-> PRIVILEGE_MACHINE,
                    plicSupervisorExternalPending |-> FALSE, retire |-> FALSE]
  /\ wires = {} /\ phase = "sample"
  /\ frame = [mode \in TrapModes |-> NoFrame]
  /\ asked = {} /\ latched = FALSE
  /\ retired = [cycles |-> 0, instructions |-> 0]

Sampled(W) ==
  /\ registers' = SampleDevicePending(registers, W)
  /\ wires' = W
  /\ UNCHANGED <<program, history>>

Sample ==
  /\ phase = "sample"
  /\ \E W \in SUBSET DeviceWires[program] : Sampled(W)
  /\ phase' = "run"

\* The next iteration starts with registers at r.
Iterate(r) ==
  /\ registers' = r
  /\ phase' = "sample"
  /\ UNCHANGED <<wires, program>>

TakeInterrupt ==
  /\ phase = "run" /\ Takeable(registers) # {}
  /\ LET x     == SelectTakeable(registers)
         cause == [interrupt |-> TRUE, code |-> InterruptCode[x]]
         mode  == IF x \in registers.csr.mideleg THEN PRIVILEGE_SUPERVISOR
                                                 ELSE PRIVILEGE_MACHINE
     IN /\ Iterate(IF x \in registers.csr.mideleg THEN EnterSupervisorTrap(registers, cause)
                                                  ELSE EnterMachineTrap(registers, cause))
        /\ frame' = EnterFrame(registers, mode, TRUE)
  /\ UNCHANGED <<asked, latched, retired>>

\* The frame of an exception taken with registers at r.
ExceptionFrame(r, code) ==
  frame' = EnterFrame(r, IF Delegated(r, code) THEN PRIVILEGE_SUPERVISOR
                                               ELSE PRIVILEGE_MACHINE, FALSE)

Fetching == phase = "run" /\ Takeable(registers) = {}

MisalignedPc ==
  /\ Fetching
  /\ registers.pc % 2 = 1
  /\ Iterate(EnterTrap(registers, CAUSE_INSTRUCTION_ADDRESS_MISALIGNED))
  /\ ExceptionFrame(registers, CAUSE_INSTRUCTION_ADDRESS_MISALIGNED)
  /\ UNCHANGED <<asked, latched, retired>>

\* PMP or the memory map denies the fetch.
FetchFault ==
  /\ Fetching
  /\ registers.pc % 2 = 0 /\ registers.pc \notin Executable[registers.privilege]
  /\ Iterate(EnterTrap(registers, CAUSE_INSTRUCTION_ACCESS_FAULT))
  /\ ExceptionFrame(registers, CAUSE_INSTRUCTION_ACCESS_FAULT)
  /\ UNCHANGED <<asked, latched, retired>>

\* The hart executes an instruction with operation op.
Executes(insn, op) ==
  /\ Fetching
  /\ registers.pc \in Executable[registers.privilege] /\ registers.pc % 2 = 0
  /\ insn \in Programs[program] /\ insn.op = op

\* What the counters hold once an instruction has retired under r.
Tally(r, cycles, instructions) ==
  retired' = [cycles       |-> (cycles + Counting(r, "CY")) % CounterSize,
              instructions |-> (instructions + Counting(r, "IR")) % CounterSize]

\* The instruction retires and leaves r.
Completes(r) ==
  /\ Iterate(CommitRetire(r))
  /\ Tally(r, retired.cycles, retired.instructions)

\* The instruction raises an exception and does not retire.
Raises(code) ==
  /\ Iterate(CommitRetire(EnterTrap(BeginRetire(registers), code)))
  /\ ExceptionFrame(registers, code)
  /\ UNCHANGED <<asked, latched, retired>>

\* Loads, stores and arithmetic, as far as the hart's state goes; an access may
\* be misaligned or denied.
Ordinary ==
  \E insn \in Programs[program] :
    /\ Executes(insn, "ordinary")
    /\ \/ /\ Completes(AdvancePc(BeginRetire(registers), insn.length))
          /\ UNCHANGED <<frame, asked, latched>>
       \/ \E code \in insn.faults : Raises(code)

\* ecall and ebreak retire and then trap.
EnvironmentTrap(code) ==
  LET r == EnterTrap(RetireNow(BeginRetire(registers)), code)
  IN /\ Iterate(CommitRetire(r))
     /\ ExceptionFrame(registers, code)
     /\ Tally(registers, retired.cycles, retired.instructions)
     /\ UNCHANGED <<asked, latched>>

Ecall ==
  /\ \E insn \in Programs[program] : Executes(insn, "ecall")
  /\ EnvironmentTrap(CAUSE_ECALL[registers.privilege])

Ebreak ==
  /\ \E insn \in Programs[program] : Executes(insn, "ebreak")
  /\ EnvironmentTrap(CAUSE_BREAKPOINT)

MretAllowed == registers.privilege = PRIVILEGE_MACHINE

Mret ==
  /\ \E insn \in Programs[program] : Executes(insn, "mret")
  /\ MretAllowed
  /\ Completes(ReturnFromMachineTrap(BeginRetire(registers)))
  /\ frame' = [frame EXCEPT ![PRIVILEGE_MACHINE] = NoFrame]
  /\ UNCHANGED <<asked, latched>>

SretAllowed ==
  \/ registers.privilege = PRIVILEGE_MACHINE
  \/ registers.privilege = PRIVILEGE_SUPERVISOR /\ "TSR" \notin registers.csr.mstatus

Sret ==
  /\ \E insn \in Programs[program] : Executes(insn, "sret")
  /\ SretAllowed
  /\ Completes(ReturnFromSupervisorTrap(BeginRetire(registers)))
  /\ frame' = [frame EXCEPT ![PRIVILEGE_SUPERVISOR] = NoFrame]
  /\ UNCHANGED <<asked, latched>>

SfenceAllowed ==
  \/ registers.privilege = PRIVILEGE_MACHINE
  \/ registers.privilege = PRIVILEGE_SUPERVISOR /\ "TVM" \notin registers.csr.mstatus

SfenceVma ==
  /\ \E insn \in Programs[program] : Executes(insn, "sfence.vma")
  /\ SfenceAllowed
  /\ Completes(AdvancePc(BeginRetire(registers), 4))
  /\ UNCHANGED <<frame, asked, latched>>

WfiAllowed == registers.privilege = PRIVILEGE_MACHINE \/ "TW" \notin registers.csr.mstatus

\* wfi retires before it waits.
Wfi ==
  /\ \E insn \in Programs[program] : Executes(insn, "wfi")
  /\ WfiAllowed
  /\ registers' = RetireNow(AdvancePc(BeginRetire(registers), 4))
  /\ phase' = "wfi"
  /\ Tally(registers, retired.cycles, retired.instructions)
  /\ UNCHANGED <<wires, program, frame, asked, latched>>

\* It samples before its first test, whatever is pending, and again while nothing is.
WfiSample ==
  /\ phase = "wfi" \/ (phase = "woken" /\ PendingEnabled(registers) = {})
  /\ \E W \in SUBSET DeviceWires[program] : Sampled(W)
  /\ phase' = "woken"

WfiReturn ==
  /\ phase = "woken" /\ PendingEnabled(registers) # {}
  /\ Iterate(CommitRetire(registers))
  /\ UNCHANGED history

\* An encoding that decodes to nothing, or a system instruction not allowed here.
Illegal ==
  /\ \/ \E insn \in Programs[program] : Executes(insn, "illegal")
     \/ \E insn \in Programs[program] : Executes(insn, "mret") /\ ~MretAllowed
     \/ \E insn \in Programs[program] : Executes(insn, "sret") /\ ~SretAllowed
     \/ \E insn \in Programs[program] : Executes(insn, "sfence.vma") /\ ~SfenceAllowed
     \/ \E insn \in Programs[program] : Executes(insn, "wfi") /\ ~WfiAllowed
  /\ Raises(CAUSE_ILLEGAL_INSTRUCTION)

\* csrrw, csrrs, csrrc and their immediate forms: what is written over old.
Combine(how, old, v) ==
  CASE how = "rw" -> v
    [] how = "rs" -> old \cup v
    [] how = "rc" -> old \ v

CsrIllegal ==
  /\ \E insn \in Programs[program] :
       Executes(insn, "csr") /\ ~AccessAllowed(registers, insn.csr, insn.writes)
  /\ Raises(CAUSE_ILLEGAL_INSTRUCTION)

CsrRead ==
  /\ \E insn \in Programs[program] :
       /\ Executes(insn, "csr") /\ ~insn.writes
       /\ AccessAllowed(registers, insn.csr, FALSE)
  /\ Completes(AdvancePc(BeginRetire(registers), 4))
  /\ UNCHANGED <<frame, asked, latched>>

\* The pending bits of software after an instruction on mip, sip or menvcfg.
AskedAfter(insn, after) ==
  LET soft == CASE insn.csr = "mip" -> {"SEI"} \cup SoftTimer(registers)
                [] insn.csr = "sip" -> SoftTimer(registers)
                [] OTHER            -> {}
      kept == IF soft = {} THEN asked
              ELSE (asked \ soft) \cup (Combine(insn.how, asked, insn.value) \cap soft)
  IN IF SupervisorTimerCompareEnabled(after) THEN kept \ {"STI"} ELSE kept

LatchedAfter(insn) ==
  IF insn.csr # "mip" THEN latched
  ELSE /\ insn.how # "rw"
       /\ ~(insn.how = "rc" /\ "SEI" \in insn.value)
       /\ latched \/ registers.plicSupervisorExternalPending

CsrWrite ==
  \E insn \in Programs[program] :
    /\ Executes(insn, "csr") /\ insn.writes
    /\ AccessAllowed(registers, insn.csr, TRUE)
    /\ LET r       == BeginRetire(registers)
           written == Combine(insn.how, Read(r, insn.csr), insn.value)
           after   == Write(r, insn.csr, written)
       IN /\ Iterate(CommitRetire(AdvancePc(after, 4)))
          /\ frame'   = ForgetFrames(insn.csr)
          /\ asked'   = AskedAfter(insn, after)
          /\ latched' = LatchedAfter(insn)
          /\ Tally(after, IF insn.csr = "mcycle" THEN insn.value ELSE retired.cycles,
                   IF insn.csr = "minstret" THEN insn.value ELSE retired.instructions)

Next ==
  \/ Sample \/ TakeInterrupt \/ MisalignedPc \/ FetchFault
  \/ Ordinary \/ Ecall \/ Ebreak \/ Mret \/ Sret \/ SfenceVma
  \/ Wfi \/ WfiSample \/ WfiReturn
  \/ Illegal \/ CsrIllegal \/ CsrRead \/ CsrWrite

Spec == Init /\ [][Next]_vars
-----------------------------------------------------------------------------
(* Properties                                                                *)

\* Registers only ever hold values they may hold: no reserved MPP, only
\* supervisor interrupts delegated, never the machine's own ecall, even return
\* addresses, a legal vector mode; and MPRV, which redirects the permission
\* checks of loads and stores, is never set below M (registers.ts, the WARL
\* rules; trap.ts, both returns).
Legal ==
  LET c == registers.csr
  IN /\ registers.privilege \in Privileges /\ registers.pc \in Addresses
     /\ ~("MPP1" \in c.mstatus /\ "MPP0" \notin c.mstatus)
     /\ c.mideleg \subseteq SupervisorInterrupts
     /\ c.mie \subseteq Interrupts /\ c.mip \subseteq Interrupts
     /\ CAUSE_ECALL_FROM_M \notin c.medeleg
     /\ c.mtvec.mode \in {0, 1} /\ c.stvec.mode \in {0, 1}
     /\ c.mepc % 2 = 0 /\ c.sepc % 2 = 0
     /\ "MPRV" \in c.mstatus => registers.privilege = PRIVILEGE_MACHINE

\* What only M may change.
MachineState(r) ==
  <<r.csr.mstatus \ {"SIE", "SPIE", "SPP", "SUM"}, r.csr.mie \ SupervisorInterrupts,
    r.csr.mip \ ({"SSI"} \cup SoftTimer(r)),
    [i \in MachineRegisters \ {"mstatus", "mie", "mip", "mcycle", "minstret"} |-> r.csr[i]]>>

\* A step below M that does not trap to M leaves the state of M as it is, the
\* views sstatus, sie and sip included; nor does it touch satp under TVM, nor
\* stimecmp without STCE and TM.
SupervisorConfined ==
  [][LET r == registers
         s == registers'
     IN (phase = "run" /\ r.privilege # PRIVILEGE_MACHINE
           /\ s.privilege # PRIVILEGE_MACHINE) =>
          /\ MachineState(s) = MachineState(r)
          /\ "TVM" \in r.csr.mstatus => s.csr.satp = r.csr.satp
          /\ (~SupervisorTimerCompareEnabled(r) \/ "TM" \notin r.csr.mcounteren) =>
               s.csr.stimecmp = r.csr.stimecmp]_vars

Restores(mode) ==
  frame[mode].live =>
    /\ registers'.privilege = frame[mode].privilege
    /\ registers'.pc = frame[mode].pc
    /\ (EnableBit(mode) \in registers'.csr.mstatus) = frame[mode].enabled

\* A handler that leaves its return state alone goes back to exactly what its
\* trap interrupted, whatever traps to the other mode, interrupts it did not
\* enable and writes of the other mode's registers came in between.
ReturnsToInterrupted ==
  [][(Mret => Restores(PRIVILEGE_MACHINE)) /\ (Sret => Restores(PRIVILEGE_SUPERVISOR))]_vars

\* mcycle and minstret count each retired instruction once: an ecall before its
\* trap, a wfi before its wait, a faulting instruction or an interrupt never.
RetiredOnce ==
  /\ registers.csr.mcycle = retired.cycles
  /\ registers.csr.minstret = retired.instructions

\* Every pending bit has an owner: the machine's bits are the wires, STIP is
\* the wire while STCE is set and software's otherwise, and the stored SEIP is
\* what software asked for, except after a read-modify-write of mip that
\* stored the PLIC wire with it.
PendingOwned ==
  LET r == registers
  IN /\ r.csr.mip \cap MachineInterrupts = wires \cap MachineInterrupts
     /\ r.plicSupervisorExternalPending = ("SEI" \in wires)
     /\ ("SEI" \in r.csr.mip) = ("SEI" \in asked \/ latched)
     /\ SupervisorTimerCompareEnabled(r) =>
          (phase # "sample" => (("STI" \in r.csr.mip) = ("STI" \in wires)))
     /\ ~SupervisorTimerCompareEnabled(r) => (("STI" \in r.csr.mip) = ("STI" \in asked))
=============================================================================
