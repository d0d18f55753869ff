---------------------------- MODULE MCAlgorithms ----------------------------
(***************************************************************************)
(* The algorithms of the program that run to completion on their own, each *)
(* on an instance of its own: one of the five runs, the others stay idle.  *)
(***************************************************************************)
EXTENDS PlicSelect, Decode, Alu, MemoryMap, Pmp

\* PlicSelect: the priorities are in the configuration.

\* Every compressed halfword, and 32-bit words over every opcode, funct3 and a choice of
\* register, funct7 and immediate fields.
MCParcels ==
    LET lows == {op + rd * 128 + f3 * 4096 + rs1 * 32768 :
                    op \in {4 * k + 3 : k \in 0 .. 31}, rd \in {0, 22}, f3 \in 0 .. 7, rs1 \in {0, 1}}
        highs == {rs1 + rs2 * 16 + f7 * 512 :
                    rs1 \in {0, 10}, rs2 \in {0, 1, 2, 5, 26},
                    f7 \in {0, 1, 2, 4, 8, 9, 12, 16, 24, 32, 33, 48, 64, 80, 96, 112}}
    IN [lo : {h \in 0 .. 65535 : h % 4 # 3}, hi : {4660}] \cup [lo : lows, hi : highs]

\* Words that share a low halfword, and compressed ones that share a high one.
MCHotParcels ==
    {[lo |-> 1171, hi |-> 16], [lo |-> 1171, hi |-> 32], [lo |-> 133, hi |-> 4660],
     [lo |-> 133, hi |-> 16], [lo |-> 0, hi |-> 4660]}

\* Registers of four two-bit bytes.
Values == {0, 1, 2, 3, 5, 7, 8, 15, 16, 100, 127, 128, 129, 170, 240, 247, 248, 254, 255}
Immediates == {0, 1, 5, -1, -8}

\* The doubleword at the address rs1 holds is, whatever the address, the value of rs1.
MCInitialStates ==
    LET word(v) == [i \in 1 .. Count |-> (v \div Base^(i - 1)) % Base]
    IN {<<[r \in Registers |-> CASE r = 0 -> word(0) [] r = 1 -> word(v) [] OTHER -> word(w)], word(v)>> :
            v, w \in Values}

MCProgram ==
    LET regs == OpNames \cup OpNames2 \cup Op32Names \cup MultiplyNames \cup DivideNames \cup Op32MNames
        Operation(o, rd, rs1, rs2, imm, len) ==
            [op |-> o, rd |-> rd, rs1 |-> rs1, rs2 |-> rs2, imm |-> imm, length |-> len]
    IN {Operation(o, c[1], c[2], c[3], 0, 4) : o \in regs, c \in {<<1, 1, 2>>, <<2, 1, 1>>, <<0, 1, 2>>}}
       \cup {Operation(o, 2, c, 0, imm, 2) : o \in OpImmNames \cup {"addiw"}, c \in {1, 2}, imm \in Immediates}
       \cup {Operation(o, 2, 1, 0, k, 4) : o \in OpImmShiftNames, k \in 0 .. XLEN - 1}
       \cup {Operation(o, 2, 1, 0, k, 4) : o \in OpImm32Names \ {"addiw"}, k \in 0 .. HalfBits - 1}
       \cup {Operation(o, 0, 1, 2, 10, 4) : o \in BranchNames}
       \cup {Operation(o, rd, 1, 0, imm, 2) :
                o \in {"lui", "auipc", "jal", "jalr", "fence", "fence.i"}, rd \in {0, 1}, imm \in Immediates}
       \cup {Operation(o, rd, 1, 2, 0, 4) :
                o \in DOMAIN LoadLength \cup DOMAIN StoreLength \cup {n \o e : n \in AmoNames, e \in {".w", ".d"}},
                rd \in {0, 2}}

\* Windows that touch, overlap by one byte or more, or leave gaps; slabs of unaligned length,
\* a host-only slab, and RAM with and without a host-only tail.
MCLayouts ==
    LET bases == {0, 2, 8}
        Region(id, h, b, w) ==
            [id |-> id, hostByteLength |-> h, guestAddress |-> b, guestByteLength |-> w]
    IN {<<Region("clint", c, bc, 2), Region("monitor", 3, HostOnly, 0),
          Region("ram", 6, br, w), Region("uart", 5, bu, 3)>> :
            <<c, w>> \in {<<1, 4>>, <<5, 6>>}, bc, br, bu \in bases}

\* A second store that overlaps the first puts other bytes over it, a zero among them.
MCStoreSources == {<<1, 2, 0, 4>>}

\* Pmp: one entry of each address mode, some locked, one with W alone.
MCCfgBytes ==
    {[permissions |-> {"R", "X"}, mode |-> "TOR", lock |-> TRUE],
     [permissions |-> {"W", "X"}, mode |-> "NAPOT", lock |-> FALSE],
     [permissions |-> {"R", "W"}, mode |-> "NAPOT", lock |-> TRUE],
     [permissions |-> {"R", "W"}, mode |-> "NA4", lock |-> FALSE]}
-----------------------------------------------------------------------------
VARIABLE running    \* which of the five this behaviour runs

SelectIdle == candidates = {} /\ priority = <<>> /\ threshold = 0
              /\ source = 0 /\ bestSource = 0 /\ bestPriority = 0
DecodeIdle == LET w == CHOOSE w \in HotParcels : TRUE IN
              /\ thunks = <<<<KeyOf(w), decode(w)>>>>
              /\ fetched = [word |-> w, ins |-> decode(w), length |-> LengthOf(w)]
AluIdle    == generalPurpose = <<>> /\ programCounter = <<>> /\ executed = <<>> /\ addressed = <<>>
MemoryIdle == specs = <<>> /\ bytes = <<>> /\ reached = Unmapped /\ stored = Call(0, 0, <<>>, 0)
PmpIdle    == pmpcfg = <<>> /\ pmpaddr = <<>>

AlgorithmsInit ==
    \/ running = "select" /\ Init       /\ DecodeIdle /\ AluIdle /\ MemoryIdle /\ PmpIdle
    \/ running = "decode" /\ SelectIdle /\ DecodeInit /\ AluIdle /\ MemoryIdle /\ PmpIdle
    \/ running = "alu"    /\ SelectIdle /\ DecodeIdle /\ AluInit /\ MemoryIdle /\ PmpIdle
    \/ running = "memory" /\ SelectIdle /\ DecodeIdle /\ AluIdle /\ MemoryInit /\ PmpIdle
    \/ running = "pmp"    /\ SelectIdle /\ DecodeIdle /\ AluIdle /\ MemoryIdle /\ PmpInit

AlgorithmsNext ==
    /\ UNCHANGED running
    /\ \/ running = "select" /\ Next       /\ UNCHANGED <<decodeVars, aluVars, memoryVars, pmpVars>>
       \/ running = "decode" /\ DecodeNext /\ UNCHANGED <<vars, aluVars, memoryVars, pmpVars>>
       \/ running = "alu"    /\ AluNext    /\ UNCHANGED <<vars, decodeVars, memoryVars, pmpVars>>
       \/ running = "memory" /\ MemoryNext /\ UNCHANGED <<vars, decodeVars, aluVars, pmpVars>>
       \/ running = "pmp"    /\ PmpNext    /\ UNCHANGED <<vars, decodeVars, aluVars, memoryVars>>
=============================================================================
