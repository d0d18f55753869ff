------------------------------- MODULE Decode -------------------------------
(***************************************************************************)
(* The instruction decoder: decode-32.ts, decode-c.ts and the memoizing    *)
(* front end decode/index.ts.                                              *)
(*                                                                         *)
(* A fetch reads four bytes: a parcel [lo, hi] of two halfwords.  The      *)
(* decoder returns a closure over the operands; here it is the record of   *)
(* what the closure calls: the instruction and its operands, unused ones   *)
(* 0.  Shift amounts and CSR numbers are kept in imm, the 5-bit immediate  *)
(* of csrrwi/csrrsi/csrrci in rs1.  U-type immediates are in units of 2^12.*)
(***************************************************************************)
EXTENDS Integers, Sequences, TLC, SequencesExt, Isa

CONSTANTS
    Parcels,        \* the parcels a first fetch may read
    HotParcels,     \* the parcels that later fetches read again
    MaxEntries      \* DECODE_CACHE_MAX_ENTRIES

Halfwords == 0 .. 65535

ASSUME DecodeAssumption ==
    /\ MaxEntries \in Nat \ {0}
    /\ Parcels \cup HotParcels \subseteq [lo : Halfwords, hi : Halfwords]

VARIABLES
    thunks,         \* thunkByInstructionWord: <<key, instruction>> pairs, oldest first
    fetched         \* the last parcel decoded, its instruction and its byte length

decodeVars == <<thunks, fetched>>

-----------------------------------------------------------------------------
Bits(h, low, n) == (h \div 2^low) % 2^n
Signed(x, n) == IF x >= 2^(n - 1) THEN x - 2^n ELSE x

Ins(op, rd, rs1, rs2, imm) ==
    [op |-> op, rd |-> rd, rs1 |-> rs1, rs2 |-> rs2, imm |-> imm]

\* Trap with cause 2; the trap value is the encoding that was read.
illegalInstruction(w) == [op |-> "illegal", word |-> w]
illegalC(h) == illegalInstruction([lo |-> h, hi |-> 0])

\* A switch on key: the matching case, or the default, which is illegal.
Switch(cases, key, w, operands(_)) ==
    IF key \in DOMAIN cases THEN operands(cases[key]) ELSE illegalInstruction(w)

-----------------------------------------------------------------------------
(* decode-32.ts: fields and immediates of a 32-bit encoding *)
OpcodeOf(w) == w.lo % 128
destinationRegisterOf(w) == Bits(w.lo, 7, 5)
function3Of(w) == Bits(w.lo, 12, 3)
sourceRegister1Of(w) == Bits(w.hi, 0, 4) * 2 + Bits(w.lo, 15, 1)
sourceRegister2Of(w) == Bits(w.hi, 4, 5)
function7Of(w) == Bits(w.hi, 9, 7)
Imm12Of(w) == Bits(w.hi, 4, 12)

decodeITypeImmediate(w) == Signed(Imm12Of(w), 12)
decodeSTypeImmediate(w) == Signed(function7Of(w) * 32 + destinationRegisterOf(w), 12)
\* Mutated form: bits 10:5 and 4:1 of a branch offset swapped.
BTypeMutant(w) ==
    Signed(Bits(w.hi, 15, 1) * 4096 + Bits(w.lo, 7, 1) * 2048
           + Bits(w.hi, 9, 6) * 2 + Bits(w.lo, 8, 4) * 128, 13)

decodeBTypeImmediate(w) ==
    Signed(Bits(w.hi, 15, 1) * 4096 + Bits(w.lo, 7, 1) * 2048
           + Bits(w.hi, 9, 6) * 32 + Bits(w.lo, 8, 4) * 2, 13)
\* In units of 4096, which the upper immediates are multiples of; so decodeLuiImmediate.
decodeUTypeImmediate(w) == Signed(w.hi * 16 + Bits(w.lo, 12, 4), 20)
decodeJTypeImmediate(w) ==
    Signed(Bits(w.hi, 15, 1) * 2^20 + (Bits(w.hi, 0, 4) * 16 + Bits(w.lo, 12, 4)) * 4096
           + Bits(w.hi, 4, 1) * 2048 + Bits(w.hi, 5, 10) * 2, 21)

\* The cases of the inner switches, by funct3 (by funct5 for AMO).
BranchCases == 0 :> "beq" @@ 1 :> "bne" @@ 4 :> "blt" @@ 5 :> "bge" @@ 6 :> "bltu" @@ 7 :> "bgeu"
LoadCases == 0 :> "lb" @@ 1 :> "lh" @@ 2 :> "lw" @@ 3 :> "ld" @@ 4 :> "lbu" @@ 5 :> "lhu" @@ 6 :> "lwu"
StoreCases == 0 :> "sb" @@ 1 :> "sh" @@ 2 :> "sw" @@ 3 :> "sd"
AmoCases ==
    0 :> "amoadd" @@ 1 :> "amoswap" @@ 2 :> "lr" @@ 3 :> "sc" @@ 4 :> "amoxor" @@ 8 :> "amoor"
    @@ 12 :> "amoand" @@ 16 :> "amomin" @@ 20 :> "amomax" @@ 24 :> "amominu" @@ 28 :> "amomaxu"
OpImmCases == 0 :> "addi" @@ 2 :> "slti" @@ 3 :> "sltiu" @@ 4 :> "xori" @@ 6 :> "ori" @@ 7 :> "andi"
OpMCases == 0 :> "mul" @@ 1 :> "mulh" @@ 2 :> "mulhsu" @@ 3 :> "mulhu"
            @@ 4 :> "div" @@ 5 :> "divu" @@ 6 :> "rem" @@ 7 :> "remu"
OpCases == 0 :> "add" @@ 1 :> "sll" @@ 2 :> "slt" @@ 3 :> "sltu"
           @@ 4 :> "xor" @@ 5 :> "srl" @@ 6 :> "or" @@ 7 :> "and"
OpAltCases == 0 :> "sub" @@ 5 :> "sra"
Op32MCases == 0 :> "mulw" @@ 4 :> "divw" @@ 5 :> "divuw" @@ 6 :> "remw" @@ 7 :> "remuw"
Op32Cases == 0 :> "addw" @@ 1 :> "sllw" @@ 5 :> "srlw"
Op32AltCases == 0 :> "subw" @@ 5 :> "sraw"
CsrCases == 1 :> "csrrw" @@ 2 :> "csrrs" @@ 3 :> "csrrc" @@ 5 :> "csrrwi" @@ 6 :> "csrrsi" @@ 7 :> "csrrci"
PrivilegedCases == 0 :> "ecall" @@ 1 :> "ebreak" @@ 258 :> "sret" @@ 261 :> "wfi" @@ 770 :> "mret"

DecodeBranch(w) ==
    Switch(BranchCases, function3Of(w), w, LAMBDA op :
        Ins(op, 0, sourceRegister1Of(w), sourceRegister2Of(w), decodeBTypeImmediate(w)))

DecodeLoad(w) ==
    Switch(LoadCases, function3Of(w), w, LAMBDA op :
        Ins(op, destinationRegisterOf(w), sourceRegister1Of(w), 0, decodeITypeImmediate(w)))

DecodeStore(w) ==
    Switch(StoreCases, function3Of(w), w, LAMBDA op :
        Ins(op, 0, sourceRegister1Of(w), sourceRegister2Of(w), decodeSTypeImmediate(w)))

\* funct5 ignores the aq and rl bits below it; lr has no second operand.
DecodeAmo(w) ==
    LET width == IF function3Of(w) = 2 THEN ".w" ELSE ".d" IN
    IF function3Of(w) \notin {2, 3} \/ (function7Of(w) \div 4 = 2 /\ sourceRegister2Of(w) # 0)
    THEN illegalInstruction(w)
    ELSE Switch(AmoCases, function7Of(w) \div 4, w, LAMBDA op :
            Ins(op \o width, destinationRegisterOf(w), sourceRegister1Of(w), sourceRegister2Of(w), 0))

\* A shift by constant: top is the field above the shift amount.
DecodeShiftImmediate(w, names, top, shiftAmount) ==
    Switch(names, top, w, LAMBDA op :
        Ins(op, destinationRegisterOf(w), sourceRegister1Of(w), 0, shiftAmount))

DecodeOpImm(w) ==
    LET shiftAmount == Bits(w.hi, 4, 6)
        top == Bits(w.hi, 10, 6)
    IN CASE function3Of(w) = 1 -> DecodeShiftImmediate(w, 0 :> "slli", top, shiftAmount)
         [] function3Of(w) = 5 -> DecodeShiftImmediate(w, 0 :> "srli" @@ 16 :> "srai", top, shiftAmount)
         [] OTHER -> Switch(OpImmCases, function3Of(w), w, LAMBDA op :
                Ins(op, destinationRegisterOf(w), sourceRegister1Of(w), 0, decodeITypeImmediate(w)))

DecodeOpImm32(w) ==
    LET shiftAmount == Bits(w.hi, 4, 5) IN
    CASE function3Of(w) = 1 -> DecodeShiftImmediate(w, 0 :> "slliw", function7Of(w), shiftAmount)
      [] function3Of(w) = 5 ->
            DecodeShiftImmediate(w, 0 :> "srliw" @@ 32 :> "sraiw", function7Of(w), shiftAmount)
      [] OTHER -> Switch(0 :> "addiw", function3Of(w), w, LAMBDA op :
            Ins(op, destinationRegisterOf(w), sourceRegister1Of(w), 0, decodeITypeImmediate(w)))

\* Register-register instructions: funct7 picks the switch on funct3.
DecodeRegister(w, byFunct7) ==
    Switch(byFunct7, function7Of(w), w, LAMBDA cases :
        Switch(cases, function3Of(w), w, LAMBDA op :
            Ins(op, destinationRegisterOf(w), sourceRegister1Of(w), sourceRegister2Of(w), 0)))

DecodeOp(w) == DecodeRegister(w, 0 :> OpCases @@ 1 :> OpMCases @@ 32 :> OpAltCases)
DecodeOp32(w) == DecodeRegister(w, 0 :> Op32Cases @@ 1 :> Op32MCases @@ 32 :> Op32AltCases)

DecodeMiscMem(w) ==
    Switch(0 :> "fence" @@ 1 :> "fence.i", function3Of(w), w, LAMBDA op : Ins(op, 0, 0, 0, 0))

DecodePrivileged(w) ==
    IF destinationRegisterOf(w) # 0 \/ (function7Of(w) # 9 /\ sourceRegister1Of(w) # 0)
    THEN illegalInstruction(w)
    ELSE IF function7Of(w) = 9 THEN Ins("sfence.vma", 0, 0, 0, 0)
         ELSE Switch(PrivilegedCases, Imm12Of(w), w, LAMBDA op : Ins(op, 0, 0, 0, 0))

DecodeCsr(w) ==
    Switch(CsrCases, function3Of(w), w, LAMBDA op :
        Ins(op, destinationRegisterOf(w), sourceRegister1Of(w), 0, Imm12Of(w)))

decode32(w) ==
    LET opcode == OpcodeOf(w)
        rd == destinationRegisterOf(w)
    IN CASE opcode = 55 -> Ins("lui", rd, 0, 0, decodeUTypeImmediate(w))
         [] opcode = 23 -> Ins("auipc", rd, 0, 0, decodeUTypeImmediate(w))
         [] opcode = 111 -> Ins("jal", rd, 0, 0, decodeJTypeImmediate(w))
         [] opcode = 103 /\ function3Of(w) = 0 ->
                Ins("jalr", rd, sourceRegister1Of(w), 0, decodeITypeImmediate(w))
         [] opcode = 99 -> DecodeBranch(w)
         [] opcode = 3 -> DecodeLoad(w)
         [] opcode = 35 -> DecodeStore(w)
         [] opcode = 47 -> DecodeAmo(w)
         [] opcode = 19 -> DecodeOpImm(w)
         [] opcode = 51 -> DecodeOp(w)
         [] opcode = 27 -> DecodeOpImm32(w)
         [] opcode = 59 -> DecodeOp32(w)
         [] opcode = 15 -> DecodeMiscMem(w)
         [] opcode = 115 -> IF function3Of(w) = 0 THEN DecodePrivileged(w) ELSE DecodeCsr(w)
         [] OTHER -> illegalInstruction(w)

-----------------------------------------------------------------------------
(* decode-c.ts: compressed encodings, each the closure of a 32-bit one *)
STACK_POINTER == 2
RETURN_ADDRESS == 1
compactRegister(encoded) == 8 + encoded

\* HINT or NOP: only advances the program counter.
cNop == [op |-> "c.nop"]

rdOf(h) == Bits(h, 7, 5)
rs2Of(h) == Bits(h, 2, 5)
rs1PrimeOf(h) == compactRegister(Bits(h, 7, 3))
rs2PrimeOf(h) == compactRegister(Bits(h, 2, 3))

decodeShamt(h) == Bits(h, 12, 1) * 32 + Bits(h, 2, 5)
decodeCiImm6(h) == Signed(decodeShamt(h), 6)
decodeAddi4SpnImmediate(h) ==
    Bits(h, 7, 4) * 64 + Bits(h, 11, 2) * 16 + Bits(h, 5, 1) * 8 + Bits(h, 6, 1) * 4
decodeLwSwOffset(h) == Bits(h, 10, 3) * 8 + Bits(h, 6, 1) * 4 + Bits(h, 5, 1) * 64
decodeLdSdOffset(h) == Bits(h, 10, 3) * 8 + Bits(h, 5, 2) * 64
decodeAddi16SpImmediate(h) ==
    Signed(Bits(h, 12, 1) * 512 + Bits(h, 6, 1) * 16 + Bits(h, 5, 1) * 64
           + Bits(h, 3, 2) * 128 + Bits(h, 2, 1) * 32, 10)
decodeLuiImmediate(h) == Signed(decodeShamt(h), 6)
decodeLwSpOffset(h) == Bits(h, 12, 1) * 32 + Bits(h, 4, 3) * 4 + Bits(h, 2, 2) * 64
decodeLdSpOffset(h) == Bits(h, 12, 1) * 32 + Bits(h, 5, 2) * 8 + Bits(h, 2, 3) * 64
decodeSwSpOffset(h) == Bits(h, 9, 4) * 4 + Bits(h, 7, 2) * 64
decodeSdSpOffset(h) == Bits(h, 10, 3) * 8 + Bits(h, 7, 3) * 64

\* Mutated form: imm[7] and imm[6] of a jump exchanged.
CjOffsetMutant(h) ==
    Signed(Bits(h, 12, 1) * 2048 + Bits(h, 11, 1) * 16 + Bits(h, 9, 2) * 256 + Bits(h, 8, 1) * 1024
           + Bits(h, 7, 1) * 128 + Bits(h, 6, 1) * 64 + Bits(h, 3, 3) * 2 + Bits(h, 2, 1) * 32, 12)

decodeCjOffset(h) ==
    Signed(Bits(h, 12, 1) * 2048 + Bits(h, 11, 1) * 16 + Bits(h, 9, 2) * 256 + Bits(h, 8, 1) * 1024
           + Bits(h, 7, 1) * 64 + Bits(h, 6, 1) * 128 + Bits(h, 3, 3) * 2 + Bits(h, 2, 1) * 32, 12)
decodeCbOffset(h) ==
    Signed(Bits(h, 12, 1) * 256 + Bits(h, 10, 2) * 8 + Bits(h, 5, 2) * 64
           + Bits(h, 3, 2) * 2 + Bits(h, 2, 1) * 32, 9)

decodeQuadrant0(h) ==
    LET f3 == Bits(h, 13, 3)
        rdPrime == rs2PrimeOf(h)
        rs1Prime == rs1PrimeOf(h)
    IN CASE f3 = 0 /\ decodeAddi4SpnImmediate(h) # 0 ->
                Ins("addi", rdPrime, STACK_POINTER, 0, decodeAddi4SpnImmediate(h))
         [] f3 = 2 -> Ins("lw", rdPrime, rs1Prime, 0, decodeLwSwOffset(h))
         [] f3 = 3 -> Ins("ld", rdPrime, rs1Prime, 0, decodeLdSdOffset(h))
         [] f3 = 6 -> Ins("sw", 0, rs1Prime, rs2PrimeOf(h), decodeLwSwOffset(h))
         [] f3 = 7 -> Ins("sd", 0, rs1Prime, rs2PrimeOf(h), decodeLdSdOffset(h))
         [] OTHER -> illegalC(h)

decodeQuadrant1Arithmetic(h) ==
    LET rd == rs1PrimeOf(h)
        high == Bits(h, 10, 2)
        shiftAmount == decodeShamt(h)
        cases == IF Bits(h, 12, 1) = 0
                 THEN 0 :> "sub" @@ 1 :> "xor" @@ 2 :> "or" @@ 3 :> "and"
                 ELSE 0 :> "subw" @@ 1 :> "addw"
    IN CASE high \in {0, 1} /\ shiftAmount = 0 -> cNop
         [] high = 0 /\ shiftAmount # 0 -> Ins("srli", rd, rd, 0, shiftAmount)
         [] high = 1 /\ shiftAmount # 0 -> Ins("srai", rd, rd, 0, shiftAmount)
         [] high = 2 -> Ins("andi", rd, rd, 0, decodeCiImm6(h))
         [] high = 3 -> Switch(cases, Bits(h, 5, 2), illegalC(h).word, LAMBDA op :
                            Ins(op, rd, rd, rs2PrimeOf(h), 0))

\* funct3 = 3: c.addi16sp when rd is the stack pointer, c.lui otherwise.
decodeCLui(h) ==
    LET rd == rdOf(h) IN
    CASE decodeShamt(h) = 0 -> illegalC(h)
      [] decodeShamt(h) # 0 /\ rd = STACK_POINTER ->
            Ins("addi", STACK_POINTER, STACK_POINTER, 0, decodeAddi16SpImmediate(h))
      [] decodeShamt(h) # 0 /\ rd = 0 -> cNop
      [] OTHER -> Ins("lui", rd, 0, 0, decodeLuiImmediate(h))

decodeQuadrant1(h) ==
    LET f3 == Bits(h, 13, 3)
        rd == rdOf(h)
    IN CASE f3 = 0 -> IF rd = 0 \/ decodeShamt(h) = 0 THEN cNop
                      ELSE Ins("addi", rd, rd, 0, decodeCiImm6(h))
         [] f3 = 1 -> IF rd = 0 THEN illegalC(h) ELSE Ins("addiw", rd, rd, 0, decodeCiImm6(h))
         [] f3 = 2 -> IF rd = 0 THEN cNop ELSE Ins("addi", rd, 0, 0, decodeCiImm6(h))
         [] f3 = 3 -> decodeCLui(h)
         [] f3 = 4 -> decodeQuadrant1Arithmetic(h)
         [] f3 = 5 -> Ins("jal", 0, 0, 0, decodeCjOffset(h))
         [] f3 = 6 -> Ins("beq", 0, rs1PrimeOf(h), 0, decodeCbOffset(h))
         [] f3 = 7 -> Ins("bne", 0, rs1PrimeOf(h), 0, decodeCbOffset(h))

\* funct3 = 4 of quadrant 2: jumps when the rs2 field is 0, moves and adds otherwise.
decodeCRegister(h) ==
    LET rd == rdOf(h)
        rs2 == rs2Of(h)
        bit12 == Bits(h, 12, 1)
    IN CASE rs2 = 0 /\ rd = 0 -> IF bit12 = 0 THEN illegalC(h) ELSE Ins("ebreak", 0, 0, 0, 0)
         [] rs2 = 0 /\ rd # 0 -> Ins("jalr", bit12 * RETURN_ADDRESS, rd, 0, 0)
         [] rs2 # 0 /\ rd = 0 -> cNop
         [] rs2 # 0 /\ rd # 0 -> Ins("add", rd, bit12 * rd, rs2, 0)

decodeQuadrant2(h) ==
    LET f3 == Bits(h, 13, 3)
        rd == rdOf(h)
    IN CASE f3 = 0 -> IF rd = 0 \/ decodeShamt(h) = 0 THEN cNop
                      ELSE Ins("slli", rd, rd, 0, decodeShamt(h))
         [] f3 = 2 /\ rd # 0 -> Ins("lw", rd, STACK_POINTER, 0, decodeLwSpOffset(h))
         [] f3 = 3 /\ rd # 0 -> Ins("ld", rd, STACK_POINTER, 0, decodeLdSpOffset(h))
         [] f3 = 4 -> decodeCRegister(h)
         [] f3 = 6 -> Ins("sw", 0, STACK_POINTER, rs2Of(h), decodeSwSpOffset(h))
         [] f3 = 7 -> Ins("sd", 0, STACK_POINTER, rs2Of(h), decodeSdSpOffset(h))
         [] OTHER -> illegalC(h)

decodeC(h) ==
    CASE h % 4 = 0 -> IF h = 0 THEN illegalC(h) ELSE decodeQuadrant0(h)
      [] h % 4 = 1 -> decodeQuadrant1(h)
      [] h % 4 = 2 -> decodeQuadrant2(h)
      [] h % 4 = 3 -> illegalC(h)

-----------------------------------------------------------------------------
(* decode/index.ts *)
Is32Bit(w) == w.lo % 4 = 3
LengthOf(w) == IF Is32Bit(w) THEN 4 ELSE 2

decode(w) == IF Is32Bit(w) THEN decode32(w) ELSE decodeC(w.lo)

\* Mutated form: every encoding keyed on its low halfword.
KeyMutant(w) == [w EXCEPT !.hi = 0]

\* RVC encodings key on the low halfword; the high one is the next instruction.
KeyOf(w) == IF Is32Bit(w) THEN w ELSE [w EXCEPT !.hi = 0]

Cached(key) == {i \in DOMAIN thunks : thunks[i][1] = key}

DecodeInit ==
    \E w \in Parcels \cup HotParcels :
        /\ thunks = <<<<KeyOf(w), decode(w)>>>>
        /\ fetched = [word |-> w, ins |-> decode(w), length |-> LengthOf(w)]

\* A hit moves the entry to the newest end.
DecodeHit(w) ==
    \E i \in Cached(KeyOf(w)) :
        /\ thunks' = Append(RemoveAt(thunks, i), thunks[i])
        /\ fetched' = [word |-> w, ins |-> thunks[i][2], length |-> LengthOf(w)]

\* A miss on a full map evicts the oldest entry.
DecodeMiss(w) ==
    /\ Cached(KeyOf(w)) = {}
    /\ thunks' = Append(IF Len(thunks) >= MaxEntries THEN Tail(thunks) ELSE thunks,
                        <<KeyOf(w), decode(w)>>)
    /\ fetched' = [word |-> w, ins |-> decode(w), length |-> LengthOf(w)]

\* Every sequence of fetches from the hot parcels, after one of them.
DecodeNext ==
    /\ fetched.word \in HotParcels
    /\ \E w \in HotParcels : DecodeHit(w) \/ DecodeMiss(w)

DecodeSpec == DecodeInit /\ [][DecodeNext]_decodeVars

-----------------------------------------------------------------------------
(* Properties *)

\* A 32-bit word: the manual's encoding of what it is decoded to is the word itself.
Decode32Exact ==
    LET w == fetched.word
        i == fetched.ins
    IN Is32Bit(w) =>
        IF i.op = "illegal" THEN i.word = w /\ \A op \in DOMAIN Encodings : ~Matches(w, Encodings[op])
        ELSE Matches(w, Encodings[i.op]) /\ Encode(i) = Canonical(w, i)

\* A compressed instruction is the abbreviation of a 32-bit one: encoding what decodeC
\* returns and decoding that word with decode32 gives the same instruction back, so every
\* immediate is in range, aligned and every register and shift amount is one decode32
\* can produce; an illegal encoding traps with its halfword alone.
RvcExpands ==
    LET w == fetched.word
        i == fetched.ins
    IN ~Is32Bit(w) =>
        CASE i.op = "c.nop" -> TRUE
          [] i.op = "illegal" -> i.word = [lo |-> w.lo, hi |-> 0]
          [] OTHER -> decode32(Encode(i)) = i

\* The immediate of a compressed instruction is the one its layout table prints (the doc
\* comments of the decode...Immediate and decode...Offset helpers), bit by bit.
RvcImmediates ==
    LET h == fetched.word.lo
        i == fetched.ins
        quadrant == <<h % 4, Bits(h, 13, 3)>>
        Table(from, to) == Scatter(h, from, to)
        ci == <<12, 6, 5, 4, 3, 2>>
        expected ==
            CASE quadrant = <<0, 0>> -> Table(<<12, 11, 10, 9, 8, 7, 6, 5>>, <<5, 4, 9, 8, 7, 6, 2, 3>>)
              [] quadrant \in {<<0, 2>>, <<0, 6>>} -> Table(<<12, 11, 10, 6, 5>>, <<5, 4, 3, 2, 6>>)
              [] quadrant \in {<<0, 3>>, <<0, 7>>} -> Table(<<12, 11, 10, 6, 5>>, <<5, 4, 3, 7, 6>>)
              [] quadrant = <<1, 3>> /\ i.op = "addi" -> Signed(Table(ci, <<9, 4, 6, 8, 7, 5>>), 10)
              [] quadrant \in {<<1, 0>>, <<1, 1>>, <<1, 2>>, <<1, 3>>}
                    \/ (quadrant = <<1, 4>> /\ i.op = "andi") -> Signed(Table(ci, <<5, 4, 3, 2, 1, 0>>), 6)
              [] quadrant = <<2, 0>> \/ (quadrant = <<1, 4>> /\ i.op \in {"srli", "srai"}) ->
                    Table(ci, <<5, 4, 3, 2, 1, 0>>)
              [] quadrant = <<1, 5>> ->
                    Signed(Table(<<12, 11, 10, 9, 8, 7, 6, 5, 4, 3, 2>>, <<11, 4, 9, 8, 10, 6, 7, 3, 2, 1, 5>>), 12)
              [] quadrant \in {<<1, 6>>, <<1, 7>>} ->
                    Signed(Table(<<12, 11, 10, 6, 5, 4, 3, 2>>, <<8, 4, 3, 7, 6, 2, 1, 5>>), 9)
              [] quadrant = <<2, 2>> -> Table(ci, <<5, 4, 3, 2, 7, 6>>)
              [] quadrant = <<2, 3>> -> Table(ci, <<5, 4, 3, 8, 7, 6>>)
              [] quadrant = <<2, 6>> -> Table(<<12, 11, 10, 9, 8, 7>>, <<5, 4, 3, 2, 7, 6>>)
              [] quadrant = <<2, 7>> -> Table(<<12, 11, 10, 9, 8, 7>>, <<5, 4, 3, 8, 7, 6>>)
              [] OTHER -> 0
    IN ~Is32Bit(fetched.word) /\ i.op \notin {"c.nop", "illegal"} => i.imm = expected

\* The manual's listing of the compressed instructions: the quadrant and funct3 of each, what
\* else its encoding requires, and the instruction it stands for with rd, rs1 and rs2. The
\* rows without an instruction are the HINTs; an encoding in no row is reserved.
RvcListing(h) ==
    LET rd == Bits(h, 7, 5)
        rs2 == Bits(h, 2, 5)
        rs1C == 8 + Bits(h, 7, 3)
        rs2C == 8 + Bits(h, 2, 3)
        bit12 == Bits(h, 12, 1)
        zero == bit12 = 0 /\ rs2 = 0                   \* the immediate of the CI format
        Math(minor) == Bits(h, 10, 2) = 3 /\ <<bit12, Bits(h, 5, 2)>> = minor
    IN { <<0, 0, Bits(h, 5, 8) # 0,            "addi", rs2C, 2, 0>>,
         <<0, 2, TRUE,                         "lw", rs2C, rs1C, 0>>,
         <<0, 3, TRUE,                         "ld", rs2C, rs1C, 0>>,
         <<0, 6, TRUE,                         "sw", 0, rs1C, rs2C>>,
         <<0, 7, TRUE,                         "sd", 0, rs1C, rs2C>>,
         <<1, 0, rd # 0 /\ ~zero,              "addi", rd, rd, 0>>,
         <<1, 0, rd = 0 \/ zero,               "c.nop", 0, 0, 0>>,
         <<1, 1, rd # 0,                       "addiw", rd, rd, 0>>,
         <<1, 2, rd # 0,                       "addi", rd, 0, 0>>,
         <<1, 2, rd = 0,                       "c.nop", 0, 0, 0>>,
         <<1, 3, rd = 2 /\ ~zero,              "addi", 2, 2, 0>>,
         <<1, 3, rd \notin {0, 2} /\ ~zero,    "lui", rd, 0, 0>>,
         <<1, 3, rd = 0 /\ ~zero,              "c.nop", 0, 0, 0>>,
         <<1, 4, Bits(h, 10, 2) = 0 /\ ~zero,  "srli", rs1C, rs1C, 0>>,
         <<1, 4, Bits(h, 10, 2) = 1 /\ ~zero,  "srai", rs1C, rs1C, 0>>,
         <<1, 4, Bits(h, 10, 2) < 2 /\ zero,   "c.nop", 0, 0, 0>>,
         <<1, 4, Bits(h, 10, 2) = 2,           "andi", rs1C, rs1C, 0>>,
         <<1, 4, Math(<<0, 0>>),               "sub", rs1C, rs1C, rs2C>>,
         <<1, 4, Math(<<0, 1>>),               "xor", rs1C, rs1C, rs2C>>,
         <<1, 4, Math(<<0, 2>>),               "or", rs1C, rs1C, rs2C>>,
         <<1, 4, Math(<<0, 3>>),               "and", rs1C, rs1C, rs2C>>,
         <<1, 4, Math(<<1, 0>>),               "subw", rs1C, rs1C, rs2C>>,
         <<1, 4, Math(<<1, 1>>),               "addw", rs1C, rs1C, rs2C>>,
         <<1, 5, TRUE,                         "jal", 0, 0, 0>>,
         <<1, 6, TRUE,                         "beq", 0, rs1C, 0>>,
         <<1, 7, TRUE,                         "bne", 0, rs1C, 0>>,
         <<2, 0, rd # 0 /\ ~zero,              "slli", rd, rd, 0>>,
         <<2, 0, rd = 0 \/ zero,               "c.nop", 0, 0, 0>>,
         <<2, 2, rd # 0,                       "lw", rd, 2, 0>>,
         <<2, 3, rd # 0,                       "ld", rd, 2, 0>>,
         <<2, 4, bit12 = 0 /\ rd # 0 /\ rs2 = 0,  "jalr", 0, rd, 0>>,
         <<2, 4, bit12 = 0 /\ rd # 0 /\ rs2 # 0,  "add", rd, 0, rs2>>,
         <<2, 4, bit12 = 1 /\ rd = 0 /\ rs2 = 0,  "ebreak", 0, 0, 0>>,
         <<2, 4, bit12 = 1 /\ rd # 0 /\ rs2 = 0,  "jalr", 1, rd, 0>>,
         <<2, 4, bit12 = 1 /\ rd # 0 /\ rs2 # 0,  "add", rd, rd, rs2>>,
         <<2, 4, rd = 0 /\ rs2 # 0,            "c.nop", 0, 0, 0>>,
         <<2, 6, TRUE,                         "sw", 0, 2, rs2>>,
         <<2, 7, TRUE,                         "sd", 0, 2, rs2>> }

\* A compressed instruction is the one the manual lists for its halfword, on the registers
\* listed (the three-bit fields name x8 to x15, the stack forms x2, c.jalr links x1); it is a
\* no-operation exactly for a HINT and illegal exactly for an encoding that is not listed.
RvcListed ==
    LET h == fetched.word.lo
        i == fetched.ins
        rows == {row \in RvcListing(h) : row[1] = h % 4 /\ row[2] = Bits(h, 13, 3) /\ row[3]}
    IN ~Is32Bit(fetched.word) =>
        CASE i.op = "illegal" -> rows = {}
          [] i.op = "c.nop" -> {row[4] : row \in rows} = {"c.nop"}
          [] OTHER -> {SubSeq(row, 4, 7) : row \in rows} = {<<i.op, i.rd, i.rs1, i.rs2>>}

\* A 32-bit word is decoded to the instruction whose encoding it is, operands and scattered
\* immediate included, and rejected, with the word as trap value, exactly when no instruction
\* has that encoding; every compressed halfword is decoded to the expansion the manual lists,
\* with the immediate its table prints (decode32, decodeC; tests sample a few words each).
DecodesExactly == Decode32Exact /\ RvcExpands /\ RvcListed /\ RvcImmediates

\* The memo never returns another encoding's instruction: the last fetch and every entry
\* hold what decode gives for their own encoding and length, keys are distinct, the map
\* stays within its bound and the last fetch is the entry that is evicted last.
CacheFaithful ==
    /\ fetched.ins = decode(fetched.word)
    /\ \A j \in DOMAIN thunks :
          /\ thunks[j][2] = decode(thunks[j][1])
          /\ \A k \in DOMAIN thunks : thunks[j][1] = thunks[k][1] => j = k
    /\ Len(thunks) <= MaxEntries
    /\ Last(thunks)[1] = KeyOf(fetched.word)

=============================================================================
