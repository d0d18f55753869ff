-------------------------------- MODULE Isa --------------------------------
(***************************************************************************)
(* What the decoder is measured against: the RV64IMA encoding tables read  *)
(* in the assembler's direction, from an instruction to its word, and the  *)
(* bit positions of the immediates as the manual prints them.  Nothing     *)
(* here is translated from the program.                                    *)
(***************************************************************************)
EXTENDS Integers, Sequences, FiniteSetsExt, SequencesExt, TLC

LOCAL Field(x, low, n) == (x \div 2^low) % 2^n

\* Rows of the opcode map: format, opcode, funct7, and the mnemonic per funct3.
Rows ==
    { <<"U", 55, 0, <<"lui">>>>, <<"U", 23, 0, <<"auipc">>>>, <<"J", 111, 0, <<"jal">>>>,
      <<"I", 103, 0, <<"jalr">>>>,
      <<"B", 99, 0, <<"beq", "bne", "", "", "blt", "bge", "bltu", "bgeu">>>>,
      <<"I", 3, 0, <<"lb", "lh", "lw", "ld", "lbu", "lhu", "lwu">>>>,
      <<"S", 35, 0, <<"sb", "sh", "sw", "sd">>>>,
      <<"I", 19, 0, <<"addi", "", "slti", "sltiu", "xori", "", "ori", "andi">>>>,
      <<"H", 19, 0, <<"", "slli", "", "", "", "srli">>>>, <<"H", 19, 32, <<"", "", "", "", "", "srai">>>>,
      <<"I", 27, 0, <<"addiw">>>>,
      <<"W", 27, 0, <<"", "slliw", "", "", "", "srliw">>>>, <<"W", 27, 32, <<"", "", "", "", "", "sraiw">>>>,
      <<"R", 51, 0, <<"add", "sll", "slt", "sltu", "xor", "srl", "or", "and">>>>,
      <<"R", 51, 1, <<"mul", "mulh", "mulhsu", "mulhu", "div", "divu", "rem", "remu">>>>,
      <<"R", 51, 32, <<"sub", "", "", "", "", "sra">>>>,
      <<"R", 59, 0, <<"addw", "sllw", "", "", "", "srlw">>>>,
      <<"R", 59, 1, <<"mulw", "", "", "", "divw", "divuw", "remw", "remuw">>>>,
      <<"R", 59, 32, <<"subw", "", "", "", "", "sraw">>>>,
      <<"F", 15, 0, <<"fence", "fence.i">>>>,
      <<"C", 115, 0, <<"", "csrrw", "csrrs", "csrrc", "", "csrrwi", "csrrsi", "csrrci">>>>,
      <<"E", 115, 0, <<"ecall">>>>, <<"E", 115, 1, <<"ebreak">>>>, <<"E", 115, 258, <<"sret">>>>,
      <<"E", 115, 261, <<"wfi">>>>, <<"E", 115, 770, <<"mret">>>>, <<"V", 115, 9, <<"sfence.vma">>>>,
      <<"L", 47, 8, <<"", "", "lr.w", "lr.d">>>>, <<"A", 47, 12, <<"", "", "sc.w", "sc.d">>>>,
      <<"A", 47, 4, <<"", "", "amoswap.w", "amoswap.d">>>>,
      <<"A", 47, 0, <<"", "", "amoadd.w", "amoadd.d">>>>,
      <<"A", 47, 16, <<"", "", "amoxor.w", "amoxor.d">>>>,
      <<"A", 47, 48, <<"", "", "amoand.w", "amoand.d">>>>,
      <<"A", 47, 32, <<"", "", "amoor.w", "amoor.d">>>>,
      <<"A", 47, 64, <<"", "", "amomin.w", "amomin.d">>>>,
      <<"A", 47, 80, <<"", "", "amomax.w", "amomax.d">>>>,
      <<"A", 47, 96, <<"", "", "amominu.w", "amominu.d">>>>,
      <<"A", 47, 112, <<"", "", "amomaxu.w", "amomaxu.d">>>> }

\* Encodings[op]: format, opcode, funct7 and funct3 of a mnemonic.
Encodings ==
    LET all == UNION {{[op |-> r[4][i], fmt |-> r[1], opcode |-> r[2], f7 |-> r[3], f3 |-> i - 1] :
                          i \in {j \in DOMAIN r[4] : r[4][j] # ""}} : r \in Rows}
    IN [op \in {e.op : e \in all} |-> CHOOSE e \in all : e.op = op]

Word(opcode, rd, f3, rs1, rs2, f7) ==
    [lo |-> opcode + rd * 128 + f3 * 4096 + (rs1 % 2) * 32768,
     hi |-> rs1 \div 2 + rs2 * 16 + f7 * 512]

\* The word of an instruction.  Fields its format ignores are 0.
Encode(i) ==
    LET e == Encodings[i.op]
        u == i.imm                          \* two's complement: Field takes the low bits
        I(imm) == Word(e.opcode, i.rd, e.f3, i.rs1, imm % 32, Field(imm, 5, 7))
    IN CASE e.fmt \in {"R", "A", "L"} -> Word(e.opcode, i.rd, e.f3, i.rs1, i.rs2, e.f7)
         [] e.fmt \in {"I", "C"} -> I(u)
         [] e.fmt \in {"H", "W"} -> I(u + e.f7 * 32)
         [] e.fmt = "S" -> Word(e.opcode, u % 32, e.f3, i.rs1, i.rs2, Field(u, 5, 7))
         [] e.fmt = "B" -> Word(e.opcode, Field(u, 1, 4) * 2 + Field(u, 11, 1), e.f3, i.rs1, i.rs2,
                                Field(u, 12, 1) * 64 + Field(u, 5, 6))
         [] e.fmt = "U" -> Word(e.opcode, i.rd, u % 8, Field(u, 3, 5), Field(u, 8, 5), Field(u, 13, 7))
         [] e.fmt = "J" -> Word(e.opcode, i.rd, Field(u, 12, 3), Field(u, 15, 5),
                                Field(u, 1, 4) * 2 + Field(u, 11, 1), Field(u, 20, 1) * 64 + Field(u, 5, 6))
         [] e.fmt = "F" -> Word(e.opcode, 0, e.f3, 0, 0, 0)
         [] e.fmt = "E" -> Word(e.opcode, 0, 0, 0, e.f7 % 32, e.f7 \div 32)
         [] e.fmt = "V" -> Word(e.opcode, 0, 0, 0, 0, e.f7)

\* The word with the fields that instruction i ignores set to 0: the ordering bits of an
\* atomic, everything but funct3 of a fence, the operands of sfence.vma.
Canonical(w, i) ==
    LET fmt == Encodings[i.op].fmt IN
    CASE fmt \in {"A", "L"} -> [w EXCEPT !.hi = (@ % 512) + (@ \div 2048) * 2048]
      [] fmt = "F" -> [w EXCEPT !.lo = (@ % 128) + Field(@, 12, 3) * 4096, !.hi = 0]
      [] fmt = "V" -> [w EXCEPT !.lo = @ % 32768, !.hi = (@ \div 512) * 512]
      [] OTHER -> w

\* Is w an encoding of the row?  opcode, funct3 and funct7 as the format has them.
Matches(w, e) ==
    LET f3 == Field(w.lo, 12, 3)
        f7 == Field(w.hi, 9, 7)
        rs2 == Field(w.hi, 4, 5)
        bare == Field(w.lo, 7, 5) = 0       \* rd = 0
    IN /\ e.opcode = w.lo % 128
       /\ e.fmt \notin {"U", "J"} => e.f3 = f3
       /\ e.fmt \in {"R", "W"} => e.f7 = f7
       /\ e.fmt = "H" => e.f7 \div 2 = f7 \div 2
       /\ e.fmt \in {"A", "L"} => e.f7 \div 4 = f7 \div 4
       /\ e.fmt = "L" => rs2 = 0
       /\ e.fmt = "E" => bare /\ w.lo < 32768 /\ w.hi = e.f7 * 16
       /\ e.fmt = "V" => bare /\ e.f7 = f7

\* An immediate printed as imm[p1|p2|...] = inst[12 down to 2 without the register fields]:
\* from holds the instruction's bit positions and to the immediate's, in the same order.
Scatter(h, from, to) ==
    FoldSet(LAMBDA k, sum : sum + Field(h, from[k], 1) * 2^to[k], 0, DOMAIN from)
=============================================================================
