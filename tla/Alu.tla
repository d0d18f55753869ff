-------------------------------- MODULE Alu --------------------------------
(***************************************************************************)
(* The integer instructions: utils/bytes.ts and the handlers of            *)
(* cpu/instructions, on the general-purpose registers, the program counter *)
(* and the doubleword at the address that a load, a store or an AMO names. *)
(* The access is one the hart may make: its faults are in Hart, the hart's *)
(* rivals for the same word, and LR and SC, in Reservation, and the way    *)
(* from the address to the bytes in MemoryMap.                             *)
(*                                                                         *)
(* A register is a little-endian sequence of Count bytes of ByteBits bits; *)
(* the program has eight bytes of eight bits.  The loops over bytes, with  *)
(* their carries and borrows, are the program's; the width is the          *)
(* parameter.  BigInt arithmetic is integer arithmetic.                    *)
(***************************************************************************)
EXTENDS Integers, Sequences, FiniteSetsExt

CONSTANTS
    ByteBits, Count,    \* bits of a byte, bytes of a register
    Registers,          \* 0 .. n, the general-purpose registers of the instance
    InitialStates,      \* <<register contents, addressed doubleword>> to execute from
    Program             \* the instructions, as the decoder returns them, with a length

ASSUME AluAssumption ==
    /\ ByteBits \in Nat \ {0} /\ Count \in Nat \ {0} /\ Count % 4 = 0
    /\ 0 \in Registers

VARIABLES
    generalPurpose,     \* [Registers -> words]
    programCounter,
    addressed,          \* the Count bytes of memory from the effective address on
    executed            \* the instructions executed so far, at most one

aluVars == <<generalPurpose, programCounter, addressed, executed>>

-----------------------------------------------------------------------------
Half == Count \div 2                \* bytes of a 32-bit word
XLEN == ByteBits * Count
HalfBits == ByteBits * Half
Sizes == 1 .. Count

\* Power[k]: 2^k, which the program writes as shifts, masks and constants.
Power[k \in 0 .. XLEN] == IF k = 0 THEN 1 ELSE 2 * Power[k - 1]
Base == Power[ByteBits]
Words == [Sizes -> 0 .. Base - 1]

addBytes(source, addend) ==
    LET carry[i \in 0 .. Count] ==
            IF i = 0 THEN 0 ELSE (source[i] + addend[i] + carry[i - 1]) \div Base
    IN [i \in Sizes |-> (source[i] + addend[i] + carry[i - 1]) % Base]

\* Mutated form: the borrow looks at the bytes alone, not at the borrow that came in.
SubtractMutant(minuend, subtrahend) ==
    LET borrow[i \in 0 .. Count] == IF i > 0 /\ minuend[i] < subtrahend[i] THEN 1 ELSE 0
    IN [i \in Sizes |-> (minuend[i] - subtrahend[i] - borrow[i - 1]) % Base]

subtractBytes(minuend, subtrahend) ==
    LET borrow[i \in 0 .. Count] ==
            IF i > 0 /\ minuend[i] - subtrahend[i] - borrow[i - 1] < 0 THEN 1 ELSE 0
    IN [i \in Sizes |-> (minuend[i] - subtrahend[i] - borrow[i - 1]) % Base]

\* The operators &, | and ^ of the language, on numbers of so many bits.
And == [p \in {0, 1} |-> [q \in {0, 1} |-> p * q]]
Or  == [p \in {0, 1} |-> [q \in {0, 1} |-> p + q - p * q]]
Xor == [p \in {0, 1} |-> [q \in {0, 1} |-> (p + q) % 2]]
Bit(number, k) == (number \div Power[k]) % 2
Bitwise(table, p, q, bits) ==
    LET low[k \in 0 .. bits] ==
            IF k = 0 THEN 0
            ELSE low[k - 1] + table[Bit(p, k - 1)][Bit(q, k - 1)] * Power[k - 1]
    IN low[bits]

andBytes(a, b) == [i \in Sizes |-> Bitwise(And, a[i], b[i], ByteBits)]
orBytes(a, b) == [i \in Sizes |-> Bitwise(Or, a[i], b[i], ByteBits)]
xorBytes(a, b) == [i \in Sizes |-> Bitwise(Xor, a[i], b[i], ByteBits)]

\* -1, 0 or 1; the most significant byte that differs decides.
compareUnsignedBytes(left, right) ==
    LET differ == {i \in Sizes : left[i] # right[i]} IN
    CASE differ = {} -> 0
      [] OTHER -> IF left[Max(differ)] < right[Max(differ)] THEN -1 ELSE 1

Negative(a) == 2 * a[Count] >= Base
compareSignedBytes(left, right) ==
    IF Negative(left) # Negative(right) THEN IF Negative(left) THEN -1 ELSE 1
    ELSE compareUnsignedBytes(left, right)

shiftLeftBytes(source, shiftAmount) ==
    LET amount == shiftAmount % XLEN
        byteShift == amount \div ByteBits
        bitShift == amount % ByteBits
        From(i) == i - byteShift
        Below(i) == IF bitShift # 0 /\ From(i) > 1
                    THEN source[From(i) - 1] \div Power[ByteBits - bitShift] ELSE 0
    IN [i \in Sizes |-> IF From(i) < 1 THEN 0 ELSE (source[From(i)] * Power[bitShift] + Below(i)) % Base]

shiftRightLogicalBytes(source, shiftAmount) ==
    LET amount == shiftAmount % XLEN
        byteShift == amount \div ByteBits
        bitShift == amount % ByteBits
        From(i) == i + byteShift
        Above(i) == IF bitShift # 0 /\ From(i) < Count
                    THEN source[From(i) + 1] * Power[ByteBits - bitShift] ELSE 0
    IN [i \in Sizes |-> IF From(i) > Count THEN 0 ELSE (source[From(i)] \div Power[bitShift] + Above(i)) % Base]

\* The logical shift, then ones in the bits shifted in when the source is negative.
shiftRightArithmeticBytes(source, shiftAmount) ==
    LET amount == shiftAmount % XLEN
        top == Count - amount \div ByteBits
        bitShift == amount % ByteBits
        logical == shiftRightLogicalBytes(source, amount)
    IN IF ~Negative(source) THEN logical
       ELSE [i \in Sizes |->
                IF i > top THEN Base - 1
                ELSE IF i = top THEN logical[i] + (Base - Power[ByteBits - bitShift])
                ELSE logical[i]]

low32Bytes(source) == [i \in Sizes |-> IF i <= Half THEN source[i] ELSE 0]
signExtendBytes(a, length) ==
    [i \in Sizes |-> IF i <= length THEN a[i] ELSE IF 2 * a[length] >= Base THEN Base - 1 ELSE 0]
zeroExtendBytes(a, length) == [i \in Sizes |-> IF i <= length THEN a[i] ELSE 0]

\* From the most significant byte down.
bytesToBigInt(a) ==
    LET value[k \in 0 .. Count] == IF k = 0 THEN 0 ELSE value[k - 1] * Base + a[Count + 1 - k]
    IN value[Count]
signedBytesToBigInt(a) == IF Negative(a) THEN bytesToBigInt(a) - Power[XLEN] ELSE bytesToBigInt(a)
\* Of a negative value it keeps the low XLEN bits.
unsignedBigIntToBytes(value) ==
    LET remaining[k \in 0 .. Count] ==
            IF k = 0 THEN value % Power[XLEN] ELSE remaining[k - 1] \div Base
    IN [i \in Sizes |-> remaining[i - 1] % Base]

\* byte0ToNumber(a, mask), a modulus for a mask: the shift amount lies within byte 0.
byte0ToNumber(a, modulus) == bytesToBigInt(a) % modulus

\* BigInt division truncates; the remainder has the sign of the dividend.
Abs(x) == IF x < 0 THEN -x ELSE x
Quotient(x, y) ==
    IF (x < 0) = (y < 0) THEN Abs(x) \div Abs(y) ELSE -(Abs(x) \div Abs(y))
Remainder(x, y) == x - y * Quotient(x, y)

-----------------------------------------------------------------------------
(* The handlers, a being rs1 and b rs2 or the immediate.  Each returns what is written *)
(* to rd.  A comparison writes the register value 0 or 1.                              *)
Boolean(condition) == unsignedBigIntToBytes(IF condition THEN 1 ELSE 0)

OpAddShiftCompare(op, a, b) ==
    CASE op = "add" -> addBytes(a, b)
      [] op = "sub" -> subtractBytes(a, b)
      [] op = "sll" -> shiftLeftBytes(a, byte0ToNumber(b, XLEN))
      [] op = "slt" -> Boolean(compareSignedBytes(a, b) < 0)
      [] op = "sltu" -> Boolean(compareUnsignedBytes(a, b) < 0)

OpLogicalShiftRight(op, a, b) ==
    CASE op = "xor" -> xorBytes(a, b)
      [] op = "srl" -> shiftRightLogicalBytes(a, byte0ToNumber(b, XLEN))
      [] op = "sra" -> shiftRightArithmeticBytes(a, byte0ToNumber(b, XLEN))
      [] op = "or" -> orBytes(a, b)
      [] op = "and" -> andBytes(a, b)

OpImm(op, a, immediate) ==
    CASE op = "addi" -> addBytes(a, immediate)
      [] op = "slti" -> Boolean(compareSignedBytes(a, immediate) < 0)
      [] op = "sltiu" -> Boolean(compareUnsignedBytes(a, immediate) < 0)
      [] op = "xori" -> xorBytes(a, immediate)
      [] op = "ori" -> orBytes(a, immediate)
      [] op = "andi" -> andBytes(a, immediate)

OpImmShift(op, a, shiftAmount) ==
    CASE op = "slli" -> shiftLeftBytes(a, shiftAmount)
      [] op = "srli" -> shiftRightLogicalBytes(a, shiftAmount)
      [] op = "srai" -> shiftRightArithmeticBytes(a, shiftAmount)

\* Operates on the low halves, then sign-extends the low half of the result.
Op32(op, a, b) ==
    LET low == low32Bytes(a)
        amount == byte0ToNumber(b, HalfBits)
    IN signExtendBytes(
        CASE op = "addw" -> addBytes(low, low32Bytes(b))
          [] op = "subw" -> subtractBytes(low, low32Bytes(b))
          [] op = "sllw" -> shiftLeftBytes(low, amount)
          [] op = "srlw" -> shiftRightLogicalBytes(low, amount)
          [] op = "sraw" -> shiftRightArithmeticBytes(signExtendBytes(low, Half), amount), Half)

\* Mutated form of OpImm32: sraiw shifts zeros into the low half.
OpImm32Mutant(op, a, immediate, shiftAmount) ==
    LET low == low32Bytes(a) IN
    signExtendBytes(
        CASE op = "addiw" -> addBytes(low, immediate)
          [] op = "slliw" -> shiftLeftBytes(low, shiftAmount)
          [] op = "srliw" -> shiftRightLogicalBytes(low, shiftAmount)
          [] op = "sraiw" -> shiftRightArithmeticBytes(low, shiftAmount), Half)

OpImm32(op, a, immediate, shiftAmount) ==
    LET low == low32Bytes(a) IN
    signExtendBytes(
        CASE op = "addiw" -> addBytes(low, immediate)
          [] op = "slliw" -> shiftLeftBytes(low, shiftAmount)
          [] op = "srliw" -> shiftRightLogicalBytes(low, shiftAmount)
          [] op = "sraiw" -> shiftRightArithmeticBytes(signExtendBytes(low, Half), shiftAmount), Half)

OpMMultiply(op, a, b) ==
    LET ua == bytesToBigInt(a)
        ub == bytesToBigInt(b)
        sa == signedBytesToBigInt(a)
        sb == signedBytesToBigInt(b)
        High(product) == product \div Power[XLEN]
    IN unsignedBigIntToBytes(
        CASE op = "mul" -> ua * ub
          [] op = "mulh" -> High(sa * sb)
          [] op = "mulhsu" -> High(sa * ub)
          [] op = "mulhu" -> High(ua * ub))

\* Division by zero gives all ones, or the dividend as remainder; the one quotient that
\* does not fit is the dividend, with remainder 0.
DivideSigned(x, y, minimum) ==
    CASE y = 0 -> -1 [] y = -1 /\ x = minimum -> x [] OTHER -> Quotient(x, y)
RemainderSigned(x, y, minimum) ==
    CASE y = 0 -> x [] y = -1 /\ x = minimum -> 0 [] OTHER -> Remainder(x, y)
DivideUnsigned(x, y) == IF y = 0 THEN -1 ELSE x \div y
RemainderUnsigned(x, y) == IF y = 0 THEN x ELSE x % y

OpMDivide(op, a, b) ==
    LET minimum == -Power[XLEN - 1] IN
    unsignedBigIntToBytes(
        CASE op = "div" -> DivideSigned(signedBytesToBigInt(a), signedBytesToBigInt(b), minimum)
          [] op = "divu" -> DivideUnsigned(bytesToBigInt(a), bytesToBigInt(b))
          [] op = "rem" -> RemainderSigned(signedBytesToBigInt(a), signedBytesToBigInt(b), minimum)
          [] op = "remu" -> RemainderUnsigned(bytesToBigInt(a), bytesToBigInt(b)))

low32Unsigned(a) == bytesToBigInt(low32Bytes(a))
low32Signed(a) ==
    IF low32Unsigned(a) >= Power[HalfBits - 1] THEN low32Unsigned(a) - Power[HalfBits]
    ELSE low32Unsigned(a)

\* value & MASK32, sign-extended.
Sext32(value) == signExtendBytes(unsignedBigIntToBytes(value % Power[HalfBits]), Half)

Op32M(op, a, b) ==
    LET minimum == -Power[HalfBits - 1]
        sa == low32Signed(a)
        sb == low32Signed(b)
    IN Sext32(
        CASE op = "mulw" -> sa * sb
          [] op = "divw" -> DivideSigned(sa, sb, minimum)
          [] op = "divuw" -> DivideUnsigned(low32Unsigned(a), low32Unsigned(b))
          [] op = "remw" -> RemainderSigned(sa, sb, minimum)
          [] op = "remuw" -> RemainderUnsigned(low32Unsigned(a), low32Unsigned(b)))

Taken(op, a, b) ==
    CASE op = "beq" -> compareUnsignedBytes(a, b) = 0
      [] op = "bne" -> compareUnsignedBytes(a, b) # 0
      [] op = "blt" -> compareSignedBytes(a, b) < 0
      [] op = "bge" -> compareSignedBytes(a, b) >= 0
      [] op = "bltu" -> compareUnsignedBytes(a, b) < 0
      [] op = "bgeu" -> compareUnsignedBytes(a, b) >= 0

-----------------------------------------------------------------------------
OpNames == {"add", "sub", "sll", "slt", "sltu"}
OpNames2 == {"xor", "srl", "sra", "or", "and"}
OpImmNames == {"addi", "slti", "sltiu", "xori", "ori", "andi"}
OpImmShiftNames == {"slli", "srli", "srai"}
Op32Names == {"addw", "subw", "sllw", "srlw", "sraw"}
OpImm32Names == {"addiw", "slliw", "srliw", "sraiw"}
MultiplyNames == {"mul", "mulh", "mulhsu", "mulhu"}
DivideNames == {"div", "divu", "rem", "remu"}
Op32MNames == {"mulw", "divw", "divuw", "remw", "remuw"}
BranchNames == {"beq", "bne", "blt", "bge", "bltu", "bgeu"}

\* The bytes an access moves: 1, 2, 4 or 8 of a register of eight.
Quarter == Count \div 4
LoadLength == [lb |-> 1, lh |-> Quarter, lw |-> Half, ld |-> Count, lbu |-> 1, lhu |-> Quarter, lwu |-> Half]
StoreLength == [sb |-> 1, sh |-> Quarter, sw |-> Half, sd |-> Count]
UnsignedLoads == {"lbu", "lhu", "lwu"}
AmoNames == {"amoswap", "amoadd", "amoxor", "amoand", "amoor", "amomin", "amomax", "amominu", "amomaxu"}
UnsignedAmos == {"amominu", "amomaxu"}
AmoWord == [amoswap |-> "amoswap.w", amoadd |-> "amoadd.w", amoxor |-> "amoxor.w",
            amoand |-> "amoand.w", amoor |-> "amoor.w", amomin |-> "amomin.w",
            amomax |-> "amomax.w", amominu |-> "amominu.w", amomaxu |-> "amomaxu.w"]
AmoDouble == [amoswap |-> "amoswap.d", amoadd |-> "amoadd.d", amoxor |-> "amoxor.d",
              amoand |-> "amoand.d", amoor |-> "amoor.d", amomin |-> "amomin.d",
              amomax |-> "amomax.d", amominu |-> "amominu.d", amomaxu |-> "amomaxu.d"]

readGeneralPurposeRegister(index) == generalPurpose[index]

\* x0 is hardwired zero.
writeGeneralPurposeRegister(index, value) ==
    generalPurpose' = IF index = 0 THEN generalPurpose ELSE [generalPurpose EXCEPT ![index] = value]

PcPlus(offset) == addBytes(programCounter, unsignedBigIntToBytes(offset))
advanceProgramCounter(i) == programCounter' = PcPlus(i.length)

\* Registers hold words, and the decoder's fields are in range: a shift amount is the
\* instruction's shamt, of six bits or, on the low half, of five.
ASSUME InstructionAssumption ==
    /\ \A s \in InitialStates : s[1] \in [Registers -> Words] /\ s[2] \in Words
    /\ \A i \in Program :
        /\ {i.rd, i.rs1, i.rs2} \subseteq Registers /\ i.imm \in Int /\ i.length \in Int
        /\ i.op \in OpImmShiftNames => i.imm \in 0 .. XLEN - 1
        /\ i.op \in OpImm32Names \ {"addiw"} => i.imm \in 0 .. HalfBits - 1

AluInit ==
    /\ \E s \in InitialStates : generalPurpose = s[1] /\ addressed = s[2]
    /\ programCounter = unsignedBigIntToBytes(6)
    /\ executed = <<>>

\* The handlers that write rd and fall through.
Compute(i) ==
    LET a == readGeneralPurposeRegister(i.rs1)
        b == readGeneralPurposeRegister(i.rs2)
        immediate == unsignedBigIntToBytes(i.imm)
        op == i.op
        In(names, value) == op \in names /\ writeGeneralPurposeRegister(i.rd, value)
    IN /\ \/ In(OpNames, OpAddShiftCompare(op, a, b))
          \/ In(OpNames2, OpLogicalShiftRight(op, a, b))
          \/ In(OpImmNames, OpImm(op, a, immediate))
          \/ In(OpImmShiftNames, OpImmShift(op, a, i.imm))
          \/ In(Op32Names, Op32(op, a, b))
          \/ In(OpImm32Names, OpImm32(op, a, immediate, i.imm))
          \/ In(MultiplyNames, OpMMultiply(op, a, b))
          \/ In(DivideNames, OpMDivide(op, a, b))
          \/ In(Op32MNames, Op32M(op, a, b))
       /\ advanceProgramCounter(i)

lui(i) ==
    /\ i.op = "lui"
    /\ writeGeneralPurposeRegister(i.rd, unsignedBigIntToBytes(i.imm))
    /\ advanceProgramCounter(i)

auipc(i) ==
    /\ i.op = "auipc"
    /\ writeGeneralPurposeRegister(i.rd, PcPlus(i.imm))
    /\ advanceProgramCounter(i)

\* fence and fence.i have nothing to order.
fence(i) ==
    /\ i.op \in {"fence", "fence.i"}
    /\ advanceProgramCounter(i)
    /\ UNCHANGED generalPurpose

jal(i) ==
    /\ i.op = "jal"
    /\ writeGeneralPurposeRegister(i.rd, PcPlus(i.length))
    /\ programCounter' = PcPlus(i.imm)

\* Mutated form: the link is written before the target is computed.
JalrMutant(i) ==
    /\ i.op = "jalr"
    /\ writeGeneralPurposeRegister(i.rd, PcPlus(i.length))
    /\ LET target == addBytes(generalPurpose'[i.rs1], unsignedBigIntToBytes(i.imm))
       IN programCounter' = [target EXCEPT ![1] = @ - (@ % 2)]

\* The target is read before the link is written: rd may be rs1.
jalr(i) ==
    /\ i.op = "jalr"
    /\ LET target == addBytes(readGeneralPurposeRegister(i.rs1), unsignedBigIntToBytes(i.imm))
       IN programCounter' = [target EXCEPT ![1] = @ - (@ % 2)]
    /\ writeGeneralPurposeRegister(i.rd, PcPlus(i.length))

branch(i) ==
    /\ i.op \in BranchNames
    /\ IF Taken(i.op, readGeneralPurposeRegister(i.rs1), readGeneralPurposeRegister(i.rs2))
       THEN programCounter' = PcPlus(i.imm)
       ELSE advanceProgramCounter(i)
    /\ UNCHANGED generalPurpose

\* loadBytes clears the bytes of its destination that it does not load.
load(i) ==
    /\ i.op \in DOMAIN LoadLength
    /\ LET length == LoadLength[i.op]
           loaded == zeroExtendBytes(addressed, length)
       IN writeGeneralPurposeRegister(i.rd,
            IF i.op \in UnsignedLoads THEN loaded ELSE signExtendBytes(loaded, length))
    /\ advanceProgramCounter(i)
    /\ UNCHANGED addressed

WriteAddressed(value, length) ==
    addressed' = [k \in Sizes |-> IF k <= length THEN value[k] ELSE addressed[k]]

store(i) ==
    /\ i.op \in DOMAIN StoreLength
    /\ WriteAddressed(readGeneralPurposeRegister(i.rs2), StoreLength[i.op])
    /\ advanceProgramCounter(i)
    /\ UNCHANGED generalPurpose

asSignedOperand(value, length) == signExtendBytes(value, length)
asUnsignedOperand(value, length) == zeroExtendBytes(value, length)

\* What the AMO leaves in memory: the operands are extended from its width first.
AmoCombine(name, oldValue, source, length) ==
    LET Operand(v) == IF name \in UnsignedAmos THEN asUnsignedOperand(v, length)
                      ELSE asSignedOperand(v, length)
        left == Operand(oldValue)
        right == Operand(source)
    IN CASE name = "amoswap" -> source
         [] name = "amoadd" -> addBytes(left, right)
         [] name = "amoxor" -> xorBytes(left, right)
         [] name = "amoand" -> andBytes(left, right)
         [] name = "amoor" -> orBytes(left, right)
         [] name = "amomin" -> IF compareSignedBytes(left, right) <= 0 THEN left ELSE right
         [] name = "amomax" -> IF compareSignedBytes(left, right) >= 0 THEN left ELSE right
         [] name = "amominu" -> IF compareUnsignedBytes(left, right) <= 0 THEN left ELSE right
         [] name = "amomaxu" -> IF compareUnsignedBytes(left, right) >= 0 THEN left ELSE right

\* With no rival the compare-exchange succeeds at once.  Source is read before rd is
\* written: rd may be rs2.
amo(i) ==
    \E name \in AmoNames, length \in {Half, Count} :
        /\ i.op = IF length = Half THEN AmoWord[name] ELSE AmoDouble[name]
        /\ LET oldValue == zeroExtendBytes(addressed, length)
           IN /\ WriteAddressed(AmoCombine(name, oldValue, readGeneralPurposeRegister(i.rs2), length), length)
              /\ writeGeneralPurposeRegister(i.rd, signExtendBytes(oldValue, length))
        /\ advanceProgramCounter(i)

Execute(i) ==
    /\ \/ /\ Compute(i) \/ lui(i) \/ auipc(i) \/ fence(i) \/ jal(i) \/ jalr(i) \/ branch(i)
          /\ UNCHANGED addressed
       \/ load(i)
       \/ store(i)
       \/ amo(i)
    /\ executed' = <<i>>

\* One instruction from each initial register contents.
AluNext == executed = <<>> /\ \E i \in Program : Execute(i)

AluSpec == AluInit /\ [][AluNext]_aluVars
-----------------------------------------------------------------------------
(* Properties *)

\* What the manual says each instruction computes, in integers: rs1 and rs2 as unsigned
\* (x, y) and signed (sx, sy) values, or their low halves for the W forms.
Mod(v, bits) == v % Power[bits]
ToSigned(v, bits) == IF Mod(v, bits) >= Power[bits - 1] THEN Mod(v, bits) - Power[bits] ELSE Mod(v, bits)
BitsBoth(x, y) == Bitwise(And, x, y, XLEN)

\* q and r are quotient and remainder of x by y, rounded towards zero.
Divides(x, y, q, r) == x = q * y + r /\ Abs(r) < Abs(y) /\ (r = 0 \/ (r < 0) = (x < 0))

Manual(op, x, y, bits, result) ==
    LET sx == ToSigned(x, bits)
        sy == ToSigned(y, bits)
        sr == ToSigned(result, bits)
        Is(v) == Mod(result - v, bits) = 0
        amount == y % bits
    IN CASE op = "add" -> Is(x + y)
         [] op = "sub" -> Is(x - y)
         [] op = "sll" -> Is(x * Power[amount])
         [] op = "srl" -> Is(Mod(x, bits) \div Power[amount])
         [] op = "sra" -> Is(sx \div Power[amount])
         [] op = "slt" -> Is(IF sx < sy THEN 1 ELSE 0)
         [] op = "sltu" -> Is(IF x < y THEN 1 ELSE 0)
         [] op = "and" -> Is(BitsBoth(x, y))
         [] op = "or" -> Is(x + y - BitsBoth(x, y))
         [] op = "xor" -> Is(x + y - 2 * BitsBoth(x, y))
         [] op = "mul" -> Is(x * y)
         [] op = "mulh" -> Is((sx * sy) \div Power[bits])
         [] op = "mulhsu" -> Is((sx * y) \div Power[bits])
         [] op = "mulhu" -> Is((x * y) \div Power[bits])
         [] op = "divu" -> IF Mod(y, bits) = 0 THEN Is(-1)
                           ELSE \E r \in 0 .. Power[bits] : Divides(Mod(x, bits), Mod(y, bits), Mod(result, bits), r)
         [] op = "remu" -> IF Mod(y, bits) = 0 THEN Is(x)
                           ELSE \E q \in 0 .. Power[bits] : Divides(Mod(x, bits), Mod(y, bits), q, Mod(result, bits))
         [] op = "div" -> CASE sy = 0 -> Is(-1)
                            [] sy = -1 -> Is(-sx)       \* also when -sx does not fit
                            [] OTHER -> \E r \in -Abs(sy) .. Abs(sy) : Divides(sx, sy, sr, r)
         [] op = "rem" -> IF sy = 0 THEN Is(x) ELSE \E q \in -(Power[bits]) .. Power[bits] : Divides(sx, sy, q, sr)

\* The manual's name and second operand of an immediate or W form.
ImmediateForms == [addi |-> "add", slti |-> "slt", sltiu |-> "sltu", xori |-> "xor", ori |-> "or",
    andi |-> "and", slli |-> "sll", srli |-> "srl", srai |-> "sra"]
WordForms == [addw |-> "add", subw |-> "sub", sllw |-> "sll", srlw |-> "srl", sraw |-> "sra",
    addiw |-> "add", slliw |-> "sll", srliw |-> "srl", sraiw |-> "sra",
    mulw |-> "mul", divw |-> "div", divuw |-> "divu", remw |-> "rem", remuw |-> "remu"]

ByteOps == {"lb", "lbu", "sb"}
HalfwordOps == {"lh", "lhu", "sh"}
WordOps == {"lw", "lwu", "sw"} \cup {AmoWord[n] : n \in AmoNames}
AmoOps == {AmoWord[n] : n \in AmoNames} \cup {AmoDouble[n] : n \in AmoNames}
AccessBits(op) == CASE op \in ByteOps -> ByteBits [] op \in HalfwordOps -> XLEN \div 4
                          [] op \in WordOps -> XLEN \div 2 [] OTHER -> XLEN

\* Memory keeps the bytes beyond the access, and takes in the others what is stored, or
\* what the AMO makes of the old value m and rs2.
MemoryIsRight(i) ==
    LET bits == AccessBits(i.op)
        m == bytesToBigInt(addressed)
        x == bytesToBigInt(generalPurpose[i.rs2])
        new == bytesToBigInt(addressed')
        Is(v) == Mod(new - v, bits) = 0
        Form(name) == i.op \in {AmoWord[name], AmoDouble[name]}
        SignedMin == IF ToSigned(m, bits) < ToSigned(x, bits) THEN m ELSE x
        UnsignedMin == IF Mod(m, bits) < Mod(x, bits) THEN m ELSE x
    IN /\ new \div Power[bits] = m \div Power[bits]
       /\ CASE i.op \in DOMAIN StoreLength \/ Form("amoswap") -> Is(x)
            [] Form("amoadd") -> Is(m + x)
            [] Form("amoxor") -> Is(m + x - 2 * BitsBoth(m, x))
            [] Form("amoand") -> Is(BitsBoth(m, x))
            [] Form("amoor") -> Is(m + x - BitsBoth(m, x))
            [] Form("amomin") -> Is(SignedMin)
            [] Form("amomax") -> Is(m + x - SignedMin)
            [] Form("amominu") -> Is(UnsignedMin)
            [] Form("amomaxu") -> Is(m + x - UnsignedMin)

ResultIsRight(i, result) ==
    LET x == bytesToBigInt(generalPurpose[i.rs1])
        y == IF i.op \in OpImmNames \cup OpImmShiftNames \cup OpImm32Names THEN Mod(i.imm, XLEN)
             ELSE bytesToBigInt(generalPurpose[i.rs2])
        r == bytesToBigInt(result)
        m == bytesToBigInt(addressed)
        bits == AccessBits(i.op)
    IN CASE i.op \in DOMAIN WordForms ->
                /\ Manual(WordForms[i.op], x, y, HalfBits, r)
                /\ r = Mod(ToSigned(r, HalfBits), XLEN)         \* sign-extended
         [] i.op \in DOMAIN ImmediateForms -> Manual(ImmediateForms[i.op], x, y, XLEN, r)
         [] i.op \in UnsignedLoads -> r = Mod(m, bits)
         [] i.op \in (DOMAIN LoadLength \ UnsignedLoads) \cup AmoOps -> r = Mod(ToSigned(m, bits), XLEN)
         [] i.op = "lui" -> r = Mod(i.imm, XLEN)
         [] i.op = "auipc" -> r = Mod(bytesToBigInt(programCounter) + i.imm, XLEN)
         [] i.op \in {"jal", "jalr"} -> r = Mod(bytesToBigInt(programCounter) + i.length, XLEN)
         [] OTHER -> Manual(i.op, x, y, XLEN, r)

\* The instructions that write no register.
Silent(i) == i.op \in BranchNames \cup {"fence", "fence.i"} \cup DOMAIN StoreLength

RegistersAreRight(i) ==
    /\ \A r \in Registers : r = 0 \/ r # i.rd \/ Silent(i) => generalPurpose'[r] = generalPurpose[r]
    /\ i.rd # 0 /\ ~Silent(i) => ResultIsRight(i, generalPurpose'[i.rd])

CounterIsRight(i) ==
    LET pc == bytesToBigInt(programCounter)
        x == bytesToBigInt(generalPurpose[i.rs1])
        y == bytesToBigInt(generalPurpose[i.rs2])
        sx == ToSigned(x, XLEN)
        sy == ToSigned(y, XLEN)
        taken == CASE i.op = "beq" -> x = y [] i.op = "bne" -> x # y
                   [] i.op = "blt" -> sx < sy [] i.op = "bge" -> sx >= sy
                   [] i.op = "bltu" -> x < y [] i.op = "bgeu" -> x >= y [] OTHER -> i.op = "jal"
    IN bytesToBigInt(programCounter') =
            IF i.op = "jalr" THEN 2 * (Mod(x + i.imm, XLEN) \div 2)
            ELSE Mod(pc + (IF taken THEN i.imm ELSE i.length), XLEN)

\* What instruction i has done.
ExecutedRight(i) ==
    /\ RegistersAreRight(i)
    /\ CounterIsRight(i)
    /\ IF i.op \in DOMAIN StoreLength \cup AmoOps THEN MemoryIsRight(i) ELSE addressed' = addressed

\* An instruction leaves in rd what the manual's arithmetic says of the operands it had
\* before, or the value loaded, whichever registers coincide, leaves x0 zero and every
\* other register alone, changes of memory what a store or an AMO names and nothing else,
\* and goes to the next instruction, to its target, or on a branch to the one of the two
\* that the comparison picks (the byte loops of utils/bytes.ts and the handlers).
ExecutesPerManual == [][executed' # executed => ExecutedRight(executed'[1])]_aluVars
=============================================================================
