-------------------------------- MODULE Code ---------------------------------
(***************************************************************************)
(* Instruction words: how the compiler writes them (src/src/arch/          *)
(* riscv64.c, and the patching helpers of src/src/back/gen.c) and how the  *)
(* emulator reads them (step in src/tools/onx-run.c).  An instruction is a *)
(* record [op, d, a, b, n, fmt] as in Hart; a jump's n counts bytes.       *)
(***************************************************************************)
EXTENDS Insn, Sequences

ZERO == 0
T5 == 30
T6 == 31

I(op, d, a, b, n, fmt) == [op |-> op, d |-> d, a |-> a, b |-> b, n |-> n, fmt |-> fmt]

-----------------------------------------------------------------------------
(* The encoders.                                                           *)

\* (uint32_t)(v & mask) << at, for a mask of w bits.
Put(v, w, at) == Shl(Bits(v) \cap 0 .. w - 1, at)

Regs(f3, d, a) == Put(a, 5, 15) \cup Put(f3, 3, 12) \cup Put(d, 5, 7)
RType(f3, f7, d, a, b, opcode) == Put(f7, 7, 25) \cup Put(b, 5, 20) \cup Regs(f3, d, a) \cup Bits(opcode)
IType(f3, d, a, n, opcode) == Put(n, 12, 20) \cup Regs(f3, d, a) \cup Bits(opcode)
SType(f3, b, a, n, opcode) ==
    Put(n \div 32, 7, 25) \cup Put(b, 5, 20) \cup Regs(f3, 0, a) \cup Put(n, 5, 7) \cup Bits(opcode)
UType(d, n, opcode) == Put(n, 20, 12) \cup Put(d, 5, 7) \cup Bits(opcode)
BType(f3, a, b, n) ==
    LET imm == Bits(n)
    IN  Shl(Shr(imm \cap {12}, 12), 31) \cup Shl(Shr(imm \cap 5 .. 10, 5), 25) \cup Put(b, 5, 20) \cup Regs(f3, 0, a)
        \cup Shl(Shr(imm \cap 1 .. 4, 1), 8) \cup Shl(Shr(imm \cap {11}, 11), 7) \cup Bits(99)
JType(d, n) ==
    LET imm == Bits(n)
    IN  Shl(Shr(imm \cap {20}, 20), 31) \cup Shl(Shr(imm \cap 1 .. 10, 1), 21) \cup Shl(Shr(imm \cap {11}, 11), 20)
        \cup Shl(Shr(imm \cap 12 .. 19, 12), 12) \cup Put(d, 5, 7) \cup Bits(111)
FpuR(f7, f3, d, a, b) == RType(f3, f7, d, a, b, 83)

\* rv_add to rv_remu: funct3 and funct7.
ROps ==
    [add |-> <<0, 0>>, sub |-> <<0, 32>>, sll |-> <<1, 0>>, slt |-> <<2, 0>>, sltu |-> <<3, 0>>, xor |-> <<4, 0>>,
     srl |-> <<5, 0>>, sra |-> <<5, 32>>, or |-> <<6, 0>>, and |-> <<7, 0>>, mul |-> <<0, 1>>, mulh |-> <<1, 1>>,
     mulhsu |-> <<2, 1>>, mulhu |-> <<3, 1>>, div |-> <<4, 1>>, divu |-> <<5, 1>>, rem |-> <<6, 1>>, remu |-> <<7, 1>>]
IOps == [addi |-> 0, slti |-> 2, sltiu |-> 3, xori |-> 4]
\* rv_slli, rv_srli, rv_srai: funct3 and the upper bits of the immediate.
Shifts == [slli |-> <<1, 0>>, srli |-> <<5, 0>>, srai |-> <<5, 32>>]
Loads == [lb |-> 0, lh |-> 1, lw |-> 2, ld |-> 3, lbu |-> 4, lhu |-> 5, lwu |-> 6]
Stores == [sb |-> 0, sh |-> 1, sw |-> 2, sd |-> 3]
FLoads == [flw |-> 2, fld |-> 3]
FStores == [fsw |-> 2, fsd |-> 3]
BOps == [beq |-> 0, bne |-> 1, blt |-> 4, bge |-> 5, bltu |-> 6, bgeu |-> 7]
\* The OP-FP calls: funct7 for float (one more for double), funct3.
FOps ==
    [fadd |-> <<0, 0>>, fsub |-> <<4, 0>>, fmul |-> <<8, 0>>, fdiv |-> <<12, 0>>, feq |-> <<80, 2>>, flt |-> <<80, 1>>,
     fle |-> <<80, 0>>, fsgnj |-> <<16, 0>>, fneg |-> <<16, 1>>]

FpuWord(i) ==
    LET k == IF i.fmt = "d" THEN 1 ELSE 0
    IN  CASE i.op \in DOMAIN FOps -> FpuR(FOps[i.op][1] + k, FOps[i.op][2], i.d, i.a, IF i.op = "fneg" THEN i.a ELSE i.b)
          [] i.op = "fcvt.f.l" -> FpuR(104 + k, 0, i.d, i.a, <<2, 3, 0>>[i.n + 1])
          [] i.op = "fcvt.l.f" -> FpuR(96 + k, 1, i.d, i.a, 2 + i.n)
          [] i.op = "fcvt.w.f" -> FpuR(96 + k, 1, i.d, i.a, 0)
          [] i.op = "fcvt.s.d" -> FpuR(32, 0, i.d, i.a, 1)
          [] i.op = "fcvt.d.s" -> FpuR(33, 0, i.d, i.a, 0)
          [] i.op = "fmv.f.x" -> FpuR(120 + k, 0, i.d, i.a, 0)
          [] i.op = "fmv.x.f" -> FpuR(112 + k, 0, i.d, i.a, 0)

\* The word of one instruction whose immediate fits.
Encode(i) ==
    CASE i.op \in DOMAIN ROps -> RType(ROps[i.op][1], ROps[i.op][2], i.d, i.a, i.b, 51)
      [] i.op \in DOMAIN IOps -> IType(IOps[i.op], i.d, i.a, i.n, 19)
      [] i.op \in DOMAIN Shifts -> Put(Shifts[i.op][2], 7, 25) \cup Put(i.n, 6, 20) \cup Regs(Shifts[i.op][1], i.d, i.a) \cup Bits(19)
      [] i.op \in DOMAIN Loads -> IType(Loads[i.op], i.d, i.a, i.n, 3)
      [] i.op \in DOMAIN Stores -> SType(Stores[i.op], i.b, i.a, i.n, 35)
      [] i.op \in DOMAIN FLoads -> IType(FLoads[i.op], i.d, i.a, i.n, 7)
      [] i.op \in DOMAIN FStores -> SType(FStores[i.op], i.b, i.a, i.n, 39)
      [] i.op \in DOMAIN BOps -> BType(BOps[i.op], i.a, i.b, i.n)
      [] i.op = "jal" -> JType(i.d, i.n)
      [] i.op = "jalr" -> IType(0, i.d, i.a, i.n, 103)
      [] i.op = "lui" -> UType(i.d, i.n, 55)
      [] i.op = "auipc" -> UType(i.d, i.n, 23)
      [] i.op = "ecall" -> Bits(115)
      [] i.op = "ebreak" -> Bits(1048691)
      [] i.op = "fence" -> Bits(267386895)
      [] OTHER -> FpuWord(i)

-----------------------------------------------------------------------------
(* Immediates that do not fit twelve bits.                                 *)

Fits(n) == n \in -2048 .. 2047

\* ((v & 4095) ^ 2048) - 2048, and what is left for the bits above.
Low(v) == LET c == v % 4096 IN IF c < 2048 THEN c ELSE c - 4096
\* Mutant: the carry out of a negative lower part is dropped.
HighNoCarry(v) == v \div 4096
High(v) == (v \div 4096) + (IF Low(v) < 0 THEN 1 ELSE 0)

LoadImmediate(d, value) ==
    LET code[v \in Int] ==
            IF Fits(v) THEN <<I("addi", d, ZERO, 0, v, "d")>>
            ELSE code[High(v)] \o <<I("slli", d, d, 0, 12, "d")>>
                 \o (IF Low(v) # 0 THEN <<I("addi", d, d, 0, Low(v), "d")>> ELSE <<>>)
    IN  code[value]

Temporary(a) == IF a = T6 THEN T5 ELSE T6

AddiImm(d, a, n) ==
    IF Fits(n) THEN <<I("addi", d, a, 0, n, "d")>>
    ELSE IF a = ZERO THEN LoadImmediate(d, n)
    ELSE LoadImmediate(Temporary(a), n) \o <<I("add", d, a, Temporary(a), 0, "d")>>

\* What a call of an encoder with any immediate emits, as instructions that fit.
Memory == DOMAIN Loads \cup DOMAIN Stores \cup DOMAIN FLoads \cup DOMAIN FStores
Emitted(i) ==
    CASE i.op = "addi" -> AddiImm(i.d, i.a, i.n)
      [] i.op \in Memory /\ ~Fits(i.n) ->
            AddiImm(Temporary(i.a), i.a, i.n) \o <<[i EXCEPT !.a = Temporary(i.a), !.n = 0]>>
      [] OTHER -> <<i>>

-----------------------------------------------------------------------------
(* patch_branch and patch_jal write the distance into a word emitted before. *)

PatchBranch(w, delta) ==
    LET b == Bits(delta)
    IN  (w \ ((7 .. 11) \cup (25 .. 31))) \cup Shl(b \cap {12}, 19) \cup Shl(b \cap 5 .. 10, 20)
        \cup Shl(b \cap 1 .. 4, 7) \cup Shr(b \cap {11}, 4)
PatchJal(w, delta) ==
    LET b == Bits(delta)
    IN  (w \cap 0 .. 11) \cup Shl(b \cap {20}, 11) \cup Shl(b \cap 1 .. 10, 20) \cup Shl(b \cap {11}, 9) \cup (b \cap 12 .. 19)

-----------------------------------------------------------------------------
(* step's switch: the instruction a word is.                               *)

Num(b) == MapThenSumSet(LAMBDA k : 2^k, b)

DecodeImm(w, f3) ==
    LET n == Num(Field(w, 25, 20))
    IN  CASE f3 = 1 -> <<"slli", n>>
          [] f3 = 5 -> <<IF Num(Field(w, 31, 26)) = 16 THEN "srai" ELSE "srli", n>>
          [] OTHER -> <<<<"addi", "", "slti", "sltiu", "xori", "", "ori", "andi">>[f3 + 1], ImmI(w)>>
DecodeOp(f3, f7) ==
    CASE f7 = 1 -> <<"mul", "mulh", "mulhsu", "mulhu", "div", "divu", "rem", "remu">>[f3 + 1]
      [] f7 = 32 -> IF f3 = 0 THEN "sub" ELSE IF f3 = 5 THEN "sra" ELSE "illegal"
      [] OTHER -> <<"add", "sll", "slt", "sltu", "xor", "srl", "or", "and">>[f3 + 1]
DecodeImm32(w, f3) ==
    LET n == Num(Field(w, 25, 20))
    IN  CASE f3 = 0 -> <<"addiw", ImmI(w)>>
          [] f3 = 1 -> <<"slliw", n>>
          [] f3 = 5 -> <<IF Num(Field(w, 31, 26)) = 16 THEN "sraiw" ELSE "srliw", n>>
          [] OTHER -> <<"illegal", 0>>
DecodeOp32(f3, f7) ==
    CASE f7 = 1 -> <<"mulw", "illegal", "illegal", "illegal", "divw", "divuw", "remw", "remuw">>[f3 + 1]
      [] f7 = 32 -> IF f3 = 0 THEN "subw" ELSE IF f3 = 5 THEN "sraw" ELSE "illegal"
      [] OTHER -> <<"addw", "sllw", "illegal", "illegal", "illegal", "srlw", "illegal", "illegal">>[f3 + 1]

\* OP-FP: the operation, and for a conversion which integer (l, lu, w, wu).
DecodeFp(f3, f7, b) ==
    LET f == f7 - (f7 % 2)
    IN  CASE f = 16 -> <<IF f3 = 0 THEN "fsgnj" ELSE IF f3 = 1 THEN "fsgnjn" ELSE "fsgnjx", 0>>
          [] f = 40 -> <<IF f3 = 0 THEN "fmin" ELSE "fmax", 0>>
          [] f = 80 -> <<IF f3 = 2 THEN "feq" ELSE IF f3 = 1 THEN "flt" ELSE "fle", 0>>
          [] f = 0 -> <<"fadd", 0>> [] f = 4 -> <<"fsub", 0>> [] f = 8 -> <<"fmul", 0>> [] f = 12 -> <<"fdiv", 0>>
          [] f = 96 -> IF b = 0 THEN <<"fcvt.w.f", 0>> ELSE <<"fcvt.l.f", IF b = 3 THEN 1 ELSE 0>>
          [] f = 104 -> <<"fcvt.f.l", CASE b = 0 -> 2 [] b = 1 -> 3 [] b = 2 -> 0 [] OTHER -> 1>>
          [] f = 32 -> <<IF f7 = 32 THEN "fcvt.s.d" ELSE "fcvt.d.s", 0>>
          [] f = 88 -> <<"fsqrt", 0>> [] f = 112 -> <<"fmv.x.f", 0>> [] f = 120 -> <<"fmv.f.x", 0>>
          [] OTHER -> <<"illegal", 0>>

\* No encoder makes csr (the floating point control register) or fsqrt: they are
\* told from an illegal word here, and Hart does not execute them.
Decode(w) ==
    LET opcode == Num(Field(w, 6, 0))
        d == Num(Field(w, 11, 7))
        f3 == Num(Field(w, 14, 12))
        a == Num(Field(w, 19, 15))
        b == Num(Field(w, 24, 20))
        f7 == Num(Field(w, 31, 25))
        Is(op, n) == I(op, d, a, b, n, IF f7 % 2 = 1 THEN "d" ELSE "s")
        Pair(p) == Is(p[1], p[2])
    IN  CASE opcode = 55 -> Is("lui", ImmU(w) \div 4096)
          [] opcode = 23 -> Is("auipc", ImmU(w) \div 4096)
          [] opcode = 111 -> Is("jal", ImmJ(w))
          [] opcode = 103 -> Is("jalr", ImmI(w))
          [] opcode = 99 -> Is(<<"beq", "bne", "illegal", "illegal", "blt", "bge", "bltu", "bgeu">>[f3 + 1], ImmB(w))
          [] opcode = 3 -> Is(<<"lb", "lh", "lw", "ld", "lbu", "lhu", "lwu", "illegal">>[f3 + 1], ImmI(w))
          [] opcode = 35 -> Is(IF f3 < 4 THEN <<"sb", "sh", "sw", "sd">>[f3 + 1] ELSE "illegal", ImmS(w))
          [] opcode = 19 -> Pair(DecodeImm(w, f3))
          [] opcode = 51 -> Is(DecodeOp(f3, f7), 0)
          [] opcode = 27 -> Pair(DecodeImm32(w, f3))
          [] opcode = 59 -> Is(DecodeOp32(f3, f7), 0)
          [] opcode = 15 -> Is("fence", 0)
          [] opcode = 115 -> Is(IF w = Bits(115) THEN "ecall" ELSE IF w = Bits(1048691) THEN "ebreak" ELSE "csr", 0)
          [] opcode = 7 -> Is(IF f3 = 2 THEN "flw" ELSE IF f3 = 3 THEN "fld" ELSE "illegal", ImmI(w))
          [] opcode = 39 -> Is(IF f3 = 2 THEN "fsw" ELSE IF f3 = 3 THEN "fsd" ELSE "illegal", ImmS(w))
          [] opcode = 83 -> Pair(DecodeFp(f3, f7, b))
          [] OTHER -> Is("illegal", 0)
=============================================================================
