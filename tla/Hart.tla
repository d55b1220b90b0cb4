-------------------------------- MODULE Hart ---------------------------------
(***************************************************************************)
(* The processor onx-run.c interprets: what one instruction does to the    *)
(* registers and the memory.  A byte has BYTE bits (8 in the code), so     *)
(* that a register of eight bytes stays within a checkable range; the      *)
(* sizes of the types are the code's.  Registers hold two's complement     *)
(* numbers.                                                                *)
(*                                                                         *)
(* A machine is [pc, x, f, mem]: the program counter in instructions, the  *)
(* integer and the floating point registers, and the bytes written;        *)
(* instruction k is at address 4 * k.  An instruction is [op, d, a, b, n,  *)
(* fmt].  A floating point number is a whole number; its bits are another  *)
(* number in each precision, and all zero for zero.                        *)
(***************************************************************************)
EXTENDS Integers, Sequences, FiniteSetsExt

CONSTANT BYTE           \* bits in a byte

\* The factors below are inverses up to 16 bits.
ASSUME ByteAssumption == BYTE \in 1 .. 2

XLEN == 8 * BYTE

\* sx: the number that the low bits of v spell in two's complement.
Sx(v, bits) == ((v + 2^(bits - 1)) % 2^bits) - 2^(bits - 1)
Ux(v, bits) == v % 2^bits
Word(v) == Sx(v, XLEN)

BitsOf(v) == {i \in 0 .. XLEN - 1 : (Ux(v, XLEN) \div 2^i) % 2 = 1}
OfBits(S) == Word(MapThenSumSet(LAMBDA i : 2^i, S))

\* Division rounds towards zero; by zero it gives all ones, and the remainder the dividend.
Abs(v) == IF v < 0 THEN -v ELSE v
Quot(a, b) == IF (a < 0) = (b < 0) THEN Abs(a) \div Abs(b) ELSE -(Abs(a) \div Abs(b))
Div(a, b) == IF b = 0 THEN -1 ELSE Quot(a, b)
Rem(a, b) == IF b = 0 THEN a ELSE a - b * Quot(a, b)

-----------------------------------------------------------------------------
(* Memory.                                                                 *)

\* mem_read: n bytes, the lowest first; a byte never written is zero.
MemRead(mem, addr, n) ==
    MapThenSumSet(LAMBDA i : (IF addr + i \in DOMAIN mem THEN mem[addr + i] ELSE 0) * 2^(BYTE * i), 0 .. n - 1)

\* mem_write.
MemWrite(mem, addr, v, n) ==
    [b \in DOMAIN mem \cup (addr .. addr + n - 1) |->
        IF b \in addr .. addr + n - 1 THEN (v \div 2^(BYTE * (b - addr))) % 2^BYTE ELSE mem[b]]

\* The accesses: size in bytes, and whether the sign is extended.
Access ==
    [lb |-> [n |-> 1, s |-> TRUE], lbu |-> [n |-> 1, s |-> FALSE], lh |-> [n |-> 2, s |-> TRUE],
     lhu |-> [n |-> 2, s |-> FALSE], lw |-> [n |-> 4, s |-> TRUE], lwu |-> [n |-> 4, s |-> FALSE],
     ld |-> [n |-> 8, s |-> TRUE]]
Width == [sb |-> 1, sh |-> 2, sw |-> 4, sd |-> 8, flw |-> 4, fld |-> 8, fsw |-> 4, fsd |-> 8]

-----------------------------------------------------------------------------
(* Floating point numbers and their bits.                                  *)

\* Odd factors, so that a number can be read back from its bits: 37 * 7085 and
\* 5 * 205 are one more than a multiple of 2^16 and of 2^8.
Double(n) == Word(37 * n)
OfDouble(bits) == Word(7085 * bits)
Single(n) == Ux(5 * n, 4 * BYTE)
OfSingle(bits) == Sx(205 * Ux(bits, 4 * BYTE), 4 * BYTE)
Enc(fmt, n) == IF fmt = "d" THEN Double(n) ELSE Single(n)
Dec(fmt, bits) == IF fmt = "d" THEN OfDouble(bits) ELSE OfSingle(bits)

-----------------------------------------------------------------------------
(* step.                                                                   *)

\* The upper half of a product, taken in two steps to stay within range.
HighProduct(a, b) ==
    LET half == XLEN \div 2
    IN  (a * (b \div 2^half) + ((a * (b % 2^half)) \div 2^half)) \div 2^half

\* OP, opcode 0x33.
Alu(op, a, b) ==
    CASE op = "add" -> Word(a + b)
      [] op = "sub" -> Word(a - b)
      [] op = "mul" -> Word(a * b)
      [] op = "div" -> Word(Div(a, b))
      [] op = "rem" -> Rem(a, b)
      [] op = "divu" -> Word(Div(Ux(a, XLEN), Ux(b, XLEN)))
      [] op = "remu" -> Word(Rem(Ux(a, XLEN), Ux(b, XLEN)))
      [] op = "and" -> OfBits(BitsOf(a) \cap BitsOf(b))
      [] op = "or" -> OfBits(BitsOf(a) \cup BitsOf(b))
      [] op = "xor" -> OfBits((BitsOf(a) \cup BitsOf(b)) \ (BitsOf(a) \cap BitsOf(b)))
      [] op = "sll" -> Word(a * 2^(b % XLEN))
      [] op = "srl" -> Word(Ux(a, XLEN) \div 2^(b % XLEN))
      [] op = "sra" -> a \div 2^(b % XLEN)
      [] op = "slt" -> IF a < b THEN 1 ELSE 0
      [] op = "sltu" -> IF Ux(a, XLEN) < Ux(b, XLEN) THEN 1 ELSE 0
      [] op = "mulh" -> HighProduct(a, b)
      [] op = "mulhsu" -> HighProduct(a, Ux(b, XLEN))
      [] op = "mulhu" -> Word(HighProduct(Ux(a, XLEN), Ux(b, XLEN)))

\* OP-32, opcode 0x3B, on the lower halves.
Alu32(op, a, b) ==
    LET s(v) == Sx(v, 4 * BYTE)
        u(v) == Ux(v, 4 * BYTE)
    IN  CASE op = "addw" -> s(a + b)
          [] op = "subw" -> s(a - b)
          [] op = "sllw" -> s(u(a) * 2^(b % (4 * BYTE)))
          [] op = "srlw" -> s(u(a) \div 2^(b % (4 * BYTE)))
          [] op = "sraw" -> s(a) \div 2^(b % (4 * BYTE))
          [] op = "mulw" -> s(s(a) * s(b))
          [] op = "divw" -> s(Div(s(a), s(b)))
          [] op = "divuw" -> s(Div(u(a), u(b)))
          [] op = "remw" -> s(Rem(s(a), s(b)))
          [] op = "remuw" -> IF u(b) = 0 THEN a ELSE s(Rem(u(a), u(b)))
Ops32 == {"addw", "subw", "sllw", "srlw", "sraw", "mulw", "divw", "divuw", "remw", "remuw"}

\* OP-IMM-32, opcode 0x1B.
OpImm32 == [addiw |-> "addw", slliw |-> "sllw", srliw |-> "srlw", sraiw |-> "sraw"]

\* OP-IMM, opcode 0x13, and the operation each one is with a constant.
OpImm == [addi |-> "add", slli |-> "sll", srli |-> "srl", srai |-> "sra", slti |-> "slt", sltiu |-> "sltu",
          xori |-> "xor", ori |-> "or", andi |-> "and"]

Taken(op, a, b) ==
    CASE op = "beq" -> a = b [] op = "bne" -> a # b [] op = "blt" -> a < b [] op = "bge" -> a >= b
      [] op = "bltu" -> Ux(a, XLEN) < Ux(b, XLEN) [] op = "bgeu" -> Ux(a, XLEN) >= Ux(b, XLEN)
BranchOps == {"beq", "bne", "blt", "bge", "bltu", "bgeu"}

\* The FP operations on two numbers.
Fpu(op, p, q) == CASE op = "fadd" -> p + q [] op = "fsub" -> p - q [] op = "fmul" -> p * q [] op = "fdiv" -> Div(p, q)
Compare(op, p, q) == CASE op = "feq" -> p = q [] op = "flt" -> p < q [] op = "fle" -> p <= q

\* FSGNJ: the magnitude of p with the sign of q, its opposite, or the product of both signs;
\* FMIN and FMAX.
Sign(op, p, q) ==
    CASE op = "fsgnj" -> IF q < 0 THEN -Abs(p) ELSE Abs(p)
      [] op = "fsgnjn" -> IF q < 0 THEN Abs(p) ELSE -Abs(p)
      [] op = "fsgnjx" -> IF q < 0 THEN -p ELSE p
      [] op = "fmin" -> IF p < q THEN p ELSE q
      [] op = "fmax" -> IF p > q THEN p ELSE q

\* FCVT from an integer: l, lu, w or wu.
FromInt(a, n) ==
    CASE n = 0 -> a [] n = 1 -> Ux(a, XLEN) [] n = 2 -> Sx(a, 4 * BYTE) [] n = 3 -> Ux(a, 4 * BYTE)

\* FCVT to a 64-bit integer goes through 32 bits and clears the others.
ToInt(fmt, n) ==
    LET top == 2^(4 * BYTE - 1)
    IN  Ux(IF fmt = "d" THEN n ELSE IF n >= top THEN top - 1 ELSE IF n < -top THEN -top ELSE n, 4 * BYTE)

\* LUI and AUIPC: twenty bits above twelve zeros.
Upper(n) == Word((n % 2^(XLEN - 12)) * 2^12)

\* Register 0 stays zero.
SetX(m, d, v) == [m EXCEPT !.x[d] = IF d = 0 THEN 0 ELSE v, !.pc = @ + 1]
SetF(m, d, v) == [m EXCEPT !.f[d] = v, !.pc = @ + 1]

Step(m, i) ==
    LET a == m.x[i.a]
        b == m.x[i.b]
        p == Dec(i.fmt, m.f[i.a])
        q == Dec(i.fmt, m.f[i.b])
    IN  CASE i.op \in DOMAIN OpImm -> SetX(m, i.d, Alu(OpImm[i.op], a, i.n))
          [] i.op \in DOMAIN Access ->
                LET v == MemRead(m.mem, a + i.n, Access[i.op].n)
                IN  SetX(m, i.d, IF Access[i.op].s THEN Sx(v, BYTE * Access[i.op].n) ELSE v)
          [] i.op \in {"sb", "sh", "sw", "sd"} ->
                [m EXCEPT !.mem = MemWrite(@, a + i.n, b, Width[i.op]), !.pc = @ + 1]
          [] i.op \in BranchOps -> [m EXCEPT !.pc = @ + (IF Taken(i.op, a, b) THEN i.n ELSE 1)]
          [] i.op = "jal" -> [SetX(m, i.d, 4 * (m.pc + 1)) EXCEPT !.pc = m.pc + i.n]
          [] i.op \in {"flw", "fld"} -> SetF(m, i.d, MemRead(m.mem, a + i.n, Width[i.op]))
          [] i.op \in {"fsw", "fsd"} ->
                [m EXCEPT !.mem = MemWrite(@, a + i.n, m.f[i.b], Width[i.op]), !.pc = @ + 1]
          [] i.op \in {"fadd", "fsub", "fmul", "fdiv"} -> SetF(m, i.d, Enc(i.fmt, Fpu(i.op, p, q)))
          [] i.op \in {"feq", "flt", "fle"} -> SetX(m, i.d, IF Compare(i.op, p, q) THEN 1 ELSE 0)
          [] i.op \in {"fsgnj", "fsgnjn", "fsgnjx", "fmin", "fmax"} -> SetF(m, i.d, Enc(i.fmt, Sign(i.op, p, q)))
          [] i.op = "fneg" -> SetF(m, i.d, Enc(i.fmt, -p))
          [] i.op = "fcvt.f.l" -> SetF(m, i.d, Enc(i.fmt, FromInt(a, i.n)))
          \* rs2f is 2 or 3, signed or unsigned: the same to onx-run.
          [] i.op = "fcvt.l.f" -> SetX(m, i.d, ToInt(i.fmt, p))
          [] i.op = "fcvt.s.d" -> SetF(m, i.d, Single(OfDouble(m.f[i.a])))
          [] i.op = "fcvt.d.s" -> SetF(m, i.d, Double(OfSingle(m.f[i.a])))
          [] i.op = "fmv.f.x" -> SetF(m, i.d, IF i.fmt = "d" THEN a ELSE Ux(a, 4 * BYTE))
          [] i.op = "fmv.x.f" -> SetX(m, i.d, IF i.fmt = "d" THEN m.f[i.a] ELSE Ux(m.f[i.a], 4 * BYTE))
          [] i.op = "fcvt.w.f" -> SetX(m, i.d, Sx(ToInt(i.fmt, p), 4 * BYTE))
          [] i.op = "lui" -> SetX(m, i.d, Upper(i.n))
          [] i.op = "auipc" -> SetX(m, i.d, Word(4 * m.pc + Upper(i.n)))
          [] i.op = "jalr" -> [SetX(m, i.d, 4 * (m.pc + 1)) EXCEPT !.pc = Ux(a + i.n, XLEN) \div 4]
          [] i.op = "fence" -> [m EXCEPT !.pc = @ + 1]
          [] i.op \in Ops32 -> SetX(m, i.d, Alu32(i.op, a, b))
          [] i.op \in DOMAIN OpImm32 -> SetX(m, i.d, Alu32(OpImm32[i.op], a, i.n))
          [] OTHER -> SetX(m, i.d, Alu(i.op, a, b))
=============================================================================
