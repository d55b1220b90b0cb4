-------------------------------- MODULE Insn --------------------------------
(***************************************************************************)
(* RISC-V instruction words as the sets of their one bits, the way the     *)
(* linker writes an immediate into a word (src/src/tools/onyx-ld.c) and    *)
(* the way the emulator reads it back (src/tools/onx-run.c).  A mask is an *)
(* intersection, an OR a union, a shift a translation.                     *)
(***************************************************************************)
EXTENDS Integers, FiniteSetsExt

\* The low 32 bits of n in two's complement.
Bits(n) == {i \in 0..30 : (n \div 2^i) % 2 = 1} \cup (IF n < 0 THEN {31} ELSE {})

Shl(b, k) == {i + k : i \in b} \cap (0..31)
Shr(b, k) == {i - k : i \in b \cap (k..31)}

\* The number whose w low bits are b, sign-extended.
Sx(b, w) == MapThenSumSet(LAMBDA i : IF i = w - 1 THEN (-2) * 2^(i-1) ELSE 2^i, b \cap (0..w-1))

-----------------------------------------------------------------------------
(* The linker's writers of immediates.                                     *)

\* Mutant: the mask of an I-type word also drops rs1.
PatchImmINarrow(insn, imm) == (insn \cap 0..14) \cup (Shl(Bits(imm), 20) \cap 20..31)

PatchImmI(insn, imm) == (insn \cap 0..19) \cup (Shl(Bits(imm), 20) \cap 20..31)

PatchImmS(insn, imm) ==
    LET b == Bits(imm) IN
    (insn \cap ((0..6) \cup (12..24))) \cup Shl(b \cap 0..4, 7)
                                       \cup Shl(Shr(b, 5) \cap 0..6, 25)

PatchImmU(insn, imm20) == (insn \cap 0..11) \cup Shl(imm20, 12)

PatchImmJ(insn, imm) ==
    LET b == Bits(imm) IN
    (insn \cap 0..6) \cup Shl(b \cap {20}, 10) \cup Shl(b \cap 1..10, 20)
                     \cup Shl(b \cap {11}, 9) \cup (b \cap 12..19)

PatchImmB(insn, imm) ==
    LET b == Bits(imm) IN
    (insn \cap ((0..6) \cup (12..24))) \cup Shl(b \cap {12}, 19) \cup Shl(b \cap 1..4, 7)
                                       \cup Shl(b \cap 5..10, 20) \cup Shr(b \cap {11}, 4)

-----------------------------------------------------------------------------
(* The emulator's readers.                                                 *)

Field(insn, hi, lo) == Shr(insn \cap (lo..hi), lo)

ImmI(insn) == Sx(Field(insn, 31, 20), 12)
ImmS(insn) == Sx(Shl(Field(insn, 31, 25), 5) \cup Field(insn, 11, 7), 12)
ImmU(insn) == Sx(insn \cap 12..31, 32)
ImmB(insn) == Sx(Shl(Field(insn, 31, 31), 12) \cup Shl(Field(insn, 7, 7), 11)
                 \cup Shl(Field(insn, 30, 25), 5) \cup Shl(Field(insn, 11, 8), 1), 13)
ImmJ(insn) == Sx(Shl(Field(insn, 31, 31), 20) \cup Shl(Field(insn, 19, 12), 12)
                 \cup Shl(Field(insn, 20, 20), 11) \cup Shl(Field(insn, 30, 21), 1), 21)

=============================================================================
