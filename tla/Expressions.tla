---------------------------- MODULE Expressions -----------------------------
(***************************************************************************)
(* The expression compiler of gen.c, parse_expr and below: a recursive     *)
(* descent over the tokens that emits code as it goes, with no register    *)
(* allocator.  Every expression leaves its value in t0 or ft0 or describes *)
(* where it is; a value that must outlive the parsing of another operand   *)
(* is saved in a new slot of the frame first.  The compiled expression is  *)
(* the operand of a return statement and then runs on the machine of Hart. *)
(*                                                                         *)
(* The stack holds the calls of the parser's functions in progress with    *)
(* their variables; mode says what the parser does next.  A type is a      *)
(* sequence, <<"ptr", "int">> for int *.  A jump's distance counts         *)
(* instructions.                                                           *)
(***************************************************************************)
EXTENDS Hart, SequencesExt

CONSTANTS
    Programs,       \* records with the tokens toks of an expression and the type ret that the function returns
    Locals,         \* the local variables, a sequence of [name, type, off, init]
    Globals,        \* the symbols declared before, a sequence of [name, kind, type, init]
    Signatures,     \* the function types by name: [params, ret]
    Functions_,     \* the functions there are: the name of their own type
    ARG_REGS,       \* argument registers of each bank, 8 in the code
    CC_MAX_FUNC_PARAMS

ASSUME ArgAssumption == ARG_REGS \in 1 .. 8 /\ CC_MAX_FUNC_PARAMS \in Nat

VARIABLES
    phase,      \* "parse", then "run" and "done", or "rejected" after errors
    prog, at,   \* the program and the number of its current token
    mode,       \* "unary", "postfix", "args": the function about to start; "return": one has returned
    val,        \* its operand or result
    stack,      \* the calls in progress
    globals,    \* g_globals
    code, cur,  \* g_text, g_func.cur_offset
    errors,     \* an error has been reported
    m           \* the machine

parser == <<prog, at, mode, val, stack, globals, code, cur, errors>>
vars == <<phase, parser, m>>

-----------------------------------------------------------------------------
(* types.c.                                                                *)

Unsigned == {"bool", "uchar", "ushort", "uint", "ulong"}
Signed == {"char", "short", "int", "long"}
Bytes == [void |-> 0, bool |-> 1, char |-> 1, uchar |-> 1, short |-> 2, ushort |-> 2, int |-> 4, uint |-> 4,
          long |-> 8, ulong |-> 8, ptr |-> 8, float |-> 4, double |-> 8, pair |-> 8, func |-> 8]
ARRAY_LENGTH == 2                \* of every array there is
Fields == [a |-> [off |-> 0, type |-> <<"char">>], b |-> [off |-> 4, type |-> <<"int">>]]    \* of struct pair

Kind(t) == IF t[1] \in DOMAIN Signatures THEN "func" ELSE t[1]
Base(t) == Tail(t)
Sizeof(t) == IF Kind(t) = "array" THEN ARRAY_LENGTH * Bytes[t[2]] ELSE Bytes[Kind(t)]
IsUnsigned(t) == Kind(t) \in Unsigned
IsInteger(t) == Kind(t) \in Unsigned \cup Signed
IsFloat(t) == Kind(t) \in {"float", "double"}
Decays(t) == Kind(t) \in {"array", "func"}
Decay(t) == IF Kind(t) = "array" THEN <<"ptr">> \o Base(t) ELSE IF Kind(t) = "func" THEN <<"ptr">> \o t ELSE t
Promote(t) == IF IsInteger(t) /\ Sizeof(t) < 4 THEN <<"int">> ELSE t
CommonOf(a, b) ==
    CASE "double" \in {Kind(a), Kind(b)} -> <<"double">>
      [] {"float", "double"} \cap {Kind(a), Kind(b)} = {"float"} -> <<"float">>
      [] OTHER -> IF Sizeof(a) # Sizeof(b) THEN IF Sizeof(a) > Sizeof(b) THEN a ELSE b
                  ELSE IF (Kind(a) \in Signed) = (Kind(b) \in Signed) \/ IsUnsigned(a) THEN a ELSE b
Common(s, t) == CommonOf(Promote(s), Promote(t))
Fmt(t) == IF Kind(t) = "double" THEN "d" ELSE "s"

-----------------------------------------------------------------------------
(* Instructions and values.                                                *)

ZERO == 0
SP == 2
T0 == 5
T1 == 6
T2 == 7
FP == 8
A0 == 10
T3 == 28
T5 == 30
FT0 == 0
FT1 == 1
FA0 == 10

Op3(op, d, a, b) == [op |-> op, d |-> d, a |-> a, b |-> b, n |-> 0, fmt |-> "d"]
OpI(op, d, a, n) == [op |-> op, d |-> d, a |-> a, b |-> 0, n |-> n, fmt |-> "d"]
Store(op, b, a, n) == [op |-> op, d |-> 0, a |-> a, b |-> b, n |-> n, fmt |-> "d"]
OpF(op, t, d, a, b) == [op |-> op, d |-> d, a |-> a, b |-> b, n |-> 0, fmt |-> Fmt(t)]
Addi(d, a, n) == OpI("addi", d, a, n)
Seqz(d) == OpI("sltiu", d, d, 1)
Snez(d) == Op3("sltu", d, ZERO, d)
\* emit_load_global_addr: lui and addi that gen_finalize patches with the address.
La(d, sym, off) == [op |-> "la", d |-> d, a |-> 0, b |-> off, n |-> sym, fmt |-> "d"]

\* The log2 of the size of a scalar, 3 for what is not of size 1, 2 or 4.
Log2Size(t) == IF Decays(t) THEN 3 ELSE LET n == Sizeof(t) IN IF n \in {1, 2, 4} THEN n \div 2 ELSE 3
LoadOp(t) == (IF IsUnsigned(t) THEN <<"lbu", "lhu", "lwu", "ld">> ELSE <<"lb", "lh", "lw", "ld">>)[Log2Size(t) + 1]
StoreOp(t) == <<"sb", "sh", "sw", "sd">>[Log2Size(t) + 1]
FloatLoad(t) == IF Kind(t) = "double" THEN "fld" ELSE "flw"
FloatStore(t) == IF Kind(t) = "double" THEN "fsd" ELSE "fsw"

\* val_t.
Value(kind, type) == [kind |-> kind, type |-> type, reg |-> 0, imm |-> 0, fval |-> 0, sym |-> 0, off |-> 0]
Reg(r, type) == [Value("REG", type) EXCEPT !.reg = r]
IsLvalue(v) == v.kind \in {"SYM", "LVAL", "SPILL"}

\* What an operator below works on: a value, the code, cur_offset, the errors.
Gen == [v |-> val, c |-> code, k |-> cur, e |-> errors]
With(o, v) == [o EXCEPT !.v = v]
Emit(o, s) == [o EXCEPT !.c = @ \o s]
Err(o) == [o EXCEPT !.e = TRUE]
InReg(o, r) == [o EXCEPT !.v.kind = "REG", !.v.reg = r, !.v.off = 0]
At(o, r, off) == [o EXCEPT !.v.kind = "LVAL", !.v.reg = r, !.v.off = off]
Typed(o, t) == [o EXCEPT !.v.type = t]

Align16(n) == 16 * ((n + 15) \div 16)
\* A new slot below the others; k is then its distance from the frame pointer.
NewSlot(o, size) == [o EXCEPT !.k = Align16(@ + size)]

-----------------------------------------------------------------------------
(* Moving values.                                                          *)

Materialize(o, r) ==
    LET v == o.v
    IN  CASE v.kind = "IMM" -> InReg(Emit(o, <<Addi(r, ZERO, v.imm)>>), r)
          [] v.kind = "SYM" ->
                At(Emit(o, IF v.sym >= Len(globals)
                           THEN <<Addi(r, FP, Locals[v.sym - Len(globals) + 1].off + v.off)>>
                           ELSE <<La(r, v.sym, v.off)>>), r, 0)
          [] v.kind = "LVAL" -> At(IF v.reg = r /\ v.off = 0 THEN o ELSE Emit(o, <<Addi(r, v.reg, v.off)>>), r, 0)
          [] v.kind = "SPILL" -> At(Emit(o, <<OpI("ld", r, FP, v.off)>>), r, 0)
          [] v.kind = "REG" -> IF v.reg = r THEN o ELSE [Emit(o, <<Addi(r, v.reg, 0)>>) EXCEPT !.v.reg = r]
          [] v.kind \in {"SPILL_F", "SPILL_I"} -> o

\* From an address in register from.
Fetch(o, r, from) == InReg(IF from = r /\ Decays(o.v.type) THEN o ELSE Emit(o, <<OpI(LoadOp(o.v.type), r, from, o.v.off)>>), r)
LoadFrom(o, r) == IF o.v.kind \in {"LVAL", "SPILL_I"} THEN Fetch(o, r, IF o.v.kind = "LVAL" THEN r ELSE FP) ELSE o
LoadValue(o, r) == LoadFrom(IF o.v.kind = "SPILL_I" THEN o ELSE Materialize(o, r), r)

FetchFloat(o, t, fr) ==
    IF o.v.kind # "LVAL" THEN o
    ELSE IF IsFloat(t) THEN InReg(Emit(o, <<OpI(FloatLoad(t), fr, T0, o.v.off)>>), fr)
    ELSE Typed(InReg(Emit(o, <<OpI(LoadOp(t), T1, T0, o.v.off), OpF("fcvt.f.l", <<"double">>, fr, T1, 0)>>), fr), <<"double">>)
LoadFloat(o, fr) ==
    LET t == o.v.type
    IN  CASE o.v.kind = "IMM" /\ IsFloat(t) ->
                InReg(Emit(o, <<[OpF("flc", t, fr, 0, 0) EXCEPT !.n = o.v.fval]>>), fr)
          [] o.v.kind = "IMM" /\ ~IsFloat(t) ->
                Typed(InReg(Emit(Materialize(o, T0), <<OpF("fcvt.f.l", <<"double">>, fr, T0, 0)>>), fr), <<"double">>)
          [] o.v.kind = "SPILL_F" -> InReg(Emit(o, <<OpI(FloatLoad(t), fr, FP, o.v.off)>>), fr)
          [] o.v.kind = "REG" ->
                IF o.v.reg = fr THEN o
                ELSE [Emit(o, <<IF IsFloat(t) THEN OpF("fsgnj", t, fr, o.v.reg, o.v.reg)
                                ELSE OpF("fcvt.f.l", t, fr, o.v.reg, 0)>>) EXCEPT !.v.reg = fr]
          [] OTHER -> FetchFloat(Materialize(o, T0), t, fr)

\* The bits of t0 that type t does not have are made copies of its sign, or zero.
Narrow(t) ==
    IF ~IsInteger(t) \/ Sizeof(t) = 8 THEN <<>>
    ELSE LET shift == XLEN - Sizeof(t) * BYTE
         IN  <<OpI("slli", T0, T0, shift), OpI(IF IsUnsigned(t) THEN "srli" ELSE "srai", T0, T0, shift)>>

\* convert_scalar, once the value of type s is in t0 or ft0.
MakeFloat(s, t) ==
    CASE ~IsFloat(s) -> <<[OpF("fcvt.f.l", t, FT0, T0, 0) EXCEPT !.n = IF IsUnsigned(s) THEN 1 ELSE 0]>>
      [] IsFloat(s) /\ Fmt(s) # Fmt(t) -> <<OpF(IF Fmt(t) = "s" THEN "fcvt.s.d" ELSE "fcvt.d.s", t, FT0, FT0, 0)>>
      [] OTHER -> <<>>
MakeInt(s, t) ==
    (CASE ~IsFloat(s) -> <<>>
       [] IsFloat(s) /\ Kind(t) # "bool" -> <<[OpF("fcvt.l.f", s, T0, FT0, 0) EXCEPT !.n = IF IsUnsigned(t) THEN 1 ELSE 0]>>
       [] OTHER -> <<Addi(T0, ZERO, 0), OpF("fmv.f.x", s, FT1, T0, 0), OpF("feq", s, T0, FT0, FT1), Seqz(T0)>>)
    \o (IF Kind(t) = "bool" THEN <<Snez(T0)>> ELSE Narrow(t))
Convert(o, t) ==
    CASE Kind(t) = "void" -> Typed(o, t)
      [] Kind(t) = "pair" -> o
      [] OTHER -> LET s == o.v.type
                  IN  Typed(InReg(Emit(IF IsFloat(s) THEN LoadFloat(o, FT0) ELSE LoadValue(o, T0),
                                       IF IsFloat(t) THEN MakeFloat(s, t) ELSE MakeInt(s, t)),
                                  IF IsFloat(t) THEN FT0 ELSE T0), t)

-----------------------------------------------------------------------------
(* Saving values before another operand is parsed.                         *)

Spilled(o, kind, s) ==
    LET p == NewSlot(o, 8)
    IN  [Emit(p, s) EXCEPT !.v.kind = kind, !.v.reg = FP, !.v.off = -p.k]
Slot(o) == -NewSlot(o, 8).k

SpillLval(o) ==
    IF o.v.kind # "LVAL" \/ o.v.reg = FP THEN o
    ELSE Spilled(o, "SPILL", IF o.v.off = 0 THEN <<Store("sd", o.v.reg, FP, Slot(o))>>
                             ELSE <<Addi(T3, o.v.reg, o.v.off), Store("sd", T3, FP, Slot(o))>>)
\* Mutant: a value of a narrow type is left where it is.
SpillIregWide(o) ==
    IF o.v.kind # "REG" \/ IsFloat(o.v.type) \/ Sizeof(o.v.type) < 8 THEN o
    ELSE Spilled(o, "SPILL_I", <<Store(StoreOp(o.v.type), o.v.reg, FP, Slot(o))>>)
SpillIreg(o) ==
    IF o.v.kind # "REG" \/ IsFloat(o.v.type) THEN o
    ELSE Spilled(o, "SPILL_I", <<Store(StoreOp(o.v.type), o.v.reg, FP, Slot(o))>>)
SpillFreg(o) ==
    IF o.v.kind # "REG" \/ ~IsFloat(o.v.type) THEN o
    ELSE Spilled(o, "SPILL_F", <<Store(FloatStore(o.v.type), o.v.reg, FP, Slot(o))>>)

\* The address of the lvalue lhs, in r.
AddressOf(o, lhs, r) ==
    IF lhs.kind \in {"SYM", "SPILL"} THEN Materialize(With(o, lhs), r) ELSE Emit(o, <<Addi(r, lhs.reg, lhs.off)>>)

-----------------------------------------------------------------------------
(* Operators.                                                              *)

Scale(t, r) == IF Sizeof(t) = 1 THEN <<>> ELSE <<Addi(T2, ZERO, Sizeof(t)), Op3("mul", r, r, T2)>>
\* How an operation is emitted on unsigned operands.
OpFor(op, unsigned) ==
    CASE op = "+" -> "add" [] op = "-" -> "sub" [] op = "*" -> "mul" [] op = "&" -> "and" [] op = "|" -> "or"
      [] op = "^" -> "xor" [] op = "<<" -> "sll" [] op = "/" -> (IF unsigned THEN "divu" ELSE "div")
      [] op = "%" -> (IF unsigned THEN "remu" ELSE "rem") [] op = ">>" -> (IF unsigned THEN "srl" ELSE "sra")
FloatOpFor(op) == CASE op = "+" -> "fadd" [] op = "-" -> "fsub" [] op = "*" -> "fmul" [] op = "/" -> "fdiv"
Arithmetic == {"+", "-", "*", "/"}
Comparisons == {"==", "!=", "<", ">", "<=", ">="}

\* A comparison of t0 with t1.
CompareInts(op, unsigned) ==
    LET less(a, b) == Op3(IF unsigned THEN "sltu" ELSE "slt", T0, a, b)
    IN  CASE op = "==" -> <<Op3("sub", T0, T0, T1), Seqz(T0)>>
          [] op = "!=" -> <<Op3("sub", T0, T0, T1), Snez(T0)>>
          [] op = "<" -> <<less(T0, T1)>>
          [] op = ">" -> <<less(T1, T0)>>
          [] op = "<=" -> <<less(T1, T0), Seqz(T0)>>
          [] op = ">=" -> <<less(T0, T1), Seqz(T0)>>
CompareFloats(op, t) ==
    LET swap == op \in {">", ">="}
        name == CASE op \in {"==", "!="} -> "feq" [] op \in {"<", ">"} -> "flt" [] OTHER -> "fle"
    IN  <<OpF(name, t, T0, IF swap THEN FT1 ELSE FT0, IF swap THEN FT0 ELSE FT1)>>
        \o (IF op = "!=" THEN <<Seqz(T0)>> ELSE <<>>)

\* The right operand is converted first: both conversions go through ft0.
FloatApply(o, op, t) ==
    CASE op \in Arithmetic -> Emit(o, <<OpF(FloatOpFor(op), t, FT0, FT0, FT1)>>)
      [] op \in Comparisons -> Typed(InReg(Emit(o, CompareFloats(op, t)), T0), <<"int">>)
      [] OTHER -> Err(o)
FloatBinary(o, op, lhs, t) ==
    FloatApply(Convert(With(Emit(Convert(o, t), <<OpF("fsgnj", t, FT1, FT0, FT0)>>), lhs), t), op, t)

\* Mutant: the left operand is loaded first.
LoadBothLeft(o, lhs) == [LoadValue(With(LoadValue(With(o, lhs), T0), o.v), T1) EXCEPT !.v = Reg(T0, lhs.type)]
\* "Load RHS first: every expression leaves its result in T0".
LoadBoth(o, lhs) == LoadValue(With(LoadValue(o, T1), lhs), T0)
IntBinary(o, op, lhs, rhs, common) ==
    LET both == LoadBoth(o, lhs)
        pointers == <<Kind(lhs.type) = "ptr", Kind(rhs.type) = "ptr">>
        left == pointers[1] /\ IsInteger(rhs.type) /\ op \in {"+", "-"}
        right == IsInteger(lhs.type) /\ pointers[2] /\ op = "+"
        t == IF left THEN lhs.type ELSE IF right THEN rhs.type ELSE common
        scale == IF left THEN Scale(Base(lhs.type), T1)
                 ELSE IF right THEN <<Addi(T2, ZERO, Sizeof(Base(rhs.type))), Op3("mul", T0, T0, T2)>>
                 ELSE <<>>
        unsigned == IF op = ">>" THEN IsUnsigned(lhs.type) ELSE IsUnsigned(t)
        apply == CASE op \in Comparisons -> CompareInts(op, unsigned)
                   [] op = "-" /\ pointers = <<TRUE, TRUE>> ->
                        <<Op3("sub", T0, T0, T1)>> \o
                        (IF Sizeof(Base(lhs.type)) = 1 THEN <<>>
                         ELSE <<Addi(T1, ZERO, Sizeof(Base(lhs.type))), Op3("div", T0, T0, T1)>>)
                   [] OTHER -> <<Op3(OpFor(op, unsigned), T0, T0, T1)>>
        result == CASE op \in Comparisons -> <<"int">>
                    [] op \in {"<<", ">>"} -> Promote(lhs.type)
                    [] op = "-" /\ pointers = <<TRUE, TRUE>> -> <<"long">>
                    [] OTHER -> t
    IN  Typed(InReg(Emit(both, scale \o apply \o Narrow(result)), T0), result)

\* The operator's part of parse_binop_rhs once both operands are parsed.
Apply(o, op, lhs, common) ==
    IF IsFloat(common) THEN FloatBinary(o, op, lhs, common) ELSE IntBinary(o, op, lhs, o.v, common)
Pointed(o) == IF Decays(o.v.type) THEN Typed(LoadValue(o, T0), Decay(o.v.type)) ELSE o
Binary(o, op, lhs) == Apply(Pointed(SpillLval(o)), op, lhs, Common(lhs.type, Decay(o.v.type)))

\* Copies an object of type t from the address in register from to the one in register to.
CopyBytes(t, from, to, off) ==
    FlattenSeq([i \in 1 .. Sizeof(t) |-> <<OpI("lbu", T1, from, i - 1), Store("sb", T1, to, off + i - 1)>>])

\* gen_store: the value of o goes to lhs, after op with what is there unless op is "".
FloatUpdate(o, lhs, op) ==
    IF op = "" THEN LoadFloat(o, FT0)
    ELSE LET both == LoadFloat(With(LoadFloat(With(o, lhs), FT1), o.v), FT0)
         IN  IF op \in Arithmetic THEN Emit(both, <<OpF(FloatOpFor(op), lhs.type, FT0, FT1, FT0)>>) ELSE Err(both)
IntUpdate(o, lhs, op) ==
    IF op = "" THEN o
    ELSE Emit(LoadValue(With(o, lhs), T1),
              (IF Kind(lhs.type) = "ptr" /\ op \in {"+", "-"}
               THEN <<Addi(T2, ZERO, Sizeof(Base(lhs.type))), Op3("mul", T0, T0, T2)>> ELSE <<>>)
              \o <<Op3(OpFor(op, IsUnsigned(lhs.type)), T0, T1, T0)>>)
GenStore(o, lhs, op) ==
    LET t == lhs.type
        rhs == IF IsFloat(t) \/ op = "" THEN Convert(o, t) ELSE o
    IN  CASE ~IsLvalue(lhs) -> Err(o)
          [] IsLvalue(lhs) /\ op = "" /\ Kind(t) = "pair" ->
                Emit(AddressOf(Materialize(o, T0), lhs, T2), CopyBytes(t, T0, T2, 0))
          [] OTHER -> LET r == IF IsFloat(t) THEN T0 ELSE T2
                          new == IF IsFloat(t) THEN FloatUpdate(rhs, lhs, op) ELSE IntUpdate(LoadValue(rhs, T0), lhs, op)
                      IN  Emit(AddressOf(new, lhs, r),
                               <<IF IsFloat(t) THEN Store(FloatStore(t), FT0, r, 0) ELSE Store(StoreOp(t), T0, r, 0)>>)

\* ++ and --, before or after the operand.
IncDec(o, op, pre) ==
    LET saved == SpillLval(o)
        t == o.v.type
        step == IF Kind(t) = "ptr" THEN Sizeof(Base(t)) ELSE 1
        new == Emit(LoadValue(saved, T0), <<Addi(T1, T0, IF op = "++" THEN step ELSE -step)>>)
        stored == Emit(AddressOf(new, saved.v, T2),
                       <<Store(StoreOp(t), T1, T2, 0)>> \o (IF pre THEN <<Addi(T0, T1, 0)>> ELSE <<>>))
    IN  IF IsLvalue(o.v) THEN With(stored, Reg(T0, t)) ELSE Err(o)

Unary(o, op) ==
    LET t == o.v.type
        p == Promote(t)
        operand == Convert(o, IF op = "!" THEN <<"bool">> ELSE p)
    IN  CASE op \in {"-", "+"} /\ IsFloat(t) ->
                 IF op = "+" THEN o ELSE Emit(LoadFloat(o, FT0), <<OpF("fneg", t, FT0, FT0, FT0)>>)
          [] op \in {"-", "~"} /\ ~(op = "-" /\ IsFloat(t)) ->
                 Convert(Emit(operand, <<IF op = "-" THEN Op3("sub", T0, ZERO, T0) ELSE OpI("xori", T0, T0, -1)>>), p)
          [] op = "+" /\ ~IsFloat(t) -> operand
          [] op = "!" -> Typed(Emit(operand, <<Seqz(T0)>>), <<"int">>)
          [] op = "*" -> With(LoadValue(o, T0), [Value("LVAL", Base(t)) EXCEPT !.reg = T0])
          [] op = "&" -> IF IsLvalue(o.v) THEN Typed(InReg(Materialize(o, T0), T0), <<"ptr">> \o t)
                         ELSE IF o.v.kind = "REG" /\ Kind(t) = "func" THEN Typed(o, <<"ptr">> \o t)
                         ELSE Err(o)
          [] op \in {"++", "--"} -> IncDec(o, op, TRUE)

-----------------------------------------------------------------------------
(* The parser.                                                             *)

Toks == prog.toks
Ret == prog.ret
Tok(i) == IF i <= Len(Toks) THEN Toks[i] ELSE [t |-> "eof", v |-> ""]
Cur == Tok(at)
Frame(k) == [k |-> k, op |-> "", lhs |-> Value("IMM", <<"int">>), prec |-> 0, min |-> 0, br |-> 0, br2 |-> 0, sym |-> -1,
             type |-> <<"void">>, slot |-> 0, args |-> <<>>]
Top == Last(stack)
Binop(min) == [Frame("binop") EXCEPT !.min = min]
Ternary == <<Frame("ternary"), Binop(0)>>
Assign == <<Frame("assign")>> \o Ternary
Expr == <<Frame("comma")>> \o Assign

OpPrec(tok) ==
    IF tok.t # "op" THEN 0
    ELSE CASE tok.v \in {"*", "/", "%"} -> 10 [] tok.v \in {"+", "-"} -> 9 [] tok.v \in {"<<", ">>"} -> 8
           [] tok.v \in {"<", ">", "<=", ">="} -> 7 [] tok.v \in {"==", "!="} -> 6 [] tok.v = "&" -> 5
           [] tok.v = "^" -> 4 [] tok.v = "|" -> 3 [] tok.v = "&&" -> 2 [] tok.v = "||" -> 1 [] OTHER -> 0

Parsing(what) == phase = "parse" /\ mode = what
Resumed(k) == Parsing("return") /\ stack # <<>> /\ Top.k = k
Eat(n) == at' = at + n
\* Mutant: a missing token is forgiven.
ExpectNothing(o, t) == o
\* parse_expect: a missing token is an error, and nothing is passed over.
Expect(o, t) == IF Cur.t = t THEN o ELSE Err(o)
EatIf(t) == at' = IF Cur.t = t THEN at + 1 ELSE at

Emits(o) == val' = o.v /\ code' = o.c /\ cur' = o.k /\ errors' = o.e
Calls(frames) == stack' = stack \o frames /\ mode' = "unary"
Becomes(frame, frames) == stack' = Append(Front(stack), frame) \o frames
Returns == stack' = Front(stack) /\ mode' = "return"

Init ==
    /\ phase = "parse" /\ at = 1
    /\ prog \in Programs
    /\ mode = "unary" /\ val = Value("IMM", <<"int">>) /\ stack = Expr
    /\ globals = Globals
    /\ code = <<>> /\ errors = FALSE
    /\ cur = Max({16} \cup {-Locals[i].off : i \in DOMAIN Locals})
    /\ m = [pc |-> 0, x |-> <<>>, f |-> <<>>, mem |-> <<>>]

-----------------------------------------------------------------------------
(* parse_unary and parse_primary.                                          *)

Prefix ==
    /\ Parsing("unary") /\ Cur.t = "op" /\ Cur.v \in {"-", "+", "!", "~", "*", "&", "++", "--"}
    /\ Eat(1) /\ Calls(<<[Frame("unary") EXCEPT !.op = Cur.v]>>)
    /\ UNCHANGED <<phase, prog, val, globals, code, cur, errors, m>>
UnaryDone ==
    /\ Resumed("unary")
    /\ Emits(Unary(Gen, Top.op)) /\ Returns
    /\ UNCHANGED <<phase, prog, at, globals, m>>

\* A number, of the type its suffix gives; parse_postfix is not for them.
Number ==
    /\ Parsing("unary") /\ Cur.t = "num"
    /\ val' = [Value("IMM", Cur.v.type) EXCEPT !.imm = IF IsFloat(Cur.v.type) THEN 0 ELSE Cur.v.n,
                                               !.fval = IF IsFloat(Cur.v.type) THEN Cur.v.n ELSE 0]
    /\ Eat(1) /\ mode' = "return"
    /\ UNCHANGED <<phase, prog, stack, globals, code, cur, errors, m>>

STRING_ADDRESS == 48            \* of the one string literal, in .rodata
StringLiteral ==
    /\ Parsing("unary") /\ Cur.t = "string"
    /\ Emits(Emit(With(Gen, Reg(T0, <<"array", "char">>)), <<Addi(T0, ZERO, STRING_ADDRESS)>>))
    /\ Eat(1) /\ mode' = "postfix"
    /\ UNCHANGED <<phase, prog, stack, globals, m>>

\* "(": a cast, or an expression in parentheses.
Cast ==
    /\ Parsing("unary") /\ Cur.t = "(" /\ Tok(at + 1).t = "type"
    /\ errors' = (errors \/ Tok(at + 2).t # ")") /\ Eat(IF Tok(at + 2).t = ")" THEN 3 ELSE 2)
    /\ Calls(<<[Frame("cast") EXCEPT !.type = Tok(at + 1).v]>>)
    /\ UNCHANGED <<phase, prog, val, globals, code, cur, m>>
CastDone ==
    /\ Resumed("cast")
    /\ Emits(Convert(Gen, Top.type)) /\ Returns
    /\ UNCHANGED <<phase, prog, at, globals, m>>
Paren ==
    /\ Parsing("unary") /\ Cur.t = "(" /\ Tok(at + 1).t # "type"
    /\ Eat(1) /\ Calls(<<Frame("paren")>> \o Expr)
    /\ UNCHANGED <<phase, prog, val, globals, code, cur, errors, m>>
ParenDone ==
    /\ Resumed("paren")
    /\ Emits(Expect(Gen, ")")) /\ EatIf(")")
    /\ stack' = Front(stack) /\ mode' = "postfix"
    /\ UNCHANGED <<phase, prog, globals, m>>

\* The code of the operand is emitted too.
AfterSizeof == IF Tok(at + 1).t = "(" THEN at + 2 ELSE at + 1
SizeofType ==
    /\ Parsing("unary") /\ Cur.t = "sizeof" /\ Tok(AfterSizeof).t = "type"
    /\ LET closed == Tok(AfterSizeof + 1).t = ")"
       IN  /\ errors' = (errors \/ AfterSizeof = at + 1 \/ ~closed)
           /\ at' = AfterSizeof + (IF closed THEN 2 ELSE 1)
    /\ val' = [Value("IMM", <<"ulong">>) EXCEPT !.imm = Sizeof(Tok(AfterSizeof).v)] /\ mode' = "return"
    /\ UNCHANGED <<phase, prog, stack, globals, code, cur, m>>
SizeofExpr ==
    /\ Parsing("unary") /\ Cur.t = "sizeof" /\ Tok(AfterSizeof).t # "type"
    /\ errors' = (errors \/ AfterSizeof = at + 1) /\ at' = AfterSizeof
    /\ Calls(<<Frame("sizeof")>> \o Expr)
    /\ UNCHANGED <<phase, prog, val, globals, code, cur, m>>
SizeofDone ==
    /\ Resumed("sizeof")
    /\ Emits(Expect(With(Gen, [Value("IMM", <<"ulong">>) EXCEPT !.imm = Sizeof(val.type)]), ")")) /\ EatIf(")")
    /\ Returns
    /\ UNCHANGED <<phase, prog, globals, m>>

\* Places of a name in the symbol tables, counted from 0; the latest local counts.
LocalIndex(name) == {i - 1 : i \in {j \in DOMAIN Locals : Locals[j].name = name}}
GlobalIndex(name) == {i - 1 : i \in {j \in DOMAIN globals : globals[j].name = name}}
Symbol(i, t) == [Value("SYM", t) EXCEPT !.sym = i]
PtrToFunc(t) == Kind(t) = "ptr" /\ Kind(Base(t)) = "func"

\* An identifier that is not called: a local is numbered after the globals.
Variable ==
    /\ Parsing("unary") /\ Cur.t = "id" /\ Tok(at + 1).t # "("
    /\ Eat(1) /\ mode' = "postfix"
    /\ LET l == LocalIndex(Cur.v)
           g == GlobalIndex(Cur.v)
       IN  IF l # {} THEN \E i \in l : val' = Symbol(Len(globals) + i, Locals[i + 1].type) /\ UNCHANGED errors
           ELSE IF g # {} THEN \E i \in g : /\ val' = IF globals[i + 1].kind = "enum"
                                                      THEN [Value("IMM", <<"int">>) EXCEPT !.imm = globals[i + 1].init]
                                                      ELSE Symbol(i, globals[i + 1].type)
                                            /\ UNCHANGED errors
           ELSE val' = Value("IMM", <<"int">>) /\ errors' = TRUE
    /\ UNCHANGED <<phase, prog, stack, globals, code, cur, m>>

\* Anything else is an error, and is not passed over.
NotAnExpression ==
    /\ Parsing("unary") /\ Cur.t \notin {"num", "string", "(", "sizeof", "id"}
    /\ ~(Cur.t = "op" /\ Cur.v \in {"-", "+", "!", "~", "*", "&", "++", "--"})
    /\ val' = Value("IMM", <<"int">>) /\ errors' = TRUE /\ mode' = "return"
    /\ UNCHANGED <<phase, prog, at, stack, globals, code, cur, m>>

-----------------------------------------------------------------------------
(* gen_call.                                                               *)

NoCallee == Value("NONE", <<"void">>)
Aggregate(sig) == Kind(Signatures[sig[1]].ret) = "pair"
\* A call of a function of type sig starts: room for a returned structure.
OpenCall(o, sym, sig, callee) ==
    LET p == IF Aggregate(sig) THEN [o EXCEPT !.k = Align16(@ + Sizeof(<<"pair">>))] ELSE o
    IN  /\ Emits(p)
        /\ stack' = Append(stack, [Frame("call") EXCEPT !.sym = sym, !.type = sig, !.lhs = callee, !.slot = -p.k])
        /\ mode' = "args"

\* A called identifier: a pointer to a function, a function, or one not declared.
CallNamed ==
    /\ Parsing("unary") /\ Cur.t = "id" /\ Tok(at + 1).t = "(" /\ Eat(2)
    /\ LET l == {i \in LocalIndex(Cur.v) : PtrToFunc(Locals[i + 1].type)}
           g == GlobalIndex(Cur.v)
       IN  CASE l # {} -> \E i \in l : /\ OpenCall(Gen, -1, Base(Locals[i + 1].type),
                                                   Symbol(Len(globals) + i, Locals[i + 1].type))
                                       /\ UNCHANGED globals
             [] l = {} /\ g # {} ->
                  \E i \in g : /\ IF PtrToFunc(globals[i + 1].type)
                                  THEN OpenCall(Gen, -1, Base(globals[i + 1].type), Symbol(i, globals[i + 1].type))
                                  ELSE OpenCall(Gen, i, globals[i + 1].type, NoCallee)
                               /\ UNCHANGED globals
             [] OTHER -> /\ globals' = Append(globals, [name |-> Cur.v, kind |-> "func", type |-> <<"implicit">>, init |-> 0])
                         /\ OpenCall(Gen, Len(globals), <<"implicit">>, NoCallee)
    /\ UNCHANGED <<phase, prog, m>>

\* Where the arguments go, fp saying which are floating point: a register of their
\* bank while there are any, then the stack.  The callee counts in the same way.
Bank(fp, first, i) == Cardinality({j \in 1 .. i - 1 : fp[j] = fp[i]}) + (IF fp[i] THEN 0 ELSE first)
OnStack(fp, first, i) == Bank(fp, first, i) >= ARG_REGS
StackPlace(fp, first, i) == 8 * Cardinality({j \in 1 .. i - 1 : OnStack(fp, first, j)})

\* The arguments are loaded from their slots and the function is called.
FinishCall(o, call) ==
    LET fp == [i \in DOMAIN call.args |-> call.args[i].fp]
        first == IF Aggregate(call.type) THEN 1 ELSE 0
        bytes == Align16(8 * Cardinality({i \in DOMAIN fp : OnStack(fp, first, i)}))
        load(i) == LET slot == call.args[i].slot
                   IN  CASE OnStack(fp, first, i) -> <<OpI("ld", T0, FP, slot), Store("sd", T0, SP, StackPlace(fp, first, i))>>
                         [] OTHER -> <<OpI(IF fp[i] THEN "fld" ELSE "ld", A0 + Bank(fp, first, i), FP, slot)>>
        ready == Emit(o, (IF bytes = 0 THEN <<>> ELSE <<Addi(SP, SP, -bytes)>>)
                         \o (IF first = 1 THEN <<Addi(A0, FP, call.slot)>> ELSE <<>>)
                         \o FlattenSeq([i \in DOMAIN fp |-> load(i)]))
        called == IF call.lhs.kind # "NONE"
                  THEN Emit(LoadValue(With(ready, call.lhs), T5), <<OpI("jalr", 1, T5, 0)>>)
                  ELSE Emit(ready, <<La(T0, call.sym, 0), OpI("jalr", 1, T0, 0)>>)
        back == Emit(called, (IF bytes = 0 THEN <<>> ELSE <<Addi(SP, SP, bytes)>>)
                             \o (IF first = 1 THEN <<Addi(T0, FP, call.slot)>> ELSE <<>>))
    IN  With(back, Reg(IF first = 1 THEN T0 ELSE A0, Signatures[call.type[1]].ret))

\* An argument is converted and saved in a slot; a structure is copied, and its address saved.
KeepArg(o, slot) ==
    CASE IsFloat(o.v.type) -> Emit(LoadFloat(o, FT0), <<Store("fsd", FT0, FP, slot)>>)
      [] Kind(o.v.type) = "pair" ->
            LET q == NewSlot(o, Sizeof(o.v.type))
            IN  Emit(Materialize(q, T0), CopyBytes(o.v.type, T0, FP, -q.k)
                                         \o <<Addi(T0, FP, -q.k), Store("sd", T0, FP, slot)>>)
      [] OTHER -> Emit(LoadValue(o, T0), <<Store("sd", T0, FP, slot)>>)
SaveArg(o, call) ==
    LET n == Len(call.args) + 1
        params == Signatures[call.type[1]].params
        arg == IF n <= Len(params) \/ Kind(o.v.type) = "float"
               THEN Convert(o, IF n <= Len(params) THEN params[n] ELSE <<"double">>) ELSE o
    IN  IF n > CC_MAX_FUNC_PARAMS THEN Err(arg) ELSE KeepArg(NewSlot(arg, 8), Slot(o))
WithArg(o, call) ==
    IF Len(call.args) >= CC_MAX_FUNC_PARAMS THEN call
    ELSE [call EXCEPT !.args = Append(@, [fp |-> IsFloat(o.v.type), slot |-> -NewSlot(Gen, 8).k])]

NoArgs ==
    /\ Parsing("args") /\ Cur.t = ")"
    /\ Emits(FinishCall(Gen, Top)) /\ Eat(1)
    /\ stack' = Front(stack) /\ mode' = "postfix"
    /\ UNCHANGED <<phase, prog, globals, m>>
FirstArg ==
    /\ Parsing("args") /\ Cur.t # ")"
    /\ Calls(Assign)
    /\ UNCHANGED <<phase, prog, at, val, globals, code, cur, errors, m>>
ArgDone ==
    /\ Resumed("call")
    /\ \E o \in {SaveArg(Gen, Top)} :
          IF Cur.t = ","
          THEN Emits(o) /\ Becomes(WithArg(o, Top), Assign) /\ mode' = "unary"
          ELSE Emits(Expect(FinishCall(o, WithArg(o, Top)), ")")) /\ stack' = Front(stack) /\ mode' = "postfix"
    /\ at' = IF Cur.t \in {",", ")"} THEN at + 1 ELSE at
    /\ UNCHANGED <<phase, prog, globals, m>>

-----------------------------------------------------------------------------
(* parse_postfix.                                                          *)

IndexOpen ==
    /\ Parsing("postfix") /\ Cur.t = "["
    /\ \E o \in {SpillIreg(SpillLval(Gen))} :
          Emits(o) /\ stack' = stack \o <<[Frame("index") EXCEPT !.lhs = o.v]>> \o Expr
    /\ Eat(1) /\ mode' = "unary"
    /\ UNCHANGED <<phase, prog, globals, m>>
\* The pointer, or the address of the array.
LoadPointer(o) ==
    LET place == Materialize(o, T0)
    IN  IF o.v.kind = "SPILL_I" THEN LoadValue(o, T0)
        ELSE IF place.v.kind # "LVAL" \/ Decays(o.v.type) THEN place
        ELSE InReg(Emit(place, <<OpI("ld", T0, T0, place.v.off)>>), T0)
IndexDone ==
    /\ Resumed("index")
    /\ LET v == Top.lhs
       IN  Emits(With(Emit(LoadPointer(With(LoadValue(Expect(Gen, "]"), T1), v)),
                           Scale(Base(v.type), T1) \o <<Op3("add", T0, T0, T1)>>),
                      [Value("LVAL", Base(v.type)) EXCEPT !.reg = T0]))
    /\ EatIf("]")
    /\ stack' = Front(stack) /\ mode' = "postfix"
    /\ UNCHANGED <<phase, prog, globals, m>>

\* "." and "->", of struct pair.
Member ==
    /\ Parsing("postfix") /\ Cur.t \in {".", "->"}
    /\ LET t == IF Cur.t = "->" THEN Base(val.type) ELSE val.type
           name == Tok(at + 1)
           place == Fields[name.v].off
       IN  IF name.t # "id" \/ t # <<"pair">> \/ name.v \notin DOMAIN Fields
           THEN /\ errors' = TRUE /\ Eat(IF name.t = "id" THEN 2 ELSE 1) /\ mode' = "return"
                /\ UNCHANGED <<val, code, cur>>
           ELSE /\ Emits(Typed(IF Cur.t = "->" THEN At(LoadValue(Gen, T0), T0, place)
                               ELSE LET o == IF val.kind = "SYM" THEN Materialize(Gen, T0) ELSE Gen
                                    IN  At(o, o.v.reg, o.v.off + place),
                               Fields[name.v].type))
                /\ Eat(2) /\ UNCHANGED mode
    /\ UNCHANGED <<phase, prog, stack, globals, m>>

\* A call of what an expression denotes; the callee is kept while the arguments are parsed.
CallValue ==
    /\ Parsing("postfix") /\ Cur.t = "("
    /\ LET sig == IF PtrToFunc(val.type) THEN Base(val.type) ELSE val.type
       IN  IF Kind(sig) = "func"
           THEN Eat(1) /\ \E o \in {SpillIreg(SpillLval(Gen))} : OpenCall(o, -1, sig, o.v)
           ELSE errors' = TRUE /\ mode' = "return" /\ UNCHANGED <<at, val, stack, code, cur>>
    /\ UNCHANGED <<phase, prog, globals, m>>
PostIncDec ==
    /\ Parsing("postfix") /\ Cur.t = "op" /\ Cur.v \in {"++", "--"}
    /\ Emits(IncDec(Gen, Cur.v, FALSE)) /\ Eat(1)
    /\ mode' = IF IsLvalue(val) THEN "postfix" ELSE "return"
    /\ UNCHANGED <<phase, prog, stack, globals, m>>
PostfixEnd ==
    /\ Parsing("postfix") /\ Cur.t \notin {"[", ".", "->", "("} /\ ~(Cur.t = "op" /\ Cur.v \in {"++", "--"})
    /\ mode' = "return"
    /\ UNCHANGED <<phase, prog, at, val, stack, globals, code, cur, errors, m>>

-----------------------------------------------------------------------------
(* parse_binop_rhs, by precedence.                                         *)

\* An operator that binds tightly enough: what is left of it is saved.
Operator ==
    /\ Resumed("binop") /\ OpPrec(Cur) > 0 /\ OpPrec(Cur) >= Top.min
    /\ LET logical == Cur.v \in {"&&", "||"}
       IN  \E o \in {IF logical
                     THEN Emit(LoadValue(Pointed(Gen), T0),
                               <<[Op3(IF Cur.v = "&&" THEN "beq" ELSE "bne", 0, T0, ZERO) EXCEPT !.n = 0]>>)
                     ELSE SpillIreg(SpillFreg(SpillLval(Pointed(Gen))))} :
           /\ Emits(o)
           /\ stack' = Append(stack, [Frame(IF logical THEN "logical" ELSE "operator") EXCEPT
                                         !.op = Cur.v, !.prec = OpPrec(Cur), !.lhs = o.v, !.br = IF logical THEN Len(o.c) - 1 ELSE 0])
    /\ Eat(1) /\ mode' = "unary"
    /\ UNCHANGED <<phase, prog, globals, m>>
\* Operators that bind more tightly take the operand first.
Tighter ==
    /\ Parsing("return") /\ stack # <<>> /\ Top.k \in {"operator", "logical"} /\ OpPrec(Cur) > Top.prec
    /\ stack' = Append(stack, Binop(Top.prec + 1))
    /\ UNCHANGED <<phase, prog, at, mode, val, globals, code, cur, errors, m>>
OperatorDone ==
    /\ Resumed("operator") /\ OpPrec(Cur) <= Top.prec
    /\ Emits(Binary(Gen, Top.op, Top.lhs)) /\ Returns
    /\ UNCHANGED <<phase, prog, at, globals, m>>
BinopEnd ==
    /\ Resumed("binop") /\ ~(OpPrec(Cur) > 0 /\ OpPrec(Cur) >= Top.min)
    /\ Returns
    /\ UNCHANGED <<phase, prog, at, val, globals, code, cur, errors, m>>

PatchTo(c, i, target) == [c EXCEPT ![i + 1].n = target - i]
\* The right operand of && or || as 0 or 1, jumped over when the left one decides.
LogicalDone ==
    /\ Resumed("logical") /\ OpPrec(Cur) <= Top.prec
    /\ \E o \in {Emit(LoadValue(Gen, T0), <<Snez(T0), OpI("jal", 0, 0, 2),
                                            Addi(T0, ZERO, IF Top.op = "&&" THEN 0 ELSE 1)>>)} :
           Emits([With(o, [Top.lhs EXCEPT !.kind = "REG", !.reg = T0, !.type = <<"int">>])
                     EXCEPT !.c = PatchTo(@, Top.br, Len(o.c) - 1)])
    /\ Returns
    /\ UNCHANGED <<phase, prog, at, globals, m>>

-----------------------------------------------------------------------------
(* parse_ternary, parse_assign, parse_expr.                                *)

Question ==
    /\ Resumed("ternary") /\ Cur.t = "?" /\ Eat(1)
    /\ \E o \in {Emit(Convert(Gen, <<"bool">>), <<[Op3("bne", 0, T0, ZERO) EXCEPT !.n = 2], OpI("jal", 0, 0, 0)>>)} :
          Emits(o) /\ Becomes([Frame("then") EXCEPT !.br = Len(o.c) - 1], Expr)
    /\ mode' = "unary"
    /\ UNCHANGED <<phase, prog, globals, m>>
TernaryEnd ==
    /\ Resumed("ternary") /\ Cur.t # "?"
    /\ Returns
    /\ UNCHANGED <<phase, prog, at, val, globals, code, cur, errors, m>>
\* The value between ? and : is kept in a slot: its conversion comes last.
ThenDone ==
    /\ Resumed("then") /\ EatIf(":")
    /\ LET aggregate == Kind(val.type) = "pair"
           kept == IF IsFloat(val.type) THEN SpillFreg(LoadFloat(Gen, FT0))
                   ELSE IF aggregate THEN Typed(SpillIreg(Typed(InReg(Materialize(Gen, T0), T0), <<"ptr", "pair">>)), val.type)
                   ELSE SpillIreg(InReg(LoadValue(Gen, T0), T0))
       IN  \E o \in {Emit(kept, <<OpI("jal", 0, 0, 0)>>)} :
           /\ Emits(Expect([o EXCEPT !.c = PatchTo(@, Top.br, Len(o.c))], ":"))
           /\ Becomes([Frame("else") EXCEPT !.lhs = o.v, !.br = Len(o.c) - 1], Ternary)
    /\ mode' = "unary"
    /\ UNCHANGED <<phase, prog, globals, m>>
ElseDone ==
    /\ Resumed("else")
    /\ LET then == Top.lhs
           aggregate == Kind(then.type) = "pair"
           common == CASE aggregate \/ Kind(then.type) = "void" -> then.type
                       [] Kind(then.type) = "array" -> Decay(then.type)
                       [] Kind(then.type) # "array" /\ Kind(val.type) = "array" -> Decay(val.type)
                       [] OTHER -> IF Kind(then.type) = "ptr" THEN then.type
                                   ELSE IF Kind(val.type) = "ptr" THEN val.type ELSE Common(then.type, val.type)
       IN  \E t \in {common} :
           \E no \in {Emit(IF aggregate THEN Materialize(Gen, T0) ELSE Convert(Gen, t), <<OpI("jal", 0, 0, 0)>>)} :
           LET at2 == [no EXCEPT !.c = PatchTo(@, Top.br, Len(no.c))]
           IN  \E yes \in {IF aggregate THEN Emit(at2, <<OpI("ld", T0, FP, then.off)>>) ELSE Convert(With(at2, then), t)} :
               Emits([With(yes, [then EXCEPT !.kind = "REG", !.type = t, !.off = 0, !.reg = IF IsFloat(t) THEN FT0 ELSE T0])
                         EXCEPT !.c = PatchTo(@, Len(no.c) - 1, Len(yes.c))])
    /\ Returns
    /\ UNCHANGED <<phase, prog, at, globals, m>>

AssignOpen ==
    /\ Resumed("assign") /\ Cur.t = "asg" /\ Eat(1)
    /\ \E o \in {SpillLval(Gen)} :
          Emits(o) /\ Becomes([Frame("store") EXCEPT !.op = Cur.v, !.lhs = o.v], Assign)
    /\ mode' = "unary"
    /\ UNCHANGED <<phase, prog, globals, m>>
AssignEnd ==
    /\ Resumed("assign") /\ Cur.t # "asg"
    /\ Returns
    /\ UNCHANGED <<phase, prog, at, val, globals, code, cur, errors, m>>
StoreDone ==
    /\ Resumed("store")
    /\ Emits(With(GenStore(Gen, Top.lhs, Top.op), [Top.lhs EXCEPT !.kind = "REG", !.reg = T0, !.off = 0])) /\ Returns
    /\ UNCHANGED <<phase, prog, at, globals, m>>

Comma ==
    /\ Resumed("comma") /\ Cur.t = ","
    /\ Eat(1) /\ Calls(Assign)
    /\ UNCHANGED <<phase, prog, val, globals, code, cur, errors, m>>
CommaEnd ==
    /\ Resumed("comma") /\ Cur.t # ","
    /\ Returns
    /\ UNCHANGED <<phase, prog, at, val, globals, code, cur, errors, m>>

-----------------------------------------------------------------------------
(* The return statement around the expression, and the program's run.      *)

FRAME == 1024                   \* the frame pointer of the function
SYMBOLS == 256                  \* where the linker puts the first symbol, 16 bytes each
Address(i) == SYMBOLS + 16 * i
JUNK == 77                      \* in registers that hold nothing
SAVED == <<55, 66>>             \* the caller's fp and ra, saved at the bottom of the frame

\* Mutant: no room for the saved registers.
StackTopTight(k) == FRAME - Align16(k)
\* The frame holds the slots and, below them, the saved registers.
StackTop(k) == FRAME - (Align16(k) + 16)

\* The scalars an object of type t is made of.
Cells(t) ==
    CASE Kind(t) = "array" -> [i \in 1 .. ARRAY_LENGTH |-> [off |-> (i - 1) * Sizeof(Base(t)), type |-> Base(t)]]
      [] Kind(t) = "pair" -> <<Fields.a, Fields.b>>
      [] OTHER -> <<[off |-> 0, type |-> t]>>
Bits(t, n) == IF IsFloat(t) THEN Enc(Fmt(t), n) ELSE n
InitObject(mem, addr, t, init) ==
    LET put[i \in 0 .. Len(init)] ==
            IF i = 0 THEN mem
            ELSE LET c == Cells(t)[i] IN MemWrite(put[i - 1], addr + c.off, Bits(c.type, init[i]), Sizeof(c.type))
    IN  put[Len(init)]
Objects == [i \in DOMAIN Locals |-> [addr |-> FRAME + Locals[i].off, type |-> Locals[i].type, init |-> Locals[i].init]]
           \o [i \in DOMAIN Globals |-> [addr |-> Address(i - 1), type |-> Globals[i].type,
                                         init |-> IF Globals[i].kind = "var" THEN Globals[i].init ELSE <<>>]]
           \o <<[addr |-> STRING_ADDRESS, type |-> <<"array", "char">>, init |-> <<1, 0>>]>>
Loaded ==
    LET load[i \in 0 .. Len(Objects)] ==
            IF i = 0 THEN <<>> ELSE InitObject(load[i - 1], Objects[i].addr, Objects[i].type, Objects[i].init)
    IN  load[Len(Objects)]

EndExpr ==
    /\ Parsing("return") /\ stack = <<>>
    /\ \E o \in {Convert(Gen, Ret)} :
          Emits(Expect(IF IsFloat(o.v.type) THEN LoadFloat(o, FA0) ELSE LoadValue(o, A0), ";"))
    /\ EatIf(";")
    /\ phase' = IF errors' THEN "rejected" ELSE "run"
    /\ LET sp == StackTop(cur')
       IN  m' = [pc |-> 0, x |-> [r \in 0 .. 31 |-> CASE r = ZERO -> 0 [] r = SP -> sp [] r = FP -> FRAME [] OTHER -> JUNK],
                 f |-> [r \in 0 .. 31 |-> JUNK],
                 mem |-> MemWrite(MemWrite(Loaded, sp, SAVED[1], 8), sp + 8, SAVED[2], 8)]
    /\ UNCHANGED <<prog, mode, stack, globals>>

Here == code[m.pc + 1]
Running == phase = "run" /\ m.pc < Len(code)
RunStep ==
    /\ Running /\ Here.op \notin {"la", "flc", "jalr"}
    /\ m' = Step(m, Here)
    /\ UNCHANGED <<phase, parser>>
RunAddress ==
    /\ Running /\ Here.op = "la"
    /\ m' = SetX(m, Here.d, Address(Here.n) + Here.b)
    /\ UNCHANGED <<phase, parser>>
\* materialize_float_const: t0 gets an address in .rodata, and the constant is loaded from it.
RunConstant ==
    /\ Running /\ Here.op = "flc"
    /\ m' = SetF([m EXCEPT !.x[T0] = STRING_ADDRESS], Here.d, Enc(Here.fmt, Here.n))
    /\ UNCHANGED <<phase, parser>>

\* A function stores its parameters where its own type says they are ...
Parameter(sig, i) ==
    LET t == sig.params[i]
        fp == [j \in DOMAIN sig.params |-> IsFloat(sig.params[j])]
        first == IF Kind(sig.ret) = "pair" THEN 1 ELSE 0
        raw == IF OnStack(fp, first, i) THEN MemRead(m.mem, m.x[SP] + StackPlace(fp, first, i), 8)
               ELSE IF fp[i] THEN m.f[FA0 + Bank(fp, first, i)] ELSE m.x[A0 + Bank(fp, first, i)]
    IN  CASE fp[i] -> Dec(Fmt(t), raw)
          [] Kind(t) = "pair" -> Sx(MemRead(m.mem, raw, 1), BYTE) + Sx(MemRead(m.mem, raw + 4, 4), 4 * BYTE)
          [] OTHER -> IF IsUnsigned(t) THEN Ux(raw, BYTE * Sizeof(t)) ELSE Sx(raw, BYTE * Sizeof(t))
\* ... and gives a number that tells its arguments and their order apart.
Answer(sig, args) == 1 + MapThenSumSet(LAMBDA i : i * args[i], DOMAIN args)
InType(t, n) == IF IsUnsigned(t) THEN Ux(n, BYTE * Sizeof(t)) ELSE IF IsInteger(t) THEN Sx(n, BYTE * Sizeof(t)) ELSE n
\* It may change every register but sp and fp, and what is below sp.
RunCall ==
    /\ Running /\ Here.op = "jalr"
    /\ LET called == {i \in DOMAIN globals : globals[i].kind = "func" /\ Address(i - 1) = m.x[Here.a]}
       IN  \/ \E i \in called :
                LET sig == Signatures[Functions_[globals[i].name]]
                    r == Answer(sig, [j \in DOMAIN sig.params |-> Parameter(sig, j)])
                    scratch == MemWrite(m.mem, m.x[SP] - 8, -1, 8)
                IN  /\ m' = [pc |-> m.pc + 1,
                             x |-> [q \in 0 .. 31 |->
                                       CASE q \in {ZERO, SP, FP} -> m.x[q]
                                         [] q = A0 /\ IsInteger(sig.ret) -> InType(sig.ret, r)
                                         [] q = A0 /\ Kind(sig.ret) = "pair" -> m.x[A0]
                                         [] OTHER -> JUNK + 1],
                             f |-> [q \in 0 .. 31 |-> IF q = FA0 /\ IsFloat(sig.ret) THEN Enc(Fmt(sig.ret), r) ELSE JUNK + 1],
                             mem |-> IF Kind(sig.ret) = "pair"
                                     THEN InitObject(scratch, m.x[A0], <<"pair">>, <<r, r + 1>>) ELSE scratch]
                    /\ UNCHANGED phase
           \/ called = {} /\ phase' = "crashed" /\ UNCHANGED m
    /\ UNCHANGED parser
RunEnd ==
    /\ phase = "run" /\ m.pc >= Len(code)
    /\ phase' = "done"
    /\ UNCHANGED <<parser, m>>
\* The end, so that a state where nothing can happen is a deadlock.
Stopped == phase \in {"done", "rejected", "crashed"} /\ UNCHANGED vars
\* What the function returns.
Result == IF IsFloat(Ret) THEN Dec(Fmt(Ret), m.f[FA0]) ELSE m.x[A0]

Next ==
    \/ Prefix \/ UnaryDone \/ Number \/ StringLiteral \/ Cast \/ CastDone \/ Paren \/ ParenDone
    \/ SizeofType \/ SizeofExpr \/ SizeofDone \/ Variable \/ NotAnExpression
    \/ CallNamed \/ NoArgs \/ FirstArg \/ ArgDone
    \/ IndexOpen \/ IndexDone \/ Member \/ CallValue \/ PostIncDec \/ PostfixEnd
    \/ Operator \/ Tighter \/ OperatorDone \/ BinopEnd \/ LogicalDone
    \/ Question \/ TernaryEnd \/ ThenDone \/ ElseDone \/ AssignOpen \/ AssignEnd \/ StoreDone \/ Comma \/ CommaEnd
    \/ EndExpr \/ RunStep \/ RunAddress \/ RunConstant \/ RunCall \/ RunEnd \/ Stopped
Spec == Init /\ [][Next]_vars

-----------------------------------------------------------------------------
(* Properties.                                                             *)

\* A value waiting for the parser to return: an operand, a target, a callee, or an argument.
Waiting(f) == f.k \in {"operator", "index", "store", "else", "call"}
SlotsOf(f) == (IF Waiting(f) /\ f.lhs.kind \in {"SPILL", "SPILL_I", "SPILL_F"} THEN {f.lhs.off} ELSE {})
              \cup {f.args[i].slot : i \in DOMAIN f.args}
              \cup (IF f.k = "call" /\ Aggregate(f.type) THEN {f.slot} ELSE {})

\* "The codegen has no register allocator: every expression uses the T0-T2 scratch
\* set": nothing that waits for another operand to be parsed is in a register, but
\* what is no lvalue at all and will be refused as the target of an assignment; and no
\* two values that wait share a slot, nor is one where a local variable is: a nested
\* call or operand cannot overwrite what an outer one has saved.
OperandsSafe ==
    /\ \A i \in DOMAIN stack :
        Waiting(stack[i]) => \/ stack[i].lhs.kind \in {"IMM", "SYM", "SPILL", "SPILL_I", "SPILL_F", "NONE"}
                             \/ stack[i].k = "store" /\ stack[i].lhs.kind = "REG"
    /\ \A i, j \in DOMAIN stack : i # j => SlotsOf(stack[i]) \cap SlotsOf(stack[j]) = {}
    /\ \A i \in DOMAIN stack : \A s \in SlotsOf(stack[i]) : -s <= cur /\ \A l \in DOMAIN Locals : s + 8 <= Locals[l].off

\* "Patch prologue and epilogues with the real frame size": the saved fp and ra at the
\* bottom of the frame are never overwritten, and sp is where it was at the end,
\* whatever was spilled and however many arguments went on the stack.
FrameKept ==
    phase \in {"run", "done"} =>
        /\ MemRead(m.mem, StackTop(cur), 8) = SAVED[1] /\ MemRead(m.mem, StackTop(cur) + 8, 8) = SAVED[2]
        /\ m.x[FP] = FRAME /\ m.x[SP] <= StackTop(cur)
        /\ phase = "done" => m.x[SP] = StackTop(cur)

=============================================================================
