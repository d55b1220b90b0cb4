---------------------------- MODULE ExprMeaning -----------------------------
(***************************************************************************)
(* What the expressions of Expressions mean in C: an evaluator of syntax   *)
(* trees over the bytes of memory, and the text of a tree with only the    *)
(* parentheses it needs.  The compiler sees the text alone.                *)
(*                                                                         *)
(* An evaluation is [v, t, a, mem, ok]: the value, its type, the address   *)
(* of what the expression designates (NONE when it designates nothing),    *)
(* the memory after it, and whether C defines all that.                    *)
(***************************************************************************)
EXTENDS Expressions

NONE == -1

-----------------------------------------------------------------------------
(* Text.                                                                   *)

T(t) == [t |-> t, v |-> ""]
Op(v) == [t |-> "op", v |-> v]
Level(e) ==
    CASE e.n = "comma" -> 1 [] e.n = "asg" -> 2 [] e.n = "cond" -> 3 [] e.n = "bin" -> 3 + OpPrec(Op(e.op))
      [] e.n \in {"un", "cast", "sizeof"} -> 14 [] e.n \in {"post", "idx", "mem", "call"} -> 15 [] OTHER -> 16
RECURSIVE Text(_, _)
Text(e, min) ==
    LET list == [i \in DOMAIN e.args |-> (IF i = 1 THEN <<>> ELSE <<T(",")>>) \o Text(e.args[i], 2)]
        text == CASE e.n = "num" -> <<[t |-> "num", v |-> [type |-> e.t, n |-> e.v]]>>
                  [] e.n = "str" -> <<T("string")>>
                  [] e.n = "var" -> <<[t |-> "id", v |-> e.op]>>
                  [] e.n = "un" -> <<Op(e.op)>> \o Text(e.l, 14)
                  [] e.n = "post" -> Append(Text(e.l, 15), Op(e.op))
                  [] e.n = "bin" -> Text(e.l, Level(e)) \o <<Op(e.op)>> \o Text(e.r, Level(e) + 1)
                  [] e.n = "asg" -> Text(e.l, 14) \o <<[t |-> "asg", v |-> e.op]>> \o Text(e.r, 2)
                  [] e.n = "comma" -> Text(e.l, 1) \o <<T(",")>> \o Text(e.r, 2)
                  [] e.n = "cond" -> Text(e.args[1], 4) \o <<T("?")>> \o Text(e.l, 1) \o <<T(":")>> \o Text(e.r, 3)
                  [] e.n = "cast" -> <<T("("), [t |-> "type", v |-> e.t], T(")")>> \o Text(e.l, 14)
                  [] e.n = "sizeof" -> <<T("sizeof"), T("(")>> \o Text(e.l, 1) \o <<T(")")>>
                  [] e.n = "idx" -> Text(e.l, 15) \o <<T("[")>> \o Text(e.r, 1) \o <<T("]")>>
                  [] e.n = "mem" -> Text(e.l, 15) \o <<T(e.op), [t |-> "id", v |-> e.t[1]]>>
                  [] e.n = "call" -> Text(e.l, 15) \o <<T("(")>> \o FlattenSeq(list) \o <<T(")")>>
    IN  IF Level(e) < min THEN <<T("(")>> \o text \o <<T(")")>> ELSE text

-----------------------------------------------------------------------------
(* Values.                                                                 *)

\* Arithmetic types by rank: the operands of int and unsigned int meet in unsigned int.
Real(s, t) ==
    LET a == Promote(s)
        b == Promote(t)
        kinds == {Kind(a), Kind(b)}
    IN  CHOOSE c \in {<<"double">>, <<"float">>, <<"ulong">>, <<"long">>, <<"uint">>, <<"int">>} :
            /\ Kind(c) \in kinds
            /\ \A k \in kinds : Kind(c) \in CASE k = "double" -> {"double"} [] k = "float" -> {"double", "float"}
                                              [] k = "ulong" -> {"double", "float", "ulong"}
                                              [] k = "long" -> {"double", "float", "ulong", "long"}
                                              [] k = "uint" -> {"double", "float", "ulong", "long", "uint"}
                                              [] OTHER -> {"double", "float", "ulong", "long", "uint", "int"}
\* What an object of type t can hold, and the number n made one of them.
Holds(t, n) ==
    IF Kind(t) = "pair" THEN TRUE
    ELSE LET bits == BYTE * Sizeof(t) IN IF IsUnsigned(t) THEN n \in 0 .. 2^bits - 1 ELSE n \in -2^(bits - 1) .. 2^(bits - 1) - 1
To(t, n) == IF Kind(t) = "bool" THEN (IF n = 0 THEN 0 ELSE 1) ELSE IF IsInteger(t) THEN InType(t, n) ELSE n
\* A conversion from s to t of n is defined: from a float when the target holds it.
Converts(t, s, n) == IF Kind(t) = "bool" THEN TRUE ELSE IF IsFloat(s) \/ IsFloat(t) THEN Holds(t, n) ELSE TRUE

Load(mem, t, a) ==
    CASE IsFloat(t) -> Dec(Fmt(t), MemRead(mem, a, Sizeof(t)))
      [] IsInteger(t) -> InType(t, MemRead(mem, a, Sizeof(t)))
      [] Kind(t) = "ptr" -> Word(MemRead(mem, a, 8))
      [] Kind(t) = "pair" -> <<InType(<<"char">>, MemRead(mem, a, 1)), InType(<<"int">>, MemRead(mem, a + 4, 4))>>
      [] OTHER -> a
Stored(mem, t, a, v) ==
    IF Kind(t) = "pair" THEN InitObject(mem, a, t, v) ELSE MemWrite(mem, a, Bits(t, v), Sizeof(t))

Rval(v, t, mem, ok) == [v |-> v, t |-> t, a |-> NONE, mem |-> mem, ok |-> ok]
Lval(t, a, mem, ok) == [v |-> Load(mem, t, a), t |-> t, a |-> a, mem |-> mem, ok |-> ok]
Decayed(r) == IF Decays(r.t) THEN Rval(r.a, Decay(r.t), r.mem, r.ok) ELSE r
Convertd(r, t) == Rval(To(t, r.v), t, r.mem, r.ok /\ Converts(t, r.t, r.v))
Arith(op, a, b) ==
    CASE op = "+" -> a + b [] op = "-" -> a - b [] op = "*" -> a * b [] op = "/" -> Quot(a, b) [] op = "%" -> a - b * Quot(a, b)
      [] op = "&" -> OfBits(BitsOf(a) \cap BitsOf(b)) [] op = "|" -> OfBits(BitsOf(a) \cup BitsOf(b))
      [] op = "^" -> OfBits((BitsOf(a) \cup BitsOf(b)) \ (BitsOf(a) \cap BitsOf(b)))
      [] op = "<<" -> a * 2^b [] op = ">>" -> a \div 2^b
Compared(op, a, b) ==
    CASE op = "==" -> a = b [] op = "!=" -> a # b [] op = "<" -> a < b [] op = ">" -> a > b [] op = "<=" -> a <= b [] op = ">=" -> a >= b
Truth(b) == IF b THEN 1 ELSE 0

\* x op y of type c, when C defines it.
Checked(c, n, mem, ok) ==
    Rval(IF IsUnsigned(c) THEN To(c, n) ELSE n, c, mem, ok /\ (IsUnsigned(c) \/ Holds(c, n)))
Calculate(op, c, x, y, mem, ok) ==
    IF /\ op \in {"/", "%"} => y # 0
       /\ op \in {"<<", ">>"} => y \in 0 .. BYTE * Sizeof(c) - 1
       /\ op = "<<" => IsUnsigned(c) \/ x >= 0
    THEN Checked(c, Arith(op, x, y), mem, ok)
    ELSE Rval(0, c, mem, FALSE)
Relate(op, x, y, mem, ok) == Rval(Truth(Compared(op, x, y)), <<"int">>, mem, ok)
\* l op r once both are evaluated, in the type c.
OperateIn(op, l, r, c, mem, ok) ==
    CASE op \in Comparisons -> IF "ptr" \in {Kind(l.t), Kind(r.t)} THEN Relate(op, l.v, r.v, mem, ok)
                               ELSE Relate(op, To(c, l.v), To(c, r.v), mem, ok)
      [] op \in {"+", "-"} /\ Kind(l.t) = "ptr" /\ IsInteger(r.t) ->
            Rval(IF op = "+" THEN l.v + r.v * Sizeof(Base(l.t)) ELSE l.v - r.v * Sizeof(Base(l.t)), l.t, mem, ok)
      [] op = "+" /\ Kind(r.t) = "ptr" -> Rval(r.v + l.v * Sizeof(Base(r.t)), r.t, mem, ok)
      [] op = "-" /\ Kind(r.t) = "ptr" -> Rval((l.v - r.v) \div Sizeof(Base(l.t)), <<"long">>, mem, ok)
      [] OTHER -> Calculate(op, c, To(c, l.v), IF op \in {"<<", ">>"} THEN r.v ELSE To(c, r.v), mem, ok)
Operate(op, l, r, mem, ok) ==
    OperateIn(op, l, r, IF op \in {"<<", ">>"} THEN Promote(l.t) ELSE Real(l.t, r.t), mem, ok)

-----------------------------------------------------------------------------
(* Evaluation.                                                             *)

Object(name, mem) ==
    LET l == LocalIndex(name)
        g == {i \in DOMAIN Globals : Globals[i].name = name}
    IN  CASE l # {} -> LET i == CHOOSE i \in l : TRUE IN Lval(Locals[i + 1].type, FRAME + Locals[i + 1].off, mem, TRUE)
          [] l = {} /\ g # {} ->
                LET i == CHOOSE i \in g : TRUE
                IN  IF Globals[i].kind = "enum" THEN Rval(Globals[i].init, <<"int">>, mem, TRUE)
                    ELSE Lval(Globals[i].type, Address(i - 1), mem, TRUE)
          [] OTHER -> Lval(<<"implicit">>, Address(Len(Globals)), mem, TRUE)

\* The function at an address; one that was not declared comes after the others.
FunctionAt(a) ==
    LET i == ((a - SYMBOLS) \div 16) + 1
    IN  Signatures[Functions_[IF i \in DOMAIN Globals THEN Globals[i].name ELSE "undeclared"]]

RECURSIVE Eval(_, _)
\* The arguments from the left, converted to the parameters' types.
RECURSIVE Arguments(_, _, _)
Arguments(args, params, mem) ==
    IF args = <<>> THEN [vs |-> <<>>, mem |-> mem, ok |-> TRUE]
    ELSE LET first(r) == IF params # <<>> /\ Kind(r.t) # "pair" THEN Convertd(r, Head(params)) ELSE r
             join(c, rest) == [vs |-> <<IF Kind(c.t) = "pair" THEN c.v[1] + c.v[2] ELSE c.v>> \o rest.vs,
                               mem |-> rest.mem, ok |-> c.ok /\ rest.ok]
             from(c) == join(c, Arguments(Tail(args), IF params = <<>> THEN <<>> ELSE Tail(params), c.mem))
         IN  from(first(Decayed(Eval(Head(args), mem))))
Assigned(l, r, mem, ok) ==
    LET v == IF Kind(l.t) = "pair" THEN r.v ELSE To(l.t, r.v)
    IN  Rval(v, l.t, Stored(mem, l.t, l.a, v), ok /\ (Kind(l.t) = "pair" \/ Converts(l.t, r.t, r.v)))
One(t) == [v |-> 1, t |-> IF IsFloat(t) THEN t ELSE <<"int">>]
Negate(op, t, n, l) == Rval(To(t, n), t, l.mem, l.ok /\ (IsUnsigned(t) \/ Holds(t, n)))
StepBy(e, l) ==
    LET to(new) == Assigned(l, new, l.mem, new.ok)
    IN  [to(Operate(IF e.op = "++" THEN "+" ELSE "-", l, One(l.t), l.mem, l.ok)) EXCEPT !.v = IF e.n = "un" THEN @ ELSE l.v]
Assignment(e, l, r) ==
    LET to(new) == Assigned(l, new, r.mem, new.ok /\ l.ok)
    IN  to(IF e.op = "" THEN r ELSE Operate(e.op, [l EXCEPT !.v = Load(r.mem, l.t, l.a)], r, r.mem, l.ok /\ r.ok))
Logical(op, l, r) ==
    IF (l.v # 0) = (op = "||") THEN Rval(Truth(l.v # 0), <<"int">>, l.mem, l.ok)
    ELSE Rval(Truth(r.v # 0), <<"int">>, r.mem, r.ok /\ l.ok)
\* The value r of the operand chosen by c, the other one having type s.
Chosen(c, r, s) ==
    LET as(t) == [Rval(To(t, r.v), t, r.mem, r.ok /\ c.ok) EXCEPT !.a = r.a]
    IN  as(IF IsInteger(r.t) \/ IsFloat(r.t) THEN IF Kind(s) = "ptr" THEN s ELSE Real(r.t, s) ELSE r.t)
Field(e, l, f) ==
    IF e.op = "->" \/ l.a # NONE THEN Lval(f.type, (IF e.op = "->" THEN l.v ELSE l.a) + f.off, l.mem, l.ok)
    ELSE Rval(l.v[IF e.t[1] = "a" THEN 1 ELSE 2], f.type, l.mem, l.ok)
Answered(sig, in, n, ok) ==
    Rval(IF Kind(sig.ret) = "pair" THEN <<InType(<<"char">>, n), InType(<<"int">>, n + 1)>> ELSE InType(sig.ret, n),
         sig.ret, in.mem, in.ok /\ ok /\ (IsFloat(sig.ret) => Holds(sig.ret, n)))
CallOf(sig, in, ok) == Answered(sig, in, Answer(sig, in.vs), ok)
Eval(e, mem) ==
    CASE e.n = "num" -> Rval(e.v, e.t, mem, TRUE)
      [] e.n = "str" -> Lval(<<"array", "char">>, STRING_ADDRESS, mem, TRUE)
      [] e.n = "var" -> Object(e.op, mem)
      [] e.n = "un" /\ e.op = "&" -> LET l == Eval(e.l, mem) IN Rval(l.a, <<"ptr">> \o l.t, l.mem, l.ok)
      [] e.n = "un" /\ e.op = "*" -> LET l == Decayed(Eval(e.l, mem)) IN Lval(Base(l.t), l.v, l.mem, l.ok)
      [] e.n = "un" /\ e.op = "!" -> LET l == Decayed(Eval(e.l, mem)) IN Rval(Truth(l.v = 0), <<"int">>, l.mem, l.ok)
      [] e.n = "un" /\ e.op \in {"-", "+", "~"} ->
            LET l == Eval(e.l, mem)
            IN  Negate(e.op, Promote(l.t), CASE e.op = "-" -> -l.v [] e.op = "+" -> l.v [] e.op = "~" -> -l.v - 1, l)
      [] e.n \in {"un", "post"} /\ e.op \in {"++", "--"} -> StepBy(e, Eval(e.l, mem))
      [] e.n = "cast" -> Convertd(Decayed(Eval(e.l, mem)), e.t)
      [] e.n = "sizeof" -> Rval(Sizeof(Eval(e.l, mem).t), <<"ulong">>, mem, TRUE)
      [] e.n = "bin" ->
            LET l == Decayed(Eval(e.l, mem))
                r == Decayed(Eval(e.r, l.mem))
            IN  IF e.op \in {"&&", "||"} THEN Logical(e.op, l, r) ELSE Operate(e.op, l, r, r.mem, l.ok /\ r.ok)
      [] e.n = "asg" -> LET l == Eval(e.l, mem) IN Assignment(e, l, Decayed(Eval(e.r, l.mem)))
      [] e.n = "comma" -> LET l == Eval(e.l, mem) r == Eval(e.r, l.mem) IN [r EXCEPT !.ok = @ /\ l.ok]
      [] e.n = "cond" ->
            LET c == Decayed(Eval(e.args[1], mem))
            IN  Chosen(c, Decayed(Eval(IF c.v # 0 THEN e.l ELSE e.r, c.mem)), Decayed(Eval(IF c.v # 0 THEN e.r ELSE e.l, c.mem)).t)
      [] e.n = "idx" ->
            LET l == Decayed(Eval(e.l, mem))
                r == Eval(e.r, l.mem)
            IN  Lval(Base(l.t), l.v + r.v * Sizeof(Base(l.t)), r.mem, l.ok /\ r.ok)
      [] e.n = "mem" -> Field(e, Eval(e.l, mem), Fields[e.t[1]])
      [] e.n = "call" ->
            LET l == Decayed(Eval(e.l, mem))
            IN  CallOf(FunctionAt(l.v), Arguments(e.args, Signatures[Base(l.t)[1]].params, l.mem), l.ok)

\* A return of the expression from a function that returns t.
Returned(e, t) == Convertd(Decayed(Eval(e, Loaded)), t)

-----------------------------------------------------------------------------
(* Where the compiler is known to leave C.                                 *)

TypeOf(e) == Eval(e, Loaded).t
Parts(e) ==
    CASE e.n \in {"num", "str", "var"} -> <<>>
      [] e.n \in {"bin", "asg", "comma", "idx"} -> <<e.l, e.r>>
      [] e.n \in {"cond", "call"} -> e.args \o (IF e.n = "call" THEN <<e.l>> ELSE <<e.l, e.r>>)
      [] OTHER -> <<e.l>>
\* The expressions e is made of, each with whether its value is used: that of the left
\* operand of a comma is not.
RECURSIVE Within(_, _)
Within(e, used) ==
    <<[e |-> e, used |-> used]>>
    \o FlattenSeq([k \in DOMAIN Parts(e) |-> Within(Parts(e)[k], ~(e.n = "comma" /\ k = 1))])
Some(e, P(_, _)) == \E k \in DOMAIN Within(e, TRUE) : P(Within(e, TRUE)[k].e, Within(e, TRUE)[k].used)
Effect(e, used) == e.n \in {"post", "asg", "call"} \/ (e.n = "un" /\ e.op \in {"++", "--"})
Undeclared(e, used) == e.n = "call" /\ e.l.n = "var" /\ e.l.op = "undeclared"

\* The value of an assignment that is not an 8-byte or int "=": what was computed, not
\* what was stored, and for a float an integer register.
ValueLost(e, t) ==
    /\ e.n = "asg" \/ (e.n = "un" /\ e.op \in {"++", "--"})
    /\ IsFloat(t) \/ (<<e.n, e.op>> # <<"asg", "">> /\ Sizeof(t) < 8)
\* Operators whose result depends on a conversion that is not made: of int to unsigned
\* int, of the operands of an assignment operator, of a float tested by && or ||; ++ and
\* -- of a float; a negative float made a long; sizeof's operand, which is executed; a
\* local variable that waits while a call declares a function.
Unconverted(e, l, r) ==
    CASE e.n = "bin" /\ e.op \in {"&&", "||"} -> IsFloat(l) \/ IsFloat(r)
      [] e.n = "bin" /\ e.op \in {"/", "%"} \cup Comparisons ->
            \/ Some(e.r, Undeclared)
            \/ {Kind(Promote(l)), Kind(Promote(r))} = {"int", "uint"}
      [] e.n = "bin" /\ e.op \in {"+", "-", "*", "&", "|", "^", "<<", ">>"} -> e.l.n = "var" /\ Some(e.r, Undeclared)
      [] e.n = "asg" /\ e.op # "" -> Real(Decay(l), Decay(r)) # Promote(l)
      [] e.n = "asg" /\ e.op = "" -> IsFloat(r) /\ Kind(l) \in {"long", "ulong"}
      [] e.n \in {"un", "post"} /\ e.op \in {"++", "--"} -> IsFloat(l)
      [] e.n = "cast" -> IsFloat(l) /\ Kind(e.t) \in {"long", "ulong"}
      [] e.n = "sizeof" -> Some(e.l, Effect)
      [] OTHER -> FALSE
Departure(e, used, l, r) == Unconverted(e, l, r) \/ (used /\ ValueLost(e, l))
Departs(e) == Some(e, LAMBDA x, used : Departure(x, used, TypeOf(x.l), TypeOf(x.r)))
=============================================================================
