--------------------------- MODULE MCExpressions ----------------------------
(***************************************************************************)
(* Expressions over variables of every kind, each compiled as the operand  *)
(* of a return statement, run, and compared with its meaning.              *)
(***************************************************************************)
EXTENDS ExprMeaning

INT == <<"int">>
LONG == <<"long">>
DOUBLE == <<"double">>
MCSignatures ==
    [implicit |-> [params |-> <<>>, ret |-> INT], unary |-> [params |-> <<INT>>, ret |-> INT],
     binary |-> [params |-> <<<<"char">>, LONG>>, ret |-> INT], real |-> [params |-> <<DOUBLE>>, ret |-> DOUBLE],
     many |-> [params |-> <<INT, <<"float">>, LONG, <<"char">>>>, ret |-> LONG],
     make |-> [params |-> <<INT, INT>>, ret |-> <<"pair">>], take |-> [params |-> <<<<"pair">>, INT>>, ret |-> INT],
     nullary |-> [params |-> <<>>, ret |-> LONG]]
MCFunctions == [one |-> "unary", two |-> "binary", half |-> "real", many |-> "many", make |-> "make", take |-> "take",
                none |-> "nullary", undeclared |-> "unary"]
Func(name) == [name |-> name, kind |-> "func", type |-> <<MCFunctions[name]>>, init |-> <<>>]
MCGlobals ==
    <<Func("one"), Func("two"), Func("half"), Func("many"), Func("make"), Func("take"), Func("none"),
      [name |-> "g", kind |-> "var", type |-> INT, init |-> <<9>>],
      [name |-> "gp", kind |-> "var", type |-> <<"ptr", "unary">>, init |-> <<Address(0)>>],
      [name |-> "E", kind |-> "enum", type |-> INT, init |-> 5]>>
Local(name, k, type, init) == [name |-> name, type |-> type, off |-> -16 * k, init |-> init]
MCLocals ==
    <<Local("c", 2, <<"char">>, <<-2>>), Local("h", 3, <<"uchar">>, <<3>>), Local("i", 4, INT, <<-7>>),
      Local("u", 5, <<"uint">>, <<200>>), Local("l", 6, LONG, <<300>>), Local("d", 7, DOUBLE, <<-6>>),
      Local("f", 8, <<"float">>, <<4>>), Local("a", 9, <<"array", "int">>, <<11, 12>>),
      Local("p", 10, <<"ptr", "int">>, <<FRAME - 16 * 9>>), Local("s", 11, <<"pair">>, <<1, 21>>),
      Local("q", 12, <<"ptr", "pair">>, <<FRAME - 16 * 11>>), Local("fn", 13, <<"ptr", "unary">>, <<Address(0)>>),
      Local("j", 14, INT, <<2>>)>>

-----------------------------------------------------------------------------
(* Trees.                                                                  *)

Node(n) == [n |-> n, op |-> "", t |-> INT, v |-> 0, l |-> <<>>, r |-> <<>>, args |-> <<>>]
V(name) == [Node("var") EXCEPT !.op = name]
N(k) == [Node("num") EXCEPT !.v = k]
Num(t, k) == [Node("num") EXCEPT !.v = k, !.t = t]
Str == Node("str")
Bin(op, x, y) == [Node("bin") EXCEPT !.op = op, !.l = x, !.r = y]
Un(op, x) == [Node("un") EXCEPT !.op = op, !.l = x]
Post(x, op) == [Node("post") EXCEPT !.op = op, !.l = x]
Asg(x, op, y) == [Node("asg") EXCEPT !.op = op, !.l = x, !.r = y]
Both(x, y) == [Node("comma") EXCEPT !.l = x, !.r = y]
Cond(c, x, y) == [Node("cond") EXCEPT !.args = <<c>>, !.l = x, !.r = y]
CastTo(t, x) == [Node("cast") EXCEPT !.t = t, !.l = x]
SizeOf(x) == [Node("sizeof") EXCEPT !.l = x]
Idx(x, y) == [Node("idx") EXCEPT !.l = x, !.r = y]
Mem(x, op, f) == [Node("mem") EXCEPT !.l = x, !.op = op, !.t = <<f>>]
Call(f, args) == [Node("call") EXCEPT !.l = f, !.args = args]

Ops == <<"+", "-", "*", "/", "%", "&", "|", "^", "<<", ">>", "==", "!=", "<", ">", "<=", ">=", "&&", "||">>
vc == V("c")
vh == V("h")
vi == V("i")
vj == V("j")
vu == V("u")
vl == V("l")
vd == V("d")
vf == V("f")
va == V("a")
vp == V("p")
vs == V("s")
vq == V("q")
vg == V("g")
fn == V("fn")
one(x) == Call(V("one"), <<x>>)
two(x, y) == Call(V("two"), <<x, y>>)
half(x) == Call(V("half"), <<x>>)

\* The sequences x op y for every operator and pair of operands.
Pairs(xs, ops, ys) ==
    FlattenSeq([k \in DOMAIN xs |-> FlattenSeq([o \in DOMAIN ops |-> [z \in DOMAIN ys |-> Bin(ops[o], xs[k], ys[z])]])])

Arithmetics == Pairs(<<vc, vi, vl>>, Ops, <<vj, vh, N(3)>>) \o Pairs(<<vu>>, Ops, <<vl, N(3), vu>>)
               \o Pairs(<<vd, vi>>, SubSeq(Ops, 11, 16), <<vf, vd>>)
\* Both shapes of x op y op z.
Chains ==
    FlattenSeq([k \in 1 .. 18 |-> <<Bin(Ops[k], Bin("-", vi, vj), Bin("*", vl, vj)), Bin("-", vl, Bin(Ops[k], vi, vj)),
                                    Bin(Ops[k], vi, Bin("<", vj, vl)), Bin(Ops[k], Bin("&", vl, vh), one(vj))>>])
Unaries == <<Un("-", vc), Un("-", vu), Un("~", vc), Un("!", vd), Un("!", vl), Un("+", vh), Un("-", Un("-", vl)), Un("*", vp), Un("*", Un("&", vi)), Un("!", vq),
             CastTo(LONG, Un("&", vl))>>
Designators ==
    <<Idx(va, vj), Idx(va, N(1)), Idx(vp, Bin("-", vj, N(1))), Un("*", Bin("+", va, N(1))), Un("*", Bin("+", N(1), vp)),
      Bin("-", Un("&", Idx(va, N(1))), va), Bin("==", vp, va), Bin("<", vp, Bin("+", vp, N(1))), Mem(vs, ".", "b"),
      Mem(vq, "->", "a"), Mem(Un("*", vq), ".", "b"), Bin("+", Mem(vq, "->", "b"), Mem(vq, "->", "a")),
      Idx(va, Bin("-", Idx(va, N(1)), Idx(va, N(0)))), Bin("-", Idx(va, N(1)), Idx(vp, N(0))), Idx(Str, N(0)), Un("*", Str),
      SizeOf(va), SizeOf(vs), SizeOf(Bin("+", vc, vc)), V("E"), CastTo(LONG, Un("&", vg)), CastTo(<<"char">>, vi), CastTo(<<"uint">>, vi),
      CastTo(<<"bool">>, vd), CastTo(INT, vd), CastTo(LONG, vp),
      CastTo(<<"uchar">>, Bin("+", vi, vl))>>
Applications ==
    <<one(vi), one(one(vj)), two(vi, vl), two(vd, half(vd)), two(one(vj), two(vj, vj)), Bin("+", one(vi), one(vj)),
      Bin("-", vl, two(N(1), Bin("*", one(vi), vj))), one(half(vi)),
      Call(V("many"), <<vi, vf, vl, vj>>), Call(V("many"), <<one(vj), half(vd), Call(V("many"), <<vi, vd, vl, vj>>), vl>>),
      Call(fn, <<vj>>), Call(V("gp"), <<one(vj)>>), Call(Un("*", fn), <<vj>>), Call(Cond(vj, fn, V("gp")), <<vi>>),
      Mem(Call(V("make"), <<vi, vj>>), ".", "b"), Call(V("take"), <<vs, vj>>), Call(V("take"), <<Call(V("make"), <<vj, vj>>), one(vi)>>),
      Bin("+", Mem(vs, ".", "b"), Call(V("take"), <<Un("*", vq), Mem(vq, "->", "b")>>)), Call(V("undeclared"), <<vj>>),
      Call(V("none"), <<>>), Bin("-", vl, Call(V("none"), <<>>)),
      Bin("+", one(N(1)), Call(V("undeclared"), <<vj>>))>>
Branches ==
    <<Cond(vi, vj, vl), Un("*", Cond(vd, va, vp)), Cond(Un("!", vj), one(vi), N(4)),
      Bin("+", Cond(vi, N(1), N(2)), one(vj)), Cond(vi, Cond(Un("!", vi), N(1), N(2)), N(3)), Cond(Un("!", vi), N(1), Cond(vj, vh, N(2))),
      Mem(Cond(vi, vs, Un("*", vq)), ".", "b"), Bin("&&", vj, Asg(vi, "", N(0))), Bin("||", vj, Asg(vi, "", N(0))),
      Bin("||", Bin("&&", Un("!", vj), vi), one(vi)), Bin("&&", Bin("||", vj, vi), Bin("==", vc, N(1))), Both(Post(vi, "++"), vi)>>
Assignments ==
    <<Asg(vi, "", vl), Asg(vc, "", vi), Asg(vi, "", Asg(vj, "", N(4))),
      Asg(vl, "+", vi), Both(Asg(vi, "-", vj), vi), Both(Asg(vu, "/", vu), vu), Both(Asg(vl, ">>", vj), vl),
      Asg(Idx(va, Bin("-", vj, N(1))), "", one(vi)), Both(Asg(Un("*", vp), "", Idx(va, N(1))), Idx(va, N(0))),
      Both(Asg(Mem(vq, "->", "b"), "+", Mem(vs, ".", "b")), Mem(vs, ".", "b")), Mem(Asg(vs, "", Call(V("make"), <<vj, vj>>)), ".", "b"),
      Both(Asg(vp, "+", N(1)), Un("*", vp)), Both(Un("++", vp), Un("*", vp)), Post(vi, "++"), Un("*", Post(vp, "++")),
      Both(Un("--", Idx(va, N(1))), Bin("+", Idx(va, N(1)), vj)), Both(Post(Mem(vq, "->", "b"), "--"), Mem(vs, ".", "b")),
      Asg(vg, "", Bin("+", vg, N(1))), Both(Asg(fn, "", V("one")), Call(fn, <<vj>>)), Asg(vl, "", Bin("*", Bin("+", vj, N(1)), Bin("+", vj, N(1))))>>
Reals ==
    Pairs(<<vd, vi>>, SubSeq(Ops, 1, 4), <<vf, vd>>) \o
    <<Un("-", vd), Bin("*", Un("-", vd), Num(<<"float">>, 3)), CastTo(DOUBLE, vu), CastTo(<<"float">>, vc), half(vi),
      Bin("*", half(vd), half(vf)), Bin("+", half(vj), one(vd)), Cond(Bin("<", vi, N(0)), vc, vd), Cond(Bin("<", vj, vi), vd, vj),
      Both(Asg(vd, "", vi), vd), Both(Asg(vf, "", vd), Bin("*", vf, vf)), Both(Asg(vd, "*", vd), vd)>>
\* Forms the compiler is known to translate otherwise.
Departures ==
    <<Un("++", vh), Asg(vh, "+", N(2)), Bin("<", vi, vu), Bin("&&", vj, Num(DOUBLE, 3)), CastTo(LONG, vd),
      Bin("+", vi, Call(V("undeclared"), <<vj>>)), SizeOf(Post(vi, "++"))>>
RealDepartures == <<Asg(vd, "", Asg(vf, "", N(3))), Post(vd, "++")>>

Wholes == Arithmetics \o Chains \o Unaries \o Designators \o Applications \o Branches \o Assignments \o Departures
Trees == Wholes \o Reals \o RealDepartures
Whole(k) == IF k \in DOMAIN Wholes THEN LONG ELSE DOUBLE

\* Texts that are no expression of C, or that are over a limit.
Bad == <<
    <<T("("), Op("+"), T(")"), T(";")>>, Text(Bin("+", vi, vj), 1), Text(one(vi), 1) \o Text(vj, 1) \o <<T(";")>>,
    Text(Idx(va, vj), 1), Append(Text(Call(Both(vi, vj), <<>>), 1), T(";")), Append(Text(Mem(vi, ".", "a"), 1), T(";")), Append(Text(Mem(vs, ".", "z"), 1), T(";")),
    Append(Text(Asg(N(1), "", vi), 1), T(";")), Append(Text(Asg(one(vi), "+", vj), 1), T(";")), Append(Text(Un("&", N(1)), 1), T(";")), Append(Text(Post(one(vi), "++"), 1), T(";")),
    Append(Text(Bin("%", vd, vj), 1), T(";")), Append(Text(V("unknown"), 1), T(";")),
    Append(Text(Call(V("many"), <<vi, vf, vl, vj, vj, vi>>), 1), T(";")), Append(Text(Asg(vd, "%", vj), 1), T(";")),
    <<T("sizeof"), [t |-> "type", v |-> INT], T(";")>>, <<T("("), [t |-> "type", v |-> INT]>> \o Text(vj, 1) \o <<T(";")>>,
    Text(vi, 1) \o <<T("?")>> \o Text(vj, 1) \o <<T(";")>>, Text(vs, 1) \o <<T(".")>> \o <<T(";")>>,
    Text(V("one"), 1) \o <<T("(")>> \o Text(vi, 1) \o <<T(";")>>>>
\* A program keeps the tree it is the text of; the others are not valid.
Compiled ==
    {[toks |-> Append(Text(Trees[k], 1), T(";")), ret |-> Whole(k), valid |-> TRUE, tree |-> Trees[k]] : k \in DOMAIN Trees}
    \cup {[toks |-> Bad[k], ret |-> LONG, valid |-> FALSE, tree |-> Str] : k \in DOMAIN Bad}
MCPrograms == Compiled

\* A variable holds after the run what the evaluation left in it.
SameObjects(mem) ==
    \A k \in DOMAIN Objects : \A x \in DOMAIN Objects[k].init :
        LET cell == Cells(Objects[k].type)[x]
        IN  Load(m.mem, cell.type, Objects[k].addr + cell.off) = Load(mem, cell.type, Objects[k].addr + cell.off)
MeansC ==
    \A meaning \in {Returned(prog.tree, Ret)} : meaning.ok => Result = meaning.v /\ SameObjects(meaning.mem)

\* The code that parse_expr and the functions below it emit is right: a compiled
\* expression gives the value C gives it and leaves in every variable what C leaves
\* there, whatever operands had to be saved on the way and whatever calls destroyed;
\* except where an operand is not converted or an assignment's value is used (Departs).
ComputesC ==
    phase \in {"done", "crashed"} /\ prog.valid => Departs(prog.tree) \/ (phase = "done" /\ MeansC)

\* What is refused is what is no expression of C or is over a limit, never a valid one.
RejectsExactly ==
    /\ phase = "rejected" => ~prog.valid
    /\ phase \in {"run", "done", "crashed"} => prog.valid

\* "Assignment returns the assigned value." (parse_assign)
AssignmentYieldsValue ==
    phase = "done" /\ prog.valid => (prog.tree.n = "asg" => MeansC)
=============================================================================
