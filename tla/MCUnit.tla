------------------------------- MODULE MCUnit -------------------------------
(* Programs for Unit: each kind of initializer as a global, a static local *)
(* and an automatic object; names shared by files and blocks; addresses on *)
(* both sides of the rounding of lui; and command lines that are refused.  *)
EXTENDS UnitMeaning

Ch == IntOf(1)
In == IntOf(4)
Lo == IntOf(8)
N(n) == [k |-> "num", v |-> n]
S(s) == [k |-> "str", v |-> s]
A(n) == [k |-> "addr", v |-> n]
L(vs) == [k |-> "list", v |-> vs]
None == [k |-> "none", v |-> 0]

Thing(k, n, spelled, type, value, braces, comma) ==
  LET sp == Spelled(spelled, <<Tok("name")>>)
  IN [k |-> k, name |-> n, static |-> FALSE, extern |-> FALSE, base |-> sp.base, declr |-> sp.declr,
      init |-> Initializer(value, braces, comma), type |-> type, value |-> value]
Var(n, type, value) == Thing("var", n, type, type, value, "full", FALSE)
Static(d) == [d EXCEPT !.static = TRUE]
Extern(n, type) == [Var(n, type, None) EXCEPT !.extern = TRUE]
Proto(n) == [k |-> "proto", name |-> n, static |-> FALSE]
FnOf(n, params, body) == [k |-> "func", name |-> n, static |-> FALSE, params |-> params, body |-> body]
Fn(n, body) == FnOf(n, <<>>, body)
Enum(cs) == [k |-> "enum", name |-> "", consts |-> cs]
Typedef(n) == [k |-> "typedef", name |-> n, static |-> FALSE]
Use(n) == [k |-> "use", name |-> n, add |-> 0]
UseAt(n, add) == [k |-> "use", name |-> n, add |-> add]
CallOf(n) == [k |-> "call", name |-> n, add |-> 0]
Text(s) == [k |-> "str", s |-> s]
Auto(n, type, value) == Thing("local", n, type, type, value, "full", FALSE)
Kept(n, type, value) == Thing("static", n, type, type, value, "full", FALSE)
ExternIn(n) == [k |-> "extern", name |-> n]
Many(n) == [k |-> "insns", n |-> n]
Open == [k |-> "{"]
Shut == [k |-> "}"]

Lib == <<[readable |-> TRUE, decls |-> <<Proto("main"), Fn("_start", <<CallOf("main")>>)>>]>>
Readable(ds) == [readable |-> TRUE, decls |-> ds]
Line(fs) == [files |-> fs, lib |-> Lib, nostdlib |-> FALSE, entry |-> "_start", syntaxOnly |-> FALSE]
One(ds) == Line(<<Readable(ds)>>)

(* Types and values, with the type as it is spelled, its braces and a last comma. *)
Case(spelled, type, value, braces, comma) ==
  [spelled |-> spelled, type |-> type, value |-> value, braces |-> braces, comma |-> comma]
Plainly(type, value) == Case(type, type, value, "full", FALSE)
Pair2 == StructOf(<<Ch, In>>)
Deep == StructOf(<<Ch, ArrayOf(Pair2, 2), Ptr(Ch)>>)
Rows == ArrayOf(ArrayOf(In, 2), 2)
Words3 == ArrayOf(Ptr(Ch), 3)
FnPtr == Ptr(Func(In, <<>>))
Cases ==
  << Plainly(Ch, N(200)), Plainly(In, N(70000)), Plainly(Lo, N(5)), Plainly(In, L(<<N(7)>>)),
     Plainly(Ptr(Ch), S(<<7, 8>>)), Plainly(ArrayOf(Ch, 4), S(<<7, 8>>)), Plainly(ArrayOf(Ch, 9), L(<<S(<<7, 8>>)>>)),
     Case(ArrayOf(Ch, 0), ArrayOf(Ch, 3), S(<<8, 9>>), "full", FALSE),
     Case(ArrayOf(In, 0), ArrayOf(In, 3), L(<<N(1), N(2), N(3)>>), "full", TRUE),
     Plainly(ArrayOf(In, 3), L(<<N(1), N(2)>>)), Case(ArrayOf(In, 3), ArrayOf(In, 3), L(<<N(1)>>), "full", TRUE),
     Plainly(Rows, L(<<L(<<N(1)>>), L(<<N(3), N(4)>>)>>)),
     Case(Rows, Rows, L(<<L(<<N(1), N(2)>>), L(<<N(3), N(4)>>)>>), "elided", FALSE),
     Case(Rows, Rows, L(<<L(<<N(1), N(2)>>), L(<<N(3)>>)>>), "elided", TRUE),
     Plainly(Pair2, L(<<N(1), N(2)>>)), Plainly(Pair2, L(<<N(1)>>)),
     Plainly(ArrayOf(Pair2, 2), L(<<L(<<N(1), N(2)>>), L(<<N(3)>>)>>)),
     Case(ArrayOf(Pair2, 2), ArrayOf(Pair2, 2), L(<<L(<<N(1), N(2)>>), L(<<N(3), N(4)>>)>>), "elided", FALSE),
     Plainly(Deep, L(<<N(1), L(<<L(<<N(2), N(3)>>), L(<<N(4)>>)>>), S(<<7>>)>>)),
     Case(Deep, Deep, L(<<N(1), L(<<L(<<N(2), N(3)>>), L(<<N(4), N(5)>>)>>), S(<<7>>)>>), "elided", FALSE),
     Plainly(Words3, L(<<S(<<7, 8>>), S(<<8>>), S(<<7>>)>>)), Plainly(Words3, L(<<S(<<7, 8>>), N(0), A("c")>>)),
     Plainly(Ptr(In), A("y")), Plainly(Ptr(ArrayOf(In, 2)), A("y")), Plainly(FnPtr, A("g")),
     Plainly(ArrayOf(FnPtr, 2), L(<<A("g"), A("g")>>)), Plainly(Ptr(Ptr(In)), A("y")),
     Plainly(Ptr(Func(Ptr(ArrayOf(In, 2)), <<>>)), A("g")), Plainly(StructOf(<<Ch, FnPtr, In>>), L(<<N(1), A("g"), N(2)>>)),
     Plainly(ArrayOf(Ch, 19), L(<<N(1), N(2)>>)) >>
AsCase(k, n, c) == Thing(k, n, c.spelled, c.type, c.value, c.braces, c.comma)
Values ==
  [i \in 1 .. Len(Cases) |->
    One(<<Var("c", Ch, N(1)), Proto("g"), Var("y", ArrayOf(In, 2), None), AsCase("var", "x", Cases[i]), Var("z", Ch, N(9)),
          Fn("g", <<>>),
          Fn("main", <<Auto("a", Ch, N(3)), AsCase("local", "l", Cases[i]), AsCase("static", "s", Cases[i]),
                       Use("x"), UseAt("x", 1), Use("y"), Use("z"), Use("l"), Use("s"), Use("a"), Text(<<8>>), CallOf("g")>>)>>)]

(* Names shared by files and blocks. *)
Counter == Static(Var("n", In, N(1)))
Same == Readable(<<Static(Var("i", In, N(5))), Proto("unused")>>)
Names ==
  << Line(<<Readable(<<Counter, Fn("main", <<Use("n"), CallOf("f")>>)>>),
            Readable(<<Static(Var("n", In, N(2))), Fn("f", <<Use("n"), Kept("k", In, N(4)), Use("k")>>)>>)>>),
     Line(<<Readable(<<Var("n", In, N(3)), Fn("main", <<Use("n"), CallOf("h")>>)>>),
            Readable(<<Static(Proto("f")), Counter, Static(Fn("f", <<Use("n")>>)), Fn("h", <<CallOf("f"), Use("n")>>)>>)>>),
     Line(<<Readable(<<Extern("t", In), Var("t", In, None), Extern("u", Lo), Fn("main", <<Use("t"), Use("u"), ExternIn("w"), Use("w")>>)>>),
            Readable(<<Var("t", In, None), Var("t", In, N(8)), Var("u", Lo, None), Var("w", Ch, N(2)), Fn("f", <<Use("t")>>)>>)>>),
     One(<<Var("v", In, N(1)),
           Fn("main", <<Use("v"), Auto("v", In, N(2)), Use("v"), Open, Auto("v", Ch, N(3)), Use("v"), Open, Use("v"), Shut,
                        Shut, Use("v"), Open, Kept("q", In, N(4)), Use("q"), Shut, Open, Auto("q", In, N(5)), Use("q"), Shut>>),
           Fn("f", <<Use("v"), Kept("q", In, N(6)), Use("q")>>)>>),
     One(<<Typedef("T"), Enum(<<[name |-> "E", val |-> 0], [name |-> "G", val |-> 5]>>), Enum(<<[name |-> "H", val |-> 7]>>),
           Fn("main", <<Use("G"), Use("H"), Use("E"), Auto("E", In, N(1)), Use("E")>>)>>),
     Line(<<Readable(<<Enum(<<[name |-> "E", val |-> 3]>>), Fn("main", <<Use("E"), CallOf("f")>>)>>),
            Readable(<<Enum(<<[name |-> "E", val |-> 3]>>), Fn("f", <<Use("E")>>)>>)>>),
     One(<<Fn("_start", <<CallOf("main")>>), Fn("main", <<Text(<<>>), Text(<<5>>), Text(<<4, 5>>), Text(<<5>>)>>)>>),
     [One(<<Fn("go", <<CallOf("f")>>), Fn("f", <<>>)>>) EXCEPT !.nostdlib = TRUE, !.entry = "go"],
     Line([i \in 1 .. 3 |-> IF i = 2 THEN Readable(<<Fn("main", <<>>)>>) ELSE Same]),
     [Line([i \in 1 .. 4 |-> IF i = 2 THEN Readable(<<Fn("_start", <<>>)>>) ELSE Same]) EXCEPT !.nostdlib = TRUE],
     [One(<<Fn("go", <<CallOf("nowhere")>>)>>) EXCEPT !.syntaxOnly = TRUE] >>

(* Addresses around the multiples of 2048. *)
Far == [i \in 1 .. 6 |->
  One(<<Var("x", ArrayOf(Lo, 9), L(<<N(1)>>)), Var("y", ArrayOf(Lo, 9), None), Proto("f"),
        Fn("main", <<Many(420 + 20 * i), Use("x"), UseAt("x", 60), Use("y"), Text(<<6, 6>>), CallOf("f")>>), Fn("f", <<Use("main")>>)>>)]

Main(body) == Fn("main", body)
Refused ==
  << One(<<Main(<<CallOf("nowhere")>>)>>), One(<<Main(<<Use("nothing")>>)>>),
     Line(<<Readable(<<Main(<<Use("late")>>)>>), Readable(<<Var("late", In, N(1))>>)>>),
     Line(<<Readable(<<Static(Var("own", In, N(1)))>>), Readable(<<Main(<<Use("own")>>)>>)>>),
     One(<<Var("x", In, S(<<7>>)), Main(<<>>)>>), One(<<Main(<<Auto("a", In, N(1)), Auto("a", In, N(2))>>)>>),
     [One(<<Main(<<>>)>>) EXCEPT !.nostdlib = TRUE],
     Line(<<Readable(<<Main(<<>>)>>), [readable |-> FALSE, decls |-> <<>>]>>),
     One(<<Proto("h"), Var("p", FnPtr, A("h")), Main(<<>>)>>), One(<<Proto("h"), Main(<<Use("h")>>)>>),
     Line([i \in 1 .. 4 |-> IF i = 2 THEN Readable(<<Main(<<>>)>>) ELSE Same]) >>

(* Every pair of declarations of one name in two files. One that is only    *)
(* extern is defined by the other file; two do not both give a value, and a *)
(* value is not followed by a declaration without one: gen_decl then moves  *)
(* the object to an offset in .bss that gen_finalize takes for one in .data. *)
Forms == <<Extern("n", In), Var("n", In, None), Var("n", In, N(3)), Static(Var("n", In, None)), Static(Var("n", In, N(4)))>>
Meet(a, b) == a \in 2 .. 3 /\ b \in 1 .. 3 /\ ~(a = 3 /\ b \in 2 .. 3)
Linked(a, b) ==
  Line(<<Readable(<<Forms[a], Proto("f"), Fn("main", <<Use("n"), CallOf("f")>>)>>), Readable(<<Forms[b], Fn("f", <<Use("n")>>)>>)>>)
Pairs == SelectSeq([i \in 1 .. 25 |-> <<1 + ((i - 1) \div 5), 1 + ((i - 1) % 5)>>],
                   LAMBDA p : Meet(p[1], p[2]) \/ (p[1] = 1 /\ p[2] \in 2 .. 3) \/ (p[1] > 1 /\ p[2] > 3) \/ (p[1] > 3 /\ p[2] > 1))
Linkages == [i \in 1 .. Len(Pairs) |-> Linked(Pairs[i][1], Pairs[i][2])]

(* Every body of BODY items that open and close blocks, declare v and use it. *)
BODY == 5
Vocabulary == <<Open, Shut, Auto("v", In, N(2)), Use("v")>>
Nth4(i) == [k \in 1 .. BODY |-> Vocabulary[1 + ((i \div 4^(k - 1)) % 4)]]
Nested(body) == Blocks(body, BODY) = 0 /\ \A i \in 1 .. BODY : Blocks(body, i) >= 0
Bodies == SelectSeq([i \in 1 .. 4^BODY |-> Nth4(i - 1)], Nested)
Scoped(bodies, params) ==
  [i \in 1 .. Len(bodies) |-> One(<<Var("v", In, N(1)), FnOf("main", params, Append(bodies[i], Use("v")))>>)]
Scopes(bodies) == Scoped(bodies, <<>>) \o Scoped(bodies, <<Auto("v", Ch, None)>>)
(* Several parameters, of different sizes. *)
Taken ==
  << One(<<Var("b", In, N(1)), FnOf("f", <<Auto("a", Ch, None), Auto("b", Lo, None), Auto("c", In, None)>>,
                                    <<Use("c"), Use("b"), Auto("d", Ch, N(7)), Use("d"), Use("a"), Open, Auto("a", In, N(1)), Use("a"), Shut, Use("a")>>),
           FnOf("main", <<Auto("n", In, None), Auto("args", Ptr(Ptr(Ch)), None)>>, <<Use("args"), Use("b"), CallOf("f"), Use("n")>>)>>) >>

MCSessions == Values \o Names \o Far \o Refused \o Linkages \o Scopes(Bodies) \o Taken
=============================================================================
