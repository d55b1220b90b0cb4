--------------------------- MODULE MCControlFlow ----------------------------
(***************************************************************************)
(* Function bodies for ControlFlow: every nesting of two statements around *)
(* simple ones, and chosen bodies of labels, gotos and deeper nests.       *)
(***************************************************************************)
EXTENDS ControlFlow

T(t) == <<[t |-> t, n |-> "", parts |-> {}]>>
N(t, n) == <<[t |-> t, n |-> n, parts |-> {}]>>
For(parts) == <<[t |-> "for", n |-> "", parts |-> parts]>>

Body(s) == T("{") \o s \o T("}")
If(s) == T("if") \o s
IfElse(s, r) == T("if") \o s \o T("else") \o r
While(s) == T("while") \o s
Do(s) == T("do") \o s \o T("until")
Switch(s) == T("switch") \o Body(s)
Case(k) == N("case", k)
X == T("expr")

Simple == {X, T(";"), T("break"), T("continue"), T("return")}
Parts == {{"init", "cond", "post"}, {"cond"}, {"post"}}

\* Each statement around s.
Over(s) ==
    {If(s), While(s), Do(s), Body(s \o X)} \cup {For(ps) \o s : ps \in Parts}
    \cup {IfElse(s, r) : r \in {X, T("break")}} \cup {IfElse(r, s) : r \in {T("continue"), T("return")}}
    \cup {Switch(Case("1") \o s \o Case("2") \o r \o T("default") \o X) : r \in {X, T("break")}}
    \cup {Switch(X \o T("default") \o s \o Case("1") \o X), Switch(Case("1") \o s \o Case("1") \o X)}
One == Simple \cup UNION {Over(s) : s \in Simple}
Two == One \cup UNION {Over(s) : s \in One}
Nested == {Body(s \o X) : s \in Two}

Label(l) == N("label", l)
Goto_(l) == N("goto", l)
Jumps ==
    {Body(s) : s \in
       {Label("a") \o X \o If(Goto_("a")),
        If(Goto_("a")) \o X \o Label("a") \o X \o If(Goto_("a")),
        While(Body(X \o If(Goto_("a")) \o X)) \o X \o Label("a") \o T("return"),
        Goto_("a") \o While(Body(X \o Label("a") \o X)) \o X,
        Switch(Case("1") \o Goto_("a") \o Case("2") \o X) \o T("return") \o Label("a") \o X,
        Goto_("a") \o X, Goto_("a") \o Goto_("a") \o Goto_("a") \o Label("a") \o X,
        Label("a") \o X \o Label("a") \o X, Label("b") \o X \o Goto_("a") \o Label("c") \o X,
        Label("b") \o X \o Label("c") \o Goto_("a"), Label("a") \o Label("b") \o X \o If(Goto_("b"))}}
Deep ==
    {Body(s \o X) : s \in
       {While(Switch(Case("1") \o Do(Body(If(T("continue")) \o T("break"))) \o T("continue") \o T("default") \o T("break"))),
        For({"cond", "post"}) \o Body(While(Body(If(T("break")) \o T("continue"))) \o If(T("continue")) \o X),
        Do(Switch(Case("1") \o Switch(Case("2") \o T("break") \o T("default") \o T("continue")) \o X \o Case("2") \o T("break"))),
        For({}) \o Body(X \o If(T("break"))),
        Switch(Case("1") \o For({"post"}) \o IfElse(T("break"), T("continue")) \o Case("2") \o T("return"))}}
\* Bodies that fill a table, and one longer than a jump can reach.
Long[n \in Nat] == IF n = 0 THEN <<>> ELSE X \o Long[n - 1]
Full ==
    {Body(s \o X) : s \in
       {While(Body(If(b) \o If(b) \o If(b) \o If(b))) : b \in {T("break"), T("continue")}}
       \cup {Do(Body(If(b) \o If(b) \o If(b) \o If(b))) : b \in {T("break"), T("continue")}}
       \cup {Switch(Case("1") \o X \o Case("2") \o X \o Case("3") \o X), While(Body(Long[40]))}}
\* Bodies that end early.
Unfinished == {T("{") \o X, T("{") \o Switch(X) , T("{") \o T("switch") \o T("{") \o X, T("{") \o T("do") \o X,
               Body(T("switch") \o X), T("{") \o T("switch")}

MCPrograms == Nested \cup Jumps \cup Deep \cup Full \cup Unfinished
=============================================================================
