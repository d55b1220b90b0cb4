----------------------------- MODULE MCPreproc ------------------------------
(***************************************************************************)
(* Instances of Preproc: every main file of a few lines over a menu of     *)
(* directives with a header of either kind, and fixed programs of several  *)
(* headers.                                                                *)
(***************************************************************************)
EXTENDS Preproc, TLC

L(d, arg, body) == [d |-> d, arg |-> arg, body |-> body]
P(dir, name) == [dir |-> dir, name |-> name]

MCMain == P("src", "main.c")
H == P("inc", "h.h")
MCIncPaths == <<"lib", "inc">>

\* -D names, one of them twice.
CommandLine == <<[name |-> "D", body |-> "0"], [name |-> "D", body |-> "A"]>>

Menu ==
    {L("define", "A", "1"), L("undef", "A", ""), L("ifndef", "A", ""), L("if", "D", ""), L("if", "A", "malformed"),
     L("elif", "A", "!defined"), L("elif", "A", "malformed"), L("else", "", ""), L("endif", "", ""),
     L("include", "h.h", "<>")}

\* A header under #pragma once and one without it that leaves a conditional open.
OnceHeader == <<L("once", "", ""), L("text", "", ""), L("undef", "A", ""), L("define", "B", "1"), L("error", "", "")>>
OpenHeader == <<L("other", "", ""), L("ifdef", "A", ""), L("if", "A", "defined"), L("include", "none.h", "")>>

\* Every main file of length n over the menu, with either header.
Generated(n) ==
    {(MCMain :> m) @@ (H :> h) : m \in [1..n -> Menu], h \in {OnceHeader, OpenHeader}}
GeneratedPrograms == Generated(4)

\* Headers that include one another, each guarded by #pragma once, by a macro,
\* or by nothing in one direction.
Guarded(name, inner) == <<L("ifndef", name, ""), L("define", name, ""), L("include", inner, "")>>
                        \o <<L("text", "", ""), L("endif", "", "")>>
Pragma(inner) == <<L("once", "", ""), L("include", inner, ""), L("text", "", "")>>
HeaderPrograms ==
    {(MCMain :> <<L("include", a, "<>"), L("include", b, ""), L("include", a, "")>>)
       @@ (P("src", "g.h") :> g) @@ (P("inc", "h.h") :> h) @@ (P("lib", "g.h") :> g2) :
     a \in {"g.h", "h.h"}, b \in {"g.h", "h.h"},
     g \in {Guarded("G", "h.h"), Pragma("h.h")}, h \in {Guarded("H", "g.h"), Pragma("g.h")},
     g2 \in {Guarded("G", "h.h"), Pragma("h.h"), <<>>}}

AllPrograms == GeneratedPrograms \cup HeaderPrograms

=============================================================================
