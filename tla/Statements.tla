----------------------------- MODULE Statements -----------------------------
(***************************************************************************)
(* What the statements of a function mean: a reference definition over its *)
(* tokens, by the grammar of C and not by how they are compiled.  A token  *)
(* other than "}", "else" and "until" begins a statement; "until" is the   *)
(* condition that ends a do statement.                                     *)
(***************************************************************************)
EXTENDS Integers, Sequences, FiniteSets

CONSTANT Programs

Kind(P, p) == IF p \in DOMAIN P THEN P[p].t ELSE "eof"
Prefixes == {"label", "case", "default"}
Loops == {"while", "do", "for"}

\* The position after the statement (or, to the closing brace, the list of
\* statements) that begins at p.
Ends(P) ==
    LET end[x \in {"stmt", "list"} \X (1 .. 2 * Len(P))] ==
            LET p == x[2] k == Kind(P, p) IN
            CASE x[1] = "list" -> IF k = "}" THEN p + 1 ELSE IF k = "eof" THEN p ELSE end[<<"list", end[<<"stmt", p>>]>>]
              [] OTHER ->
                   CASE k \in {"while", "for", "switch"} \cup Prefixes -> end[<<"stmt", p + 1>>]
                     [] k = "do" -> end[<<"stmt", p + 1>>] + 1
                     [] k = "{" -> end[<<"list", p + 1>>]
                     [] k = "if" -> LET e == end[<<"stmt", p + 1>>]
                                    IN  IF Kind(P, e) = "else" THEN end[<<"stmt", e + 1>>] ELSE e
                     [] OTHER -> p + 1
    IN  end
Extents == [P \in Programs |-> [p \in DOMAIN P |-> Ends(P)[<<"stmt", p>>]]]
End(P, p) == Extents[P][p]

\* The statements around p, of the kinds K, and the innermost of them (0: none).
Around(P, p, K) ==
    {q \in 1 .. p - 1 : Kind(P, q) \in K /\ p < End(P, q)}
Innermost(P, p, K) ==
    LET A == Around(P, p, K) IN IF A = {} THEN 0 ELSE CHOOSE q \in A : \A r \in A : r <= q
Parent(P, p) == Innermost(P, p, {"if", "switch", "{"} \cup Loops \cup Prefixes)

Labels(P, name) == {p \in DOMAIN P : P[p].t = "label" /\ P[p].n = name}
CasesOf(P, s) == {p \in DOMAIN P : P[p].t \in {"case", "default"} /\ Innermost(P, p, {"switch"}) = s}

\* The statements are complete, a switch has its braces, which gen.c asks for, and
\* the constraints of C on jumps and labels are kept.
Tokens(P, k) == {p \in DOMAIN P : P[p].t = k}
Valid(P) ==
    /\ Cardinality(Tokens(P, "{")) = Cardinality(Tokens(P, "}"))
    /\ \A p \in Tokens(P, "switch") : Kind(P, p + 1) = "{"
    /\ \A p \in Tokens(P, "do") : Kind(P, End(P, p) - 1) = "until"
    /\ \A p, q \in DOMAIN P :
          /\ P[p].t = "break" => Innermost(P, p, Loops \cup {"switch"}) # 0
          /\ P[p].t = "continue" => Innermost(P, p, Loops) # 0
          /\ P[p].t = "goto" => Labels(P, P[p].n) # {}
          /\ p # q /\ P[p].t = "label" => q \notin Labels(P, P[p].n)
          /\ p # q /\ P[p].t = P[q].t /\ P[p].n = P[q].n =>
                \A s \in DOMAIN P : ~{p, q} \subseteq CasesOf(P, s)

-----------------------------------------------------------------------------
(* What is seen next.  A place is where control is: about to do the        *)
(* statement p ("do"), just after it ("after"), at the end of a turn of    *)
(* the loop p ("again"), or at the test of the for statement p ("test").   *)
(* What can be seen is an expression, condition, return or the end.        *)

\* The event at a place, or the place that control moves to without one.
Moves(P, where, p) ==
    LET k == Kind(P, p)
        event(what) == [seen |-> TRUE, at |-> <<what, p>>]
        go(place, q) == [seen |-> FALSE, at |-> <<place, q>>]
        doing ==
            CASE k \in {"expr", "return", "switch"} -> event(k)
              [] k \in {"if", "while"} -> event("test")
              [] k = ";" -> go("after", p)
              [] k = "{" -> IF Kind(P, p + 1) = "}" THEN go("after", p) ELSE go("do", p + 1)
              [] k \in Prefixes \cup {"do"} -> go("do", p + 1)
              [] k = "for" -> IF "init" \in P[p].parts THEN event("init") ELSE go("test", p)
              [] k = "break" -> go("after", Innermost(P, p, Loops \cup {"switch"}))
              [] k = "continue" -> go("again", Innermost(P, p, Loops))
              [] k = "goto" -> go("do", CHOOSE q \in Labels(P, P[p].n) : TRUE)
        leaving(q) ==
            CASE q = 0 -> [seen |-> TRUE, at |-> <<"end", 0>>]
              [] Kind(P, q) \in Loops -> go("again", q)
              [] Kind(P, q) = "{" /\ Kind(P, End(P, p)) # "}" -> go("do", End(P, p))
              [] OTHER -> go("after", q)
    IN  CASE where = "do" -> doing
          [] where = "test" -> IF "cond" \in P[p].parts THEN event("test") ELSE go("do", p + 1)
          [] where = "again" /\ k # "for" -> event("test")
          [] where = "again" /\ k = "for" -> IF "post" \in P[p].parts THEN event("post") ELSE go("test", p)
          [] where = "after" -> leaving(Parent(P, p))

\* The next event from a place; nothing is seen of a loop that only spins.
Seen(P, where, p) ==
    LET see[n \in 0 .. 4 * Len(P) + 4, place \in {"do", "test", "again", "after"} \X (0 .. Len(P))] ==
            LET m == Moves(P, place[1], place[2])
            IN  IF m.seen THEN m.at ELSE IF n = 0 THEN <<"spins", 0>> ELSE see[n - 1, m.at]
    IN  see[4 * Len(P) + 4, <<where, p>>]

\* Where a switch at p goes with the value v.
Chosen(P, p, v) ==
    LET match == {c \in CasesOf(P, p) : P[c].t = "case" /\ P[c].n = v}
        default == {c \in CasesOf(P, p) : P[c].t = "default"}
    IN  IF match # {} THEN match ELSE default

\* The event after ev with outcome v.
After(P, ev, v) ==
    LET what == ev[1] p == ev[2] k == Kind(P, p) IN
    CASE what = "start" -> Seen(P, "do", 1)
      [] what = "expr" -> Seen(P, "after", p)
      [] what \in {"init", "post"} -> Seen(P, "test", p)
      [] what = "switch" ->
           IF Chosen(P, p, v) = {} THEN Seen(P, "after", p)
           ELSE Seen(P, "do", CHOOSE c \in Chosen(P, p, v) : TRUE)
      [] what = "test" /\ v # "0" -> Seen(P, "do", p + 1)
      [] what = "test" /\ v = "0" ->
           LET e == IF k = "if" THEN End(P, p + 1) ELSE p IN
           IF Kind(P, e) = "else" THEN Seen(P, "do", e + 1) ELSE Seen(P, "after", p)
      [] what \in {"return", "end"} -> <<"nothing", 0>>
=============================================================================
