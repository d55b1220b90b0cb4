---------------------------- MODULE ControlFlow -----------------------------
(***************************************************************************)
(* The statements of a function in gen.c: one pass over the tokens that    *)
(* emits jumps before their targets are known and patches them later, and  *)
(* the machine that runs the code.                                         *)
(*                                                                         *)
(* A token stands for a statement's keyword with its parenthesised parts;  *)
(* an expression is one instruction that is seen from outside, a condition *)
(* one whose outcome is anybody's choice.  The stack holds the calls of    *)
(* parse_stmt in progress with their local variables.  An offset counts    *)
(* instructions; the prologue is at offset 0, so that 0 is free to mean    *)
(* "not known", as in the code.                                            *)
(***************************************************************************)
EXTENDS Integers, Sequences, FiniteSets

CONSTANTS
    Programs,           \* function bodies, sequences of tokens [t, n, parts]
    Values,             \* bound: what a switch may be given
    MAX_LABELS, MAX_PATCHES, EPILOGUE_PATCH_MAX,
    FIXUP_MAX,          \* entries of break_fixups and of continue_fixups
    CASE_MAX,           \* entries of cases
    JAL_REACH           \* how far back a jal can go; forward it is one less

ASSUME ProgramAssumption ==
    \A p \in Programs : p \in Seq([t : STRING, n : STRING, parts : SUBSET {"init", "cond", "post"}])
ASSUME CapacityAssumption ==
    /\ MAX_LABELS \in Nat /\ MAX_PATCHES \in Nat /\ EPILOGUE_PATCH_MAX \in Nat
    /\ FIXUP_MAX \in Nat /\ CASE_MAX \in Nat /\ JAL_REACH \in Nat \ {0}

VARIABLES
    phase,   \* "parse", then "run", or "rejected" after errors, "fatal" after cc_fatal, "overrun" after
             \* a store beyond an array; then "halt", "lost" if a return misses its frame, or "astray"
             \* if a jump leaves the function
    prog, at,\* the tokens and the current one
    back,    \* a call of parse_stmt has just returned
    stack,   \* the calls in progress
    func,    \* g_func: break_fixups, continue_fixups, continue_label, loop_depth, switch_depth
    labels,  \* g_labels
    epis,    \* g_epilogue_patch_off
    code,    \* g_text
    errors,  \* the diagnostics given
    pc, t0, t1, slots,  \* the machine: two registers and the saved switch values
    last     \* what was last seen of the running code: [ev, choice, tick]

compiler == <<prog, at, back, stack, func, labels, epis, code, errors>>
machine == <<pc, t0, t1, slots, last>>
vars == <<phase, compiler, machine>>

-----------------------------------------------------------------------------
(* Emitting and patching.                                                  *)

\* The target, which only the properties read, tells a jump whose distance has been
\* filled in from one that has the 0 it was emitted with: a jump to itself has 0 too.
\* The delta is the distance asked for; the machine reads back what Distance leaves of it.
Insn(op, tok, n) == [op |-> op, tok |-> tok, n |-> n, delta |-> 0, target |-> "unknown"]
Jal == Insn("jal", 0, "-")
\* A jump at offset off to target.
JalTo(off, target) == [Jal EXCEPT !.delta = target - off, !.target = "known"]
Event(what, tok) == Insn("event", tok, what)
\* The condition in t0, then a jump that is skipped unless t0 sends control to it.
Test(tok, branch) == <<Event("test", tok), Insn(branch, 0, "-"), Jal>>

Size == Len(code)

\* The immediate of a jal keeps the low bits of a distance, the highest as its sign;
\* neither rv_jal nor patch_jal looks whether more are needed.
Distance(delta) == ((delta + JAL_REACH) % (2 * JAL_REACH)) - JAL_REACH

\* patch_jal for every offset of S.
PatchJal(c, S, target) ==
    [i \in DOMAIN c |-> IF i - 1 \in S THEN [c[i] EXCEPT !.delta = target - (i - 1), !.target = "known"] ELSE c[i]]

\* Mutant: the first recorded jump is passed over.
FromNext(s, n) == {s[i] : i \in n + 2 .. Len(s)}
From(s, n) == {s[i] : i \in n + 1 .. Len(s)}

-----------------------------------------------------------------------------
(* The parser.                                                             *)

Eof == [t |-> "eof", n |-> "-", parts |-> {}]
Cur == IF at <= Len(prog) THEN prog[at] ELSE Eof
Frame(kind) == [k |-> kind, tok |-> at, br |-> 0, top |-> 0, nb |-> Len(func.breaks), nc |-> Len(func.conts),
                cl |-> func.contLabel, cases |-> <<>>, default |-> 0]
Top == stack[Len(stack)]
Pop == SubSeq(stack, 1, Len(stack) - 1)
Error(what) == errors' = errors \cup {[what |-> what, tok |-> at]}

Init ==
    /\ phase = "parse"
    /\ prog \in Programs
    /\ at = 1 /\ back = FALSE /\ stack = <<>>
    /\ func = [breaks |-> <<>>, conts |-> <<>>, contLabel |-> 0, loops |-> 0, switches |-> 0]
    /\ labels = <<>> /\ epis = <<>> /\ errors = {}
    /\ code = <<Insn("prologue", 0, "-")>>
    /\ pc = 0 /\ t0 = "-" /\ t1 = "-" /\ slots = <<>>
    /\ last = [ev |-> <<"start", 0>>, choice |-> "-", tick |-> 0]

\* A call of parse_stmt that looks at the token t.
AtStmt(t) == phase = "parse" /\ ~back /\ Cur.t = t
\* The call of parse_stmt made by the innermost call, of kind k, has returned.
Resumed(k) == phase = "parse" /\ back /\ stack # <<>> /\ Top.k = k

Returns == back' = TRUE
Calls == back' = FALSE
Eat(n) == at' = at + n

\* cc_fatal ends the compiler.
Stop(how) == phase' = how /\ UNCHANGED <<compiler, machine>>
Fatal == Stop("fatal")
\* A store beyond the end of an array is undefined: nothing is known from there on.
Overrun == Stop("overrun")

ExprStmt ==
    /\ AtStmt("expr") /\ Eat(1) /\ Returns
    /\ code' = Append(code, Event("expr", at))
    /\ UNCHANGED <<phase, prog, stack, func, labels, epis, errors, machine>>

EmptyStmt ==
    /\ AtStmt(";") /\ Eat(1) /\ Returns
    /\ UNCHANGED <<phase, prog, stack, func, labels, epis, code, errors, machine>>

\* parse_compound.
OpenBlock ==
    /\ AtStmt("{") /\ Eat(1)
    /\ stack' = Append(stack, Frame("block")) /\ Returns
    /\ UNCHANGED <<phase, prog, func, labels, epis, code, errors, machine>>
NextInBlock ==
    /\ Resumed("block") /\ Cur.t \notin {"}", "eof"} /\ Calls
    /\ UNCHANGED <<phase, prog, at, stack, func, labels, epis, code, errors, machine>>
CloseBlock ==
    /\ Resumed("block") /\ Cur.t \in {"}", "eof"}
    /\ IF Cur.t = "}" THEN Eat(1) /\ UNCHANGED errors ELSE Error("expected }") /\ UNCHANGED at
    /\ stack' = Pop /\ Returns
    /\ UNCHANGED <<phase, prog, func, labels, epis, code, machine>>

IfStmt ==
    /\ AtStmt("if") /\ Eat(1) /\ Calls
    /\ code' = code \o Test(at, "bne")
    /\ stack' = Append(stack, [Frame("if") EXCEPT !.br = Size + 2])
    /\ UNCHANGED <<phase, prog, func, labels, epis, errors, machine>>
ElsePart ==
    /\ Resumed("if") /\ Cur.t = "else" /\ Eat(1) /\ Calls
    /\ code' = Append(code, Jal)
    /\ stack' = Append(Pop, [Top EXCEPT !.k = "else", !.top = Size + 1])
    /\ UNCHANGED <<phase, prog, func, labels, epis, errors, machine>>
EndIf ==
    /\ Resumed("if") /\ Cur.t # "else" /\ Returns
    /\ code' = PatchJal(code, {Top.br}, Size)
    /\ stack' = Pop
    /\ UNCHANGED <<phase, prog, at, func, labels, epis, errors, machine>>
EndElse ==
    /\ Resumed("else") /\ Returns
    /\ code' = PatchJal(PatchJal(code, {Top.br}, Top.top), {Top.top - 1}, Size)
    /\ stack' = Pop
    /\ UNCHANGED <<phase, prog, at, func, labels, epis, errors, machine>>

-----------------------------------------------------------------------------
(* Loops.                                                                  *)

\* Mutant: a loop whose continue target is not known keeps the outer loop's.
EnterLoopOuter(frame, label) ==
    /\ stack' = Append(stack, frame)
    /\ func' = [func EXCEPT !.contLabel = IF label = 0 THEN @ ELSE label, !.loops = @ + 1]

\* The loop's body is next; continue jumps to label at once, or is recorded if 0.
EnterLoop(frame, label) ==
    /\ stack' = Append(stack, frame)
    /\ func' = [func EXCEPT !.contLabel = label, !.loops = @ + 1]

\* Mutant: the depth stays up.
LeaveLoopDeep(c, breakTo, continueTo) ==
    /\ code' = PatchJal(PatchJal(c, From(func.breaks, Top.nb), breakTo), From(func.conts, Top.nc), continueTo)
    /\ func' = [func EXCEPT !.breaks = SubSeq(@, 1, Top.nb), !.conts = SubSeq(@, 1, Top.nc), !.contLabel = Top.cl]
    /\ stack' = Pop /\ Returns
    /\ UNCHANGED <<phase, prog, labels, epis, machine>>

\* The recorded jumps of the loop are patched and what it saved is restored.
LeaveLoop(c, breakTo, continueTo) ==
    /\ code' = PatchJal(PatchJal(c, From(func.breaks, Top.nb), breakTo), From(func.conts, Top.nc), continueTo)
    /\ func' = [func EXCEPT !.breaks = SubSeq(@, 1, Top.nb), !.conts = SubSeq(@, 1, Top.nc),
                            !.contLabel = Top.cl, !.loops = @ - 1]
    /\ stack' = Pop /\ Returns
    /\ UNCHANGED <<phase, prog, labels, epis, machine>>

WhileStmt ==
    /\ AtStmt("while") /\ Eat(1) /\ Calls
    /\ code' = code \o Test(at, "bne")
    /\ EnterLoop([Frame("while") EXCEPT !.br = Size + 2, !.top = Size], Size)
    /\ UNCHANGED <<phase, prog, labels, epis, errors, machine>>
EndWhile ==
    /\ Resumed("while")
    /\ LET c == Append(code, Jal)
       IN  LeaveLoop(PatchJal(PatchJal(c, {Top.br}, Size + 1), {Size}, Top.top), Size + 1, Top.top)
    /\ UNCHANGED <<at, errors>>

DoStmt ==
    /\ AtStmt("do") /\ Eat(1) /\ Calls
    /\ EnterLoop([Frame("do") EXCEPT !.top = Size], 0)
    /\ UNCHANGED <<phase, prog, labels, epis, code, errors, machine>>
EndDo ==
    /\ Resumed("do")
    /\ IF Cur.t = "until" THEN Eat(1) /\ UNCHANGED errors ELSE Error("expected while") /\ UNCHANGED at
    /\ LET c == code \o Test(Top.tok, "beq")
       IN  LeaveLoop(PatchJal(c, {Size + 2}, Top.top), Size + 3, Size)

\* The post expression is passed over and parsed again after the body.
ForStmt ==
    /\ AtStmt("for") /\ Eat(1) /\ Calls
    /\ LET init == IF "init" \in Cur.parts THEN <<Event("init", at)>> ELSE <<>>
           cond == IF "cond" \in Cur.parts THEN Test(at, "bne") ELSE <<>>
           start == Size + Len(init)
       IN  /\ code' = code \o init \o cond
           /\ EnterLoop([Frame("for") EXCEPT !.br = IF cond # <<>> THEN start + 2 ELSE 0, !.top = start], 0)
    /\ UNCHANGED <<phase, prog, labels, epis, errors, machine>>
EndFor ==
    /\ Resumed("for")
    /\ LET post == IF "post" \in prog[Top.tok].parts THEN <<Event("post", Top.tok)>> ELSE <<>>
           c == Append(code \o post, Jal)
           end == Len(c)
           exits == IF "cond" \in prog[Top.tok].parts THEN {Top.br} ELSE {}
       IN  LeaveLoop(PatchJal(PatchJal(c, exits, end), {end - 1}, Top.top), end, Size)
    /\ UNCHANGED <<at, errors>>

-----------------------------------------------------------------------------
(* switch, break, continue, return, labels.                                *)

\* The value is saved in a slot of its own; its braces belong to the statement.
SwitchStmt ==
    /\ AtStmt("switch") /\ Returns
    /\ IF at < Len(prog) /\ prog[at + 1].t = "{" THEN Eat(2) /\ UNCHANGED errors ELSE Eat(1) /\ Error("expected {")
    /\ code' = code \o <<Event("switch", at), Insn("sd", at, "-"), Jal>>
    /\ stack' = Append(stack, [Frame("switch") EXCEPT !.br = Size + 2])
    /\ func' = [func EXCEPT !.switches = @ + 1]
    /\ UNCHANGED <<phase, prog, labels, epis, machine>>
CaseLabel ==
    /\ Resumed("switch") /\ Cur.t = "case" /\ Len(Top.cases) < CASE_MAX /\ Eat(1)
    /\ IF \E i \in DOMAIN Top.cases : Top.cases[i].key = Cur.n THEN Error("duplicate case") ELSE UNCHANGED errors
    /\ stack' = Append(Pop, [Top EXCEPT !.cases = Append(@, [key |-> Cur.n, label |-> Size])])
    /\ UNCHANGED <<phase, prog, back, func, labels, epis, code, machine>>
TooManyCases ==
    /\ Resumed("switch") /\ Cur.t = "case" /\ Len(Top.cases) >= CASE_MAX
    /\ Fatal
DefaultLabel ==
    /\ Resumed("switch") /\ Cur.t = "default" /\ Eat(1)
    /\ IF Top.default # 0 THEN Error("duplicate default") ELSE UNCHANGED errors
    /\ stack' = Append(Pop, [Top EXCEPT !.default = Size])
    /\ UNCHANGED <<phase, prog, back, func, labels, epis, code, machine>>
NextInSwitch ==
    /\ Resumed("switch") /\ Cur.t \notin {"}", "eof", "case", "default"} /\ Calls
    /\ UNCHANGED <<phase, prog, at, stack, func, labels, epis, code, errors, machine>>

\* The dispatch code, after the body: compare with each key in turn.
Dispatch(frame, start) ==
    [i \in 1 .. 2 * Len(frame.cases) |->
        IF i % 2 = 1 THEN Insn("case", 0, frame.cases[(i + 1) \div 2].key)
        ELSE JalTo(start + i - 1, frame.cases[i \div 2].label)]
EndSwitch ==
    /\ Resumed("switch") /\ Cur.t \in {"}", "eof"}
    /\ IF Cur.t = "}" THEN Eat(1) /\ UNCHANGED errors ELSE Error("expected }") /\ UNCHANGED at
    /\ LET c == code \o <<Jal, Insn("ld", Top.tok, "-")>> \o Dispatch(Top, Size + 2)
           default == IF Top.default # 0 THEN <<JalTo(Len(c), Top.default)>> ELSE <<>>
           whole == c \o default
       IN  code' = PatchJal(PatchJal(PatchJal(whole, {Top.br}, Size + 1), {Size}, Len(whole)),
                            From(func.breaks, Top.nb), Len(whole))
    /\ func' = [func EXCEPT !.breaks = SubSeq(@, 1, Top.nb), !.switches = @ - 1]
    /\ stack' = Pop /\ Returns
    /\ UNCHANGED <<phase, prog, labels, epis, machine>>

BreakStmt ==
    /\ AtStmt("break") /\ Eat(1) /\ Returns
    /\ IF func.loops = 0 /\ func.switches = 0
       THEN Error("break") /\ UNCHANGED <<code, func>>
       ELSE /\ Len(func.breaks) < FIXUP_MAX
            /\ code' = Append(code, Jal)
            /\ func' = [func EXCEPT !.breaks = Append(@, Size)]
            /\ UNCHANGED errors
    /\ UNCHANGED <<phase, prog, stack, labels, epis, machine>>

ContinueStmt ==
    /\ AtStmt("continue") /\ Eat(1) /\ Returns
    /\ IF func.loops = 0
       THEN Error("continue") /\ UNCHANGED <<code, func>>
       ELSE /\ UNCHANGED errors
            /\ IF func.contLabel # 0
               THEN code' = Append(code, JalTo(Size, func.contLabel)) /\ UNCHANGED func
               ELSE /\ Len(func.conts) < FIXUP_MAX
                    /\ code' = Append(code, Jal) /\ func' = [func EXCEPT !.conts = Append(@, Size)]
    /\ UNCHANGED <<phase, prog, stack, labels, epis, machine>>

\* Neither looks whether there is room for one more jump to be patched.
TooManyFixups ==
    /\ \/ AtStmt("break") /\ (func.loops # 0 \/ func.switches # 0) /\ Len(func.breaks) >= FIXUP_MAX
       \/ AtStmt("continue") /\ func.loops # 0 /\ func.contLabel = 0 /\ Len(func.conts) >= FIXUP_MAX
    /\ Overrun

\* Mutant: only one of the two is recorded.
RecordOne(off) == IF Len(epis) < EPILOGUE_PATCH_MAX THEN Append(epis, off) ELSE epis

\* epilogue_record, for the two instructions that hold the frame size.
Record(off) ==
    IF Len(epis) + 2 <= EPILOGUE_PATCH_MAX THEN epis \o <<off, off>>
    ELSE IF Len(epis) < EPILOGUE_PATCH_MAX THEN Append(epis, off) ELSE epis

ReturnStmt ==
    /\ AtStmt("return") /\ Eat(1) /\ Returns
    /\ code' = code \o <<Event("return", at), Insn("ret", 0, "-")>>
    /\ epis' = Record(Size + 1)
    /\ UNCHANGED <<phase, prog, stack, func, labels, errors, machine>>

Named(name) == {i \in DOMAIN labels : labels[i].name = name}

\* Mutant: a label does not patch the jumps that wait for it.
LabelStmtLate ==
    /\ AtStmt("label") /\ Eat(1) /\ Returns
    /\ labels' = IF Named(Cur.n) = {}
                 THEN Append(labels, [name |-> Cur.n, offset |-> Size, patches |-> {}])
                 ELSE [i \in DOMAIN labels |-> IF i \in Named(Cur.n) THEN [labels[i] EXCEPT !.offset = Size] ELSE labels[i]]
    /\ UNCHANGED <<phase, prog, stack, func, epis, code, errors, machine>>

\* label_find_or_add, label_define.
LabelStmt ==
    /\ AtStmt("label")
    /\ IF Named(Cur.n) = {} /\ Len(labels) >= MAX_LABELS THEN Fatal
       ELSE /\ Eat(1) /\ Returns
            /\ IF Named(Cur.n) = {}
               THEN /\ labels' = Append(labels, [name |-> Cur.n, offset |-> Size, patches |-> {}])
                    /\ UNCHANGED <<code, errors>>
               ELSE \E i \in Named(Cur.n) :
                      IF labels[i].offset # 0
                      THEN Error("duplicate label") /\ UNCHANGED <<code, labels>>
                      ELSE /\ code' = PatchJal(code, labels[i].patches, Size)
                           /\ labels' = [labels EXCEPT ![i].offset = Size, ![i].patches = {}]
                           /\ UNCHANGED errors
            /\ UNCHANGED <<phase, prog, stack, func, epis, machine>>

\* label_find_or_add, label_emit_jump.
GotoStmt ==
    /\ AtStmt("goto")
    /\ IF \/ Named(Cur.n) = {} /\ Len(labels) >= MAX_LABELS
          \/ \E i \in Named(Cur.n) : labels[i].offset = 0 /\ Cardinality(labels[i].patches) >= MAX_PATCHES
       THEN Fatal
       ELSE /\ Eat(1) /\ Returns
            /\ IF Named(Cur.n) = {}
               THEN /\ labels' = Append(labels, [name |-> Cur.n, offset |-> 0, patches |-> {Size}])
                    /\ code' = Append(code, Jal)
               ELSE \E i \in Named(Cur.n) :
                      IF labels[i].offset # 0
                      THEN /\ code' = Append(code, JalTo(Size, labels[i].offset))
                           /\ UNCHANGED labels
                      ELSE /\ code' = Append(code, Jal)
                           /\ labels' = [labels EXCEPT ![i].patches = @ \cup {Size}]
            /\ UNCHANGED <<phase, prog, stack, func, epis, errors, machine>>

\* The end of gen_func_body: the last epilogue, the frame size patched into the
\* recorded ones, undefined labels reported.
Undefined == {[what |-> "undefined label", tok |-> i] : i \in
                {j \in DOMAIN labels : labels[j].offset = 0 /\ labels[j].patches # {}}}
EndFunction ==
    /\ phase = "parse" /\ back /\ stack = <<>>
    /\ LET c == code \o <<Event("end", 0), Insn("ret", 0, "-")>>
           recorded == Record(Size + 1)
       IN  code' = [i \in DOMAIN c |->
                       IF c[i].op = "ret"
                       THEN [c[i] EXCEPT !.delta = Cardinality({k \in DOMAIN recorded : recorded[k] = i - 1})]
                       ELSE c[i]]
    /\ epis' = <<>>
    /\ errors' = errors \cup Undefined
    /\ phase' = IF errors' = {} THEN "run" ELSE "rejected"
    /\ UNCHANGED <<prog, at, back, stack, func, labels, machine>>

-----------------------------------------------------------------------------
(* The machine: external.                                                  *)

I == code[pc + 1]
Runs(op) == phase = "run" /\ I.op = op
Goto(off) == pc' = off

\* An expression, condition or switch value is evaluated.
Outcomes(what) == CASE what = "test" -> {"0", "1"} [] what = "switch" -> Values [] OTHER -> {"-"}
RunEvent ==
    /\ Runs("event")
    /\ \E v \in Outcomes(I.n) :
          /\ last' = [ev |-> <<I.n, I.tok>>, choice |-> v, tick |-> 1 - last.tick]
          /\ t0' = v
    /\ Goto(pc + 1) /\ UNCHANGED <<phase, compiler, t1, slots>>
RunPrologue == Runs("prologue") /\ Goto(pc + 1) /\ UNCHANGED <<phase, compiler, t0, t1, slots, last>>
RunBranch ==
    /\ phase = "run" /\ I.op \in {"bne", "beq", "case"}
    /\ LET taken == CASE I.op = "bne" -> t0 # "0" [] I.op = "beq" -> t0 = "0" [] I.op = "case" -> t1 # I.n
       IN  Goto(IF taken THEN pc + 2 ELSE pc + 1)
    /\ t0' = IF I.op = "case" THEN I.n ELSE t0
    /\ UNCHANGED <<phase, compiler, t1, slots, last>>
RunJal ==
    /\ Runs("jal") /\ pc + Distance(I.delta) \in 0 .. Size - 1
    /\ Goto(pc + Distance(I.delta)) /\ UNCHANGED <<phase, compiler, t0, t1, slots, last>>
\* Where a jump that is too long lands outside the function is not modelled further.
RunAstray ==
    /\ Runs("jal") /\ pc + Distance(I.delta) \notin 0 .. Size - 1
    /\ Stop("astray")
RunSave ==
    /\ Runs("sd") /\ Goto(pc + 1)
    /\ slots' = [s \in DOMAIN slots \cup {I.tok} |-> IF s = I.tok THEN t0 ELSE slots[s]]
    /\ UNCHANGED <<phase, compiler, t0, t1, last>>
RunLoad == Runs("ld") /\ Goto(pc + 1) /\ t1' = slots[I.tok] /\ UNCHANGED <<phase, compiler, t0, slots, last>>
\* A return that lacks the frame size reads the saved registers elsewhere.
RunReturn ==
    /\ Runs("ret")
    /\ phase' = IF I.delta = 2 THEN "halt" ELSE "lost"
    /\ UNCHANGED <<compiler, machine>>

Parse ==
    \/ ExprStmt \/ EmptyStmt \/ OpenBlock \/ NextInBlock \/ CloseBlock
    \/ IfStmt \/ ElsePart \/ EndIf \/ EndElse
    \/ WhileStmt \/ EndWhile \/ DoStmt \/ EndDo \/ ForStmt \/ EndFor
    \/ SwitchStmt \/ CaseLabel \/ TooManyCases \/ DefaultLabel \/ NextInSwitch \/ EndSwitch
    \/ BreakStmt \/ ContinueStmt \/ TooManyFixups \/ ReturnStmt \/ LabelStmt \/ GotoStmt \/ EndFunction
Run ==
    \/ RunEvent \/ RunPrologue \/ RunBranch \/ RunJal \/ RunAstray \/ RunSave \/ RunLoad \/ RunReturn

Next == Parse \/ Run
Spec == Init /\ [][Next]_vars

\* The parser and the machine go on while they can.
FairSpec == Spec /\ WF_vars(Next)

-----------------------------------------------------------------------------
(* Properties.                                                             *)

C == INSTANCE Statements

Offsets == 0 .. Size - 1
InReach == Size <= JAL_REACH

\* Compiled code does what the statements mean: whatever the conditions and
\* switch values turn out to be, the expressions, tests and returns happen in the
\* order the nesting of if, loops, switch, break, continue and goto prescribes,
\* although gen.c emits each forward jump before it knows the target.  This is
\* promised of functions that are no longer than a jal can reach.
FollowsC == [][InReach /\ last' # last => last'.ev = C!After(prog, last.ev, last.choice)]_last

\* A function is rejected exactly when it breaks a constraint: break or continue
\* with nothing to leave, a label or case twice, a goto to nowhere, a switch
\* without braces.  (Whether its tables have room is another matter: see
\* TooManyCases, TooManyFixups, LabelStmt and GotoStmt.)
RejectsExactly ==
    phase \in {"run", "rejected"} /\ pc = 0 => (errors = {} <=> C!Valid(prog))

\* Once a function is accepted every jump of it has been patched, and, in a
\* function no longer than a jal can reach, to an instruction of the function.
JumpsLand ==
    phase = "run" =>
        \A i \in DOMAIN code : code[i].op = "jal" =>
            /\ code[i].target = "known"
            /\ InReach => i - 1 + Distance(code[i].delta) \in Offsets

\* Code never runs on without anything to be seen of it, in a function no longer
\* than a jal can reach.
KeepsGoing ==
    \/ []<>(phase \in {"halt", "lost", "rejected", "fatal", "overrun"} \/ ~InReach)
    \/ []<><<last' # last>>_vars

\* Every return knows the frame size, the last one at the end included, while
\* g_epilogue_patch_off has room for all of them.
ReturnsRestore ==
    phase = "lost" => 2 * (Cardinality(C!Tokens(prog, "return")) + 1) > EPILOGUE_PATCH_MAX
=============================================================================
