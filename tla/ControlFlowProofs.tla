-------------------------- MODULE ControlFlowProofs --------------------------
(***************************************************************************)
(* Proofs about the statement compiler: every jump of an accepted function *)
(* has been patched to an instruction of the function, whatever the nest   *)
(* of statements, if a jal can reach that far, and every return gives back *)
(* the frame while there is room to record them.                           *)
(***************************************************************************)
EXTENDS ControlFlow, TLAPS

\* The time the provers are given for a leaf that names none.
USE SMTT(20), ZenonT(20)

-----------------------------------------------------------------------------
(* The inductive invariant.                                                *)

Ops == {"prologue", "event", "jal", "bne", "beq", "case", "sd", "ld", "ret"}
Names == STRING \cup {"-", "expr", "test", "init", "post", "switch", "return", "end"}
Insns == [op : Ops, tok : Nat, n : Names, delta : Int, target : {"unknown", "known"}]
Kinds == {"block", "if", "else", "while", "do", "for", "switch"}
Frames == [k : Kinds, tok : Nat, br : Nat, top : Nat,
           nb : Nat, nc : Nat, cl : Nat, cases : Seq([key : STRING, label : Nat]), default : Nat]
Funcs == [breaks : Seq(Nat), conts : Seq(Nat), contLabel : Nat, loops : Nat, switches : Nat]
LabelSet == [name : STRING, offset : Nat, patches : SUBSET Nat]

Looping == {"while", "do", "for"}
Breaking == Looping \cup {"switch"}

\* The instruction at index i of c is a jump inside c, its end included.
Lands(c, i) == c[i].target = "known" /\ i - 1 + c[i].delta \in 0 .. Len(c)

\* Every jump of c lands or is one of H, and every return is one of R.
Good(c, H, R) ==
    /\ c \in Seq(Insns)
    /\ \A i \in DOMAIN c : c[i].op = "jal" => Lands(c, i) \/ i - 1 \in H
    /\ \A i \in DOMAIN c : c[i].op = "ret" => i - 1 \in R

\* The jumps that the call f of parse_stmt of the body p has yet to patch.
Holes(f, p) ==
    {h \in {f.br} : f.k \in {"if", "else", "while", "switch"}}
    \cup {h \in {f.br} : f.k = "for" /\ "cond" \in p[f.tok].parts}
    \cup {h \in {f.top - 1} : f.k = "else"}
StackHoles(s, p) == UNION {Holes(s[j], p) : j \in DOMAIN s}
LabelHoles(l) == UNION {l[i].patches : i \in {j \in DOMAIN l : l[j].offset = 0}}
Waiting(s, p, f, l) == StackHoles(s, p) \cup From(f.breaks, 0) \cup From(f.conts, 0) \cup LabelHoles(l)

\* The calls of s that are in a statement of the kinds K.
Within(s, K) == {j \in DOMAIN s : s[j].k \in K}

\* There are n of them: r lists them, the outermost first.
Counted(n, s, K) ==
    \E r \in [1 .. n -> DOMAIN s] :
        /\ \A i, j \in 1 .. n : i < j => r[i] < r[j]
        /\ Within(s, K) = {r[i] : i \in 1 .. n}

\* What the calls know as a target is an offset of the code, of n instructions.
Bounded(s, n) ==
    \A j \in DOMAIN s :
        /\ s[j].cl <= n /\ s[j].top <= n /\ s[j].default <= n
        /\ \A i \in DOMAIN s[j].cases : s[j].cases[i].label <= n

\* The recorded jumps belong to the calls in progress: g_func counts these, each
\* knows how many jumps were recorded before it, and the outermost found none.
Nested(s, f) ==
    /\ s \in Seq(Frames) /\ f \in Funcs
    /\ Counted(f.loops, s, Looping) /\ Counted(f.switches, s, {"switch"})
    /\ \A j \in DOMAIN s : s[j].nb <= Len(f.breaks) /\ s[j].nc <= Len(f.conts)
    /\ \A i, j \in DOMAIN s : i < j => s[i].nb <= s[j].nb /\ s[i].nc <= s[j].nc
    /\ \A j \in Within(s, Breaking) : s[j].nb > 0 => \E i \in Within(s, Breaking) : i < j
    /\ \A j \in Within(s, Looping) : s[j].nc > 0 => \E i \in Within(s, Looping) : i < j
    /\ Len(f.breaks) > 0 => Within(s, Breaking) # {}
    /\ Len(f.conts) > 0 => Within(s, Looping) # {}

LabelsKnown(l, n) == l \in Seq(LabelSet) /\ \A i \in DOMAIN l : l[i].offset <= n

\* S has n different elements.
Has(S, n) == n \in Nat /\ \E r \in [1 .. n -> S] : \A i, j \in 1 .. n : r[i] = r[j] => i = j

\* There is room for the returns of the function.
Room == \A n \in Nat : Has(C!Tokens(prog, "return"), n) => 2 * (n + 1) <= EPILOGUE_PATCH_MAX

\* The offsets that e records for both instructions of an epilogue.
Twice(e) == {x \in Nat : \E m \in DOMAIN e : {k \in DOMAIN e : e[k] = x} = {m, m + 1}}
Before == {p \in C!Tokens(prog, "return") : p < at}
Recorded ==
    /\ \A k \in DOMAIN epis : epis[k] < Size
    /\ \E n \in Nat : Has(Before, n) /\ Len(epis) <= 2 * n

\* Where a return may be: at an offset recorded twice, while there is room.
Rets == IF Room THEN Twice(epis) ELSE Nat

\* While the function is compiled.
Compiling ==
    /\ pc = 0
    /\ Good(code, Waiting(stack, prog, func, labels), Rets)
    /\ Bounded(stack, Size) /\ Nested(stack, func) /\ func.contLabel <= Size
    /\ LabelsKnown(labels, Size)
    /\ epis \in Seq(Nat)
    /\ Room => Recorded

\* Every jump has been patched, and the distance asked for leads to an instruction.
AllPatched ==
    \A i \in DOMAIN code : code[i].op = "jal" => code[i].target = "known" /\ i - 1 + code[i].delta \in Offsets

\* While its code runs: the code ends in an event and a return, so that no branch
\* leads past it.
Running ==
    /\ code \in Seq(Insns) /\ AllPatched
    /\ Size >= 2 /\ code[Size].op = "ret" /\ code[Size - 1].op = "event"
    /\ pc \in Offsets
    /\ Room => \A i \in DOMAIN code : code[i].op = "ret" => code[i].delta = 2

CInv ==
    /\ prog \in Programs /\ at \in Nat \ {0}
    /\ phase = "parse" => Compiling
    /\ phase = "run" => Running
    /\ phase = "lost" => ~Room

-----------------------------------------------------------------------------
(* The machine, the initial states.                                        *)

\* Control stays in the code of the function, or has gone astray.
LEMMA RunKeeps ==
  ASSUME CInv, Run
  PROVE  CInv'
<1>1. phase = "run" /\ UNCHANGED <<prog, at, code>>
  BY Zenon DEF Run, RunEvent, RunPrologue, RunBranch, RunJal, RunAstray, RunSave, RunLoad, RunReturn, Runs,
              Stop, compiler
<1>2. Running /\ prog \in Programs /\ at \in Nat \ {0}
  BY <1>1, Zenon DEF CInv
<1>3. Room' = Room
  <2>1. C!Tokens(prog, "return")' = C!Tokens(prog, "return")
    BY <1>1, Zenon DEF C!Tokens
  <2> QED BY <2>1, Zenon DEF Room
<1>4. PICK n : n = Len(code)
  BY Zenon
<1>5. /\ code \in Seq(Insns) /\ n \in Nat /\ DOMAIN code = 1 .. n /\ pc \in 0 .. n - 1
      /\ n >= 2 /\ code[n].op = "ret" /\ code[n - 1].op = "event"
      /\ Room => \A i \in DOMAIN code : code[i].op = "ret" => code[i].delta = 2
  <2>1. /\ code \in Seq(Insns) /\ pc \in 0 .. n - 1
        /\ n >= 2 /\ code[n].op = "ret" /\ code[n - 1].op = "event"
        /\ Room => \A i \in DOMAIN code : code[i].op = "ret" => code[i].delta = 2
    BY <1>1, <1>2, <1>4, Zenon DEF Running, Offsets, Size
  <2> QED BY <1>4, <2>1
<1>6. pc + 1 \in DOMAIN code /\ pc \in Nat /\ pc + 1 - 1 = pc
  BY <1>5
<1>7. PICK x : x = code[pc + 1]
  BY Zenon
<1>8. ASSUME phase' = phase, pc' \in 0 .. n - 1
      PROVE  CInv'
  <2>1. AllPatched' = AllPatched
    BY <1>1, Zenon DEF AllPatched, Offsets, Size
  <2>2. Running'
    BY <1>1, <1>2, <1>3, <1>4, <1>8, <2>1, Zenon DEF Running, Offsets, Size
  <2> QED BY <1>1, <1>2, <1>8, <2>2 DEF CInv
<1>9. ASSUME x.op # "ret"
      PROVE  pc + 1 \in 0 .. n - 1
  <2>1. pc + 1 # n
    BY <1>5, <1>7, <1>9, Zenon
  <2> QED BY <1>5, <2>1
<1>10. ASSUME x.op \in {"bne", "beq", "case"}
       PROVE  pc + 2 \in 0 .. n - 1
  <2>1. x.op # "ret" /\ x.op # "event"
    BY <1>10
  <2>2. pc + 1 # n /\ pc + 1 # n - 1
    BY <1>5, <1>7, <2>1, Zenon
  <2> QED BY <1>5, <2>2
<1>11. CASE RunEvent
  <2>1. phase' = phase /\ pc' = pc + 1 /\ x.op = "event"
    BY <1>7, <1>11, Zenon DEF RunEvent, Runs, Goto, I
  <2>2. x.op # "ret"
    BY <2>1
  <2> QED BY <1>8, <1>9, <2>1, <2>2, Zenon
<1>12. CASE RunPrologue
  <2>1. phase' = phase /\ pc' = pc + 1 /\ x.op = "prologue"
    BY <1>7, <1>12, Zenon DEF RunPrologue, Runs, Goto, I
  <2>2. x.op # "ret"
    BY <2>1
  <2> QED BY <1>8, <1>9, <2>1, <2>2, Zenon
<1>13. CASE RunBranch
  <2>1. phase' = phase /\ pc' \in {pc + 1, pc + 2} /\ x.op \in {"bne", "beq", "case"}
    BY <1>7, <1>13, Zenon DEF RunBranch, Goto, I
  <2>2. x.op # "ret"
    BY <2>1
  <2> QED BY <1>8, <1>9, <1>10, <2>1, <2>2, Zenon
<1>14. CASE RunJal
  <2>1. phase' = phase /\ pc' \in 0 .. n - 1
    BY <1>4, <1>14, Zenon DEF RunJal, Runs, Goto, Size
  <2> QED BY <1>8, <2>1, Zenon
<1>15. CASE RunSave
  <2>1. phase' = phase /\ pc' = pc + 1 /\ x.op = "sd"
    BY <1>7, <1>15, Zenon DEF RunSave, Runs, Goto, I
  <2>2. x.op # "ret"
    BY <2>1
  <2> QED BY <1>8, <1>9, <2>1, <2>2, Zenon
<1>16. CASE RunLoad
  <2>1. phase' = phase /\ pc' = pc + 1 /\ x.op = "ld"
    BY <1>7, <1>16, Zenon DEF RunLoad, Runs, Goto, I
  <2>2. x.op # "ret"
    BY <2>1
  <2> QED BY <1>8, <1>9, <2>1, <2>2, Zenon
<1>17. CASE RunReturn
  <2>1. x.op = "ret" /\ phase' = IF x.delta = 2 THEN "halt" ELSE "lost"
    BY <1>7, <1>17, Zenon DEF RunReturn, Runs, I
  <2>2. Room => x.delta = 2
    BY <1>5, <1>6, <1>7, <2>1, Zenon
  <2> QED BY <1>1, <1>2, <1>3, <2>1, <2>2 DEF CInv
<1>18. CASE RunAstray
  <2>1. phase' = "astray"
    BY <1>18, Zenon DEF RunAstray, Stop
  <2> QED BY <1>1, <1>2, <2>1 DEF CInv
<1> QED BY <1>11, <1>12, <1>13, <1>14, <1>15, <1>16, <1>17, <1>18, Zenon DEF Run

LEMMA StutterKeeps == ASSUME CInv, UNCHANGED vars PROVE CInv'
<1>1. /\ prog' = prog /\ at' = at /\ stack' = stack /\ func' = func /\ labels' = labels /\ epis' = epis
      /\ code' = code /\ pc' = pc /\ phase' = phase
  BY Zenon DEF vars, compiler, machine
<1>2. C!Tokens(prog, "return")' = C!Tokens(prog, "return")
  BY <1>1, Zenon DEF C!Tokens
<1>3. Room' = Room /\ Before' = Before
  BY <1>1, <1>2, Zenon DEF Room, Before
<1>4. Compiling' = Compiling
  BY <1>1, <1>3, Zenon DEF Compiling, Recorded, Rets, Size
<1>5. Running' = Running
  BY <1>1, <1>3, Zenon DEF Running, AllPatched, Offsets, Size
<1> QED BY <1>1, <1>3, <1>4, <1>5, Zenon DEF CInv

\* The instructions emitted are instructions.
LEMMA InsnType ==
  ASSUME NEW op \in Ops, NEW tok \in Nat, NEW n \in Names
  PROVE  /\ Insn(op, tok, n) \in Insns /\ Insn(op, tok, n).op = op
BY DEF Insn, Insns

LEMMA CInit == ASSUME Init PROVE CInv
<1>hasNone. ASSUME NEW S PROVE Has(S, 0)
  <2>1. 1 .. 0 = {} /\ 0 \in Nat
    OBVIOUS
  <2>2. PICK r : r = [i \in {} |-> i]
    BY Zenon
  <2>3. r \in [{} -> S]
    BY <2>2, Zenon
  <2> QED BY <2>1, <2>3, Zenon DEF Has
<1>1. /\ phase = "parse" /\ prog \in Programs /\ at = 1 /\ stack = <<>> /\ labels = <<>> /\ epis = <<>> /\ pc = 0
      /\ func = [breaks |-> <<>>, conts |-> <<>>, contLabel |-> 0, loops |-> 0, switches |-> 0]
      /\ code = <<Insn("prologue", 0, "-")>>
  BY Zenon DEF Init
<1>2. PICK x : x = Insn("prologue", 0, "-")
  BY Zenon
<1>3. x \in Insns /\ x.op = "prologue"
  <2>1. "prologue" \in Ops /\ "-" \in Names /\ 0 \in Nat
    BY DEF Ops, Names
  <2> QED BY <1>2, <2>1, InsnType, Zenon
<1>4. code \in Seq(Insns) /\ Len(code) = 1 /\ DOMAIN code = {1} /\ code[1] = x
  BY <1>1, <1>2, <1>3
<1>5. \A H, R : Good(code, H, R)
  <2>1. "prologue" # "jal" /\ "prologue" # "ret"
    OBVIOUS
  <2> QED BY <1>3, <1>4, <2>1, Zenon DEF Good
<1>6. DOMAIN stack = {} /\ DOMAIN labels = {} /\ DOMAIN epis = {} /\ Len(epis) = 0 /\ epis \in Seq(Nat)
      /\ labels \in Seq(LabelSet) /\ stack \in Seq(Frames) /\ <<>> \in Seq(Nat) /\ Len(<<>>) = 0
  BY <1>1
<1>7. func \in Funcs /\ func.breaks = <<>> /\ func.conts = <<>> /\ func.contLabel = 0 /\ func.loops = 0 /\ func.switches = 0
  <2>1. 0 \in Nat
    OBVIOUS
  <2> QED BY <1>1, <1>6, <2>1, Zenon DEF Funcs
<1>8. \A K : Within(stack, K) = {}
  BY <1>6, Zenon DEF Within
<1>9. Nested(stack, func)
  <2>1. ~(Len(func.breaks) > 0) /\ ~(Len(func.conts) > 0)
    BY <1>6, <1>7
  <2>2. \A K : Counted(0, stack, K)
    <3>1. PICK r : r = [i \in {} |-> i]
      BY Zenon
    <3>2. r \in [{} -> DOMAIN stack] /\ 1 .. 0 = {}
      BY <3>1
    <3> QED BY <1>8, <3>2, Zenon DEF Counted
  <2> QED BY <1>6, <1>7, <1>8, <2>1, <2>2, Zenon DEF Nested
<1>10. Bounded(stack, Len(code)) /\ LabelsKnown(labels, Len(code)) /\ func.contLabel <= Len(code)
  <2>1. func.contLabel <= Len(code)
    BY <1>4, <1>7
  <2> QED BY <1>6, <2>1, Zenon DEF Bounded, LabelsKnown
<1>11. at \in Nat \ {0}
  BY <1>1
<1>12. Recorded
  <2>1. 0 \in Nat /\ 0 <= 2 * 0
    OBVIOUS
  <2> QED BY <1>6, <2>1, <1>hasNone, Zenon DEF Recorded
<1>13. Compiling
  BY <1>1, <1>5, <1>6, <1>9, <1>10, <1>12, Zenon DEF Compiling, Size
<1>14. "parse" # "run" /\ "parse" # "lost"
  OBVIOUS
<1> QED BY <1>1, <1>11, <1>13, <1>14, Zenon DEF CInv

-----------------------------------------------------------------------------
(* The returns and the end of the function.                                *)

\* A set has the elements of its subsets, and one more with one that they have not.
LEMMA HasMore ==
  ASSUME NEW S, NEW T, S \subseteq T, NEW n \in Nat, Has(S, n)
  PROVE  Has(T, n)
<1>1. PICK r \in [1 .. n -> S] : \A i, j \in 1 .. n : r[i] = r[j] => i = j
  BY Zenon DEF Has
<1>2. r \in [1 .. n -> T]
  BY <1>1, Zenon
<1> QED BY <1>1, <1>2, Zenon DEF Has

LEMMA RecordType ==
  ASSUME epis \in Seq(Nat), NEW off \in Nat
  PROVE  Record(off) \in Seq(Nat)
BY DEF Record

\* Both instructions of an epilogue are recorded while there is room.
LEMMA RecordTwice ==
  ASSUME epis \in Seq(Nat), NEW off \in Nat, \A k \in DOMAIN epis : epis[k] < off,
         Len(epis) + 2 <= EPILOGUE_PATCH_MAX
  PROVE  /\ Record(off) \in Seq(Nat) /\ Len(Record(off)) = Len(epis) + 2
         /\ \A k \in DOMAIN Record(off) : Record(off)[k] < off + 1
         /\ Twice(epis) \cup {off} \subseteq Twice(Record(off))
<1>1. PICK e : e = Record(off)
  BY Zenon
<1>2. e = epis \o <<off, off>>
  BY <1>1, Zenon DEF Record
<1>3. PICK n : n = Len(epis)
  BY Zenon
<1>4. n \in Nat /\ DOMAIN epis = 1 .. n
  BY <1>3
<1>5. /\ e \in Seq(Nat) /\ Len(e) = n + 2 /\ e[n + 1] = off /\ e[n + 2] = off
      /\ \A k \in 1 .. n : e[k] = epis[k]
  BY <1>2, <1>3
<1>6. DOMAIN e = 1 .. n + 2
  BY <1>5
<1>7. \A k \in 1 .. n : epis[k] \in Nat /\ epis[k] < off
  BY <1>4
<1>8. ASSUME NEW k \in 1 .. n + 2
      PROVE  /\ e[k] < off + 1
             /\ e[k] = off <=> k \in {n + 1, n + 2}
  <2>1. CASE k \in 1 .. n
    <3>1. e[k] = epis[k] /\ epis[k] \in Nat /\ epis[k] < off
      BY <1>5, <1>7, <2>1, Zenon
    <3> QED BY <1>4, <2>1, <3>1
  <2>2. CASE k \notin 1 .. n
    <3>1. k = n + 1 \/ k = n + 2
      BY <1>4, <2>2
    <3>2. e[k] = off
      BY <1>5, <3>1, Zenon
    <3> QED BY <3>1, <3>2
  <2> QED BY <2>1, <2>2, Zenon
<1>9. off \in Twice(e)
  <2>1. {k \in DOMAIN e : e[k] = off} = {n + 1, n + 2}
    <3>1. n + 1 \in 1 .. n + 2 /\ n + 2 \in 1 .. n + 2
      BY <1>4
    <3> QED BY <1>6, <1>8, <3>1, Zenon
  <2>2. n + 1 \in DOMAIN e /\ n + 1 + 1 = n + 2
    BY <1>4, <1>6
  <2> QED BY <2>1, <2>2, Zenon DEF Twice
<1>10. ASSUME NEW x \in Twice(epis)
       PROVE  x \in Twice(e)
  <2>1. PICK m \in DOMAIN epis : {k \in DOMAIN epis : epis[k] = x} = {m, m + 1}
    BY Zenon DEF Twice
  <2>2. x \in Nat /\ x # off
    <3>1. x \in Nat
      BY Zenon DEF Twice
    <3>2. epis[m] = x
      BY <2>1, Zenon
    <3>3. epis[m] \in Nat /\ epis[m] < off
      BY <1>4, <1>7, Zenon
    <3> QED BY <3>1, <3>2, <3>3
  <2>3. ASSUME NEW k
        PROVE  k \in DOMAIN e /\ e[k] = x <=> k \in DOMAIN epis /\ epis[k] = x
    <3>1. CASE k \in 1 .. n
      <4>1. k \in DOMAIN e /\ k \in DOMAIN epis /\ e[k] = epis[k]
        BY <1>4, <1>5, <1>6, <3>1
      <4> QED BY <4>1, Zenon
    <3>2. CASE k \notin 1 .. n
      <4>1. k \in DOMAIN e => e[k] = off
        <5>1. k \in 1 .. n + 2 => k = n + 1 \/ k = n + 2
          BY <1>4, <3>2
        <5> QED BY <1>5, <1>6, <5>1, Zenon
      <4> QED BY <1>4, <2>2, <3>2, <4>1, Zenon
    <3> QED BY <3>1, <3>2, Zenon
  <2>4. {k \in DOMAIN e : e[k] = x} = {k \in DOMAIN epis : epis[k] = x}
    BY <2>3, Zenon
  <2>5. m \in DOMAIN e
    BY <1>4, <1>6
  <2> QED BY <2>1, <2>2, <2>4, <2>5, Zenon DEF Twice
<1>11. \A k \in DOMAIN e : e[k] < off + 1
  BY <1>6, <1>8, Zenon
<1>12. Len(e) = Len(epis) + 2
  BY <1>3, <1>5, Zenon
<1> QED BY <1>1, <1>5, <1>9, <1>10, <1>11, <1>12, Zenon

\* Facts about sequences.
LEMMA SeqFacts ==
  ASSUME NEW S, NEW s \in Seq(S)
  PROVE  Len(s) \in Nat /\ DOMAIN s = 1 .. Len(s) /\ \A i \in DOMAIN s : s[i] \in S
OBVIOUS

\* What every step of the parser finds.
LEMMA Found ==
  ASSUME CInv, phase = "parse"
  PROVE  /\ code \in Seq(Insns) /\ Size = Len(code) /\ Len(code) \in Nat /\ at \in Nat /\ at >= 1
         /\ Good(code, Waiting(stack, prog, func, labels), Rets)
         /\ Bounded(stack, Len(code)) /\ Nested(stack, func) /\ LabelsKnown(labels, Len(code))
         /\ stack \in Seq(Frames) /\ func \in Funcs /\ func.contLabel \in 0 .. Len(code)
         /\ func.breaks \in Seq(Nat) /\ func.conts \in Seq(Nat) /\ func.loops \in Nat /\ func.switches \in Nat
         /\ prog \in Programs
<1>1. Compiling /\ at \in Nat \ {0} /\ prog \in Programs
  BY Zenon DEF CInv
<1>2. code \in Seq(Insns) /\ stack \in Seq(Frames) /\ func \in Funcs /\ func.contLabel <= Len(code)
  BY <1>1, Zenon DEF Compiling, Good, Nested, Size
<1>3. func.breaks \in Seq(Nat) /\ func.conts \in Seq(Nat) /\ func.loops \in Nat /\ func.switches \in Nat
      /\ func.contLabel \in Nat
  BY <1>2, Zenon DEF Funcs
<1>4. Len(code) \in Nat /\ at \in Nat /\ at >= 1
  BY <1>1, <1>2
<1>5. func.contLabel \in 0 .. Len(code)
  BY <1>2, <1>3, <1>4
<1> QED BY <1>1, <1>2, <1>3, <1>4, <1>5, Zenon DEF Compiling, Size

\* What is to be known of the number of times that e records x.
Counting ==
    \A e \in Seq(Nat) : \A x :
        /\ Cardinality({k \in DOMAIN e : e[k] = x}) \in Nat
        /\ x \in Twice(e) => Cardinality({k \in DOMAIN e : e[k] = x}) = 2

LEMMA EndFunctionKeeps == ASSUME Counting, CInv, EndFunction PROVE CInv'
\* Nothing is left to patch at the end of a function without errors.
<1>nothingWaits. ASSUME CInv, phase = "parse", stack = <<>>, Undefined = {}
                 PROVE  Waiting(stack, prog, func, labels) = {}
  <2> USE <1>nothingWaits
  <2>1. Nested(stack, func) /\ func.breaks \in Seq(Nat) /\ func.conts \in Seq(Nat)
    BY Found, Zenon
  <2>2. DOMAIN stack = {}
    OBVIOUS
  <2>3. StackHoles(stack, prog) = {}
    BY <2>2, Zenon DEF StackHoles
  <2>4. \A K : Within(stack, K) = {}
    BY <2>2, Zenon DEF Within
  <2>5. ~(Len(func.breaks) > 0) /\ ~(Len(func.conts) > 0)
    BY <2>1, <2>4, Zenon DEF Nested
  <2>6. 0 + 1 .. Len(func.breaks) = {} /\ 0 + 1 .. Len(func.conts) = {}
    BY <2>1, <2>5
  <2>7. From(func.breaks, 0) = {} /\ From(func.conts, 0) = {}
    BY <2>6, Zenon DEF From
  <2>8. LabelHoles(labels) = {}
    <3>1. ASSUME NEW j \in DOMAIN labels, labels[j].offset = 0
          PROVE  labels[j].patches = {}
      <4>1. ~(labels[j].offset = 0 /\ labels[j].patches # {})
        BY Zenon DEF Undefined
      <4> QED BY <3>1, <4>1, Zenon
    <3> QED BY <3>1, Zenon DEF LabelHoles
  <2> QED BY <2>3, <2>7, <2>8, Zenon DEF Waiting
<1>0. PICK c : c = code \o <<Event("end", 0), Insn("ret", 0, "-")>>
  BY Zenon
<1>1. PICK e : e = Record(Len(code) + 1)
  BY Zenon
<1>2. /\ phase = "parse" /\ stack = <<>> /\ UNCHANGED <<prog, at, pc>>
      /\ code' = [i \in DOMAIN c |->
                    IF c[i].op = "ret" THEN [c[i] EXCEPT !.delta = Cardinality({k \in DOMAIN e : e[k] = i - 1})]
                    ELSE c[i]]
      /\ phase' = IF errors \cup Undefined = {} THEN "run" ELSE "rejected"
  BY <1>0, <1>1, Zenon DEF EndFunction, machine, Size
<1>3. prog \in Programs /\ at \in Nat \ {0} /\ pc = 0 /\ (Room => Recorded) /\ epis \in Seq(Nat)
  BY <1>2, Zenon DEF CInv, Compiling
<1>4. CASE phase' = "rejected"
  BY <1>2, <1>3, <1>4 DEF CInv
<1>5. CASE phase' = "run" /\ Undefined = {}
  <2>1. Good(code, {}, Rets) /\ Len(code) \in Nat /\ code \in Seq(Insns)
    BY <1>2, <1>5, Found, <1>nothingWaits, Zenon
  <2>2. PICK x : x = Event("end", 0)
    BY Zenon
  <2>3. PICK y : y = Insn("ret", 0, "-")
    BY Zenon
  <2>4. x \in Insns /\ x.op = "event" /\ y \in Insns /\ y.op = "ret"
    <3>1. "event" \in Ops /\ "ret" \in Ops /\ "end" \in Names /\ "-" \in Names /\ 0 \in Nat
      BY DEF Ops, Names
    <3> QED BY <2>2, <2>3, <3>1, InsnType, Zenon DEF Event
  <2>5. PICK n : n = Len(code)
    BY Zenon
  <2>6. n \in Nat /\ DOMAIN code = 1 .. n
    BY <2>1, <2>5
  <2>7. /\ c \in Seq(Insns) /\ Len(c) = n + 2 /\ c[n + 1] = x /\ c[n + 2] = y
        /\ \A i \in 1 .. n : c[i] = code[i]
    BY <1>0, <2>1, <2>2, <2>3, <2>4, <2>5
  <2>8. DOMAIN c = 1 .. n + 2
    BY <2>7
  <2>9. e \in Seq(Nat) /\ (Room => Rets \cup {n + 1} \subseteq Twice(e))
    <3>1. CASE Room
      <4>1. epis \in Seq(Nat) /\ \A k \in DOMAIN epis : epis[k] < n
        BY <1>3, <2>5, <3>1, Zenon DEF Recorded, Size
      <4>2. PICK m \in Nat : Has(Before, m) /\ Len(epis) <= 2 * m
        BY <1>3, <3>1, Zenon DEF Recorded
      <4>3. Len(epis) + 2 <= EPILOGUE_PATCH_MAX
        <5>1. Before \subseteq C!Tokens(prog, "return")
          BY Zenon DEF Before
        <5>2. 2 * (m + 1) <= EPILOGUE_PATCH_MAX
          BY <3>1, <4>2, <5>1, HasMore, Zenon DEF Room
        <5> QED BY <4>1, <4>2, <5>2, CapacityAssumption
      <4>4. n + 1 \in Nat /\ \A k \in DOMAIN epis : epis[k] < n + 1
        <5>1. \A k \in DOMAIN epis : epis[k] \in Nat
          BY <4>1
        <5> QED BY <2>6, <4>1, <5>1
      <4>5. e \in Seq(Nat) /\ Twice(epis) \cup {n + 1} \subseteq Twice(e)
        BY <1>1, <2>5, <4>1, <4>3, <4>4, RecordTwice, Zenon
      <4> QED BY <3>1, <4>5, Zenon DEF Rets
    <3>2. CASE ~Room
      <4>1. n + 1 \in Nat
        BY <2>6
      <4> QED BY <1>1, <1>3, <2>5, <3>2, <4>1, RecordType, Zenon
    <3> QED BY <3>1, <3>2, Zenon
  <2>11. \A i : Cardinality({k \in DOMAIN e : e[k] = i - 1}) \in Nat
    BY <2>9, Zenon DEF Counting
  <2>12. PICK d : d = code'
    BY Zenon
  <2>13. /\ d = [i \in 1 .. n + 2 |-> d[i]]
         /\ \A i \in 1 .. n + 2 : d[i] =
               IF c[i].op = "ret" THEN [c[i] EXCEPT !.delta = Cardinality({k \in DOMAIN e : e[k] = i - 1})] ELSE c[i]
    BY <1>2, <2>8, <2>12, Zenon
  <2>14. ASSUME NEW i \in 1 .. n + 2
         PROVE  /\ d[i] \in Insns /\ d[i].op = c[i].op /\ d[i].target = c[i].target
                /\ c[i].op # "ret" => d[i] = c[i]
                /\ c[i].op = "ret" => d[i].delta = Cardinality({k \in DOMAIN e : e[k] = i - 1})
    <3>1. c[i] \in Insns
      BY <2>7, <2>8
    <3>2. PICK z : z = Cardinality({k \in DOMAIN e : e[k] = i - 1})
      BY Zenon
    <3>3. z \in Nat
      BY <2>11, <3>2, Zenon
    <3>4. z \in Int
      BY <3>3
    <3>5. CASE c[i].op = "ret"
      <4>1. d[i] = [c[i] EXCEPT !.delta = z]
        BY <2>13, <3>2, <3>5, Zenon
      <4>2. d[i] \in Insns /\ d[i].op = c[i].op /\ d[i].target = c[i].target /\ d[i].delta = z
        BY <3>1, <3>4, <4>1, Zenon DEF Insns
      <4> QED BY <3>2, <3>5, <4>2, Zenon
    <3>6. CASE c[i].op # "ret"
      BY <2>13, <3>1, <3>6, Zenon
    <3> QED BY <3>5, <3>6, Zenon
  <2>15. d \in Seq(Insns) /\ Len(d) = n + 2 /\ DOMAIN d = 1 .. n + 2
    <3>1. PICK m : m = n + 2
      BY Zenon
    <3>2. m \in Nat
      BY <2>6, <3>1
    <3>3. \A i \in 1 .. m : d[i] \in Insns
      BY <2>14, <3>1, Zenon
    <3>4. [i \in 1 .. m |-> d[i]] \in Seq(Insns) /\ Len([i \in 1 .. m |-> d[i]]) = m
      BY <3>2, <3>3
    <3>5. d \in Seq(Insns) /\ Len(d) = n + 2
      BY <2>13, <3>1, <3>4, Zenon
    <3> QED BY <3>5, SeqFacts, Zenon
  <2>16. "event" # "ret" /\ "event" # "jal" /\ "ret" # "jal"
    OBVIOUS
  <2>17. ASSUME NEW i \in 1 .. n + 2
         PROVE  i \in 1 .. n \/ i = n + 1 \/ i = n + 2
    BY <2>6
  <2>18. ASSUME NEW i \in 1 .. n + 2, d[i].op = "jal"
         PROVE  d[i].target = "known" /\ i - 1 + d[i].delta \in 0 .. n + 2 - 1
    <3>1. i \in 1 .. n /\ d[i] = code[i]
      BY <2>4, <2>7, <2>14, <2>16, <2>17, <2>18, Zenon
    <3>2. Lands(code, i)
      BY <2>1, <2>6, <2>18, <3>1, Zenon DEF Good
    <3>3. d[i].target = "known" /\ i - 1 + d[i].delta \in 0 .. n
      BY <2>5, <3>1, <3>2, Zenon DEF Lands
    <3>4. d[i].delta \in Int
      BY <2>14, Zenon DEF Insns
    <3> QED BY <2>6, <3>3, <3>4
  <2>19. ASSUME Room, NEW i \in 1 .. n + 2, d[i].op = "ret"
         PROVE  d[i].delta = 2
    <3>1. c[i].op = "ret" /\ d[i].delta = Cardinality({k \in DOMAIN e : e[k] = i - 1})
      BY <2>14, <2>19, Zenon
    <3>2. i - 1 \in Twice(e)
      <4>1. CASE i \in 1 .. n
        <5>1. code[i].op = "ret" /\ i \in DOMAIN code
          BY <2>6, <2>7, <3>1, <4>1, Zenon
        <5>2. i - 1 \in Rets
          BY <2>1, <5>1, Zenon DEF Good
        <5> QED BY <2>9, <2>19, <5>2, Zenon
      <4>2. CASE i = n + 1
        BY <2>4, <2>7, <2>16, <3>1, <4>2, Zenon
      <4>3. CASE i = n + 2
        <5>1. i - 1 = n + 1
          BY <2>6, <4>3
        <5> QED BY <2>9, <2>19, <5>1, Zenon
      <4> QED BY <2>17, <4>1, <4>2, <4>3, Zenon
    <3> QED BY <2>9, <3>1, <3>2, Zenon DEF Counting
  <2>20. n + 2 \in 1 .. n + 2 /\ n + 1 \in 1 .. n + 2 /\ n + 2 - 1 = n + 1 /\ n + 2 >= 2 /\ 0 \in 0 .. n + 2 - 1
    BY <2>6
  <2>21. d[n + 2].op = "ret" /\ d[n + 1].op = "event"
    BY <2>4, <2>7, <2>14, <2>20, Zenon
  <2>22. Room' = Room
    <3>1. C!Tokens(prog, "return")' = C!Tokens(prog, "return")
      BY <1>2, Zenon DEF C!Tokens
    <3> QED BY <3>1, Zenon DEF Room
  <2>23. Running'
    <3>0. Len(d) - 1 = n + 1 /\ 0 .. Len(d) - 1 = 0 .. n + 2 - 1
      BY ONLY <2>6, <2>15
    <3>1. \A i \in DOMAIN d : d[i].op = "jal" => d[i].target = "known" /\ i - 1 + d[i].delta \in 0 .. Len(d) - 1
      BY <2>15, <2>18, <3>0, Zenon
    <3>2. Room => \A i \in DOMAIN d : d[i].op = "ret" => d[i].delta = 2
      BY <2>15, <2>19, Zenon
    <3>3. Len(d) >= 2 /\ d[Len(d)].op = "ret" /\ d[Len(d) - 1].op = "event" /\ 0 \in 0 .. Len(d) - 1
      BY <2>15, <2>20, <2>21, <3>0, Zenon
    <3>4. AllPatched'
      BY <2>12, <3>1, Zenon DEF AllPatched, Offsets, Size
    <3>5. pc' = 0
      BY <1>2, <1>3, Zenon
    <3> QED BY <2>12, <2>15, <2>22, <3>2, <3>3, <3>4, <3>5, Zenon DEF Running, Offsets, Size
  <2> QED BY <1>2, <1>3, <1>5, <2>23 DEF CInv
<1>6. phase' = "rejected" \/ (phase' = "run" /\ Undefined = {})
  <2>1. errors \cup Undefined = {} => Undefined = {}
    OBVIOUS
  <2> QED BY <1>2, <2>1, Zenon
<1> QED BY <1>4, <1>5, <1>6, Zenon

-----------------------------------------------------------------------------
(* Code that grows and is patched.                                         *)

LEMMA EmptyFacts ==
  ASSUME NEW S
  PROVE  <<>> \in Seq(S) /\ \A s \in Seq(S) : s \o <<>> = s
OBVIOUS

LEMMA AppendFacts ==
  ASSUME NEW S, NEW s \in Seq(S), NEW x \in S
  PROVE  Append(s, x) = s \o <<x>>
OBVIOUS

\* patch_jal settles the jumps of S.
LEMMA GoodPatch ==
  ASSUME NEW c, NEW H, NEW R, Good(c, H, R), NEW S, NEW t \in 0 .. Len(c)
  PROVE  /\ Good(PatchJal(c, S, t), H \ S, R)
         /\ Len(PatchJal(c, S, t)) = Len(c)
<1>1. c \in Seq(Insns)
  BY DEF Good
<1>2. PICK d : d = PatchJal(c, S, t)
  BY Zenon
<1>3. /\ d \in Seq(Insns) /\ Len(d) = Len(c) /\ DOMAIN d = DOMAIN c
      /\ \A i \in DOMAIN c : d[i] = IF i - 1 \in S THEN [c[i] EXCEPT !.delta = t - (i - 1), !.target = "known"] ELSE c[i]
  <2>0. DOMAIN d = DOMAIN c /\ DOMAIN c = 1 .. Len(c)
    <3>1. DOMAIN d = DOMAIN c
      BY <1>2, Zenon DEF PatchJal
    <3> QED BY <1>1, <3>1
  <2>1. d = [i \in 1 .. Len(c) |-> d[i]]
    BY <1>2, <2>0, Zenon DEF PatchJal
  <2>2. \A i \in DOMAIN c : d[i] = IF i - 1 \in S THEN [c[i] EXCEPT !.delta = t - (i - 1), !.target = "known"] ELSE c[i]
    BY <1>2, Zenon DEF PatchJal
  <2>3. ASSUME NEW i \in 1 .. Len(c)
        PROVE  d[i] \in Insns
    <3>1. c[i] \in Insns /\ i \in DOMAIN c
      BY <1>1
    <3>2. t - (i - 1) \in Int
      OBVIOUS
    <3>3. [c[i] EXCEPT !.delta = t - (i - 1), !.target = "known"] \in Insns
      BY <3>1, <3>2, Zenon DEF Insns
    <3> QED BY <2>2, <3>1, <3>3, Zenon
  <2>4. Len(c) \in Nat
    BY <1>1
  <2>5. [i \in 1 .. Len(c) |-> d[i]] \in Seq(Insns)
    BY <2>3, <2>4
  <2>6. d \in Seq(Insns)
    BY <2>1, <2>5, Zenon
  <2>7. Len(d) = Len(c)
    BY <2>0, <2>4, <2>6
  <2> QED BY <2>0, <2>2, <2>6, <2>7, Zenon
<1>4. ASSUME NEW i \in DOMAIN d
      PROVE  /\ d[i].op = c[i].op /\ i \in DOMAIN c
             /\ d[i].op = "jal" => Lands(d, i) \/ i - 1 \in H \ S
  <2>0. i \in DOMAIN c
    BY <1>3, Zenon
  <2>1. i \in DOMAIN c /\ c[i] \in Insns /\ i \in Int
    BY <1>1, <2>0
  <2>2. CASE i - 1 \in S
    <3>1. d[i] = [c[i] EXCEPT !.delta = t - (i - 1), !.target = "known"]
      BY <1>3, <2>1, <2>2, Zenon
    <3>2. d[i].delta = t - (i - 1) /\ d[i].target = "known" /\ d[i].op = c[i].op
      BY <2>1, <3>1 DEF Insns
    <3>3. i - 1 + d[i].delta \in 0 .. Len(c)
      BY <2>1, <3>2, SMTT(60)
    <3>4. Lands(d, i)
      BY <1>3, <3>2, <3>3, Zenon DEF Lands
    <3> QED BY <2>1, <3>2, <3>4, Zenon
  <2>3. CASE i - 1 \notin S
    <3>1. d[i] = c[i]
      BY <1>3, <2>1, <2>3, Zenon
    <3>2. c[i].op = "jal" => Lands(c, i) \/ i - 1 \in H
      BY <2>1, Zenon DEF Good
    <3> QED BY <1>3, <2>1, <2>3, <3>1, <3>2, Zenon DEF Lands
  <2> QED BY <2>2, <2>3, Zenon
<1>5. Good(d, H \ S, R)
  BY <1>3, <1>4, Zenon DEF Good
<1> QED BY <1>2, <1>3, <1>5, Zenon

\* A jump to a known target.
LEMMA JalToType ==
  ASSUME NEW off \in Int, NEW t \in Int
  PROVE  /\ JalTo(off, t) \in Insns /\ JalTo(off, t).op = "jal"
         /\ JalTo(off, t).target = "known" /\ JalTo(off, t).delta = t - off
<1>1. PICK x : x = JalTo(off, t)
  BY Zenon
<1>2. x = [op |-> "jal", tok |-> 0, n |-> "-", delta |-> t - off, target |-> "known"]
  BY <1>1, Zenon DEF JalTo, Jal, Insn
<1>3. "jal" \in Ops /\ "-" \in Names /\ t - off \in Int
  BY DEF Ops, Names
<1>4. x \in Insns /\ x.op = "jal" /\ x.target = "known" /\ x.delta = t - off
  BY <1>2, <1>3 DEF Insns
<1> QED BY <1>1, <1>4, Zenon

LEMMA JalType ==
  Jal \in Insns /\ Jal.op = "jal"
<1>1. "jal" \in Ops /\ "-" \in Names /\ 0 \in Nat
  BY DEF Ops, Names
<1> QED BY <1>1, InsnType, Zenon DEF Jal

\* More jumps may be waiting, and more returns recorded.
LEMMA GoodMore ==
  ASSUME NEW c, NEW H, NEW G, NEW R, NEW Q, Good(c, H, R), H \subseteq G, R \subseteq Q
  PROVE  Good(c, G, Q)
BY Zenon DEF Good

LEMMA GoodWider ==
  ASSUME NEW c, NEW H, NEW G, NEW R, Good(c, H, R), H \subseteq G
  PROVE  Good(c, G, R)
BY Zenon DEF Good

\* Code is appended: each of its jumps lands, or waits, and each of its returns is
\* recorded.
LEMMA GoodConcat ==
  ASSUME NEW c, NEW H, NEW R, Good(c, H, R), NEW d \in Seq(Insns),
         \A j \in DOMAIN d : d[j].op = "jal" =>
            \/ d[j].target = "known" /\ Len(c) + j - 1 + d[j].delta \in 0 .. Len(c) + Len(d)
            \/ Len(c) + j - 1 \in H,
         \A j \in DOMAIN d : d[j].op = "ret" => Len(c) + j - 1 \in R
  PROVE  Good(c \o d, H, R) /\ Len(c \o d) = Len(c) + Len(d)
<1>1. c \in Seq(Insns) /\ Len(c) \in Nat /\ Len(d) \in Nat
  BY DEF Good
<1>2. PICK e : e = c \o d
  BY Zenon
<1>3. /\ e \in Seq(Insns) /\ Len(e) = Len(c) + Len(d)
      /\ \A i \in 1 .. Len(c) : e[i] = c[i]
      /\ \A i \in Len(c) + 1 .. Len(c) + Len(d) : e[i] = d[i - Len(c)]
  BY <1>1, <1>2
<1>4. ASSUME NEW i \in 1 .. Len(e)
      PROVE  /\ e[i].op = "jal" => Lands(e, i) \/ i - 1 \in H
             /\ e[i].op = "ret" => i - 1 \in R
  <2>1. CASE i <= Len(c)
    <3>0. i \in DOMAIN c /\ i \in 1 .. Len(c) /\ c[i] \in Insns
      BY <1>1, <2>1
    <3>1. i \in DOMAIN c /\ e[i] = c[i] /\ c[i].delta \in Int
      BY <1>3, <3>0, Zenon DEF Insns
    <3>2. /\ c[i].op = "jal" => Lands(c, i) \/ i - 1 \in H
          /\ c[i].op = "ret" => i - 1 \in R
      BY <3>1, Zenon DEF Good
    <3>3. Lands(c, i) => Lands(e, i)
      BY <1>1, <1>3, <3>1 DEF Lands
    <3> QED BY <3>1, <3>2, <3>3, Zenon
  <2>2. CASE i > Len(c)
    <3>1. PICK j \in 1 .. Len(d) : i = Len(c) + j
      <4>1. i - Len(c) \in 1 .. Len(d) /\ i = Len(c) + (i - Len(c))
        BY <1>1, <1>3, <2>2
      <4> QED BY <4>1, Zenon
    <3>0. j \in DOMAIN d /\ d[j] \in Insns /\ i - 1 = Len(c) + j - 1 /\ i - Len(c) = j
          /\ i \in Len(c) + 1 .. Len(c) + Len(d)
      BY <1>1, <3>1
    <3>2. j \in DOMAIN d /\ e[i] = d[j] /\ i - 1 = Len(c) + j - 1 /\ d[j].delta \in Int
      BY <1>3, <3>0, Zenon DEF Insns
    <3>3. Len(c) + j - 1 + d[j].delta = i - 1 + d[j].delta
      BY <3>2
    <3>4. /\ d[j].op = "jal" =>
                \/ d[j].target = "known" /\ i - 1 + d[j].delta \in 0 .. Len(c) + Len(d)
                \/ i - 1 \in H
          /\ d[j].op = "ret" => i - 1 \in R
      BY <3>2, <3>3, Zenon
    <3> QED BY <1>3, <3>2, <3>4, Zenon DEF Lands
  <2> QED BY <1>1, <1>3, <2>1, <2>2
<1>5. DOMAIN e = 1 .. Len(e)
  BY <1>3
<1>6. Good(e, H, R)
  BY <1>3, <1>4, <1>5, Zenon DEF Good
<1> QED BY <1>2, <1>3, <1>6, Zenon

\* One instruction that is no jump and no return, one jump to a known target, or one
\* jump that waits is appended.
LEMMA GoodAppend ==
  ASSUME NEW c, NEW H, NEW R, Good(c, H, R)
  PROVE  /\ Len(c) \in Nat
         /\ \A x : Len(Append(c, x)) = Len(c) + 1
         /\ \A x \in Insns : x.op \notin {"jal", "ret"} => Good(Append(c, x), H, R)
         /\ \A t \in 0 .. Len(c) : Good(Append(c, JalTo(Len(c), t)), H, R)
         /\ Good(Append(c, Jal), H \cup {Len(c)}, R)
<1>1. c \in Seq(Insns) /\ Len(c) \in Nat
  BY DEF Good
<1>2. \A x : Len(Append(c, x)) = Len(c) + 1
  BY <1>1
<1>3. ASSUME NEW x \in Insns
      PROVE  \E d \in Seq(Insns) : /\ Len(d) = 1 /\ DOMAIN d = {1} /\ d[1] = x
                                   /\ Append(c, x) = c \o d
  <2>1. <<x>> \in Seq(Insns) /\ Len(<<x>>) = 1 /\ DOMAIN <<x>> = {1} /\ <<x>>[1] = x
    OBVIOUS
  <2>2. Append(c, x) = c \o <<x>>
    BY <1>1, AppendFacts, Zenon
  <2> QED BY <2>1, <2>2, Zenon
<1>4. Len(c) + 1 - 1 = Len(c)
  BY <1>1
<1>5. ASSUME NEW x \in Insns, x.op \notin {"jal", "ret"}
      PROVE  Good(Append(c, x), H, R)
  <2>1. PICK d \in Seq(Insns) : DOMAIN d = {1} /\ d[1] = x /\ Append(c, x) = c \o d
    BY <1>3, Zenon
  <2>2. \A j \in DOMAIN d : d[j].op # "jal" /\ d[j].op # "ret"
    BY <1>5, <2>1, Zenon
  <2> QED BY <2>1, <2>2, GoodConcat, Zenon
<1>6. ASSUME NEW t \in 0 .. Len(c)
      PROVE  Good(Append(c, JalTo(Len(c), t)), H, R)
  <2>1. PICK x : x = JalTo(Len(c), t)
    BY Zenon
  <2>2. x \in Insns /\ x.op = "jal" /\ x.target = "known" /\ x.delta = t - Len(c)
    <3>1. t \in Int /\ Len(c) \in Int
      BY <1>1
    <3> QED BY <2>1, <3>1, JalToType, Zenon
  <2>3. PICK d \in Seq(Insns) : Len(d) = 1 /\ DOMAIN d = {1} /\ d[1] = x /\ Append(c, x) = c \o d
    BY <1>3, <2>2, Zenon
  <2>4. Len(c) + 1 - 1 + x.delta \in 0 .. Len(c) + 1
    BY <1>1, <2>2
  <2>5. \A j \in DOMAIN d : /\ d[j].target = "known" /\ Len(c) + j - 1 + d[j].delta \in 0 .. Len(c) + Len(d)
                            /\ d[j].op # "ret"
    <3>1. "jal" # "ret"
      OBVIOUS
    <3> SUFFICES ASSUME NEW j \in DOMAIN d
                 PROVE  /\ d[j].target = "known" /\ Len(c) + j - 1 + d[j].delta \in 0 .. Len(c) + Len(d)
                        /\ d[j].op # "ret"
      OBVIOUS
    <3>2. j = 1 /\ d[j] = x
      BY <2>3, Zenon
    <3>3. /\ d[j].target = "known" /\ d[j].op # "ret" /\ d[j].delta = x.delta
      BY <2>2, <3>1, <3>2, Zenon
    <3>4. Len(c) + j - 1 + d[j].delta \in 0 .. Len(c) + Len(d)
      BY <1>1, <2>2, <2>3, <2>4, <3>2, <3>3
    <3> QED BY <3>3, <3>4, Zenon
  <2>6. Good(c \o d, H, R)
    BY <2>5, GoodConcat
  <2> QED BY <2>1, <2>3, <2>6, Zenon
<1>7. Good(Append(c, Jal), H \cup {Len(c)}, R)
  <2>1. PICK x : x = Jal
    BY Zenon
  <2>2. x \in Insns /\ x.op = "jal"
    BY <2>1, JalType, Zenon
  <2>3. PICK d \in Seq(Insns) : DOMAIN d = {1} /\ d[1] = x /\ Append(c, x) = c \o d
    BY <1>3, <2>2, Zenon
  <2>4. Good(c, H \cup {Len(c)}, R)
    BY GoodMore, Zenon
  <2>5. \A j \in DOMAIN d : Len(c) + j - 1 \in H \cup {Len(c)} /\ d[j].op # "ret"
    <3>1. "jal" # "ret"
      OBVIOUS
    <3> QED BY <1>4, <2>2, <2>3, <3>1, Zenon
  <2> QED BY <2>1, <2>3, <2>4, <2>5, GoodConcat, Zenon
<1> QED BY <1>1, <1>2, <1>5, <1>6, <1>7, Zenon

LEMMA CaseLabels ==
  ASSUME NEW c \in Seq([key : STRING, label : Nat])
  PROVE  \A i \in DOMAIN c : c[i] \in [key : STRING, label : Nat] /\ c[i].label \in Nat /\ c[i].key \in STRING
<1>1. \A i \in DOMAIN c : c[i] \in [key : STRING, label : Nat]
  BY SeqFacts, Zenon
<1> QED BY <1>1, Zenon

\* Code only grows, and what was an offset of it stays one.
LEMMA BoundedMore ==
  ASSUME NEW s \in Seq(Frames), NEW n \in Nat, NEW m \in Nat, n <= m, Bounded(s, n)
  PROVE  Bounded(s, m)
<1> SUFFICES ASSUME NEW j \in DOMAIN s
             PROVE  /\ s[j].cl <= m /\ s[j].top <= m /\ s[j].default <= m
                    /\ \A i \in DOMAIN s[j].cases : s[j].cases[i].label <= m
  BY Zenon DEF Bounded
<1>1. s[j] \in Frames
  OBVIOUS
<1>2. /\ s[j].cl \in Nat /\ s[j].top \in Nat /\ s[j].default \in Nat
      /\ s[j].cases \in Seq([key : STRING, label : Nat])
  BY <1>1, Zenon DEF Frames
<1>3. \A i \in DOMAIN s[j].cases : s[j].cases[i].label \in Nat
  BY <1>2, CaseLabels, Zenon
<1>4. /\ s[j].cl <= n /\ s[j].top <= n /\ s[j].default <= n
      /\ \A i \in DOMAIN s[j].cases : s[j].cases[i].label <= n
  BY Zenon DEF Bounded
<1> QED BY <1>2, <1>3, <1>4

\* Known labels stay offsets of code that grows.
LEMMA LabelsMore ==
  ASSUME NEW l, NEW n \in Nat, NEW m \in Nat, n <= m, LabelsKnown(l, n)
  PROVE  LabelsKnown(l, m)
<1> SUFFICES ASSUME NEW i \in DOMAIN l
             PROVE  l[i].offset <= m
  BY Zenon DEF LabelsKnown
<1>1. l \in Seq(LabelSet) /\ l[i].offset <= n
  BY Zenon DEF LabelsKnown
<1>2. l[i] \in LabelSet
  BY <1>1
<1>3. l[i].offset \in Nat
  BY <1>2, Zenon DEF LabelSet
<1> QED BY <1>1, <1>3

\* The instructions of conditions and expressions.
LEMMA Plain ==
  ASSUME NEW tok \in Nat
  PROVE  /\ \A what \in {"expr", "test", "init", "post", "switch", "return", "end"} :
               Event(what, tok) \in Insns /\ Event(what, tok).op \notin {"jal", "ret"}
         /\ \A op \in {"bne", "beq", "sd", "ld", "ret"} : \A k \in {0, tok} :
               /\ Insn(op, k, "-") \in Insns /\ Insn(op, k, "-").op = op
               /\ op # "ret" => op \notin {"jal", "ret"}
<1>1. \A what \in {"expr", "test", "init", "post", "switch", "return", "end"} : what \in Names
  BY Zenon DEF Names
<1>2. "event" \in Ops /\ "-" \in Names /\ 0 \in Nat /\ "event" \notin {"jal", "ret"}
  BY DEF Ops, Names
<1>3. \A op \in {"bne", "beq", "sd", "ld", "ret"} : op \in Ops /\ (op # "ret" => op \notin {"jal", "ret"})
  BY DEF Ops
<1>4. \A what \in {"expr", "test", "init", "post", "switch", "return", "end"} :
         Event(what, tok) \in Insns /\ Event(what, tok).op = "event"
  BY <1>1, <1>2, InsnType, Zenon DEF Event
<1>5. \A op \in {"bne", "beq", "sd", "ld", "ret"} : \A k \in {0, tok} :
         Insn(op, k, "-") \in Insns /\ Insn(op, k, "-").op = op
  BY <1>2, <1>3, InsnType, ZenonT(40)
<1> QED BY <1>2, <1>3, <1>4, <1>5, ZenonT(40)

\* At a statement, the token is one of the function's.
LEMMA AtToken ==
  ASSUME CInv, NEW t, t # "eof", AtStmt(t) \/ Cur.t = t
  PROVE  /\ at \in DOMAIN prog /\ Cur = prog[at] /\ Cur.t = t /\ Cur.n \in STRING
<1>1. Cur.t = t
  BY Zenon DEF AtStmt
<1>2. prog \in Seq([t : STRING, n : STRING, parts : SUBSET {"init", "cond", "post"}]) /\ at \in Nat \ {0}
  BY ProgramAssumption, Zenon DEF CInv
<1>3. at <= Len(prog)
  BY <1>1, Zenon DEF Cur, Eof
<1>4. at \in DOMAIN prog /\ at \in 1 .. Len(prog)
  BY <1>2, <1>3
<1>5. Cur = prog[at]
  BY <1>3, Zenon DEF Cur
<1>6. prog[at] \in [t : STRING, n : STRING, parts : SUBSET {"init", "cond", "post"}]
  BY <1>2, <1>4, SeqFacts, Zenon
<1>7. prog[at].n \in STRING
  BY <1>6, Zenon
<1> QED BY <1>1, <1>4, <1>5, <1>7, Zenon

LEMMA ReturnStmtKeeps == ASSUME CInv, ReturnStmt PROVE CInv'
<1>hasOne. ASSUME NEW S, NEW x, x \notin S, NEW n \in Nat, Has(S, n)
           PROVE  Has(S \cup {x}, n + 1)
  <2> USE <1>hasOne
  <2>1. PICK r \in [1 .. n -> S] : \A i, j \in 1 .. n : r[i] = r[j] => i = j
    BY Zenon DEF Has
  <2>2. 1 .. n + 1 = 1 .. n \cup {n + 1} /\ n + 1 \notin 1 .. n /\ n + 1 \in Nat
    OBVIOUS
  <2>3. PICK z : z = [i \in 1 .. n + 1 |-> IF i \in 1 .. n THEN r[i] ELSE x]
    BY Zenon
  <2>4. z[n + 1] = x /\ \A i \in 1 .. n : z[i] = r[i] /\ r[i] \in S
    BY <2>1, <2>2, <2>3, Zenon
  <2>5. z \in [1 .. n + 1 -> S \cup {x}]
    BY <2>1, <2>3, Zenon
  <2>6. \A i, j \in 1 .. n + 1 : z[i] = z[j] => i = j
    BY <2>1, <2>2, <2>4, Zenon
  <2> QED BY <2>2, <2>5, <2>6, Zenon DEF Has
\* One more return statement is passed.
<1>oneReturn. ASSUME CInv, at \in C!Tokens(prog, "return"), at' = at + 1, prog' = prog, NEW n \in Nat, Has(Before, n)
              PROVE  Has(Before', n + 1) /\ Has(C!Tokens(prog, "return"), n + 1)
  <2> USE <1>oneReturn
  <2>1. C!Tokens(prog, "return") \subseteq 1 .. Len(prog) /\ at \in Nat
    BY ProgramAssumption DEF CInv, C!Tokens
  <2>2. Before' = Before \cup {at}
    <3>1. \A p \in C!Tokens(prog, "return") : p < at + 1 <=> p < at \/ p = at
      BY <2>1
    <3>2. C!Tokens(prog, "return")' = C!Tokens(prog, "return")
      BY Zenon DEF C!Tokens
    <3>3. Before' = {p \in C!Tokens(prog, "return") : p < at + 1}
      BY <3>2, Zenon DEF Before
    <3> QED BY <3>1, <3>3, Zenon DEF Before
  <2>3. at \notin Before
    BY <2>1 DEF Before
  <2>4. Before \cup {at} \subseteq C!Tokens(prog, "return") /\ n + 1 \in Nat
    BY DEF Before
  <2>5. Has(Before \cup {at}, n + 1)
    BY <2>3, <1>hasOne, Zenon
  <2> QED BY <2>2, <2>4, <2>5, HasMore, Zenon
\* An epilogue is appended.
<1>goodReturn. ASSUME NEW c, NEW H, NEW R, NEW Q, Good(c, H, R), R \cup {Len(c) + 1} \subseteq Q,
                      NEW x \in Insns, x.op \notin {"jal", "ret"}, NEW y \in Insns, y.op = "ret"
               PROVE  Good(c \o <<x, y>>, H, Q) /\ Len(c \o <<x, y>>) = Len(c) + 2
  <2> USE <1>goodReturn
  <2>1. Good(c, H, Q) /\ Len(c) \in Nat
    <3>1. R \subseteq Q /\ H \subseteq H
      BY Zenon
    <3> QED BY <3>1, GoodMore DEF Good
  <2>2. PICK d : d = <<x, y>>
    BY Zenon
  <2>3. d \in Seq(Insns) /\ Len(d) = 2 /\ DOMAIN d = {1, 2} /\ d[1] = x /\ d[2] = y
    BY <2>2
  <2>4. \A j \in DOMAIN d : d[j].op # "jal"
    <3>1. "ret" # "jal"
      OBVIOUS
    <3> QED BY <2>3, <3>1, Zenon
  <2>5. \A j \in DOMAIN d : d[j].op = "ret" => Len(c) + j - 1 \in Q
    <3>1. Len(c) + 2 - 1 = Len(c) + 1
      BY <2>1
    <3> QED BY <2>3, <3>1, Zenon
  <2>6. Good(c \o d, H, Q) /\ Len(c \o d) = Len(c) + Len(d)
    <3>1. d \in Seq(Insns)
      BY <2>3, Zenon
    <3> QED BY <2>1, <2>4, <2>5, <3>1, GoodConcat
  <2> QED BY <2>2, <2>3, <2>6, Zenon
<1>1. /\ phase = "parse" /\ AtStmt("return") /\ at' = at + 1 /\ UNCHANGED <<phase, prog, stack, func, labels, pc>>
      /\ code' = code \o <<Event("return", at), Insn("ret", 0, "-")>> /\ epis' = Record(Len(code) + 1)
  BY Zenon DEF ReturnStmt, AtStmt, Eat, machine, Size
<1>2. /\ Good(code, Waiting(stack, prog, func, labels), Rets) /\ Len(code) \in Nat /\ Nested(stack, func)
      /\ Bounded(stack, Len(code)) /\ func.contLabel \in 0 .. Len(code) /\ LabelsKnown(labels, Len(code))
      /\ stack \in Seq(Frames) /\ at \in Nat /\ at >= 1 /\ prog \in Programs
  BY <1>1, Found, Zenon
<1>3. (Room => Recorded) /\ epis \in Seq(Nat)
  BY <1>1, Zenon DEF CInv, Compiling
<1>4. /\ Event("return", at) \in Insns /\ Event("return", at).op \notin {"jal", "ret"}
      /\ Insn("ret", 0, "-") \in Insns /\ Insn("ret", 0, "-").op = "ret"
  BY <1>2, Plain, Zenon
<1>5. at \in C!Tokens(prog, "return")
  <2>1. "return" # "eof"
    OBVIOUS
  <2> QED BY <1>1, <2>1, AtToken, Zenon DEF C!Tokens
<1>6. Room' = Room
  <2>1. C!Tokens(prog, "return")' = C!Tokens(prog, "return")
    BY <1>1, Zenon DEF C!Tokens
  <2> QED BY <2>1, Zenon DEF Room
<1>7. (Room => Recorded') /\ epis' \in Seq(Nat) /\ Rets \cup {Len(code) + 1} \subseteq Rets'
  <2>1. CASE Room
    <3>1. PICK n \in Nat : Has(Before, n) /\ Len(epis) <= 2 * n
      BY <1>3, <2>1, Zenon DEF Recorded
    <3>2. Has(Before', n + 1) /\ Has(C!Tokens(prog, "return"), n + 1) /\ n + 1 \in Nat
      BY <1>1, <1>5, <3>1, <1>oneReturn, Zenon DEF Has
    <3>3. epis \in Seq(Nat) /\ \A k \in DOMAIN epis : epis[k] < Len(code)
      BY <1>3, <2>1, Zenon DEF Recorded, Size
    <3>4. Len(epis) + 2 <= EPILOGUE_PATCH_MAX /\ Len(epis) + 2 <= 2 * (n + 1)
      <4>1. 2 * (n + 1 + 1) <= EPILOGUE_PATCH_MAX
        BY <2>1, <3>2, Zenon DEF Room
      <4> QED BY <3>1, <3>3, <4>1, CapacityAssumption
    <3>5. Len(code) + 1 \in Nat /\ \A k \in DOMAIN epis : epis[k] < Len(code) + 1
      <4>1. \A k \in DOMAIN epis : epis[k] \in Nat
        BY <3>3
      <4> QED BY <1>2, <3>3, <4>1
    <3>6. /\ epis' \in Seq(Nat) /\ Len(epis') = Len(epis) + 2 /\ \A k \in DOMAIN epis' : epis'[k] < Len(code) + 1 + 1
          /\ Twice(epis) \cup {Len(code) + 1} \subseteq Twice(epis')
      BY <1>1, <3>3, <3>4, <3>5, RecordTwice, Zenon
    <3>7. Len(code') = Len(code) + 1 + 1
      <4>1. Len(code') = Len(code) + 2
        <5>1. code \in Seq(Insns)
          BY <1>2, Zenon DEF Good
        <5> QED BY <1>1, <1>4, <5>1
      <4> QED BY <1>2, <4>1
    <3>8. Recorded'
      BY <3>2, <3>4, <3>6, <3>7, Zenon DEF Recorded, Size
    <3>9. Rets = Twice(epis) /\ Rets' = Twice(epis')
      BY <1>6, <2>1, Zenon DEF Rets
    <3> QED BY <3>6, <3>8, <3>9, Zenon
  <2>2. CASE ~Room
    <3>1. Rets = Nat /\ Rets' = Nat /\ Len(code) + 1 \in Nat
      BY <1>2, <1>6, <2>2 DEF Rets
    <3>2. epis' \in Seq(Nat)
      BY <1>1, <1>3, <3>1, RecordType, Zenon
    <3> QED BY <2>2, <3>1, <3>2, Zenon
  <2> QED BY <2>1, <2>2, Zenon
<1>8. Good(code', Waiting(stack, prog, func, labels), Rets') /\ Len(code') = Len(code) + 2
  BY <1>1, <1>2, <1>4, <1>7, <1>goodReturn, Zenon
<1>9. Len(code') \in Nat /\ Len(code) <= Len(code') /\ func.contLabel <= Len(code') /\ at' \in Nat \ {0}
  BY <1>1, <1>2, <1>8
<1>10. Bounded(stack, Len(code')) /\ LabelsKnown(labels, Len(code'))
  BY <1>2, <1>9, BoundedMore, LabelsMore, Zenon
<1>11. pc = 0
  BY <1>1, Zenon DEF CInv, Compiling
<1>12. Compiling'
  BY <1>1, <1>2, <1>6, <1>7, <1>8, <1>9, <1>10, <1>11, Zenon DEF Compiling, Size
<1> QED BY <1>1, <1>2, <1>9, <1>12, Zenon DEF CInv

-----------------------------------------------------------------------------
(* Statements that end.                                                    *)

\* A step of the parser goes on in the tokens and in the code.
Going ==
    /\ phase = "parse" /\ phase' = phase /\ prog' = prog /\ epis' = epis /\ pc' = pc
    /\ at' \in {at, at + 1, at + 2} /\ Len(code) <= Len(code')

\* What a step of the parser has to show.
LEMMA Step ==
  ASSUME CInv, Going,
         Good(code', Waiting(stack', prog, func', labels'), Rets),
         Bounded(stack', Len(code')), Nested(stack', func'), func'.contLabel <= Len(code'),
         LabelsKnown(labels', Len(code'))
  PROVE  CInv'
\* Going on in the tokens and in the code keeps what is recorded of the returns.
<1>recordedMore. ASSUME CInv, Room, Recorded, epis \in Seq(Nat), prog' = prog, epis' = epis, at' \in Nat, at <= at',
                        Len(code') \in Nat, Len(code) \in Nat, Len(code) <= Len(code')
                 PROVE  Recorded'
  <2> USE <1>recordedMore
  <2>1. C!Tokens(prog, "return") \subseteq 1 .. Len(prog) /\ at \in Nat
    BY ProgramAssumption DEF CInv, C!Tokens
  <2>2. C!Tokens(prog, "return")' = C!Tokens(prog, "return")
    BY Zenon DEF C!Tokens
  <2>3. Before \subseteq Before'
    <3>1. \A p \in C!Tokens(prog, "return") : p < at => p < at'
      BY <2>1
    <3> QED BY <2>2, <3>1, Zenon DEF Before
  <2>4. PICK n \in Nat : Has(Before, n) /\ Len(epis) <= 2 * n
    BY Zenon DEF Recorded
  <2>5. \A k \in DOMAIN epis : epis[k] < Len(code)
    BY Zenon DEF Recorded, Size
  <2>6. Has(Before', n)
    BY <2>3, <2>4, HasMore, Zenon
  <2>7. \A k \in DOMAIN epis : epis[k] < Len(code')
    <3>1. \A k \in DOMAIN epis : epis[k] \in Nat
      BY <2>5
    <3> QED BY <2>5, <3>1
  <2> QED BY <2>4, <2>6, <2>7, Zenon DEF Recorded, Size
<1> USE DEF Going
<1>1. Compiling /\ at \in Nat \ {0} /\ prog \in Programs
  BY Zenon DEF CInv
<1>2. at' \in Nat \ {0} /\ at' \in Nat /\ at <= at'
  BY <1>1
<1>3. Len(code) \in Nat /\ Len(code') \in Nat
  BY <1>1 DEF Compiling, Good
<1>4. Room' = Room /\ Rets' = Rets
  <2>1. C!Tokens(prog, "return")' = C!Tokens(prog, "return")
    BY Zenon DEF C!Tokens
  <2>2. Room' = Room
    BY <2>1, Zenon DEF Room
  <2>3. Twice(epis)' = Twice(epis)
    BY Zenon
  <2> QED BY <2>2, <2>3, Zenon DEF Rets
<1>5. Room' => Recorded'
  BY <1>1, <1>2, <1>3, <1>4, <1>recordedMore, Zenon DEF Compiling
<1>6. Compiling'
  BY <1>1, <1>4, <1>5, Zenon DEF Compiling, Size
<1> QED BY <1>1, <1>2, <1>6, Zenon DEF CInv

\* Something is counted when there is something.
LEMMA CountedSome ==
  ASSUME NEW s, NEW K, NEW n \in Nat, Counted(n, s, K)
  PROVE  n # 0 <=> Within(s, K) # {}
<1>1. PICK r \in [1 .. n -> DOMAIN s] : Within(s, K) = {r[i] : i \in 1 .. n}
  BY Zenon DEF Counted
<1>2. n # 0 <=> 1 .. n # {}
  OBVIOUS
<1> QED BY <1>1, <1>2, Zenon

\* The innermost call ends.
LEMMA Popped ==
  ASSUME NEW s \in Seq(Frames), s # <<>>
  PROVE  /\ Len(s) \in DOMAIN s /\ s[Len(s)] \in Frames
         /\ SubSeq(s, 1, Len(s) - 1) \in Seq(Frames) /\ Len(SubSeq(s, 1, Len(s) - 1)) = Len(s) - 1
         /\ DOMAIN SubSeq(s, 1, Len(s) - 1) = DOMAIN s \ {Len(s)}
         /\ \A j \in DOMAIN s : j # Len(s) => SubSeq(s, 1, Len(s) - 1)[j] = s[j] /\ j < Len(s)
<1>1. Len(s) \in Nat \ {0} /\ DOMAIN s = 1 .. Len(s)
  BY EmptyFacts
<1>2. s[Len(s)] \in Frames /\ Len(s) \in DOMAIN s
  BY <1>1
<1>3. PICK q : q = SubSeq(s, 1, Len(s) - 1)
  BY Zenon
<1>4. q \in Seq(Frames) /\ Len(q) = Len(s) - 1 /\ \A j \in 1 .. Len(s) - 1 : q[j] = s[j]
  BY <1>1, <1>3
<1>5. DOMAIN q = 1 .. Len(s) - 1
  BY <1>4
<1>6. DOMAIN q = DOMAIN s \ {Len(s)}
  BY <1>1, <1>5
<1>7. \A j \in DOMAIN s : j # Len(s) => j \in 1 .. Len(s) - 1 /\ j < Len(s)
  BY <1>1
<1> QED BY <1>2, <1>3, <1>4, <1>6, <1>7, Zenon

\* What a step of the innermost call finds.
LEMMA TopFound ==
  ASSUME CInv, phase = "parse", stack # <<>>
  PROVE  /\ Top \in Frames /\ Top.tok \in Nat /\ Top.br \in Nat /\ Top.top \in 0 .. Len(code) /\ Top.nb \in Nat
         /\ Top.nc \in Nat
         /\ Top.cl \in 0 .. Len(code) /\ Top.default \in 0 .. Len(code)
         /\ Top.cases \in Seq([key : STRING, label : Nat])
         /\ \A i \in DOMAIN Top.cases : Top.cases[i].label <= Len(code)
         /\ Top.nb <= Len(func.breaks) /\ Top.nc <= Len(func.conts)
         /\ Waiting(stack, prog, func, labels) = Waiting(Pop, prog, func, labels) \cup Holes(Top, prog)
         /\ Pop \in Seq(Frames) /\ Bounded(Pop, Len(code))
<1>popHoles. ASSUME NEW s \in Seq(Frames), s # <<>>, NEW p
             PROVE  StackHoles(s, p) = StackHoles(SubSeq(s, 1, Len(s) - 1), p) \cup Holes(s[Len(s)], p)
  <2> USE <1>popHoles
  <2>1. PICK q : q = SubSeq(s, 1, Len(s) - 1)
    BY Zenon
  <2>2. /\ DOMAIN q = DOMAIN s \ {Len(s)} /\ Len(s) \in DOMAIN s
        /\ \A j \in DOMAIN s : j # Len(s) => q[j] = s[j]
    BY <2>1, Popped, Zenon
  <2> QED BY <2>1, <2>2, Zenon DEF StackHoles
<1>boundedPop. ASSUME NEW s \in Seq(Frames), s # <<>>, NEW n, Bounded(s, n)
               PROVE  /\ Bounded(SubSeq(s, 1, Len(s) - 1), n)
                      /\ s[Len(s)].cl <= n /\ s[Len(s)].top <= n /\ s[Len(s)].default <= n
                      /\ \A i \in DOMAIN s[Len(s)].cases : s[Len(s)].cases[i].label <= n
  <2> USE <1>boundedPop
  <2>1. PICK q : q = SubSeq(s, 1, Len(s) - 1)
    BY Zenon
  <2>2. /\ DOMAIN q = DOMAIN s \ {Len(s)} /\ Len(s) \in DOMAIN s
        /\ \A j \in DOMAIN s : j # Len(s) => q[j] = s[j]
    BY <2>1, Popped, Zenon
  <2> QED BY <2>1, <2>2, Zenon DEF Bounded
<1>1. stack \in Seq(Frames) /\ Nested(stack, func) /\ Bounded(stack, Len(code)) /\ Len(code) \in Nat
  BY Found, Zenon
<1>2. Len(stack) \in DOMAIN stack /\ Top \in Frames /\ Pop \in Seq(Frames)
  BY <1>1, Popped, Zenon DEF Top, Pop
<1>3. /\ Top.br \in Nat /\ Top.top \in Nat /\ Top.nb \in Nat /\ Top.nc \in Nat /\ Top.cl \in Nat
      /\ Top.default \in Nat /\ Top.tok \in Nat /\ Top.cases \in Seq([key : STRING, label : Nat])
  BY <1>2, Zenon DEF Frames
<1>4. Top.nb <= Len(func.breaks) /\ Top.nc <= Len(func.conts)
  BY <1>1, <1>2, Zenon DEF Nested, Top
<1>5. /\ Bounded(Pop, Len(code)) /\ Top.cl <= Len(code) /\ Top.top <= Len(code) /\ Top.default <= Len(code)
      /\ \A i \in DOMAIN Top.cases : Top.cases[i].label <= Len(code)
  BY <1>1, <1>boundedPop, Zenon DEF Top, Pop
<1>6. Top.top \in 0 .. Len(code) /\ Top.cl \in 0 .. Len(code) /\ Top.default \in 0 .. Len(code)
  BY <1>1, <1>3, <1>5
<1>7. StackHoles(stack, prog) = StackHoles(Pop, prog) \cup Holes(Top, prog)
  BY <1>1, <1>popHoles, Zenon DEF Top, Pop
<1>8. Waiting(stack, prog, func, labels) = Waiting(Pop, prog, func, labels) \cup Holes(Top, prog)
  BY <1>7, Zenon DEF Waiting
<1> QED BY <1>2, <1>3, <1>4, <1>5, <1>6, <1>8, Zenon

\* The innermost call ends.
LEMMA StepPop ==
  ASSUME CInv, Going,
         labels' = labels,
         stack # <<>>, stack' = Pop,
         func' \in Funcs, func'.contLabel <= Len(code'),
         Len(func'.breaks) = IF Top.k \in Breaking THEN Top.nb ELSE Len(func.breaks),
         Len(func'.conts) = IF Top.k \in Looping THEN Top.nc ELSE Len(func.conts),
         func'.loops = func.loops - (IF Top.k \in Looping THEN 1 ELSE 0),
         func'.switches = func.switches - (IF Top.k \in {"switch"} THEN 1 ELSE 0),
         Good(code', Waiting(Pop, prog, func', labels), Rets)
  PROVE  CInv'
<1>popWithin. ASSUME NEW s \in Seq(Frames), s # <<>>, NEW K
              PROVE  /\ Within(SubSeq(s, 1, Len(s) - 1), K) = Within(s, K) \ {Len(s)}
                     /\ \A n \in Nat : Counted(n, s, K) => Counted(n - (IF s[Len(s)].k \in K THEN 1 ELSE 0), SubSeq(s, 1, Len(s) - 1), K)
  <2> USE <1>popWithin
  <2>1. PICK q : q = SubSeq(s, 1, Len(s) - 1)
    BY Zenon
  <2>2. /\ DOMAIN q = DOMAIN s \ {Len(s)} /\ Len(s) \in DOMAIN s
        /\ \A j \in DOMAIN s : j # Len(s) => q[j] = s[j]
    BY <2>1, Popped, Zenon
  <2>3. Within(q, K) = Within(s, K) \ {Len(s)}
    BY <2>2, Zenon DEF Within
  <2>4. CASE s[Len(s)].k \in K
    <3>1. Len(s) \in Within(s, K)
      BY <2>2, <2>4, Zenon DEF Within
    <3>2. ASSUME NEW n \in Nat, Counted(n, s, K)
          PROVE  Counted(n - 1, q, K)
      <4>1. PICK r \in [1 .. n -> DOMAIN s] : /\ \A i, j \in 1 .. n : i < j => r[i] < r[j]
                                              /\ Within(s, K) = {r[i] : i \in 1 .. n}
        BY <3>2, Zenon DEF Counted
      <4>2. PICK m \in 1 .. n : r[m] = Len(s)
        BY <3>1, <4>1, Zenon
      <4>3. \A i \in 1 .. n : r[i] \in 1 .. Len(s) /\ Len(s) \in Nat
        BY <4>1
      <4>4. m = n
        BY <3>2, <4>1, <4>2, <4>3
      <4>5. /\ 1 .. n = 1 .. n - 1 \cup {n} /\ \A i \in 1 .. n - 1 : i < n
            /\ \A i \in 1 .. n : r[i] < Len(s) => r[i] # Len(s)
        BY <3>2, <4>2, <4>3
      <4>6. ASSUME NEW i \in 1 .. n - 1
            PROVE  r[i] \in DOMAIN q
        <5>1. i \in 1 .. n /\ n \in 1 .. n /\ i < n
          BY <3>2
        <5>2. r[i] < Len(s) /\ r[i] \in DOMAIN s
          BY <4>1, <4>2, <4>4, <5>1, Zenon
        <5> QED BY <2>2, <4>5, <5>1, <5>2, Zenon
      <4>7. PICK z : z = [i \in 1 .. n - 1 |-> r[i]]
        BY Zenon
      <4>8. z \in [1 .. n - 1 -> DOMAIN q] /\ \A i \in 1 .. n - 1 : z[i] = r[i] /\ r[i] # Len(s)
        BY <2>2, <4>6, <4>7, Zenon
      <4>9. \A i, j \in 1 .. n - 1 : i < j => z[i] < z[j]
        BY <4>1, <4>5, <4>8, Zenon
      <4>10. Within(q, K) = {z[i] : i \in 1 .. n - 1}
        <5>1. Within(s, K) = {r[i] : i \in 1 .. n - 1} \cup {Len(s)}
          BY <4>1, <4>2, <4>4, <4>5, Zenon
        <5>2. {z[i] : i \in 1 .. n - 1} = {r[i] : i \in 1 .. n - 1} /\ Len(s) \notin {r[i] : i \in 1 .. n - 1}
          BY <4>8, Zenon
        <5> QED BY <2>3, <5>1, <5>2, Zenon
      <4> QED BY <4>8, <4>9, <4>10, Zenon DEF Counted
    <3> QED BY <2>1, <2>3, <2>4, <3>2, Zenon
  <2>5. CASE s[Len(s)].k \notin K
    <3>1. Within(q, K) = Within(s, K) /\ Len(s) \notin Within(s, K)
      BY <2>3, <2>5, Zenon DEF Within
    <3>2. ASSUME NEW n \in Nat, Counted(n, s, K)
          PROVE  Counted(n - 0, q, K)
      <4>1. PICK r \in [1 .. n -> DOMAIN s] : /\ \A i, j \in 1 .. n : i < j => r[i] < r[j]
                                              /\ Within(s, K) = {r[i] : i \in 1 .. n}
        BY <3>2, Zenon DEF Counted
      <4>2. \A i \in 1 .. n : r[i] \in DOMAIN q
        BY <2>2, <3>1, <4>1, Zenon
      <4>3. r \in [1 .. n -> DOMAIN q]
        BY <4>1, <4>2, Zenon
      <4>4. n - 0 = n
        OBVIOUS
      <4> QED BY <3>1, <4>1, <4>3, <4>4, Zenon DEF Counted
    <3> QED BY <2>1, <2>3, <2>5, <3>1, <3>2, Zenon
  <2> QED BY <2>4, <2>5, Zenon
\* The innermost call ends, and the jumps recorded since it began are forgotten if it
\* was in a statement that they leave or continue.
<1>popNested. ASSUME NEW s, NEW f, Nested(s, f), s # <<>>, NEW x, x = s[Len(s)], NEW g \in Funcs,
                     Len(g.breaks) = IF x.k \in Breaking THEN x.nb ELSE Len(f.breaks),
                     Len(g.conts) = IF x.k \in Looping THEN x.nc ELSE Len(f.conts),
                     g.loops = f.loops - (IF x.k \in Looping THEN 1 ELSE 0),
                     g.switches = f.switches - (IF x.k \in {"switch"} THEN 1 ELSE 0)
              PROVE  Nested(SubSeq(s, 1, Len(s) - 1), g)
  <2> USE <1>popNested
  <2>1. s \in Seq(Frames)
    BY Zenon DEF Nested
  <2>2. PICK q : q = SubSeq(s, 1, Len(s) - 1)
    BY Zenon
  <2>3. /\ q \in Seq(Frames) /\ Len(s) \in DOMAIN s
        /\ DOMAIN q = DOMAIN s \ {Len(s)}
        /\ \A j \in DOMAIN s : j # Len(s) => q[j] = s[j] /\ j < Len(s)
        /\ ~(Len(s) < Len(s))
    <3>1. ~(Len(s) < Len(s))
      BY <2>1
    <3> QED BY <2>1, <2>2, <3>1, Popped, Zenon
  <2>4. \A K : /\ Within(q, K) = Within(s, K) \ {Len(s)}
               /\ \A n \in Nat : Counted(n, s, K) => Counted(n - (IF x.k \in K THEN 1 ELSE 0), q, K)
    BY <2>1, <2>2, <1>popWithin, Zenon
  <2>5. \A K : Within(s, K) \subseteq DOMAIN s
    BY Zenon DEF Within
  <2>6. Counted(g.loops, q, Looping) /\ Counted(g.switches, q, {"switch"})
    <3>1. f.loops \in Nat /\ f.switches \in Nat
      BY Zenon DEF Nested, Funcs
    <3>2. Counted(f.loops, s, Looping) /\ Counted(f.switches, s, {"switch"})
      BY Zenon DEF Nested
    <3>3. Counted(f.loops - (IF x.k \in Looping THEN 1 ELSE 0), q, Looping)
      BY <2>4, <3>1, <3>2, Zenon
    <3>4. Counted(f.switches - (IF x.k \in {"switch"} THEN 1 ELSE 0), q, {"switch"})
      BY <2>4, <3>1, <3>2, Zenon
    <3> QED BY <3>3, <3>4, Zenon
  <2>7. \A j \in DOMAIN q : q[j].nb <= Len(g.breaks) /\ q[j].nc <= Len(g.conts)
    BY <2>3, Zenon DEF Nested
  <2>8. \A i, j \in DOMAIN q : i < j => q[i].nb <= q[j].nb /\ q[i].nc <= q[j].nc
    BY <2>3, Zenon DEF Nested
  <2>9. \A i \in DOMAIN s : i < Len(s) => i # Len(s)
    BY <2>3, Zenon
  <2>10. ASSUME NEW j \in Within(q, Breaking), q[j].nb > 0
         PROVE  \E i \in Within(q, Breaking) : i < j
    <3>1. j \in Within(s, Breaking) /\ j # Len(s) /\ s[j].nb > 0 /\ j < Len(s)
      BY <2>3, <2>4, <2>5, <2>10, ZenonT(40)
    <3>2. PICK i \in Within(s, Breaking) : i < j
      BY <3>1, Zenon DEF Nested
    <3>3. i # Len(s)
      BY <2>1, <2>5, <3>1, <3>2
    <3> QED BY <2>4, <3>2, <3>3, Zenon
  <2>11. ASSUME NEW j \in Within(q, Looping), q[j].nc > 0
         PROVE  \E i \in Within(q, Looping) : i < j
    <3>1. j \in Within(s, Looping) /\ j # Len(s) /\ s[j].nc > 0 /\ j < Len(s)
      BY <2>3, <2>4, <2>5, <2>11, ZenonT(40)
    <3>2. PICK i \in Within(s, Looping) : i < j
      BY <3>1, Zenon DEF Nested
    <3>3. i # Len(s)
      BY <2>1, <2>5, <3>1, <3>2
    <3> QED BY <2>4, <3>2, <3>3, Zenon
  <2>12. \A K : x.k \in K => Len(s) \in Within(s, K)
    BY <2>3, Zenon DEF Within
  <2>13. \A K : x.k \notin K => Len(s) \notin Within(s, K)
    BY Zenon DEF Within
  <2>14. ASSUME Len(g.breaks) > 0
         PROVE  Within(q, Breaking) # {}
    <3>1. CASE x.k \in Breaking
      <4>1. Len(s) \in Within(s, Breaking) /\ s[Len(s)].nb > 0
        BY <2>14, <2>12, <3>1, Zenon
      <4>2. PICK i \in Within(s, Breaking) : i < Len(s)
        BY <4>1, Zenon DEF Nested
      <4> QED BY <2>4, <2>5, <2>9, <4>2, Zenon
    <3>2. CASE x.k \notin Breaking
      <4>1. Within(s, Breaking) # {}
        BY <2>14, <3>2, Zenon DEF Nested
      <4>2. Len(s) \notin Within(s, Breaking)
        BY <2>13, <3>2, Zenon
      <4>3. Within(q, Breaking) = Within(s, Breaking) \ {Len(s)}
        BY <2>4, Zenon
      <4> QED BY <4>1, <4>2, <4>3, Zenon
    <3> QED BY <3>1, <3>2, Zenon
  <2>15. ASSUME Len(g.conts) > 0
         PROVE  Within(q, Looping) # {}
    <3>1. CASE x.k \in Looping
      <4>1. Len(s) \in Within(s, Looping) /\ s[Len(s)].nc > 0
        BY <2>15, <2>12, <3>1, Zenon
      <4>2. PICK i \in Within(s, Looping) : i < Len(s)
        BY <4>1, Zenon DEF Nested
      <4> QED BY <2>4, <2>5, <2>9, <4>2, Zenon
    <3>2. CASE x.k \notin Looping
      <4>1. Within(s, Looping) # {}
        BY <2>15, <3>2, Zenon DEF Nested
      <4>2. Len(s) \notin Within(s, Looping)
        BY <2>13, <3>2, Zenon
      <4>3. Within(q, Looping) = Within(s, Looping) \ {Len(s)}
        BY <2>4, Zenon
      <4> QED BY <4>1, <4>2, <4>3, Zenon
    <3> QED BY <3>1, <3>2, Zenon
  <2>16. Nested(q, g)
    BY <2>3, <2>6, <2>7, <2>8, <2>10, <2>11, <2>14, <2>15, Zenon DEF Nested
  <2> QED BY <2>2, <2>16, Zenon
<1> USE DEF Going
<1>1. Nested(stack, func) /\ LabelsKnown(labels, Len(code)) /\ Len(code) \in Nat
  BY Found, Zenon
<1>2. Len(code') \in Nat
  BY DEF Good
<1>3. Pop \in Seq(Frames) /\ Bounded(Pop, Len(code))
  BY TopFound, Zenon
<1>4. Bounded(stack', Len(code'))
  BY <1>1, <1>2, <1>3, BoundedMore, Zenon
<1>5. LabelsKnown(labels', Len(code'))
  BY <1>1, <1>2, LabelsMore, Zenon
<1>6. Nested(stack', func')
  BY <1>1, <1>popNested, Zenon DEF Top, Pop
<1> QED BY <1>4, <1>5, <1>6, Step, Zenon

\* Recorded jumps: all of them, those since the n-th, one more.
LEMMA Since ==
  ASSUME NEW s \in Seq(Nat), NEW n \in Nat, n <= Len(s)
  PROVE  /\ SubSeq(s, 1, n) \in Seq(Nat) /\ Len(SubSeq(s, 1, n)) = n
         /\ From(s, 0) \subseteq From(SubSeq(s, 1, n), 0) \cup From(s, n)
<1>1. PICK q : q = SubSeq(s, 1, n)
  BY Zenon
<1>2. q \in Seq(Nat) /\ Len(q) = n /\ \A i \in 1 .. n : q[i] = s[i]
  BY <1>1
<1>3. ASSUME NEW i \in 0 + 1 .. Len(s)
      PROVE  s[i] \in From(q, 0) \cup From(s, n)
  <2>1. CASE i <= n
    BY <1>2, <2>1 DEF From
  <2>2. CASE i > n
    BY <2>2 DEF From
  <2> QED BY <2>1, <2>2
<1>4. From(s, 0) \subseteq From(q, 0) \cup From(s, n)
  BY <1>3, Zenon DEF From
<1> QED BY <1>1, <1>2, <1>4, Zenon

LEMMA EndSwitchKeeps == ASSUME CInv, EndSwitch PROVE CInv'
\* The dispatch of a switch jumps to its labels.
<1>dispatchGood. ASSUME NEW f, f.cases \in Seq([key : STRING, label : Nat]), NEW n \in Nat, NEW c, NEW H, NEW R,
                        Good(c, H, R), Len(c) = n, \A i \in DOMAIN f.cases : f.cases[i].label <= n
                 PROVE  /\ Good(c \o Dispatch(f, n), H, R) /\ n <= Len(c \o Dispatch(f, n))
  <2> USE <1>dispatchGood
  <2>0. PICK s : s = f.cases
    BY Zenon
  <2>1. /\ s \in Seq([key : STRING, label : Nat]) /\ \A i \in DOMAIN s : s[i].label <= n
    BY <2>0, Zenon
  <2>2. PICK L : L = Len(s)
    BY Zenon
  <2>3. L \in Nat /\ DOMAIN s = 1 .. L
    BY <2>1, <2>2
  <2>4. \A i \in 1 .. L : s[i].key \in STRING /\ s[i].label \in Nat /\ s[i].label <= n
    BY <2>1, <2>3, CaseLabels, Zenon
  <2>5. PICK d : d = Dispatch(f, n)
    BY Zenon
  <2>6. /\ d = [i \in 1 .. 2 * L |-> d[i]]
        /\ \A i \in 1 .. 2 * L : d[i] = IF i % 2 = 1 THEN Insn("case", 0, s[(i + 1) \div 2].key)
                                        ELSE JalTo(n + i - 1, s[i \div 2].label)
    BY <2>0, <2>2, <2>5, Zenon DEF Dispatch
  <2>7. ASSUME NEW i \in 1 .. 2 * L
        PROVE  /\ d[i] \in Insns /\ d[i].op # "ret"
               /\ d[i].op = "jal" => d[i].target = "known" /\ n + i - 1 + d[i].delta \in 0 .. n
    <3>1. CASE i % 2 = 1
      <4>1. (i + 1) \div 2 \in 1 .. L
        BY <2>3, <3>1
      <4>2. PICK k : k = s[(i + 1) \div 2].key
        BY Zenon
      <4>3. k \in Names
        BY <2>4, <4>1, <4>2, Zenon DEF Names
      <4>4. d[i] = Insn("case", 0, k)
        BY <2>6, <3>1, <4>2, Zenon
      <4>5. "case" \in Ops /\ 0 \in Nat /\ "case" # "ret" /\ "case" # "jal"
        BY DEF Ops
      <4> QED BY <4>3, <4>4, <4>5, InsnType, Zenon
    <3>2. CASE i % 2 # 1
      <4>1. i \div 2 \in 1 .. L
        BY <2>3, <3>2
      <4>2. PICK t : t = s[i \div 2].label
        BY Zenon
      <4>3. t \in Nat /\ t <= n
        BY <2>4, <4>1, <4>2, Zenon
      <4>4. d[i] = JalTo(n + i - 1, t)
        BY <2>6, <3>2, <4>2, Zenon
      <4>5. n + i - 1 \in Int /\ t \in Int
        BY <2>3, <4>3
      <4>6. d[i] \in Insns /\ d[i].op = "jal" /\ d[i].target = "known" /\ d[i].delta = t - (n + i - 1)
        <5>1. PICK o : o = n + i - 1
          BY Zenon
        <5>2. d[i] = JalTo(o, t) /\ o \in Int /\ t \in Int
          BY <4>4, <4>5, <5>1, Zenon
        <5>3. d[i] \in Insns /\ d[i].op = "jal" /\ d[i].target = "known" /\ d[i].delta = t - o
          BY ONLY <5>2, JalToType, Zenon
        <5> QED BY <5>1, <5>3, Zenon
      <4>7. n + i - 1 + d[i].delta \in 0 .. n
        BY <4>3, <4>5, <4>6
      <4> QED BY <4>6, <4>7
    <3> QED BY <3>1, <3>2, Zenon
  <2>8. 2 * L \in Nat
    BY <2>3
  <2>9. d \in Seq(Insns) /\ Len(d) = 2 * L /\ DOMAIN d = 1 .. 2 * L
    <3>1. [i \in 1 .. 2 * L |-> d[i]] \in Seq(Insns) /\ Len([i \in 1 .. 2 * L |-> d[i]]) = 2 * L
      BY <2>7, <2>8
    <3>2. d \in Seq(Insns) /\ Len(d) = 2 * L
      BY <2>6, <3>1, Zenon
    <3> QED BY <3>2, SeqFacts, Zenon
  <2>10. \A j \in DOMAIN d : /\ d[j].op # "ret"
                             /\ d[j].op = "jal" => d[j].target = "known" /\ Len(c) + j - 1 + d[j].delta \in 0 .. Len(c) + Len(d)
    <3> SUFFICES ASSUME NEW j \in 1 .. 2 * L
                 PROVE  /\ d[j].op # "ret"
                        /\ d[j].op = "jal" => d[j].target = "known" /\ Len(c) + j - 1 + d[j].delta \in 0 .. Len(c) + Len(d)
      BY <2>9, Zenon
    <3>1. /\ d[j].op # "ret"
          /\ d[j].op = "jal" => d[j].target = "known" /\ Len(c) + j - 1 + d[j].delta \in 0 .. Len(c)
      BY <2>7, Zenon
    <3>2. \A y : y \in 0 .. Len(c) => y \in 0 .. Len(c) + Len(d)
      BY <2>8, <2>9
    <3> QED BY <3>1, <3>2, Zenon
  <2>11. Good(c \o d, H, R) /\ Len(c \o d) = Len(c) + Len(d)
    BY <2>9, <2>10, GoodConcat, Zenon
  <2>12. n <= Len(c \o d)
    BY <2>8, <2>9, <2>11
  <2> QED BY <2>5, <2>11, <2>12, Zenon
<1>0. PICK W : W = Waiting(stack, prog, func, labels)
  BY Zenon
<1>1. PICK a : a = code \o <<Jal, Insn("ld", Top.tok, "-")>>
  BY Zenon
<1>2. PICK c : c = a \o Dispatch(Top, Len(code) + 2)
  BY Zenon
<1>3. PICK w : w = c \o (IF Top.default # 0 THEN <<JalTo(Len(c), Top.default)>> ELSE <<>>)
  BY Zenon
<1>4. PICK d : d = PatchJal(w, {Top.br}, Len(code) + 1)
  BY Zenon
<1>5. PICK e : e = PatchJal(d, {Len(code)}, Len(w))
  BY Zenon
<1>6. /\ phase = "parse" /\ stack # <<>> /\ Top.k = "switch" /\ at' \in {at, at + 1, at + 2} /\ stack' = Pop
      /\ code' = PatchJal(e, From(func.breaks, Top.nb), Len(w))
      /\ func' = [func EXCEPT !.breaks = SubSeq(@, 1, Top.nb), !.switches = @ - 1]
      /\ UNCHANGED <<phase, prog, labels, epis, pc>>
  <2>1. PICK v : v = IF Top.default # 0 THEN <<JalTo(Len(c), Top.default)>> ELSE <<>>
    BY Zenon
  <2>2. w = c \o v
    BY <1>3, <2>1, Zenon
  <2> QED BY <1>1, <1>2, <1>4, <1>5, <2>1, <2>2, Zenon DEF EndSwitch, Resumed, machine, Size, Eat
<1>7. /\ Good(code, W, Rets) /\ Len(code) \in Nat /\ code \in Seq(Insns)
      /\ func \in Funcs /\ func.breaks \in Seq(Nat) /\ func.loops \in Nat
      /\ func.switches \in Nat /\ Nested(stack, func) /\ stack \in Seq(Frames) /\ func.contLabel \in 0 .. Len(code)
  BY <1>0, <1>6, Found, Zenon
<1>8. /\ W = Waiting(Pop, prog, func, labels) \cup Holes(Top, prog)
      /\ Top.tok \in Nat /\ Top.default \in 0 .. Len(code) /\ Top.cases \in Seq([key : STRING, label : Nat])
      /\ Top.nb \in Nat /\ Top.nb <= Len(func.breaks)
      /\ \A i \in DOMAIN Top.cases : Top.cases[i].label <= Len(code)
  BY <1>0, <1>6, TopFound, Zenon
<1>9. Holes(Top, prog) \subseteq {Top.br}
  BY <1>6 DEF Holes
<1>10. Good(a, W \cup {Len(code)}, Rets) /\ Len(a) = Len(code) + 2
  <2>1. PICK x : x = Insn("ld", Top.tok, "-")
    BY Zenon
  <2>2. x \in Insns /\ x.op \notin {"jal", "ret"}
    BY <1>8, <2>1, Plain
  <2>3. PICK y : y = Append(code, Jal)
    BY Zenon
  <2>4. Good(y, W \cup {Len(code)}, Rets) /\ Len(y) = Len(code) + 1
    BY <1>7, <2>3, GoodAppend, Zenon
  <2>5. Good(Append(y, x), W \cup {Len(code)}, Rets) /\ Len(Append(y, x)) = Len(y) + 1
    BY <2>2, <2>4, GoodAppend, Zenon
  <2>6. a = Append(y, x)
    <3>1. PICK j : j = Jal
      BY Zenon
    <3>2. j \in Insns
      BY <3>1, JalType, Zenon
    <3>3. code \o <<j, x>> = Append(Append(code, j), x)
      BY <1>7, <2>2, <3>2
    <3> QED BY <1>1, <2>1, <2>3, <3>1, <3>3, Zenon
  <2> QED BY <1>7, <2>4, <2>5, <2>6
<1>11. Good(c, W \cup {Len(code)}, Rets) /\ Len(code) + 2 <= Len(c)
  <2>1. \A i \in DOMAIN Top.cases : Top.cases[i].label <= Len(code) + 2
    <3>1. \A i \in DOMAIN Top.cases : Top.cases[i].label \in Nat
      BY <1>8, CaseLabels, Zenon
    <3> QED BY <1>7, <1>8, <3>1, SMTT(60)
  <2>2. Len(code) + 2 \in Nat
    BY <1>7
  <2> QED BY <1>2, <1>8, <1>10, <2>1, <2>2, <1>dispatchGood, Zenon
<1>12. Len(c) \in Nat /\ c \in Seq(Insns)
  BY <1>11 DEF Good
<1>13. Good(w, W \cup {Len(code)}, Rets) /\ Len(c) <= Len(w) /\ Len(w) \in Nat
  <2>1. CASE Top.default # 0
    <3>0. PICK x : x = JalTo(Len(c), Top.default)
      BY Zenon
    <3>1. Top.default \in 0 .. Len(c)
      BY <1>7, <1>8, <1>11, <1>12
    <3>2. x \in Insns
      <4>1. Len(c) \in Int /\ Top.default \in Int
        BY <1>12, <3>1
      <4> QED BY <3>0, <4>1, JalToType, Zenon
    <3>3. w = Append(c, x)
      BY <1>3, <1>12, <2>1, <3>0, <3>2, AppendFacts, Zenon
    <3>4. Good(w, W \cup {Len(code)}, Rets) /\ Len(w) = Len(c) + 1
      BY <1>11, <3>0, <3>1, <3>3, GoodAppend, Zenon
    <3> QED BY <1>12, <3>4
  <2>2. CASE Top.default = 0
    <3>1. w = c
      BY <1>3, <1>12, <2>2, EmptyFacts, Zenon
    <3> QED BY <1>11, <1>12, <3>1
  <2> QED BY <2>1, <2>2, Zenon
<1>14. Good(d, (W \cup {Len(code)}) \ {Top.br}, Rets) /\ Len(d) = Len(w)
  <2>1. Len(code) + 1 \in 0 .. Len(w)
    BY <1>7, <1>11, <1>12, <1>13
  <2> QED BY <1>4, <1>13, <2>1, GoodPatch, Zenon
<1>15. Good(e, ((W \cup {Len(code)}) \ {Top.br}) \ {Len(code)}, Rets) /\ Len(e) = Len(w)
  <2>1. Len(w) \in 0 .. Len(d)
    BY <1>13, <1>14
  <2>2. PICK H : H = (W \cup {Len(code)}) \ {Top.br}
    BY Zenon
  <2>3. Good(d, H, Rets)
    BY <1>14, <2>2, Zenon
  <2>4. Good(e, H \ {Len(code)}, Rets) /\ Len(e) = Len(d)
    BY <1>5, <2>1, <2>3, GoodPatch, Zenon
  <2> QED BY <1>14, <2>2, <2>4, Zenon
<1>16. /\ Good(code', (((W \cup {Len(code)}) \ {Top.br}) \ {Len(code)}) \ From(func.breaks, Top.nb), Rets)
       /\ Len(code') = Len(w)
  <2>1. Len(w) \in 0 .. Len(e)
    BY <1>13, <1>15
  <2>2. PICK H : H = ((W \cup {Len(code)}) \ {Top.br}) \ {Len(code)}
    BY Zenon
  <2>3. Good(e, H, Rets)
    BY <1>15, <2>2, Zenon
  <2>4. Good(code', H \ From(func.breaks, Top.nb), Rets) /\ Len(code') = Len(e)
    BY <1>6, <2>1, <2>3, GoodPatch, Zenon
  <2> QED BY <1>15, <2>2, <2>4, Zenon
<1>17. func.switches >= 1
  <2>1. Len(stack) \in Within(stack, {"switch"})
    <3>1. Len(stack) \in DOMAIN stack
      BY <1>6, <1>7, Popped, Zenon
    <3> QED BY <1>6, <3>1, Zenon DEF Within, Top
  <2>2. Counted(func.switches, stack, {"switch"})
    BY <1>7, Zenon DEF Nested
  <2>3. func.switches # 0
    BY <1>7, <2>1, <2>2, CountedSome, Zenon
  <2> QED BY <1>7, <2>3
<1>18. PICK g : g = func'
  BY Zenon
<1>19. /\ g \in Funcs /\ g.breaks = SubSeq(func.breaks, 1, Top.nb) /\ g.conts = func.conts
       /\ g.contLabel = func.contLabel /\ g.loops = func.loops /\ g.switches = func.switches - 1
  <2>1. SubSeq(func.breaks, 1, Top.nb) \in Seq(Nat)
    BY <1>7, <1>8, Since, Zenon
  <2>2. func.switches - 1 \in Nat
    BY <1>7, <1>17
  <2> QED BY <1>6, <1>7, <1>18, <2>1, <2>2, Zenon DEF Funcs
<1>20. /\ Waiting(Pop, prog, func, labels) \subseteq Waiting(Pop, prog, g, labels) \cup From(func.breaks, Top.nb)
       /\ Len(g.breaks) = Top.nb
  <2>1. From(func.breaks, 0) \subseteq From(g.breaks, 0) \cup From(func.breaks, Top.nb) /\ Len(g.breaks) = Top.nb
    BY <1>7, <1>8, <1>19, Since, ZenonT(40)
  <2> QED BY <1>19, <2>1, Zenon DEF Waiting
<1>21. (((W \cup {Len(code)}) \ {Top.br}) \ {Len(code)}) \ From(func.breaks, Top.nb) \subseteq Waiting(Pop, prog, g, labels)
  BY <1>8, <1>9, <1>20, Zenon
<1>22. Good(code', Waiting(Pop, prog, func', labels), Rets)
  BY <1>16, <1>18, <1>21, GoodWider
<1>23. func'.contLabel <= Len(code') /\ Len(code) <= Len(code')
  BY <1>7, <1>11, <1>12, <1>13, <1>16, <1>18, <1>19
<1>24. /\ Len(func'.breaks) = IF Top.k \in Breaking THEN Top.nb ELSE Len(func.breaks)
       /\ Len(func'.conts) = IF Top.k \in Looping THEN Top.nc ELSE Len(func.conts)
       /\ func'.loops = func.loops - (IF Top.k \in Looping THEN 1 ELSE 0)
       /\ func'.switches = func.switches - (IF Top.k \in {"switch"} THEN 1 ELSE 0)
  <2>1. Top.k \in Breaking /\ Top.k \notin Looping /\ Top.k \in {"switch"}
    BY <1>6 DEF Breaking, Looping
  <2>2. func.loops - 0 = func.loops
    BY <1>7
  <2> QED BY <1>18, <1>19, <1>20, <2>1, <2>2, Zenon
<1> QED BY <1>6, <1>18, <1>19, <1>22, <1>23, <1>24, StepPop, Zenon DEF Going

\* What a loop's code owes when only its recorded jumps are left to patch.
LEMMA LeaveLoopKeeps ==
  ASSUME CInv, phase = "parse", stack # <<>>, Top.k \in Looping, at' \in {at, at + 1, at + 2},
         NEW c, NEW b \in 0 .. Len(c), NEW n \in 0 .. Len(c), LeaveLoop(c, b, n), Len(code) <= Len(c),
         Good(c, Waiting(Pop, prog, func, labels), Rets)
  PROVE  CInv'
<1>1. PICK d : d = PatchJal(c, From(func.breaks, Top.nb), b)
  BY Zenon
<1>2. /\ code' = PatchJal(d, From(func.conts, Top.nc), n) /\ stack' = Pop
      /\ func' = [func EXCEPT !.breaks = SubSeq(@, 1, Top.nb), !.conts = SubSeq(@, 1, Top.nc),
                              !.contLabel = Top.cl, !.loops = @ - 1]
      /\ UNCHANGED <<phase, prog, labels, epis, pc>>
  BY <1>1, Zenon DEF LeaveLoop, machine
<1>3. /\ func \in Funcs /\ func.breaks \in Seq(Nat) /\ func.conts \in Seq(Nat) /\ func.loops \in Nat
      /\ func.switches \in Nat /\ Nested(stack, func) /\ stack \in Seq(Frames) /\ Len(code) \in Nat
  BY Found, Zenon
<1>4. /\ Top.nb \in Nat /\ Top.nc \in Nat /\ Top.cl \in 0 .. Len(code)
      /\ Top.nb <= Len(func.breaks) /\ Top.nc <= Len(func.conts)
  BY TopFound, Zenon
<1>5. func.loops >= 1
  <2>1. Len(stack) \in Within(stack, Looping)
    <3>1. Len(stack) \in DOMAIN stack
      BY <1>3, Popped, Zenon
    <3> QED BY <3>1, Zenon DEF Within, Top
  <2>2. Counted(func.loops, stack, Looping)
    BY <1>3, Zenon DEF Nested
  <2>3. func.loops # 0
    BY <1>3, <2>1, <2>2, CountedSome, Zenon
  <2> QED BY <1>3, <2>3
<1>6. PICK g : g = func'
  BY Zenon
<1>7. /\ g \in Funcs /\ g.breaks = SubSeq(func.breaks, 1, Top.nb) /\ g.conts = SubSeq(func.conts, 1, Top.nc)
      /\ g.contLabel = Top.cl /\ g.loops = func.loops - 1 /\ g.switches = func.switches
  <2>1. SubSeq(func.breaks, 1, Top.nb) \in Seq(Nat) /\ SubSeq(func.conts, 1, Top.nc) \in Seq(Nat)
    BY <1>3, <1>4, Since, Zenon
  <2>2. Top.cl \in Nat /\ func.loops - 1 \in Nat
    BY <1>3, <1>4, <1>5, SMTT(60)
  <2> QED BY <1>2, <1>3, <1>6, <2>1, <2>2, Zenon DEF Funcs
<1>8. /\ Waiting(Pop, prog, func, labels) \subseteq
            Waiting(Pop, prog, g, labels) \cup From(func.breaks, Top.nb) \cup From(func.conts, Top.nc)
      /\ Len(g.breaks) = Top.nb /\ Len(g.conts) = Top.nc
  <2>1. From(func.breaks, 0) \subseteq From(g.breaks, 0) \cup From(func.breaks, Top.nb) /\ Len(g.breaks) = Top.nb
    BY <1>3, <1>4, <1>7, Since, ZenonT(40)
  <2>2. From(func.conts, 0) \subseteq From(g.conts, 0) \cup From(func.conts, Top.nc) /\ Len(g.conts) = Top.nc
    BY <1>3, <1>4, <1>7, Since, ZenonT(40)
  <2> QED BY <2>1, <2>2, Zenon DEF Waiting
<1>9. Good(d, Waiting(Pop, prog, func, labels) \ From(func.breaks, Top.nb), Rets) /\ Len(d) = Len(c)
  BY <1>1, GoodPatch, Zenon
<1>10. /\ Good(code', (Waiting(Pop, prog, func, labels) \ From(func.breaks, Top.nb)) \ From(func.conts, Top.nc), Rets)
       /\ Len(code') = Len(c)
  <2>1. n \in 0 .. Len(d)
    BY <1>9, Zenon
  <2> QED BY <1>2, <1>9, <2>1, GoodPatch, ZenonT(40)
<1>11. (Waiting(Pop, prog, func, labels) \ From(func.breaks, Top.nb)) \ From(func.conts, Top.nc)
         \subseteq Waiting(Pop, prog, g, labels)
  BY <1>8, Zenon
<1>12. Good(code', Waiting(Pop, prog, func', labels), Rets)
  BY <1>6, <1>10, <1>11, GoodWider
<1>13. func'.contLabel <= Len(code') /\ Len(code) <= Len(code')
  <2>1. Len(c) \in Nat
    BY DEF Good
  <2> QED BY <1>3, <1>4, <1>6, <1>7, <1>10, <2>1
<1>14. /\ Len(func'.breaks) = IF Top.k \in Breaking THEN Top.nb ELSE Len(func.breaks)
       /\ Len(func'.conts) = IF Top.k \in Looping THEN Top.nc ELSE Len(func.conts)
       /\ func'.loops = func.loops - (IF Top.k \in Looping THEN 1 ELSE 0)
       /\ func'.switches = func.switches - (IF Top.k \in {"switch"} THEN 1 ELSE 0)
  <2>1. Top.k \in Breaking /\ Top.k \notin {"switch"}
    BY DEF Breaking, Looping
  <2>2. func.switches - 0 = func.switches
    BY <1>3
  <2> QED BY <1>6, <1>7, <1>8, <2>1, <2>2, Zenon
<1> QED BY <1>2, <1>6, <1>7, <1>12, <1>13, <1>14, StepPop, Zenon DEF Going

LEMMA EndForKeeps == ASSUME CInv, EndFor PROVE CInv'
<1>0. PICK v : v = IF "post" \in prog[Top.tok].parts THEN <<Event("post", Top.tok)>> ELSE <<>>
  BY Zenon
<1>1. PICK a : a = code \o v
  BY Zenon
<1>2. PICK c : c = Append(a, Jal)
  BY Zenon
<1>3. PICK E : E = IF "cond" \in prog[Top.tok].parts THEN {Top.br} ELSE {}
  BY Zenon
<1>4. PICK d : d = PatchJal(c, E, Len(c))
  BY Zenon
<1>5. PICK e : e = PatchJal(d, {Len(c) - 1}, Top.top)
  BY Zenon
<1>6. /\ phase = "parse" /\ stack # <<>> /\ Top.k = "for" /\ at' = at
      /\ LeaveLoop(e, Len(c), Len(code))
  BY <1>0, <1>1, <1>2, <1>3, <1>4, <1>5, Zenon DEF EndFor, Resumed, Size
<1>7. Good(code, Waiting(stack, prog, func, labels), Rets) /\ Len(code) \in Nat /\ code \in Seq(Insns)
  BY <1>6, Found, Zenon
<1>8. /\ Waiting(stack, prog, func, labels) = Waiting(Pop, prog, func, labels) \cup Holes(Top, prog)
      /\ Top.top \in 0 .. Len(code) /\ Top.tok \in Nat
  BY <1>6, TopFound, Zenon
<1>9. Holes(Top, prog) \subseteq E /\ Top.k \in Looping
  BY <1>3, <1>6 DEF Holes, Looping
<1>10. Good(a, Waiting(stack, prog, func, labels), Rets) /\ Len(a) \in Nat /\ Len(code) <= Len(a)
  <2>1. CASE "post" \in prog[Top.tok].parts
    <3>0. PICK w : w = Event("post", Top.tok)
      BY Zenon
    <3>1. w \in Insns /\ w.op \notin {"jal", "ret"}
      BY <1>8, <3>0, Plain, Zenon
    <3>2. a = Append(code, w)
      BY <1>0, <1>1, <1>7, <2>1, <3>0, <3>1, AppendFacts, Zenon
    <3>3. Good(a, Waiting(stack, prog, func, labels), Rets) /\ Len(a) = Len(code) + 1
      BY <1>7, <3>1, <3>2, GoodAppend, Zenon
    <3> QED BY <1>7, <3>3
  <2>2. CASE "post" \notin prog[Top.tok].parts
    <3>1. a = code
      BY <1>0, <1>1, <1>7, <2>2, EmptyFacts, Zenon
    <3> QED BY <1>7, <3>1
  <2> QED BY <2>1, <2>2, Zenon
<1>11. Good(c, Waiting(stack, prog, func, labels) \cup {Len(a)}, Rets) /\ Len(c) = Len(a) + 1
  BY <1>2, <1>10, GoodAppend, Zenon
<1>12. Len(c) \in 0 .. Len(c) /\ Len(c) - 1 = Len(a)
  BY <1>10, <1>11
<1>13. Good(d, (Waiting(stack, prog, func, labels) \cup {Len(a)}) \ E, Rets) /\ Len(d) = Len(c)
  BY <1>4, <1>11, <1>12, GoodPatch, Zenon
<1>14. /\ Good(e, ((Waiting(stack, prog, func, labels) \cup {Len(a)}) \ E) \ {Len(a)}, Rets)
       /\ Len(e) = Len(d)
  <2>1. Top.top \in 0 .. Len(d)
    BY <1>7, <1>8, <1>10, <1>11, <1>13
  <2> QED BY <1>5, <1>12, <1>13, <2>1, GoodPatch, ZenonT(40)
<1>15. ((Waiting(stack, prog, func, labels) \cup {Len(a)}) \ E) \ {Len(a)}
         \subseteq Waiting(Pop, prog, func, labels)
  BY <1>8, <1>9, Zenon
<1>16. Good(e, Waiting(Pop, prog, func, labels), Rets)
  BY <1>14, <1>15, GoodWider
<1>17. Len(c) \in 0 .. Len(e) /\ Len(code) \in 0 .. Len(e) /\ Len(code) <= Len(e)
  BY <1>7, <1>10, <1>11, <1>13, <1>14
<1> QED BY <1>6, <1>9, <1>16, <1>17, LeaveLoopKeeps, Zenon

LEMMA EndWhileKeeps == ASSUME CInv, EndWhile PROVE CInv'
<1>0. PICK c : c = Append(code, Jal)
  BY Zenon
<1>1. PICK d : d = PatchJal(c, {Top.br}, Len(code) + 1)
  BY Zenon
<1>2. PICK e : e = PatchJal(d, {Len(code)}, Top.top)
  BY Zenon
<1>3. /\ phase = "parse" /\ stack # <<>> /\ Top.k = "while" /\ at' = at
      /\ LeaveLoop(e, Len(code) + 1, Top.top)
  BY <1>0, <1>1, <1>2, Zenon DEF EndWhile, Resumed, Size
<1>4. Good(code, Waiting(stack, prog, func, labels), Rets) /\ Len(code) \in Nat
  BY <1>3, Found, Zenon
<1>5. /\ Waiting(stack, prog, func, labels) = Waiting(Pop, prog, func, labels) \cup Holes(Top, prog)
      /\ Top.top \in 0 .. Len(code)
  BY <1>3, TopFound, Zenon
<1>6. Holes(Top, prog) \subseteq {Top.br} /\ Top.k \in Looping
  BY <1>3 DEF Holes, Looping
<1>7. Good(c, Waiting(stack, prog, func, labels) \cup {Len(code)}, Rets) /\ Len(c) = Len(code) + 1
  BY <1>0, <1>4, GoodAppend, Zenon
<1>8. Good(d, (Waiting(stack, prog, func, labels) \cup {Len(code)}) \ {Top.br}, Rets) /\ Len(d) = Len(c)
  <2>1. Len(code) + 1 \in 0 .. Len(c)
    BY <1>4, <1>7
  <2> QED BY <1>1, <1>7, <2>1, GoodPatch, Zenon
<1>9. /\ Good(e, ((Waiting(stack, prog, func, labels) \cup {Len(code)}) \ {Top.br}) \ {Len(code)}, Rets)
      /\ Len(e) = Len(d)
  <2>1. Top.top \in 0 .. Len(d)
    BY <1>4, <1>5, <1>7, <1>8
  <2> QED BY <1>2, <1>8, <2>1, GoodPatch, Zenon
<1>10. ((Waiting(stack, prog, func, labels) \cup {Len(code)}) \ {Top.br}) \ {Len(code)}
         \subseteq Waiting(Pop, prog, func, labels)
  BY <1>5, <1>6, Zenon
<1>11. Good(e, Waiting(Pop, prog, func, labels), Rets)
  BY <1>9, <1>10, GoodWider
<1>12. Len(code) + 1 \in 0 .. Len(e) /\ Top.top \in 0 .. Len(e) /\ Len(code) <= Len(e)
  BY <1>4, <1>5, <1>7, <1>8, <1>9
<1> QED BY <1>3, <1>6, <1>11, <1>12, LeaveLoopKeeps, Zenon

\* A call that is neither a loop nor a switch ends.
LEMMA StepPlainPop ==
  ASSUME CInv, Going,
         labels' = labels, func' = func,
         stack # <<>>, stack' = Pop,
         Top.k \in {"block", "if", "else"},
         Good(code', Waiting(Pop, prog, func, labels), Rets)
  PROVE  CInv'
<1> USE DEF Going
<1>1. func \in Funcs /\ func.contLabel \in 0 .. Len(code) /\ func.loops \in Nat /\ func.switches \in Nat /\ Len(code) \in Nat
  BY Found, Zenon
<1>2. Top.k \notin Looping /\ Top.k \notin Breaking /\ Top.k \notin {"switch"}
  BY DEF Looping, Breaking
<1>3. func.loops - 0 = func.loops /\ func.switches - 0 = func.switches
  BY <1>1
<1>4. func'.contLabel <= Len(code')
  <2>1. Len(code') \in Nat
    BY DEF Good
  <2> QED BY <1>1, <2>1
<1>5. /\ Len(func'.breaks) = IF Top.k \in Breaking THEN Top.nb ELSE Len(func.breaks)
      /\ Len(func'.conts) = IF Top.k \in Looping THEN Top.nc ELSE Len(func.conts)
      /\ func'.loops = func.loops - (IF Top.k \in Looping THEN 1 ELSE 0)
      /\ func'.switches = func.switches - (IF Top.k \in {"switch"} THEN 1 ELSE 0)
  BY <1>2, <1>3, Zenon
<1> QED BY <1>1, <1>4, <1>5, StepPop, Zenon

LEMMA EndElseKeeps == ASSUME CInv, EndElse PROVE CInv'
<1>0. PICK d : d = PatchJal(code, {Top.br}, Top.top)
  BY Zenon
<1>1. /\ phase = "parse" /\ stack # <<>> /\ Top.k = "else" /\ stack' = Pop /\ at' = at
      /\ UNCHANGED <<phase, prog, func, labels, epis, pc>> /\ code' = PatchJal(d, {Top.top - 1}, Len(code))
  BY <1>0, Zenon DEF EndElse, Resumed, machine, Size
<1>2. Good(code, Waiting(stack, prog, func, labels), Rets) /\ Len(code) \in Nat
  BY <1>1, Found, Zenon
<1>3. /\ Waiting(stack, prog, func, labels) = Waiting(Pop, prog, func, labels) \cup Holes(Top, prog)
      /\ Top.top \in 0 .. Len(code)
  BY <1>1, TopFound, Zenon
<1>4. Holes(Top, prog) \subseteq {Top.br, Top.top - 1}
  BY <1>1 DEF Holes
<1>5. Good(d, Waiting(stack, prog, func, labels) \ {Top.br}, Rets) /\ Len(d) = Len(code)
  BY <1>0, <1>2, <1>3, GoodPatch, Zenon
<1>6. Len(code) \in 0 .. Len(d)
  BY <1>2, <1>5
<1>7. Good(code', (Waiting(stack, prog, func, labels) \ {Top.br}) \ {Top.top - 1}, Rets) /\ Len(code') = Len(code)
  BY <1>1, <1>5, <1>6, GoodPatch, ZenonT(40)
<1>8. (Waiting(stack, prog, func, labels) \ {Top.br}) \ {Top.top - 1} \subseteq Waiting(Pop, prog, func, labels)
  BY <1>3, <1>4, Zenon
<1>9. Good(code', Waiting(Pop, prog, func, labels), Rets)
  BY <1>7, <1>8, GoodWider
<1>10. Len(code) <= Len(code')
  BY <1>2, <1>7
<1> QED BY <1>1, <1>9, <1>10, StepPlainPop, Zenon DEF Going

LEMMA EndIfKeeps == ASSUME CInv, EndIf PROVE CInv'
<1>1. /\ phase = "parse" /\ stack # <<>> /\ Top.k = "if" /\ stack' = Pop /\ at' = at
      /\ UNCHANGED <<phase, prog, func, labels, epis, pc>> /\ code' = PatchJal(code, {Top.br}, Len(code))
  BY Zenon DEF EndIf, Resumed, machine, Size
<1>2. Good(code, Waiting(stack, prog, func, labels), Rets) /\ Len(code) \in Nat
  BY <1>1, Found, Zenon
<1>3. Waiting(stack, prog, func, labels) = Waiting(Pop, prog, func, labels) \cup Holes(Top, prog)
  BY <1>1, TopFound, Zenon
<1>4. Holes(Top, prog) \subseteq {Top.br}
  BY <1>1 DEF Holes
<1>5. Len(code) \in 0 .. Len(code)
  BY <1>2
<1>6. Good(code', Waiting(stack, prog, func, labels) \ {Top.br}, Rets) /\ Len(code') = Len(code)
  BY <1>1, <1>2, <1>5, GoodPatch, Zenon
<1>7. Waiting(stack, prog, func, labels) \ {Top.br} \subseteq Waiting(Pop, prog, func, labels)
  BY <1>3, <1>4, Zenon
<1>8. Good(code', Waiting(Pop, prog, func, labels), Rets)
  BY <1>6, <1>7, GoodWider
<1>9. Len(code) <= Len(code')
  BY <1>2, <1>6
<1> QED BY <1>1, <1>8, <1>9, StepPlainPop, Zenon DEF Going

LEMMA CloseBlockKeeps == ASSUME CInv, CloseBlock PROVE CInv'
<1>1. /\ phase = "parse" /\ stack # <<>> /\ Top.k = "block" /\ stack' = Pop /\ at' \in {at, at + 1, at + 2}
      /\ UNCHANGED <<phase, prog, func, labels, epis, code, pc>>
  BY Zenon DEF CloseBlock, Resumed, Eat, machine
<1>2. Good(code, Waiting(stack, prog, func, labels), Rets) /\ Len(code) \in Nat
  BY <1>1, Found, Zenon
<1>3. Waiting(stack, prog, func, labels) = Waiting(Pop, prog, func, labels) \cup Holes(Top, prog)
  BY <1>1, TopFound, Zenon
<1>4. Holes(Top, prog) = {}
  BY <1>1 DEF Holes
<1>5. Waiting(stack, prog, func, labels) = Waiting(Pop, prog, func, labels) /\ Len(code) <= Len(code')
  BY <1>1, <1>2, <1>3, <1>4
<1> QED BY <1>1, <1>2, <1>5, StepPlainPop, Zenon DEF Going

\* Two instructions that are neither jumps nor returns, and a jump that waits.
LEMMA GoodTest ==
  ASSUME NEW c, NEW H, NEW R, Good(c, H, R), NEW x \in Insns, NEW y \in Insns,
         x.op \notin {"jal", "ret"}, y.op \notin {"jal", "ret"}
  PROVE  Good(c \o <<x, y, Jal>>, H \cup {Len(c) + 2}, R) /\ Len(c \o <<x, y, Jal>>) = Len(c) + 3
<1>1. c \in Seq(Insns) /\ Len(c) \in Nat /\ 1 + 1 = 2
  BY DEF Good
<1>2. PICK d : d = Append(c, x)
  BY Zenon
<1>3. Good(d, H, R) /\ Len(d) = Len(c) + 1
  BY <1>2, GoodAppend, Zenon
<1>4. PICK e : e = Append(d, y)
  BY Zenon
<1>5. Good(e, H, R) /\ Len(e) = Len(d) + 1
  BY <1>3, <1>4, GoodAppend, Zenon
<1>6. PICK f : f = Append(e, Jal)
  BY Zenon
<1>7. Good(f, H \cup {Len(e)}, R) /\ Len(f) = Len(e) + 1
  BY <1>5, <1>6, GoodAppend, Zenon
<1>8. Len(e) = Len(c) + 2 /\ Len(f) = Len(c) + 3
  BY <1>1, <1>3, <1>5, <1>7
<1>9. c \o <<x, y, Jal>> = f
  <2>1. PICK j : j = Jal
    BY Zenon
  <2>2. j \in Insns
    BY <2>1, JalType, Zenon
  <2>3. c \o <<x, y, j>> = Append(Append(Append(c, x), y), j)
    BY <1>1, <2>2
  <2> QED BY <1>2, <1>4, <1>6, <2>1, <2>3, Zenon
<1> QED BY <1>7, <1>8, <1>9, Zenon

LEMMA EndDoKeeps == ASSUME CInv, EndDo PROVE CInv'
<1>0. PICK c : c = code \o <<Event("test", Top.tok), Insn("beq", 0, "-"), Jal>>
  BY Zenon
<1>1. PICK d : d = PatchJal(c, {Len(code) + 2}, Top.top)
  BY Zenon
<1>2. /\ phase = "parse" /\ stack # <<>> /\ Top.k = "do" /\ at' \in {at, at + 1, at + 2}
      /\ LeaveLoop(d, Len(code) + 3, Len(code))
  BY <1>0, <1>1, Zenon DEF EndDo, Resumed, Size, Test, Eat
<1>3. Good(code, Waiting(stack, prog, func, labels), Rets) /\ Len(code) \in Nat
  BY <1>2, Found, ZenonT(40)
<1>4. /\ Waiting(stack, prog, func, labels) = Waiting(Pop, prog, func, labels) \cup Holes(Top, prog)
      /\ Top.top \in 0 .. Len(code) /\ Top.tok \in Nat
  BY <1>2, TopFound, ZenonT(40)
<1>5. Holes(Top, prog) = {} /\ Top.k \in Looping
  BY <1>2 DEF Holes, Looping
<1>6. /\ Event("test", Top.tok) \in Insns /\ Event("test", Top.tok).op \notin {"jal", "ret"}
      /\ Insn("beq", 0, "-") \in Insns /\ Insn("beq", 0, "-").op \notin {"jal", "ret"}
  BY <1>4, Plain
<1>7. Good(c, Waiting(stack, prog, func, labels) \cup {Len(code) + 2}, Rets) /\ Len(c) = Len(code) + 3
  BY <1>0, <1>3, <1>6, GoodTest, Zenon
<1>8. /\ Good(d, (Waiting(stack, prog, func, labels) \cup {Len(code) + 2}) \ {Len(code) + 2}, Rets)
      /\ Len(d) = Len(c)
  <2>1. Top.top \in 0 .. Len(c)
    BY <1>3, <1>4, <1>7
  <2> QED BY <1>1, <1>7, <2>1, GoodPatch, Zenon
<1>9. (Waiting(stack, prog, func, labels) \cup {Len(code) + 2}) \ {Len(code) + 2}
        \subseteq Waiting(Pop, prog, func, labels)
  BY <1>4, <1>5, Zenon
<1>10. Good(d, Waiting(Pop, prog, func, labels), Rets)
  BY <1>8, <1>9, GoodWider
<1>11. Len(code) + 3 \in 0 .. Len(d) /\ Len(code) \in 0 .. Len(d) /\ Len(code) <= Len(d)
  BY <1>3, <1>7, <1>8
<1> QED BY <1>2, <1>5, <1>10, <1>11, LeaveLoopKeeps, Zenon

-----------------------------------------------------------------------------
(* Statements that begin.                                                  *)

\* A call begins.
LEMMA Pushed ==
  ASSUME NEW s \in Seq(Frames), NEW f \in Frames
  PROVE  /\ Append(s, f) \in Seq(Frames) /\ Len(Append(s, f)) = Len(s) + 1
         /\ DOMAIN Append(s, f) = DOMAIN s \cup {Len(s) + 1} /\ Len(s) + 1 \notin DOMAIN s
         /\ Append(s, f)[Len(s) + 1] = f
         /\ \A j \in DOMAIN s : Append(s, f)[j] = s[j] /\ j < Len(s) + 1
OBVIOUS

LEMMA PushHoles ==
  ASSUME NEW s \in Seq(Frames), NEW f \in Frames, NEW p
  PROVE  StackHoles(Append(s, f), p) = StackHoles(s, p) \cup Holes(f, p)
<1>1. PICK t : t = Append(s, f)
  BY Zenon
<1>2. /\ DOMAIN t = DOMAIN s \cup {Len(s) + 1} /\ t[Len(s) + 1] = f
      /\ \A j \in DOMAIN s : t[j] = s[j]
  BY <1>1, Pushed
<1>3. {Holes(t[j], p) : j \in DOMAIN t} = {Holes(s[j], p) : j \in DOMAIN s} \cup {Holes(f, p)}
  BY <1>2, Zenon
<1>4. StackHoles(t, p) = UNION ({Holes(s[j], p) : j \in DOMAIN s} \cup {Holes(f, p)})
  BY <1>3, ZenonT(40) DEF StackHoles
<1> QED BY <1>1, <1>4, Zenon DEF StackHoles

LEMMA BoundedPush ==
  ASSUME NEW s \in Seq(Frames), NEW n, Bounded(s, n), NEW x \in Frames,
         x.cl <= n, x.top <= n, x.default <= n, \A i \in DOMAIN x.cases : x.cases[i].label <= n
  PROVE  Bounded(Append(s, x), n)
<1>1. PICK t : t = Append(s, x)
  BY Zenon
<1>2. /\ DOMAIN t = DOMAIN s \cup {Len(s) + 1} /\ t[Len(s) + 1] = x
      /\ \A j \in DOMAIN s : t[j] = s[j]
  BY <1>1, Pushed
<1>3. ASSUME NEW j \in DOMAIN t
      PROVE  /\ t[j].cl <= n /\ t[j].top <= n /\ t[j].default <= n
             /\ \A i \in DOMAIN t[j].cases : t[j].cases[i].label <= n
  <2>1. CASE j \in DOMAIN s
    BY <1>2, <2>1, Zenon DEF Bounded
  <2>2. CASE j = Len(s) + 1
    BY <1>2, <2>2, Zenon
  <2> QED BY <1>2, <2>1, <2>2, Zenon
<1> QED BY <1>1, <1>3, Zenon DEF Bounded

\* The frame of a call that begins.
FrameOf(x, kind, b, t) ==
    /\ x \in Frames /\ x.k = kind /\ x.tok = at /\ x.br = b /\ x.top = t
    /\ x.nb = Len(func.breaks) /\ x.nc = Len(func.conts) /\ x.cl = func.contLabel
    /\ x.cases = <<>> /\ x.default = 0

LEMMA FrameType ==
  ASSUME NEW kind \in Kinds, at \in Nat, func \in Funcs, NEW b \in Nat, NEW t \in Nat
  PROVE  /\ FrameOf(Frame(kind), kind, 0, 0)
         /\ FrameOf([Frame(kind) EXCEPT !.br = b], kind, b, 0)
         /\ FrameOf([Frame(kind) EXCEPT !.top = t], kind, 0, t)
         /\ FrameOf([Frame(kind) EXCEPT !.br = b, !.top = t], kind, b, t)
<1>1. func.breaks \in Seq(Nat) /\ func.conts \in Seq(Nat) /\ func.contLabel \in Nat
  BY Zenon DEF Funcs
<1>2. Len(func.breaks) \in Nat /\ Len(func.conts) \in Nat /\ 0 \in Nat
  BY <1>1
<1>3. <<>> \in Seq([key : STRING, label : Nat])
  BY EmptyFacts, Zenon
<1>4. ASSUME NEW x, NEW u \in Nat, NEW v \in Nat,
             x = [k |-> kind, tok |-> at, br |-> u, top |-> v, nb |-> Len(func.breaks), nc |-> Len(func.conts),
                  cl |-> func.contLabel, cases |-> <<>>, default |-> 0]
      PROVE  FrameOf(x, kind, u, v)
  <2>1. /\ x.k = kind /\ x.tok = at /\ x.br = u /\ x.top = v
        /\ x.nb = Len(func.breaks) /\ x.nc = Len(func.conts) /\ x.cl = func.contLabel
        /\ x.cases = <<>> /\ x.default = 0
    BY <1>4, Zenon
  <2>2. x \in Frames
    BY <1>1, <1>2, <1>3, <1>4, Zenon DEF Frames
  <2> QED BY <2>1, <2>2, Zenon DEF FrameOf
<1>5. FrameOf(Frame(kind), kind, 0, 0)
  BY <1>2, <1>4, Zenon DEF Frame
<1>6. FrameOf([Frame(kind) EXCEPT !.br = b], kind, b, 0)
  <2>1. PICK x : x = [Frame(kind) EXCEPT !.br = b]
    BY Zenon
  <2>2. x = [k |-> kind, tok |-> at, br |-> b, top |-> 0, nb |-> Len(func.breaks), nc |-> Len(func.conts),
             cl |-> func.contLabel, cases |-> <<>>, default |-> 0]
    BY <2>1, Zenon DEF Frame
  <2> QED BY <1>2, <1>4, <2>1, <2>2, Zenon
<1>7. FrameOf([Frame(kind) EXCEPT !.top = t], kind, 0, t)
  <2>1. PICK x : x = [Frame(kind) EXCEPT !.top = t]
    BY Zenon
  <2>2. x = [k |-> kind, tok |-> at, br |-> 0, top |-> t, nb |-> Len(func.breaks), nc |-> Len(func.conts),
             cl |-> func.contLabel, cases |-> <<>>, default |-> 0]
    BY <2>1, Zenon DEF Frame
  <2> QED BY <1>2, <1>4, <2>1, <2>2, Zenon
<1>8. FrameOf([Frame(kind) EXCEPT !.br = b, !.top = t], kind, b, t)
  <2>1. PICK x : x = [Frame(kind) EXCEPT !.br = b, !.top = t]
    BY Zenon
  <2>2. x = [k |-> kind, tok |-> at, br |-> b, top |-> t, nb |-> Len(func.breaks), nc |-> Len(func.conts),
             cl |-> func.contLabel, cases |-> <<>>, default |-> 0]
    BY <2>1, Zenon DEF Frame
  <2> QED BY <1>4, <2>1, <2>2, Zenon
<1> QED BY <1>5, <1>6, <1>7, <1>8, Zenon

\* A call begins: its code may leave its own jump open, and no other.
LEMMA StepPush ==
  ASSUME CInv, Going,
         labels' = labels,
         NEW kind \in Kinds, NEW br \in Nat, NEW tp \in 0 .. Len(code'), NEW fr, FrameOf(fr, kind, br, tp),
         stack' = Append(stack, fr),
         NEW cl \in 0 .. Len(code'),
         func' = [func EXCEPT !.contLabel = cl,
                              !.loops = @ + (IF kind \in Looping THEN 1 ELSE 0),
                              !.switches = @ + (IF kind = "switch" THEN 1 ELSE 0)],
         Good(code', Waiting(stack, prog, func, labels) \cup Holes(fr, prog), Rets)
  PROVE  CInv'
<1>pushWithin. ASSUME NEW s \in Seq(Frames), NEW f \in Frames, NEW K
               PROVE  /\ Within(Append(s, f), K) = IF f.k \in K THEN Within(s, K) \cup {Len(s) + 1} ELSE Within(s, K)
                      /\ \A n \in Nat : Counted(n, s, K) => Counted(n + (IF f.k \in K THEN 1 ELSE 0), Append(s, f), K)
  <2> USE <1>pushWithin
  <2>1. PICK t : t = Append(s, f)
    BY Zenon
  <2>2. /\ DOMAIN t = DOMAIN s \cup {Len(s) + 1} /\ Len(s) + 1 \notin DOMAIN s /\ t[Len(s) + 1] = f
        /\ \A j \in DOMAIN s : t[j] = s[j] /\ j < Len(s) + 1
    BY <2>1, Pushed
  <2>3. CASE f.k \in K
    <3>1. Within(t, K) = Within(s, K) \cup {Len(s) + 1}
      BY <2>2, <2>3, Zenon DEF Within
    <3>2. ASSUME NEW n \in Nat, Counted(n, s, K)
          PROVE  Counted(n + 1, t, K)
      <4>1. PICK r \in [1 .. n -> DOMAIN s] : /\ \A i, j \in 1 .. n : i < j => r[i] < r[j]
                                              /\ Within(s, K) = {r[i] : i \in 1 .. n}
        BY <3>2, Zenon DEF Counted
      <4>2. PICK z : z = [i \in 1 .. n + 1 |-> IF i \in 1 .. n THEN r[i] ELSE Len(s) + 1]
        BY Zenon
      <4>3. /\ 1 .. n + 1 = 1 .. n \cup {n + 1} /\ n + 1 \notin 1 .. n
            /\ \A i \in 1 .. n : ~(n + 1 < i)
            /\ ~(n + 1 < n + 1)
        BY <3>2
      <4>4. z \in [1 .. n + 1 -> DOMAIN t]
        BY <2>2, <4>1, <4>2, Zenon
      <4>5. z[n + 1] = Len(s) + 1 /\ \A i \in 1 .. n : z[i] = r[i] /\ r[i] \in DOMAIN s
        BY <4>1, <4>2, <4>3, Zenon
      <4>6. \A i, j \in 1 .. n + 1 : i < j => z[i] < z[j]
        BY <2>2, <4>1, <4>3, <4>5, Zenon
      <4>7. Within(t, K) = {z[i] : i \in 1 .. n + 1}
        BY <3>1, <4>1, <4>3, <4>5, Zenon
      <4> QED BY <4>4, <4>6, <4>7, Zenon DEF Counted
    <3> QED BY <2>1, <2>3, <3>1, <3>2, Zenon
  <2>4. CASE f.k \notin K
    <3>1. Within(t, K) = Within(s, K)
      BY <2>2, <2>4, Zenon DEF Within
    <3>2. ASSUME NEW n \in Nat, Counted(n, s, K)
          PROVE  Counted(n + 0, t, K)
      <4>1. PICK r \in [1 .. n -> DOMAIN s] : /\ \A i, j \in 1 .. n : i < j => r[i] < r[j]
                                              /\ Within(s, K) = {r[i] : i \in 1 .. n}
        BY <3>2, Zenon DEF Counted
      <4>2. r \in [1 .. n -> DOMAIN t] /\ n + 0 = n
        BY <2>2, <4>1
      <4> QED BY <3>1, <4>1, <4>2, Zenon DEF Counted
    <3> QED BY <2>1, <2>4, <3>1, <3>2, Zenon
  <2> QED BY <2>3, <2>4, Zenon
\* A call begins, and g_func counts it when it is in a loop or a switch.
<1>pushNested. ASSUME NEW s, NEW f, Nested(s, f), NEW x \in Frames, NEW g \in Funcs,
                      x.nb = Len(f.breaks), x.nc = Len(f.conts), g.breaks = f.breaks, g.conts = f.conts,
                      g.loops = f.loops + (IF x.k \in Looping THEN 1 ELSE 0),
                      g.switches = f.switches + (IF x.k \in {"switch"} THEN 1 ELSE 0)
               PROVE  Nested(Append(s, x), g)
  <2> USE <1>pushNested
  <2>1. s \in Seq(Frames)
    BY Zenon DEF Nested
  <2>2. PICK t : t = Append(s, x)
    BY Zenon
  <2>3. /\ t \in Seq(Frames)
        /\ DOMAIN t = DOMAIN s \cup {Len(s) + 1} /\ t[Len(s) + 1] = x
        /\ \A j \in DOMAIN s : t[j] = s[j] /\ j < Len(s) + 1 /\ ~(Len(s) + 1 < j)
        /\ ~(Len(s) + 1 < Len(s) + 1)
    BY <2>1, <2>2, Pushed
  <2>4. \A K : /\ Within(t, K) = IF x.k \in K THEN Within(s, K) \cup {Len(s) + 1} ELSE Within(s, K)
               /\ \A n \in Nat : Counted(n, s, K) => Counted(n + (IF x.k \in K THEN 1 ELSE 0), t, K)
    BY <2>1, <2>2, <1>pushWithin, Zenon
  <2>5. \A K : Within(s, K) \subseteq DOMAIN s
    BY Zenon DEF Within
  <2>6. Counted(g.loops, t, Looping) /\ Counted(g.switches, t, {"switch"})
    <3>1. f.loops \in Nat /\ f.switches \in Nat
      BY Zenon DEF Nested, Funcs
    <3>2. Counted(f.loops, s, Looping) /\ Counted(f.switches, s, {"switch"})
      BY Zenon DEF Nested
    <3>3. Counted(f.loops + (IF x.k \in Looping THEN 1 ELSE 0), t, Looping)
      BY <2>4, <3>1, <3>2, Zenon
    <3>4. Counted(f.switches + (IF x.k \in {"switch"} THEN 1 ELSE 0), t, {"switch"})
      BY <2>4, <3>1, <3>2, Zenon
    <3> QED BY <3>3, <3>4, Zenon
  <2>7. x.nb <= Len(f.breaks) /\ x.nc <= Len(f.conts)
    BY DEF Frames, Nested, Funcs
  <2>8. \A j \in DOMAIN t : t[j].nb <= Len(g.breaks) /\ t[j].nc <= Len(g.conts)
    BY <2>3, <2>7, Zenon DEF Nested
  <2>9. \A i, j \in DOMAIN t : i < j => t[i].nb <= t[j].nb /\ t[i].nc <= t[j].nc
    BY <2>3, Zenon DEF Nested
  <2>10. ASSUME NEW j \in Within(t, Breaking), t[j].nb > 0
         PROVE  \E i \in Within(t, Breaking) : i < j
    <3>1. CASE j = Len(s) + 1
      <4>1. PICK i \in Within(s, Breaking) : TRUE
        BY <2>3, <2>10, <3>1, Zenon DEF Nested
      <4> QED BY <2>3, <2>4, <2>5, <3>1, <4>1, Zenon
    <3>2. CASE j # Len(s) + 1
      <4>0. j \in Within(s, Breaking) \cup {Len(s) + 1}
        BY <2>4, Zenon
      <4>1. j \in Within(s, Breaking) /\ s[j].nb > 0
        BY <2>3, <2>5, <2>10, <3>2, <4>0, Zenon
      <4> QED BY <2>4, <4>1, Zenon DEF Nested
    <3> QED BY <3>1, <3>2, Zenon
  <2>11. ASSUME NEW j \in Within(t, Looping), t[j].nc > 0
         PROVE  \E i \in Within(t, Looping) : i < j
    <3>1. CASE j = Len(s) + 1
      <4>1. PICK i \in Within(s, Looping) : TRUE
        BY <2>3, <2>11, <3>1, Zenon DEF Nested
      <4> QED BY <2>3, <2>4, <2>5, <3>1, <4>1, Zenon
    <3>2. CASE j # Len(s) + 1
      <4>0. j \in Within(s, Looping) \cup {Len(s) + 1}
        BY <2>4, Zenon
      <4>1. j \in Within(s, Looping) /\ s[j].nc > 0
        BY <2>3, <2>5, <2>11, <3>2, <4>0, Zenon
      <4> QED BY <2>4, <4>1, Zenon DEF Nested
    <3> QED BY <3>1, <3>2, Zenon
  <2>12. /\ Len(g.breaks) > 0 => Within(t, Breaking) # {}
         /\ Len(g.conts) > 0 => Within(t, Looping) # {}
    BY <2>4, Zenon DEF Nested
  <2>13. Nested(t, g)
    BY <2>3, <2>6, <2>8, <2>9, <2>10, <2>11, <2>12, Zenon DEF Nested
  <2> QED BY <2>2, <2>13, Zenon
<1> USE DEF Going
<1>1. /\ Len(code) \in Nat /\ Bounded(stack, Len(code)) /\ Nested(stack, func) /\ at \in Nat /\ func \in Funcs
      /\ LabelsKnown(labels, Len(code)) /\ stack \in Seq(Frames) /\ func.contLabel \in 0 .. Len(code)
      /\ func.breaks \in Seq(Nat) /\ func.conts \in Seq(Nat) /\ func.loops \in Nat /\ func.switches \in Nat
  BY Found, Zenon
<1>2. Len(code') \in Nat
  BY DEF Good
<1>4. /\ fr \in Frames /\ fr.k = kind /\ fr.tok = at /\ fr.br = br /\ fr.top = tp
      /\ fr.nb = Len(func.breaks) /\ fr.nc = Len(func.conts) /\ fr.cl = func.contLabel
      /\ fr.cases = <<>> /\ fr.default = 0
  BY Zenon DEF FrameOf
<1>5. PICK g : g = func'
  BY Zenon
<1>6. /\ g \in Funcs /\ g.breaks = func.breaks /\ g.conts = func.conts /\ g.contLabel = cl
      /\ g.loops = func.loops + (IF kind \in Looping THEN 1 ELSE 0)
      /\ g.switches = func.switches + (IF kind = "switch" THEN 1 ELSE 0)
  <2>1. cl \in Nat /\ func.loops + (IF kind \in Looping THEN 1 ELSE 0) \in Nat
        /\ func.switches + (IF kind = "switch" THEN 1 ELSE 0) \in Nat
    BY <1>1, <1>2, SMTT(60)
  <2> QED BY <1>1, <1>5, <2>1, ZenonT(40) DEF Funcs
<1>7. Nested(stack', func')
  <2>1. /\ g.loops = func.loops + (IF fr.k \in Looping THEN 1 ELSE 0)
        /\ g.switches = func.switches + (IF fr.k \in {"switch"} THEN 1 ELSE 0)
    BY <1>4, <1>6, Zenon
  <2>2. Nested(Append(stack, fr), g)
    BY <1>1, <1>4, <1>6, <2>1, <1>pushNested, Zenon
  <2> QED BY <1>5, <2>2, Zenon
<1>8. Bounded(stack', Len(code'))
  <2>1. Bounded(stack, Len(code'))
    BY <1>1, <1>2, BoundedMore, Zenon
  <2>2. fr.cl <= Len(code') /\ fr.top <= Len(code') /\ fr.default <= Len(code')
    BY <1>1, <1>2, <1>4
  <2>3. \A i \in DOMAIN fr.cases : fr.cases[i].label <= Len(code')
    BY <1>4
  <2>4. Bounded(Append(stack, fr), Len(code'))
    BY <1>1, <1>4, <2>1, <2>2, <2>3, BoundedPush, Zenon
  <2> QED BY <2>4, Zenon
<1>9. Good(code', Waiting(stack', prog, func', labels'), Rets)
  <2>1. StackHoles(Append(stack, fr), prog) = StackHoles(stack, prog) \cup Holes(fr, prog)
    BY <1>1, <1>4, PushHoles, Zenon
  <2>2. Waiting(Append(stack, fr), prog, g, labels) = Waiting(stack, prog, func, labels) \cup Holes(fr, prog)
    BY <1>6, <2>1, Zenon DEF Waiting
  <2> QED BY <1>5, <2>2, Zenon
<1>10. LabelsKnown(labels', Len(code'))
  BY <1>1, <1>2, LabelsMore, Zenon
<1>11. func'.contLabel <= Len(code')
  BY <1>2, <1>5, <1>6
<1> QED BY <1>7, <1>8, <1>9, <1>10, <1>11, Step, Zenon

\* g_func in a loop.
LEMMA LoopFunc ==
  ASSUME func \in Funcs, NEW kind \in Looping, NEW n, func' = [func EXCEPT !.contLabel = n, !.loops = @ + 1]
  PROVE  func' = [func EXCEPT !.contLabel = n, !.loops = @ + (IF kind \in Looping THEN 1 ELSE 0),
                              !.switches = @ + (IF kind = "switch" THEN 1 ELSE 0)]
<1>1. func.loops \in Nat /\ func.switches \in Nat /\ kind # "switch"
  BY Zenon DEF Funcs, Looping
<1>2. func.switches + 0 = func.switches
  BY <1>1
<1>3. func' = [func EXCEPT !.contLabel = n, !.loops = func.loops + 1, !.switches = func.switches]
  BY Zenon DEF Funcs
<1> QED BY <1>1, <1>2, <1>3, Zenon

LEMMA ForStmtKeeps == ASSUME CInv, ForStmt PROVE CInv'
<1>1. /\ phase = "parse" /\ AtStmt("for") /\ UNCHANGED <<phase, prog, labels, epis, pc>> /\ at' = at + 1
      /\ func' = [func EXCEPT !.contLabel = 0, !.loops = @ + 1]
  BY Zenon DEF ForStmt, EnterLoop, AtStmt, Eat, machine
<1>2. at \in Nat /\ func \in Funcs /\ Good(code, Waiting(stack, prog, func, labels), Rets) /\ Len(code) \in Nat
      /\ code \in Seq(Insns)
  BY <1>1, Found, Zenon
<1>3. "for" \in Kinds /\ "for" \in Looping /\ "for" # "eof"
  BY DEF Kinds, Looping
<1>4. Cur = prog[at]
  BY <1>1, <1>3, AtToken, Zenon
<1>5. PICK c : c = IF "init" \in Cur.parts THEN code \o <<Event("init", at)>> ELSE code \o <<>>
  BY Zenon
<1>6. Good(c, Waiting(stack, prog, func, labels), Rets) /\ Len(c) \in Nat /\ Len(code) <= Len(c)
      /\ Len(c) = Len(code) + Len(IF "init" \in Cur.parts THEN <<Event("init", at)>> ELSE <<>>)
  <2>0. PICK v : v = Event("init", at)
    BY Zenon
  <2>1. v \in Insns /\ v.op \notin {"jal", "ret"}
    BY <1>2, <2>0, Plain, Zenon
  <2>2. CASE "init" \in Cur.parts
    <3>1. c = Append(code, v)
      BY <1>2, <1>5, <2>0, <2>1, <2>2, AppendFacts, Zenon
    <3>2. Good(c, Waiting(stack, prog, func, labels), Rets) /\ Len(c) = Len(code) + 1
      BY <1>2, <2>1, <3>1, GoodAppend, Zenon
    <3>3. Len(<<v>>) = 1
      OBVIOUS
    <3>4. Len(c) \in Nat /\ Len(code) <= Len(c)
      BY <1>2, <3>2
    <3> QED BY <2>0, <2>2, <3>2, <3>3, <3>4, Zenon
  <2>3. CASE "init" \notin Cur.parts
    <3>1. c = code /\ Len(<<>>) = 0 /\ Len(code) + 0 = Len(code) /\ Len(code) <= Len(code)
      BY <1>2, <1>5, <2>3
    <3> QED BY <1>2, <2>3, <3>1, Zenon
  <2> QED BY <2>2, <2>3, Zenon
<1>7. PICK d : d = IF "cond" \in Cur.parts THEN Test(at, "bne") ELSE <<>>
  BY Zenon
<1>8. "cond" \in Cur.parts <=> d # <<>>
  BY <1>7 DEF Test
<1>9. PICK x : x = [Frame("for") EXCEPT !.br = IF d # <<>> THEN Len(c) + 2 ELSE 0, !.top = Len(c)]
  BY Zenon
<1>10. code' = c \o d /\ stack' = Append(stack, x)
  <2>1. PICK v : v = IF "init" \in Cur.parts THEN <<Event("init", at)>> ELSE <<>>
    BY Zenon
  <2>2. c = code \o v /\ Len(c) = Len(code) + Len(v)
    BY <1>5, <1>6, <2>1, Zenon
  <2> QED BY <1>7, <1>9, <2>1, <2>2, Zenon DEF ForStmt, EnterLoop, Size
<1>11. PICK b : b = IF d # <<>> THEN Len(c) + 2 ELSE 0
  BY Zenon
<1>12. /\ Good(code', Waiting(stack, prog, func, labels) \cup (IF d # <<>> THEN {Len(c) + 2} ELSE {}), Rets)
       /\ Len(c) <= Len(code') /\ Len(code') \in Nat
  <2>1. CASE d # <<>>
    <3>1. code' = c \o <<Event("test", at), Insn("bne", 0, "-"), Jal>>
      BY <1>7, <1>8, <1>10, <2>1, Zenon DEF Test
    <3>2. /\ Event("test", at) \in Insns /\ Event("test", at).op \notin {"jal", "ret"}
          /\ Insn("bne", 0, "-") \in Insns /\ Insn("bne", 0, "-").op \notin {"jal", "ret"}
      BY <1>2, Plain
    <3>3. Good(code', Waiting(stack, prog, func, labels) \cup {Len(c) + 2}, Rets) /\ Len(code') = Len(c) + 3
      BY <1>6, <3>1, <3>2, GoodTest, Zenon
    <3>4. Len(c) <= Len(code') /\ Len(code') \in Nat
      BY <1>6, <3>3
    <3> QED BY <2>1, <3>3, <3>4, Zenon
  <2>2. CASE d = <<>>
    <3>1. c \in Seq(Insns)
      BY <1>6, Zenon DEF Good
    <3>2. code' = c
      BY <1>10, <2>2, <3>1, EmptyFacts, Zenon
    <3>3. Len(c) <= Len(c)
      BY <1>6
    <3>4. Waiting(stack, prog, func, labels) \cup {} = Waiting(stack, prog, func, labels)
      BY Zenon
    <3> QED BY <1>6, <2>2, <3>2, <3>3, <3>4, Zenon
  <2> QED BY <2>1, <2>2, Zenon
<1>13. b \in Nat /\ Len(c) \in 0 .. Len(code') /\ 0 \in 0 .. Len(code') /\ Len(code) <= Len(code')
  BY <1>2, <1>6, <1>11, <1>12
<1>14. FrameOf(x, "for", b, Len(c))
  BY <1>2, <1>3, <1>6, <1>9, <1>11, <1>13, FrameType, Zenon
<1>15. Good(code', Waiting(stack, prog, func, labels) \cup Holes(x, prog), Rets)
  <2>1. (IF d # <<>> THEN {Len(c) + 2} ELSE {}) \subseteq Holes(x, prog)
    BY <1>4, <1>8, <1>11, <1>14, Zenon DEF FrameOf, Holes
  <2>2. Waiting(stack, prog, func, labels) \cup (IF d # <<>> THEN {Len(c) + 2} ELSE {})
          \subseteq Waiting(stack, prog, func, labels) \cup Holes(x, prog)
    BY <2>1, Zenon
  <2> QED BY <1>12, <2>2, GoodWider
<1>16. func' = [func EXCEPT !.contLabel = 0, !.loops = @ + (IF "for" \in Looping THEN 1 ELSE 0),
                            !.switches = @ + (IF "for" = "switch" THEN 1 ELSE 0)]
  BY <1>1, <1>2, <1>3, LoopFunc, Zenon
<1> QED BY <1>1, <1>3, <1>10, <1>13, <1>14, <1>15, <1>16, StepPush, Zenon DEF Going

LEMMA DoStmtKeeps == ASSUME CInv, DoStmt PROVE CInv'
<1>0. PICK x : x = [Frame("do") EXCEPT !.top = Len(code)]
  BY Zenon
<1>1. /\ phase = "parse" /\ stack' = Append(stack, x) /\ UNCHANGED <<phase, prog, labels, epis, code, pc>>
      /\ at' = at + 1 /\ func' = [func EXCEPT !.contLabel = 0, !.loops = @ + 1]
  BY <1>0, Zenon DEF DoStmt, EnterLoop, AtStmt, Eat, machine, Size
<1>2. at \in Nat /\ func \in Funcs /\ Good(code, Waiting(stack, prog, func, labels), Rets) /\ Len(code) \in Nat
  BY <1>1, Found, Zenon
<1>3. "do" \in Kinds /\ "do" \in Looping
  BY DEF Kinds, Looping
<1>4. 0 \in Nat /\ 0 \in 0 .. Len(code') /\ Len(code) \in 0 .. Len(code') /\ Len(code) <= Len(code')
  BY <1>1, <1>2
<1>5. FrameOf(x, "do", 0, Len(code))
  BY <1>0, <1>2, <1>3, <1>4, FrameType, Zenon
<1>6. Good(code', Waiting(stack, prog, func, labels) \cup Holes(x, prog), Rets)
  BY <1>1, <1>2, GoodMore, Zenon
<1>7. func' = [func EXCEPT !.contLabel = 0, !.loops = @ + (IF "do" \in Looping THEN 1 ELSE 0),
                           !.switches = @ + (IF "do" = "switch" THEN 1 ELSE 0)]
  BY <1>1, <1>2, <1>3, LoopFunc, Zenon
<1> QED BY <1>1, <1>3, <1>4, <1>5, <1>6, <1>7, StepPush, Zenon DEF Going

\* A call that begins with a condition waits for its jump.
LEMMA TestHoles ==
  ASSUME NEW x, NEW kind \in {"if", "while", "switch"}, NEW b, NEW t, FrameOf(x, kind, b, t), NEW p
  PROVE  b \in Holes(x, p)
BY Zenon DEF FrameOf, Holes

LEMMA SwitchStmtKeeps == ASSUME CInv, SwitchStmt PROVE CInv'
<1>0. PICK x : x = [Frame("switch") EXCEPT !.br = Len(code) + 2]
  BY Zenon
<1>1. /\ phase = "parse" /\ stack' = Append(stack, x) /\ UNCHANGED <<phase, prog, labels, epis, pc>>
      /\ at' \in {at + 1, at + 2} /\ code' = code \o <<Event("switch", at), Insn("sd", at, "-"), Jal>>
      /\ func' = [func EXCEPT !.switches = @ + 1]
  BY <1>0, Zenon DEF SwitchStmt, AtStmt, Eat, machine, Size
<1>2. /\ at \in Nat /\ func \in Funcs /\ Good(code, Waiting(stack, prog, func, labels), Rets) /\ Len(code) \in Nat
      /\ func.contLabel \in 0 .. Len(code) /\ func.loops \in Nat
  BY <1>1, Found, Zenon
<1>3. "switch" \in Kinds /\ "switch" \notin Looping /\ "switch" \in {"if", "while", "switch"}
  BY DEF Kinds, Looping
<1>4. /\ Event("switch", at) \in Insns /\ Event("switch", at).op \notin {"jal", "ret"}
      /\ Insn("sd", at, "-") \in Insns /\ Insn("sd", at, "-").op \notin {"jal", "ret"}
  BY <1>2, Plain
<1>5. Good(code', Waiting(stack, prog, func, labels) \cup {Len(code) + 2}, Rets) /\ Len(code') = Len(code) + 3
  BY <1>1, <1>2, <1>4, GoodTest, Zenon
<1>6. /\ 0 \in Nat /\ Len(code) + 2 \in Nat /\ 0 \in 0 .. Len(code') /\ Len(code) <= Len(code')
      /\ func.contLabel \in 0 .. Len(code') /\ func.loops + 0 = func.loops
  BY <1>2, <1>5
<1>7. FrameOf(x, "switch", Len(code) + 2, 0)
  BY <1>0, <1>2, <1>3, <1>6, FrameType, Zenon
<1>8. Good(code', Waiting(stack, prog, func, labels) \cup Holes(x, prog), Rets)
  <2>1. Len(code) + 2 \in Holes(x, prog)
    BY <1>3, <1>7, TestHoles, Zenon
  <2>2. Waiting(stack, prog, func, labels) \cup {Len(code) + 2}
          \subseteq Waiting(stack, prog, func, labels) \cup Holes(x, prog)
    BY <2>1, Zenon
  <2> QED BY <1>5, <2>2, GoodWider
<1>9. func' = [func EXCEPT !.contLabel = func.contLabel, !.loops = @ + (IF "switch" \in Looping THEN 1 ELSE 0),
                           !.switches = @ + (IF "switch" = "switch" THEN 1 ELSE 0)]
  <2>1. func' = [func EXCEPT !.contLabel = func.contLabel, !.loops = func.loops, !.switches = func.switches + 1]
    BY <1>1, <1>2, Zenon DEF Funcs
  <2> QED BY <1>3, <1>6, <2>1, Zenon
<1> QED BY <1>1, <1>3, <1>6, <1>7, <1>8, <1>9, StepPush, Zenon DEF Going

LEMMA WhileStmtKeeps == ASSUME CInv, WhileStmt PROVE CInv'
<1>0. PICK x : x = [Frame("while") EXCEPT !.br = Len(code) + 2, !.top = Len(code)]
  BY Zenon
<1>1. /\ phase = "parse" /\ stack' = Append(stack, x) /\ UNCHANGED <<phase, prog, labels, epis, pc>>
      /\ at' = at + 1 /\ code' = code \o <<Event("test", at), Insn("bne", 0, "-"), Jal>>
      /\ func' = [func EXCEPT !.contLabel = Len(code), !.loops = @ + 1]
  BY <1>0, Zenon DEF WhileStmt, EnterLoop, AtStmt, Eat, machine, Size, Test
<1>2. at \in Nat /\ func \in Funcs /\ Good(code, Waiting(stack, prog, func, labels), Rets) /\ Len(code) \in Nat
  BY <1>1, Found, Zenon
<1>3. "while" \in Kinds /\ "while" \in Looping /\ "while" \in {"if", "while", "switch"}
  BY DEF Kinds, Looping
<1>4. /\ Event("test", at) \in Insns /\ Event("test", at).op \notin {"jal", "ret"}
      /\ Insn("bne", 0, "-") \in Insns /\ Insn("bne", 0, "-").op \notin {"jal", "ret"}
  BY <1>2, Plain
<1>5. Good(code', Waiting(stack, prog, func, labels) \cup {Len(code) + 2}, Rets) /\ Len(code') = Len(code) + 3
  BY <1>1, <1>2, <1>4, GoodTest, Zenon
<1>6. /\ Len(code) + 2 \in Nat /\ Len(code) \in 0 .. Len(code') /\ Len(code) <= Len(code')
  BY <1>2, <1>5
<1>7. FrameOf(x, "while", Len(code) + 2, Len(code))
  BY <1>0, <1>2, <1>3, <1>6, FrameType, Zenon
<1>8. Good(code', Waiting(stack, prog, func, labels) \cup Holes(x, prog), Rets)
  <2>1. Len(code) + 2 \in Holes(x, prog)
    BY <1>3, <1>7, TestHoles, Zenon
  <2>2. Waiting(stack, prog, func, labels) \cup {Len(code) + 2}
          \subseteq Waiting(stack, prog, func, labels) \cup Holes(x, prog)
    BY <2>1, Zenon
  <2> QED BY <1>5, <2>2, GoodWider
<1>9. func' = [func EXCEPT !.contLabel = Len(code), !.loops = @ + (IF "while" \in Looping THEN 1 ELSE 0),
                           !.switches = @ + (IF "while" = "switch" THEN 1 ELSE 0)]
  BY <1>1, <1>2, <1>3, LoopFunc, Zenon
<1> QED BY <1>1, <1>3, <1>6, <1>7, <1>8, <1>9, StepPush, Zenon DEF Going

\* g_func in a call that is neither a loop nor a switch.
LEMMA SameFunc ==
  ASSUME func \in Funcs, func' = func, NEW kind, kind \notin Looping, kind # "switch"
  PROVE  func' = [func EXCEPT !.contLabel = func.contLabel, !.loops = @ + (IF kind \in Looping THEN 1 ELSE 0),
                              !.switches = @ + (IF kind = "switch" THEN 1 ELSE 0)]
<1>1. func.loops \in Nat /\ func.switches \in Nat
  BY Zenon DEF Funcs
<1>2. func.loops + 0 = func.loops /\ func.switches + 0 = func.switches
  BY <1>1
<1>3. func = [func EXCEPT !.contLabel = func.contLabel, !.loops = func.loops, !.switches = func.switches]
  BY Zenon DEF Funcs
<1> QED BY <1>2, <1>3, Zenon

LEMMA IfStmtKeeps == ASSUME CInv, IfStmt PROVE CInv'
<1>0. PICK x : x = [Frame("if") EXCEPT !.br = Len(code) + 2]
  BY Zenon
<1>1. /\ phase = "parse" /\ stack' = Append(stack, x) /\ UNCHANGED <<phase, prog, func, labels, epis, pc>>
      /\ at' = at + 1 /\ code' = code \o <<Event("test", at), Insn("bne", 0, "-"), Jal>>
  BY <1>0, Zenon DEF IfStmt, AtStmt, Eat, machine, Size, Test
<1>2. /\ at \in Nat /\ func \in Funcs /\ Good(code, Waiting(stack, prog, func, labels), Rets) /\ Len(code) \in Nat
      /\ func.contLabel \in 0 .. Len(code)
  BY <1>1, Found, Zenon
<1>3. "if" \in Kinds /\ "if" \notin Looping /\ "if" # "switch" /\ "if" \in {"if", "while", "switch"}
  BY DEF Kinds, Looping
<1>4. /\ Event("test", at) \in Insns /\ Event("test", at).op \notin {"jal", "ret"}
      /\ Insn("bne", 0, "-") \in Insns /\ Insn("bne", 0, "-").op \notin {"jal", "ret"}
  BY <1>2, Plain
<1>5. Good(code', Waiting(stack, prog, func, labels) \cup {Len(code) + 2}, Rets) /\ Len(code') = Len(code) + 3
  BY <1>1, <1>2, <1>4, GoodTest, Zenon
<1>6. /\ 0 \in Nat /\ Len(code) + 2 \in Nat /\ 0 \in 0 .. Len(code') /\ Len(code) <= Len(code')
      /\ func.contLabel \in 0 .. Len(code')
  BY <1>2, <1>5
<1>7. FrameOf(x, "if", Len(code) + 2, 0)
  BY <1>0, <1>2, <1>3, <1>6, FrameType, Zenon
<1>8. Good(code', Waiting(stack, prog, func, labels) \cup Holes(x, prog), Rets)
  <2>1. Len(code) + 2 \in Holes(x, prog)
    BY <1>3, <1>7, TestHoles, Zenon
  <2>2. Waiting(stack, prog, func, labels) \cup {Len(code) + 2}
          \subseteq Waiting(stack, prog, func, labels) \cup Holes(x, prog)
    BY <2>1, Zenon
  <2> QED BY <1>5, <2>2, GoodWider
<1>9. func' = [func EXCEPT !.contLabel = func.contLabel, !.loops = @ + (IF "if" \in Looping THEN 1 ELSE 0),
                           !.switches = @ + (IF "if" = "switch" THEN 1 ELSE 0)]
  BY <1>1, <1>2, <1>3, SameFunc, Zenon
<1> QED BY <1>1, <1>3, <1>6, <1>7, <1>8, <1>9, StepPush, Zenon DEF Going

LEMMA OpenBlockKeeps == ASSUME CInv, OpenBlock PROVE CInv'
<1>1. /\ phase = "parse" /\ stack' = Append(stack, Frame("block")) /\ UNCHANGED <<phase, prog, func, labels, epis, code, pc>>
      /\ at' = at + 1
  BY Zenon DEF OpenBlock, AtStmt, Eat, machine
<1>2. /\ at \in Nat /\ func \in Funcs /\ Good(code, Waiting(stack, prog, func, labels), Rets) /\ Len(code) \in Nat
      /\ func.contLabel \in 0 .. Len(code')
  BY <1>1, Found, Zenon
<1>3. "block" \in Kinds /\ "block" \notin Looping /\ "block" # "switch"
  BY DEF Kinds, Looping
<1>4. 0 \in Nat /\ 0 \in 0 .. Len(code') /\ Len(code) <= Len(code')
  BY <1>1, <1>2
<1>5. FrameOf(Frame("block"), "block", 0, 0)
  BY <1>2, <1>3, <1>4, FrameType, Zenon
<1>6. Good(code', Waiting(stack, prog, func, labels) \cup Holes(Frame("block"), prog), Rets)
  BY <1>1, <1>2, GoodMore, Zenon
<1>7. func' = [func EXCEPT !.contLabel = func.contLabel, !.loops = @ + (IF "block" \in Looping THEN 1 ELSE 0),
                           !.switches = @ + (IF "block" = "switch" THEN 1 ELSE 0)]
  BY <1>1, <1>2, <1>3, SameFunc, Zenon
<1> QED BY <1>1, <1>2, <1>3, <1>4, <1>5, <1>6, <1>7, StepPush, Zenon DEF Going

-----------------------------------------------------------------------------
(* Statements that go on.                                                  *)

\* The innermost call goes on as fr.
LEMMA StepTurn ==
  ASSUME CInv, Going,
         labels' = labels, func' = func,
         stack # <<>>,
         NEW fr \in Frames, stack' = Append(Pop, fr), fr.nb = Top.nb, fr.nc = Top.nc,
         fr.k \in Looping <=> Top.k \in Looping, fr.k = "switch" <=> Top.k = "switch",
         fr.cl = Top.cl, fr.top <= Len(code'), fr.default <= Len(code'),
         \A i \in DOMAIN fr.cases : fr.cases[i].label <= Len(code'),
         Good(code', Waiting(Pop, prog, func, labels) \cup Holes(fr, prog), Rets)
  PROVE  CInv'
\* The innermost call goes on as x, in a statement of the same sort.
<1>turnNested. ASSUME NEW s, NEW f, Nested(s, f), s # <<>>, NEW x \in Frames,
                      x.nb = s[Len(s)].nb, x.nc = s[Len(s)].nc,
                      x.k \in Looping <=> s[Len(s)].k \in Looping, x.k = "switch" <=> s[Len(s)].k = "switch"
               PROVE  Nested(Append(SubSeq(s, 1, Len(s) - 1), x), f)
  <2> USE <1>turnNested
  <2>0. s \in Seq(Frames)
    BY Zenon DEF Nested
  <2>1. s \in Seq(Frames) /\ Len(s) \in Nat /\ Len(s) - 1 + 1 = Len(s)
    BY ONLY <2>0
  <2>2. PICK q : q = SubSeq(s, 1, Len(s) - 1)
    BY Zenon
  <2>3. PICK t : t = Append(q, x)
    BY Zenon
  <2>4. /\ q \in Seq(Frames) /\ Len(q) = Len(s) - 1 /\ Len(s) \in DOMAIN s
        /\ DOMAIN q = DOMAIN s \ {Len(s)}
        /\ \A j \in DOMAIN s : j # Len(s) => q[j] = s[j]
    BY <2>1, <2>2, Popped, Zenon
  <2>5. /\ t \in Seq(Frames) /\ DOMAIN t = DOMAIN q \cup {Len(s)} /\ t[Len(s)] = x
        /\ \A j \in DOMAIN q : t[j] = q[j]
    BY <2>1, <2>3, <2>4, Pushed
  <2>6. /\ DOMAIN t = DOMAIN s
        /\ \A j \in DOMAIN s : /\ t[j].nb = s[j].nb /\ t[j].nc = s[j].nc
                               /\ t[j].k \in Looping <=> s[j].k \in Looping
                               /\ t[j].k = "switch" <=> s[j].k = "switch"
    BY <2>4, <2>5, Zenon
  <2>7. /\ Within(t, Looping) = Within(s, Looping) /\ Within(t, {"switch"}) = Within(s, {"switch"})
        /\ Within(t, Breaking) = Within(s, Breaking)
    BY <2>6, ZenonT(40) DEF Within, Breaking
  <2>8. \A K : Within(s, K) \subseteq DOMAIN s
    BY Zenon DEF Within
  <2>9. Counted(f.loops, t, Looping) /\ Counted(f.switches, t, {"switch"})
    <3>1. ASSUME NEW n, NEW K, Counted(n, s, K), Within(t, K) = Within(s, K)
          PROVE  Counted(n, t, K)
      BY <2>6, <3>1, Zenon DEF Counted
    <3>2. Counted(f.loops, s, Looping) /\ Counted(f.switches, s, {"switch"})
      BY Zenon DEF Nested
    <3> QED BY <2>7, <3>1, <3>2, Zenon
  <2>10. Nested(t, f)
    BY <2>5, <2>6, <2>7, <2>8, <2>9, ZenonT(40) DEF Nested
  <2> QED BY <2>2, <2>3, <2>10, ZenonT(40)
<1> USE DEF Going
<1>1. Nested(stack, func) /\ LabelsKnown(labels, Len(code)) /\ Len(code) \in Nat /\ func.contLabel \in 0 .. Len(code)
  BY Found, Zenon
<1>2. Len(code') \in Nat
  BY DEF Good
<1>3. Pop \in Seq(Frames) /\ Bounded(Pop, Len(code)) /\ Top.cl \in 0 .. Len(code)
  BY TopFound, Zenon
<1>4. Bounded(stack', Len(code'))
  <2>1. Bounded(Pop, Len(code'))
    BY <1>1, <1>2, <1>3, BoundedMore, ZenonT(40)
  <2>2. fr.cl <= Len(code')
    BY <1>1, <1>2, <1>3
  <2> QED BY <1>3, <2>1, <2>2, BoundedPush, Zenon
<1>5. LabelsKnown(labels', Len(code')) /\ func'.contLabel <= Len(code')
  <2>1. func.contLabel <= Len(code')
    BY <1>1, <1>2
  <2> QED BY <1>1, <1>2, <2>1, LabelsMore, Zenon
<1>6. Nested(stack', func')
  BY <1>1, <1>turnNested, Zenon DEF Top, Pop
<1>7. Good(code', Waiting(stack', prog, func', labels'), Rets)
  <2>1. StackHoles(stack', prog) = StackHoles(Pop, prog) \cup Holes(fr, prog)
    BY <1>3, PushHoles, Zenon
  <2>2. Waiting(stack', prog, func', labels') = Waiting(Pop, prog, func, labels) \cup Holes(fr, prog)
    BY <2>1, Zenon DEF Waiting
  <2> QED BY <2>2, Zenon
<1> QED BY <1>4, <1>5, <1>6, <1>7, Step, Zenon

LEMMA CaseLabelKeeps == ASSUME CInv, CaseLabel PROVE CInv'
<1>0. PICK y : y = Append(Top.cases, [key |-> Cur.n, label |-> Len(code)])
  BY Zenon
<1>1. PICK x : x = [Top EXCEPT !.cases = y]
  BY Zenon
<1>2. /\ phase = "parse" /\ stack # <<>> /\ Top.k = "switch" /\ stack' = Append(Pop, x) /\ at' = at + 1
      /\ UNCHANGED <<phase, prog, func, labels, epis, code, pc>> /\ Cur.t = "case"
  BY <1>0, <1>1, Zenon DEF CaseLabel, Resumed, machine, Size, Eat
<1>3. Good(code, Waiting(stack, prog, func, labels), Rets) /\ Len(code) \in Nat
  BY <1>2, Found, ZenonT(40)
<1>4. /\ Waiting(stack, prog, func, labels) = Waiting(Pop, prog, func, labels) \cup Holes(Top, prog)
      /\ Top \in Frames /\ Top.default \in 0 .. Len(code) /\ Top.top \in 0 .. Len(code)
      /\ Top.cases \in Seq([key : STRING, label : Nat])
      /\ \A i \in DOMAIN Top.cases : Top.cases[i].label <= Len(code)
  BY <1>2, TopFound, ZenonT(40)
<1>5. Cur.n \in STRING
  <2>1. "case" # "eof"
    OBVIOUS
  <2> QED BY <1>2, <2>1, AtToken, Zenon
<1>6. /\ y \in Seq([key : STRING, label : Nat])
      /\ \A i \in DOMAIN y : y[i].label <= Len(code)
  <2>1. PICK z : z = [key |-> Cur.n, label |-> Len(code)]
    BY Zenon
  <2>2. z \in [key : STRING, label : Nat] /\ z.label = Len(code)
    BY <1>3, <1>5, <2>1, Zenon
  <2>3. PICK K : K = [key : STRING, label : Nat]
    BY Zenon
  <2>4. Top.cases \in Seq(K) /\ z \in K /\ y = Append(Top.cases, z)
    BY <1>0, <1>4, <2>1, <2>2, <2>3, Zenon
  <2>5. /\ y \in Seq(K) /\ DOMAIN y = DOMAIN Top.cases \cup {Len(Top.cases) + 1}
        /\ y[Len(Top.cases) + 1] = z /\ \A i \in DOMAIN Top.cases : y[i] = Top.cases[i]
    BY <2>4
  <2>6. Len(code) <= Len(code)
    BY <1>3
  <2> QED BY <1>4, <2>2, <2>3, <2>5, <2>6, Zenon
<1>7. /\ x \in Frames /\ x.k = Top.k /\ x.br = Top.br /\ x.top = Top.top /\ x.nb = Top.nb /\ x.nc = Top.nc
      /\ x.tok = Top.tok /\ x.cl = Top.cl /\ x.default = Top.default /\ x.cases = y
  BY <1>1, <1>4, <1>6, Zenon DEF Frames
<1>8. Holes(x, prog) = Holes(Top, prog)
  BY <1>7, Zenon DEF Holes
<1>9. Good(code', Waiting(Pop, prog, func, labels) \cup Holes(x, prog), Rets)
  BY <1>2, <1>3, <1>4, <1>8, Zenon
<1>10. /\ Len(code) <= Len(code') /\ x.top <= Len(code') /\ x.default <= Len(code')
  BY <1>2, <1>3, <1>4, <1>7
<1>11. \A i \in DOMAIN x.cases : x.cases[i].label <= Len(code')
  BY <1>2, <1>6, <1>7, Zenon
<1> QED BY <1>2, <1>7, <1>9, <1>10, <1>11, StepTurn, Zenon DEF Going

LEMMA ElsePartKeeps == ASSUME CInv, ElsePart PROVE CInv'
<1>0. PICK x : x = [Top EXCEPT !.k = "else", !.top = Len(code) + 1]
  BY Zenon
<1>1. /\ phase = "parse" /\ stack # <<>> /\ Top.k = "if" /\ stack' = Append(Pop, x) /\ at' = at + 1
      /\ UNCHANGED <<phase, prog, func, labels, epis, pc>> /\ code' = Append(code, Jal)
  BY <1>0, Zenon DEF ElsePart, Resumed, machine, Size, Eat
<1>2. Good(code, Waiting(stack, prog, func, labels), Rets) /\ Len(code) \in Nat
  BY <1>1, Found, Zenon
<1>3. /\ Waiting(stack, prog, func, labels) = Waiting(Pop, prog, func, labels) \cup Holes(Top, prog)
      /\ Top \in Frames /\ Top.default \in 0 .. Len(code)
      /\ Top.cases \in Seq([key : STRING, label : Nat])
      /\ \A i \in DOMAIN Top.cases : Top.cases[i].label <= Len(code)
  BY <1>1, TopFound, Zenon
<1>4. /\ x \in Frames /\ x.k = "else" /\ x.br = Top.br /\ x.top = Len(code) + 1 /\ x.nb = Top.nb /\ x.nc = Top.nc
      /\ x.cl = Top.cl /\ x.default = Top.default /\ x.cases = Top.cases
  <2>1. "else" \in Kinds /\ Len(code) + 1 \in Nat
    BY <1>2 DEF Kinds
  <2> QED BY <1>0, <1>3, <2>1, Zenon DEF Frames
<1>5. Good(code', Waiting(stack, prog, func, labels) \cup {Len(code)}, Rets) /\ Len(code') = Len(code) + 1
  BY <1>1, <1>2, GoodAppend, Zenon
<1>6. Holes(Top, prog) = {Top.br} /\ Holes(x, prog) = {Top.br, Len(code)}
  <2>1. Len(code) + 1 - 1 = Len(code)
    BY <1>2
  <2> QED BY <1>1, <1>4, <2>1 DEF Holes
<1>7. Waiting(stack, prog, func, labels) \cup {Len(code)} = Waiting(Pop, prog, func, labels) \cup Holes(x, prog)
  BY <1>3, <1>6, Zenon
<1>8. Good(code', Waiting(Pop, prog, func, labels) \cup Holes(x, prog), Rets)
  BY <1>5, <1>7, Zenon
<1>9. /\ x.k \in Looping <=> Top.k \in Looping
      /\ x.k = "switch" <=> Top.k = "switch"
  BY <1>1, <1>4 DEF Looping
<1>10. /\ Len(code) <= Len(code') /\ x.top <= Len(code') /\ x.default <= Len(code')
  BY <1>2, <1>3, <1>4, <1>5
<1>11. \A i \in DOMAIN x.cases : x.cases[i].label <= Len(code')
  <2>1. \A i \in DOMAIN Top.cases : Top.cases[i].label \in Nat
    BY <1>3, CaseLabels, Zenon
  <2>2. \A i \in DOMAIN Top.cases : Top.cases[i].label <= Len(code')
    BY <1>2, <1>3, <1>5, <2>1
  <2> QED BY <1>4, <2>2, Zenon
<1> QED BY <1>1, <1>4, <1>8, <1>9, <1>10, <1>11, StepTurn, Zenon DEF Going

LEMMA DefaultLabelKeeps == ASSUME CInv, DefaultLabel PROVE CInv'
<1>1. PICK x : x = [Top EXCEPT !.default = Len(code)]
  BY Zenon
<1>2. /\ phase = "parse" /\ stack # <<>> /\ Top.k = "switch" /\ stack' = Append(Pop, x) /\ at' = at + 1
      /\ UNCHANGED <<phase, prog, func, labels, epis, code, pc>>
  BY <1>1, Zenon DEF DefaultLabel, Resumed, machine, Size, Eat
<1>3. Good(code, Waiting(stack, prog, func, labels), Rets) /\ Len(code) \in Nat
  BY <1>2, Found, ZenonT(40)
<1>4. /\ Waiting(stack, prog, func, labels) = Waiting(Pop, prog, func, labels) \cup Holes(Top, prog)
      /\ Top \in Frames /\ Top.top \in 0 .. Len(code)
      /\ \A i \in DOMAIN Top.cases : Top.cases[i].label <= Len(code)
  BY <1>2, TopFound, ZenonT(40)
<1>5. /\ x \in Frames /\ x.k = Top.k /\ x.br = Top.br /\ x.top = Top.top /\ x.nb = Top.nb /\ x.nc = Top.nc
      /\ x.tok = Top.tok /\ x.cl = Top.cl /\ x.default = Len(code) /\ x.cases = Top.cases
  BY <1>1, <1>3, <1>4, Zenon DEF Frames
<1>6. Holes(x, prog) = Holes(Top, prog)
  BY <1>5, Zenon DEF Holes
<1>7. Good(code', Waiting(Pop, prog, func, labels) \cup Holes(x, prog), Rets)
  BY <1>2, <1>3, <1>4, <1>6, Zenon
<1>8. /\ Len(code) <= Len(code') /\ x.top <= Len(code') /\ x.default <= Len(code')
  <2>1. Len(code') = Len(code) /\ x.top \in 0 .. Len(code) /\ x.default = Len(code) /\ Len(code) \in Nat
    BY <1>2, <1>3, <1>4, <1>5, Zenon
  <2> QED BY ONLY <2>1, SMT
<1>9. \A i \in DOMAIN x.cases : x.cases[i].label <= Len(code')
  BY <1>2, <1>4, <1>5, Zenon
<1> QED BY <1>2, <1>5, <1>7, <1>8, <1>9, StepTurn, Zenon DEF Going

-----------------------------------------------------------------------------
(* Statements that neither begin nor end a list.                           *)

\* A step that leaves the calls and what they record alone.
LEMMA StepCode ==
  ASSUME CInv, Going,
         stack' = stack, func' = func, labels' = labels,
         Good(code', Waiting(stack, prog, func, labels), Rets)
  PROVE  CInv'
<1> USE DEF Going
<1>1. /\ Len(code) \in Nat /\ Bounded(stack, Len(code)) /\ Nested(stack, func)
      /\ LabelsKnown(labels, Len(code)) /\ stack \in Seq(Frames) /\ func.contLabel \in 0 .. Len(code)
  BY Found, Zenon
<1>2. Len(code') \in Nat
  BY DEF Good
<1>3. Bounded(stack, Len(code'))
  BY <1>1, <1>2, BoundedMore, Zenon
<1>4. LabelsKnown(labels, Len(code'))
  BY <1>1, <1>2, LabelsMore, Zenon
<1>5. func.contLabel <= Len(code')
  BY <1>1, <1>2
<1> QED BY <1>1, <1>3, <1>4, <1>5, Step, Zenon

LEMMA ExprStmtKeeps == ASSUME CInv, ExprStmt PROVE CInv'
<1>1. phase = "parse" /\ code' = Append(code, Event("expr", at)) /\ UNCHANGED <<phase, prog, stack, func, labels, epis, pc>>
      /\ at' = at + 1
  BY Zenon DEF ExprStmt, AtStmt, Eat, machine
<1>2. at \in Nat /\ Good(code, Waiting(stack, prog, func, labels), Rets)
  BY <1>1, Found, Zenon
<1>3. Event("expr", at) \in Insns /\ Event("expr", at).op \notin {"jal", "ret"}
  BY <1>2, Plain, Zenon
<1>4. Len(code) \in Nat /\ Good(code', Waiting(stack, prog, func, labels), Rets) /\ Len(code') = Len(code) + 1
  BY <1>1, <1>2, <1>3, GoodAppend, Zenon
<1>5. Len(code) <= Len(code')
  BY <1>4
<1> QED BY <1>1, <1>4, <1>5, StepCode, Zenon DEF Going

\* An action that only goes on in the tokens.
LEMMA NothingKeeps ==
  ASSUME CInv, phase = "parse", at' \in {at, at + 1}, UNCHANGED <<phase, prog, stack, func, labels, epis, code, pc>>
  PROVE  CInv'
<1>1. Good(code, Waiting(stack, prog, func, labels), Rets) /\ Len(code) \in Nat
  BY Found, Zenon
<1>2. Len(code) <= Len(code')
  BY <1>1
<1> QED BY <1>1, <1>2, StepCode, Zenon DEF Going

LEMMA EmptyStmtKeeps == ASSUME CInv, EmptyStmt PROVE CInv'
BY NothingKeeps, Zenon DEF EmptyStmt, AtStmt, Eat, machine

LEMMA NextInBlockKeeps == ASSUME CInv, NextInBlock PROVE CInv'
BY NothingKeeps, Zenon DEF NextInBlock, Resumed, machine

LEMMA NextInSwitchKeeps == ASSUME CInv, NextInSwitch PROVE CInv'
BY NothingKeeps, Zenon DEF NextInSwitch, Resumed, machine

\* A label is added.
LEMMA LabelAdded ==
  ASSUME NEW l, NEW n, LabelsKnown(l, n), NEW x \in LabelSet, x.offset <= n
  PROVE  /\ LabelsKnown(Append(l, x), n)
         /\ LabelHoles(l) \subseteq LabelHoles(Append(l, x))
         /\ x.offset = 0 => x.patches \subseteq LabelHoles(Append(l, x))
<1>1. l \in Seq(LabelSet) /\ \A i \in DOMAIN l : l[i].offset <= n
  BY Zenon DEF LabelsKnown
<1>2. PICK t : t = Append(l, x)
  BY Zenon
<1>3. /\ t \in Seq(LabelSet) /\ DOMAIN t = DOMAIN l \cup {Len(l) + 1} /\ t[Len(l) + 1] = x
      /\ \A j \in DOMAIN l : t[j] = l[j]
  BY <1>1, <1>2
<1>4. LabelsKnown(t, n)
  BY <1>1, <1>3, Zenon DEF LabelsKnown
<1>5. LabelHoles(l) \subseteq LabelHoles(t)
  BY <1>3, Zenon DEF LabelHoles
<1>6. x.offset = 0 => x.patches \subseteq LabelHoles(t)
  BY <1>3, Zenon DEF LabelHoles
<1> QED BY <1>2, <1>4, <1>5, <1>6, Zenon

\* A label is changed.
LEMMA LabelChanged ==
  ASSUME NEW l, NEW n, LabelsKnown(l, n), NEW i \in DOMAIN l, NEW x \in LabelSet, x.offset <= n
  PROVE  /\ LabelsKnown([l EXCEPT ![i] = x], n)
         /\ LabelHoles(l) \subseteq LabelHoles([l EXCEPT ![i] = x]) \cup l[i].patches
         /\ x.offset = 0 => x.patches \subseteq LabelHoles([l EXCEPT ![i] = x])
<1>1. l \in Seq(LabelSet) /\ \A j \in DOMAIN l : l[j].offset <= n
  BY Zenon DEF LabelsKnown
<1>2. PICK t : t = [l EXCEPT ![i] = x]
  BY Zenon
<1>3. t \in Seq(LabelSet)
  BY <1>1, <1>2
<1>4. /\ DOMAIN t = DOMAIN l /\ t[i] = x
      /\ \A j \in DOMAIN l : j # i => t[j] = l[j]
  BY <1>2, Zenon
<1>5. LabelsKnown(t, n)
  BY <1>1, <1>3, <1>4, Zenon DEF LabelsKnown
<1>6. LabelHoles(l) \subseteq LabelHoles(t) \cup l[i].patches
  BY <1>4, Zenon DEF LabelHoles
<1>7. x.offset = 0 => x.patches \subseteq LabelHoles(t)
  BY <1>4, Zenon DEF LabelHoles
<1> QED BY <1>2, <1>5, <1>6, <1>7, Zenon

\* Compilation is given up.
LEMMA StopKeeps == ASSUME CInv, NEW how \in {"fatal", "overrun"}, Stop(how) PROVE CInv'
BY Zenon DEF CInv, Stop, compiler
LEMMA FatalKeeps == ASSUME CInv, Fatal PROVE CInv'
BY StopKeeps, Zenon DEF Fatal
LEMMA TooManyKeeps == ASSUME CInv, TooManyCases \/ TooManyFixups PROVE CInv'
BY StopKeeps, Zenon DEF TooManyCases, TooManyFixups, Fatal, Overrun

\* A step that leaves the calls alone and changes the labels.
LEMMA StepLabels ==
  ASSUME CInv, phase = "parse", phase' = phase, prog' = prog, epis' = epis, pc' = pc, stack' = stack, func' = func,
         at' = at + 1, Len(code) <= Len(code'), LabelsKnown(labels', Len(code')),
         NEW H, Good(code', H, Rets),
         \A h \in H : h \in LabelHoles(labels) => h \in LabelHoles(labels'),
         \A h \in H : h \in Waiting(stack, prog, func, labels) \/ h \in LabelHoles(labels')
  PROVE  CInv'
<1>1. /\ Len(code) \in Nat /\ Nested(stack, func) /\ Bounded(stack, Len(code))
      /\ func.contLabel \in 0 .. Len(code) /\ stack \in Seq(Frames)
  BY Found, Zenon
<1>2. Len(code') \in Nat
  BY DEF Good
<1>3. func'.contLabel <= Len(code')
  BY <1>1, <1>2
<1>4. Bounded(stack', Len(code'))
  BY <1>1, <1>2, BoundedMore, Zenon
<1>5. H \subseteq Waiting(stack', prog, func', labels')
  BY Zenon DEF Waiting
<1>6. Good(code', Waiting(stack', prog, func', labels'), Rets)
  BY <1>5, GoodWider
<1> QED BY <1>1, <1>3, <1>4, <1>6, Step, Zenon DEF Going

LEMMA GotoStmtKeeps == ASSUME CInv, GotoStmt PROVE CInv'
<1>0. PICK m : m = Cur.n
  BY Zenon
<1>1. phase = "parse" /\ AtStmt("goto") /\ "goto" # "eof"
  BY DEF GotoStmt, AtStmt
<1>2. m \in STRING
  BY <1>0, <1>1, AtToken, Zenon
<1>3. /\ Good(code, Waiting(stack, prog, func, labels), Rets) /\ Len(code) \in Nat /\ LabelsKnown(labels, Len(code))
      /\ labels \in Seq(LabelSet)
  BY <1>1, Found, Zenon DEF LabelsKnown
<1>4. /\ Good(Append(code, Jal), Waiting(stack, prog, func, labels) \cup {Len(code)}, Rets)
      /\ Len(Append(code, Jal)) = Len(code) + 1
      /\ \A t \in 0 .. Len(code) : /\ Good(Append(code, JalTo(Len(code), t)), Waiting(stack, prog, func, labels), Rets)
                                   /\ Len(Append(code, JalTo(Len(code), t))) = Len(code) + 1
  BY <1>3, GoodAppend, Zenon
<1>5. Len(code) + 1 \in Nat /\ Len(code) <= Len(code) + 1 /\ 0 <= Len(code) + 1
  BY <1>3
<1>6. LabelsKnown(labels, Len(code) + 1)
  BY <1>3, <1>5, LabelsMore, Zenon
<1>7. CASE Fatal
  BY <1>7, FatalKeeps, Zenon
<1>8. CASE /\ at' = at + 1 /\ UNCHANGED <<phase, prog, stack, func, epis, pc>> /\ code' = Append(code, Jal)
           /\ labels' = Append(labels, [name |-> m, offset |-> 0, patches |-> {Len(code)}])
  <2>1. PICK x : x = [name |-> m, offset |-> 0, patches |-> {Len(code)}]
    BY Zenon
  <2>2. x \in LabelSet /\ x.offset = 0 /\ x.patches = {Len(code)}
    BY <1>2, <1>3, <2>1 DEF LabelSet
  <2>3. /\ LabelsKnown(labels', Len(code) + 1) /\ LabelHoles(labels) \subseteq LabelHoles(labels')
        /\ x.patches \subseteq LabelHoles(labels')
    BY <1>5, <1>6, <1>8, <2>1, <2>2, LabelAdded, Zenon
  <2>4. PICK H : H = Waiting(stack, prog, func, labels) \cup {Len(code)}
    BY Zenon
  <2>5. /\ \A h \in H : h \in LabelHoles(labels) => h \in LabelHoles(labels')
        /\ \A h \in H : h \in Waiting(stack, prog, func, labels) \/ h \in LabelHoles(labels')
    BY <2>2, <2>3, <2>4, Zenon
  <2>6. Good(code', H, Rets) /\ Len(code) <= Len(code') /\ LabelsKnown(labels', Len(code'))
    BY <1>4, <1>5, <1>8, <2>3, <2>4, Zenon
  <2> QED BY <1>1, <1>8, <2>5, <2>6, StepLabels, Zenon
<1>9. CASE /\ at' = at + 1 /\ UNCHANGED <<phase, prog, stack, func, epis, pc, labels>>
           /\ \E i \in DOMAIN labels : code' = Append(code, JalTo(Len(code), labels[i].offset))
  <2>1. PICK i \in DOMAIN labels : code' = Append(code, JalTo(Len(code), labels[i].offset))
    BY <1>9, Zenon
  <2>2. labels[i] \in LabelSet /\ labels[i].offset <= Len(code)
    BY <1>3 DEF LabelsKnown
  <2>3. labels[i].offset \in Nat
    BY <2>2, Zenon DEF LabelSet
  <2>4. labels[i].offset \in 0 .. Len(code)
    BY <1>3, <2>2, <2>3
  <2>5. Good(code', Waiting(stack, prog, func, labels), Rets) /\ Len(code) <= Len(code')
    BY <1>4, <1>5, <2>1, <2>4, Zenon
  <2> QED BY <1>1, <1>9, <2>5, StepCode, Zenon DEF Going
<1>10. CASE /\ at' = at + 1 /\ UNCHANGED <<phase, prog, stack, func, epis, pc>> /\ code' = Append(code, Jal)
            /\ \E i \in DOMAIN labels :
                 /\ labels[i].offset = 0
                 /\ labels' = [labels EXCEPT ![i].patches = @ \cup {Len(code)}]
  <2>1. PICK i \in DOMAIN labels : /\ labels[i].offset = 0
                                   /\ labels' = [labels EXCEPT ![i].patches = @ \cup {Len(code)}]
    BY <1>10, Zenon
  <2>2. PICK x : x = [labels[i] EXCEPT !.patches = @ \cup {Len(code)}]
    BY Zenon
  <2>3. labels' = [labels EXCEPT ![i] = x]
    BY <2>1, <2>2, Zenon
  <2>4. labels[i] \in LabelSet
    BY <1>3
  <2>5. x \in LabelSet /\ x.offset = 0 /\ x.patches = labels[i].patches \cup {Len(code)}
    <3>1. labels[i].patches \subseteq Nat
      BY <2>4, Zenon DEF LabelSet
    <3>2. labels[i].patches \cup {Len(code)} \in SUBSET Nat
      BY <1>3, <3>1, Zenon
    <3> QED BY <2>1, <2>2, <2>4, <3>2, Zenon DEF LabelSet
  <2>6. /\ LabelsKnown(labels', Len(code) + 1) /\ LabelHoles(labels) \subseteq LabelHoles(labels') \cup labels[i].patches
        /\ x.patches \subseteq LabelHoles(labels')
    BY <1>5, <1>6, <2>3, <2>5, LabelChanged, Zenon
  <2>7. PICK H : H = Waiting(stack, prog, func, labels) \cup {Len(code)}
    BY Zenon
  <2>8. /\ \A h \in H : h \in LabelHoles(labels) => h \in LabelHoles(labels')
        /\ \A h \in H : h \in Waiting(stack, prog, func, labels) \/ h \in LabelHoles(labels')
    BY <2>5, <2>6, <2>7, Zenon
  <2>9. Good(code', H, Rets) /\ Len(code) <= Len(code') /\ LabelsKnown(labels', Len(code'))
    BY <1>4, <1>5, <1>10, <2>6, <2>7, Zenon
  <2> QED BY <1>1, <1>10, <2>8, <2>9, StepLabels, Zenon
<1>11. \/ Fatal
       \/ /\ at' = at + 1 /\ UNCHANGED <<phase, prog, stack, func, epis, pc>> /\ code' = Append(code, Jal)
          /\ labels' = Append(labels, [name |-> m, offset |-> 0, patches |-> {Len(code)}])
       \/ /\ at' = at + 1 /\ UNCHANGED <<phase, prog, stack, func, epis, pc, labels>>
          /\ \E i \in DOMAIN labels : code' = Append(code, JalTo(Len(code), labels[i].offset))
       \/ /\ at' = at + 1 /\ UNCHANGED <<phase, prog, stack, func, epis, pc>> /\ code' = Append(code, Jal)
          /\ \E i \in DOMAIN labels :
                 /\ labels[i].offset = 0
                 /\ labels' = [labels EXCEPT ![i].patches = @ \cup {Len(code)}]
  BY <1>0, Zenon DEF GotoStmt, Named, Eat, machine, Size
<1> QED BY <1>7, <1>8, <1>9, <1>10, <1>11, Zenon

LEMMA LabelStmtKeeps == ASSUME CInv, LabelStmt PROVE CInv'
<1>0. PICK m : m = Cur.n
  BY Zenon
<1>1. phase = "parse" /\ AtStmt("label") /\ "label" # "eof"
  BY Zenon DEF LabelStmt, AtStmt
<1>2. m \in STRING
  BY <1>0, <1>1, AtToken, Zenon
<1>3. /\ Good(code, Waiting(stack, prog, func, labels), Rets) /\ Len(code) \in Nat /\ LabelsKnown(labels, Len(code))
  BY <1>1, Found, Zenon
<1>4. Len(code) <= Len(code) /\ Len(code) \in 0 .. Len(code) /\ {} \subseteq Nat
  BY <1>3
<1>5. CASE Fatal
  BY <1>5, FatalKeeps, Zenon
<1>6. CASE /\ at' = at + 1 /\ UNCHANGED <<phase, prog, stack, func, epis, pc, code>>
           /\ labels' = Append(labels, [name |-> m, offset |-> Len(code), patches |-> {}])
  <2>1. PICK x : x = [name |-> m, offset |-> Len(code), patches |-> {}]
    BY Zenon
  <2>2. x \in LabelSet /\ x.offset <= Len(code)
    BY <1>2, <1>3, <1>4, <2>1 DEF LabelSet
  <2>3. LabelsKnown(labels', Len(code')) /\ LabelHoles(labels) \subseteq LabelHoles(labels')
    BY <1>3, <1>6, <2>1, <2>2, LabelAdded, Zenon
  <2> QED BY <1>1, <1>3, <1>4, <1>6, <2>3, StepLabels, Zenon
<1>7. CASE at' = at + 1 /\ UNCHANGED <<phase, prog, stack, func, epis, pc, code, labels>>
  BY <1>1, <1>7, NothingKeeps, Zenon
<1>8. CASE /\ at' = at + 1 /\ UNCHANGED <<phase, prog, stack, func, epis, pc>>
           /\ \E i \in DOMAIN labels :
                /\ code' = PatchJal(code, labels[i].patches, Len(code))
                /\ labels' = [labels EXCEPT ![i].offset = Len(code), ![i].patches = {}]
  <2>1. PICK i \in DOMAIN labels :
                /\ code' = PatchJal(code, labels[i].patches, Len(code))
                /\ labels' = [labels EXCEPT ![i].offset = Len(code), ![i].patches = {}]
    BY <1>8, Zenon
  <2>2. PICK x : x = [labels[i] EXCEPT !.offset = Len(code), !.patches = {}]
    BY Zenon
  <2>3. labels' = [labels EXCEPT ![i] = x]
    BY <2>1, <2>2, Zenon
  <2>4. labels[i] \in LabelSet
    BY <1>3 DEF LabelsKnown
  <2>5. x \in LabelSet /\ x.offset <= Len(code)
    BY <1>3, <1>4, <2>2, <2>4, Zenon DEF LabelSet
  <2>6. Good(code', Waiting(stack, prog, func, labels) \ labels[i].patches, Rets) /\ Len(code') = Len(code)
    BY <1>3, <1>4, <2>1, GoodPatch, Zenon
  <2>7. LabelsKnown(labels', Len(code)) /\ LabelHoles(labels) \subseteq LabelHoles(labels') \cup labels[i].patches
    BY <1>3, <2>3, <2>5, LabelChanged, Zenon
  <2>8. PICK H : H = Waiting(stack, prog, func, labels) \ labels[i].patches
    BY Zenon
  <2>9. /\ \A h \in H : h \in LabelHoles(labels) => h \in LabelHoles(labels')
        /\ \A h \in H : h \in Waiting(stack, prog, func, labels) \/ h \in LabelHoles(labels')
    BY <2>7, <2>8, Zenon
  <2>10. Good(code', H, Rets) /\ Len(code) <= Len(code') /\ LabelsKnown(labels', Len(code'))
    BY <1>4, <2>6, <2>7, <2>8, Zenon
  <2> QED BY <1>1, <1>8, <2>9, <2>10, StepLabels, Zenon
<1>9. \/ Fatal
      \/ /\ at' = at + 1 /\ UNCHANGED <<phase, prog, stack, func, epis, pc, code>>
         /\ labels' = Append(labels, [name |-> m, offset |-> Len(code), patches |-> {}])
      \/ at' = at + 1 /\ UNCHANGED <<phase, prog, stack, func, epis, pc, code, labels>>
      \/ /\ at' = at + 1 /\ UNCHANGED <<phase, prog, stack, func, epis, pc>>
         /\ \E i \in DOMAIN labels :
                /\ code' = PatchJal(code, labels[i].patches, Len(code))
                /\ labels' = [labels EXCEPT ![i].offset = Len(code), ![i].patches = {}]
  BY <1>0, Zenon DEF LabelStmt, Named, Eat, machine, Size
<1> QED BY <1>5, <1>6, <1>7, <1>8, <1>9, Zenon

\* A jump is recorded inside a statement that it leaves or continues.
LEMMA NoteNested ==
  ASSUME NEW s, NEW f, Nested(s, f), NEW g \in Funcs, g.loops = f.loops, g.switches = f.switches,
         Len(f.breaks) <= Len(g.breaks), Len(f.conts) <= Len(g.conts),
         Len(g.breaks) = Len(f.breaks) \/ f.loops # 0 \/ f.switches # 0,
         Len(g.conts) = Len(f.conts) \/ f.loops # 0
  PROVE  Nested(s, g)
<1>1. s \in Seq(Frames) /\ f \in Funcs
  BY Zenon DEF Nested
<1>2. f.loops # 0 => Within(s, Looping) # {}
  BY <1>1, CountedSome, Zenon DEF Nested, Funcs
<1>3. f.switches # 0 => Within(s, {"switch"}) # {}
  BY <1>1, CountedSome, Zenon DEF Nested, Funcs
<1>4. Within(s, Looping) \subseteq Within(s, Breaking) /\ Within(s, {"switch"}) \subseteq Within(s, Breaking)
  BY Zenon DEF Within, Breaking
<1>5. /\ Len(g.breaks) > 0 => Within(s, Breaking) # {}
      /\ Len(g.conts) > 0 => Within(s, Looping) # {}
  BY <1>2, <1>3, <1>4, Zenon DEF Nested
<1>6. \A j \in DOMAIN s : s[j].nb <= Len(g.breaks) /\ s[j].nc <= Len(g.conts)
  <2>1. ASSUME NEW j \in DOMAIN s
        PROVE  s[j].nb <= Len(g.breaks) /\ s[j].nc <= Len(g.conts)
    <3>1. s[j] \in Frames
      BY <1>1
    <3>2. /\ s[j].nb \in Nat /\ s[j].nc \in Nat /\ Len(g.breaks) \in Nat /\ Len(g.conts) \in Nat
          /\ Len(f.breaks) \in Nat /\ Len(f.conts) \in Nat
      <4>1. s[j].nb \in Nat /\ s[j].nc \in Nat
        BY <3>1, Zenon DEF Frames
      <4>2. /\ g.breaks \in Seq(Nat) /\ g.conts \in Seq(Nat)
            /\ f.breaks \in Seq(Nat) /\ f.conts \in Seq(Nat)
        BY <1>1, Zenon DEF Funcs
      <4> QED BY <4>1, <4>2, SeqFacts, Zenon
    <3>3. s[j].nb <= Len(f.breaks) /\ s[j].nc <= Len(f.conts)
      BY Zenon DEF Nested
    <3> QED BY <3>2, <3>3
  <2> QED BY <2>1, Zenon
<1> QED BY <1>1, <1>5, <1>6, Zenon DEF Nested

LEMMA Noted ==
  ASSUME NEW s \in Seq(Nat), NEW x \in Nat
  PROVE  /\ Append(s, x) \in Seq(Nat) /\ Len(Append(s, x)) = Len(s) + 1
         /\ From(s, 0) \cup {x} \subseteq From(Append(s, x), 0)
<1>1. PICK t : t = Append(s, x)
  BY Zenon
<1>2. t \in Seq(Nat) /\ Len(t) = Len(s) + 1 /\ t[Len(s) + 1] = x /\ \A i \in 1 .. Len(s) : t[i] = s[i]
  BY <1>1
<1>3. \A i \in 0 + 1 .. Len(s) : s[i] \in From(t, 0)
  BY <1>2 DEF From
<1>4. x \in From(t, 0)
  BY <1>2 DEF From
<1>5. From(s, 0) \cup {x} \subseteq From(t, 0)
  BY <1>3, <1>4, Zenon DEF From
<1> QED BY <1>1, <1>2, <1>5, Zenon

LEMMA ContinueStmtKeeps == ASSUME CInv, ContinueStmt PROVE CInv'
<1>1. /\ phase = "parse" /\ at' = at + 1 /\ UNCHANGED <<phase, prog, stack, labels, epis, pc>>
      /\ \/ UNCHANGED <<code, func>>
         \/ code' = Append(code, JalTo(Len(code), func.contLabel)) /\ UNCHANGED func
         \/ /\ func.loops # 0
            /\ code' = Append(code, Jal) /\ func' = [func EXCEPT !.conts = Append(@, Len(code))]
  BY Zenon DEF ContinueStmt, AtStmt, Eat, machine, Size
<1>2. /\ Good(code, Waiting(stack, prog, func, labels), Rets) /\ Len(code) \in Nat /\ func \in Funcs
      /\ func.breaks \in Seq(Nat) /\ func.conts \in Seq(Nat) /\ Nested(stack, func) /\ Bounded(stack, Len(code))
      /\ func.contLabel \in 0 .. Len(code) /\ LabelsKnown(labels, Len(code)) /\ stack \in Seq(Frames)
  BY <1>1, Found, Zenon
<1>3. CASE UNCHANGED <<code, func>>
  BY <1>1, <1>3, NothingKeeps, Zenon
<1>4. CASE code' = Append(code, JalTo(Len(code), func.contLabel)) /\ UNCHANGED func
  <2>1. Good(code', Waiting(stack, prog, func, labels), Rets) /\ Len(code') = Len(code) + 1
    BY <1>2, <1>4, GoodAppend, Zenon
  <2>2. Len(code) <= Len(code')
    BY <1>2, <2>1
  <2> QED BY <1>1, <1>4, <2>1, <2>2, StepCode, Zenon DEF Going
<1>5. CASE /\ func.loops # 0
           /\ code' = Append(code, Jal) /\ func' = [func EXCEPT !.conts = Append(@, Len(code))]
  <2>1. /\ func' \in Funcs /\ func'.conts = Append(func.conts, Len(code)) /\ func'.breaks = func.breaks
        /\ func'.contLabel = func.contLabel /\ func'.loops = func.loops /\ func'.switches = func.switches
    <3>1. Append(func.conts, Len(code)) \in Seq(Nat)
      BY <1>2, Noted, Zenon
    <3> QED BY <1>2, <1>5, <3>1, Zenon DEF Funcs
  <2>2. /\ Len(func'.conts) = Len(func.conts) + 1
        /\ From(func.conts, 0) \cup {Len(code)} \subseteq From(func'.conts, 0)
    BY <1>2, <2>1, Noted, Zenon
  <2>3. Good(code', Waiting(stack, prog, func, labels) \cup {Len(code)}, Rets) /\ Len(code') = Len(code) + 1
    BY <1>2, <1>5, GoodAppend, Zenon
  <2>4. Waiting(stack, prog, func, labels) \cup {Len(code)} \subseteq Waiting(stack, prog, func', labels)
    BY <2>1, <2>2, Zenon DEF Waiting
  <2>5. Good(code', Waiting(stack', prog, func', labels'), Rets)
    <3>1. Good(code', Waiting(stack, prog, func', labels), Rets)
      BY <2>3, <2>4, GoodWider
    <3> QED BY <1>1, <3>1, Zenon
  <2>6. Nested(stack', func')
    <3>1. Len(func.breaks) <= Len(func'.breaks) /\ Len(func.conts) <= Len(func'.conts)
      BY <1>2, <2>1, <2>2
    <3> QED BY <1>1, <1>2, <1>5, <2>1, <3>1, NoteNested, Zenon
  <2>7. Len(code') \in Nat /\ Len(code) <= Len(code') /\ func'.contLabel <= Len(code')
    BY <1>2, <2>1, <2>3
  <2>8. Bounded(stack', Len(code')) /\ LabelsKnown(labels', Len(code'))
    BY <1>1, <1>2, <2>7, BoundedMore, LabelsMore, Zenon
  <2> QED BY <1>1, <2>5, <2>6, <2>7, <2>8, Step, Zenon DEF Going
<1> QED BY <1>1, <1>3, <1>4, <1>5, Zenon

LEMMA BreakStmtKeeps == ASSUME CInv, BreakStmt PROVE CInv'
<1>1. /\ phase = "parse" /\ at' = at + 1 /\ UNCHANGED <<phase, prog, stack, labels, epis, pc>>
      /\ \/ UNCHANGED <<code, func>>
         \/ /\ func.loops # 0 \/ func.switches # 0
            /\ code' = Append(code, Jal) /\ func' = [func EXCEPT !.breaks = Append(@, Len(code))]
  BY Zenon DEF BreakStmt, AtStmt, Eat, machine, Size
<1>2. /\ Good(code, Waiting(stack, prog, func, labels), Rets) /\ Len(code) \in Nat /\ func \in Funcs
      /\ func.breaks \in Seq(Nat) /\ func.conts \in Seq(Nat) /\ Nested(stack, func) /\ Bounded(stack, Len(code))
      /\ func.contLabel \in 0 .. Len(code) /\ LabelsKnown(labels, Len(code)) /\ stack \in Seq(Frames)
  BY <1>1, Found, Zenon
<1>3. CASE UNCHANGED <<code, func>>
  BY <1>1, <1>3, NothingKeeps, Zenon
<1>4. CASE /\ func.loops # 0 \/ func.switches # 0
           /\ code' = Append(code, Jal) /\ func' = [func EXCEPT !.breaks = Append(@, Len(code))]
  <2>1. /\ func' \in Funcs /\ func'.breaks = Append(func.breaks, Len(code)) /\ func'.conts = func.conts
        /\ func'.contLabel = func.contLabel /\ func'.loops = func.loops /\ func'.switches = func.switches
    <3>1. Append(func.breaks, Len(code)) \in Seq(Nat)
      BY <1>2, Noted, Zenon
    <3> QED BY <1>2, <1>4, <3>1, Zenon DEF Funcs
  <2>2. /\ Len(func'.breaks) = Len(func.breaks) + 1
        /\ From(func.breaks, 0) \cup {Len(code)} \subseteq From(func'.breaks, 0)
    BY <1>2, <2>1, Noted, Zenon
  <2>3. Good(code', Waiting(stack, prog, func, labels) \cup {Len(code)}, Rets) /\ Len(code') = Len(code) + 1
    BY <1>2, <1>4, GoodAppend, Zenon
  <2>4. Waiting(stack, prog, func, labels) \cup {Len(code)} \subseteq Waiting(stack, prog, func', labels)
    BY <2>1, <2>2, Zenon DEF Waiting
  <2>5. Good(code', Waiting(stack', prog, func', labels'), Rets)
    <3>1. Good(code', Waiting(stack, prog, func', labels), Rets)
      BY <2>3, <2>4, GoodWider
    <3> QED BY <1>1, <3>1, Zenon
  <2>6. Nested(stack', func')
    <3>1. Len(func.breaks) <= Len(func'.breaks) /\ Len(func.conts) <= Len(func'.conts)
      BY <1>2, <2>1, <2>2
    <3> QED BY <1>1, <1>2, <1>4, <2>1, <3>1, NoteNested, Zenon
  <2>7. Len(code') \in Nat /\ Len(code) <= Len(code') /\ func'.contLabel <= Len(code')
    BY <1>2, <2>1, <2>3
  <2>8. Bounded(stack', Len(code')) /\ LabelsKnown(labels', Len(code'))
    BY <1>1, <1>2, <2>7, BoundedMore, LabelsMore, Zenon
  <2> QED BY <1>1, <2>5, <2>6, <2>7, <2>8, Step, Zenon DEF Going
<1> QED BY <1>1, <1>3, <1>4, Zenon

-----------------------------------------------------------------------------
(* The theorems. Only the last step counts the returns of a function.      *)

INSTANCE FiniteSetTheorems

LEMMA CountingHolds == Counting
<1> SUFFICES ASSUME NEW e \in Seq(Nat), NEW x
             PROVE  /\ Cardinality({k \in DOMAIN e : e[k] = x}) \in Nat
                    /\ x \in Twice(e) => Cardinality({k \in DOMAIN e : e[k] = x}) = 2
  BY Zenon DEF Counting
<1>1. {k \in DOMAIN e : e[k] = x} \subseteq 1 .. Len(e) /\ IsFiniteSet(1 .. Len(e))
  BY FS_Interval
<1>2. IsFiniteSet({k \in DOMAIN e : e[k] = x})
  BY <1>1, FS_Subset, Zenon
<1>3. Cardinality({k \in DOMAIN e : e[k] = x}) \in Nat
  BY <1>2, FS_CardinalityType, Zenon
<1>4. ASSUME x \in Twice(e)
      PROVE  Cardinality({k \in DOMAIN e : e[k] = x}) = 2
  <2>1. PICK m \in DOMAIN e : {k \in DOMAIN e : e[k] = x} = {m, m + 1}
    BY <1>4, Zenon DEF Twice
  <2>2. IsFiniteSet({m}) /\ Cardinality({m}) = 1
    BY FS_Singleton, Zenon
  <2>3. m + 1 \notin {m} /\ {m} \cup {m + 1} = {m, m + 1} /\ 1 + 1 = 2
    OBVIOUS
  <2>4. Cardinality({m} \cup {m + 1}) = 1 + 1
    BY <2>2, <2>3, FS_AddElement, Zenon
  <2> QED BY <2>1, <2>3, <2>4, Zenon
<1> QED BY <1>3, <1>4, Zenon

\* A finite set with n different elements has no fewer.
LEMMA HasAtMost ==
  ASSUME NEW S, IsFiniteSet(S), NEW n \in Nat, Has(S, n)
  PROVE  Cardinality(S) \in Nat /\ n <= Cardinality(S)
<1>1. PICK r \in [1 .. n -> S] : \A i, j \in 1 .. n : r[i] = r[j] => i = j
  BY Zenon DEF Has
<1>2. IsFiniteSet(1 .. n) /\ Cardinality(1 .. n) = n
  BY FS_Interval
<1>3. Cardinality(S) \in Nat
  BY FS_CardinalityType, Zenon
<1>4. ~(Cardinality(S) < Cardinality(1 .. n))
  BY <1>1, <1>2, FS_PigeonHole
<1> QED BY <1>2, <1>3, <1>4

LEMMA ParseKeeps == ASSUME CInv, Parse PROVE CInv'
BY ExprStmtKeeps, EmptyStmtKeeps, OpenBlockKeeps, NextInBlockKeeps, CloseBlockKeeps, IfStmtKeeps, ElsePartKeeps,
   EndIfKeeps, EndElseKeeps, WhileStmtKeeps, EndWhileKeeps, DoStmtKeeps, EndDoKeeps, ForStmtKeeps, EndForKeeps,
   SwitchStmtKeeps, CaseLabelKeeps, DefaultLabelKeeps, NextInSwitchKeeps, EndSwitchKeeps, BreakStmtKeeps,
   ContinueStmtKeeps, TooManyKeeps, ReturnStmtKeeps, LabelStmtKeeps, GotoStmtKeeps, EndFunctionKeeps, CountingHolds, Zenon
   DEF Parse

\* While gen.c compiles a function, every jump it has emitted either has a distance that
\* lands in the code or is kept in one place from which it will be patched: a local
\* variable of a call of parse_stmt, break_fixups, continue_fixups or a label's patch
\* list.  Nothing is said from a store beyond one of these arrays on.
THEOREM CInvAlways == Spec => []CInv
<1>1. CInv /\ [Next]_vars => CInv'
  BY ParseKeeps, RunKeeps, StutterKeeps, Zenon DEF Next
<1> QED BY CInit, <1>1, PTL DEF Spec

\* A distance shorter than the reach of a jal survives its encoding.
LEMMA DistanceKept ==
  ASSUME NEW d \in Int, -JAL_REACH < d, d < JAL_REACH
  PROVE  Distance(d) = d
<1>1. PICK n : n = JAL_REACH
  BY Zenon
<1>2. n \in Nat \ {0}
  BY <1>1, CapacityAssumption
<1>3. d + n \in 0 .. 2 * n - 1
  BY <1>1, <1>2
<1>4. (d + n) % (2 * n) = d + n
  BY ONLY <1>2, <1>3, d \in Int
<1>5. Distance(d) = ((d + n) % (2 * n)) - n
  BY <1>1, Zenon DEF Distance
<1> QED BY ONLY <1>2, <1>4, <1>5, d \in Int

\* Once a function is accepted every jump of it has been patched, and, if the function
\* is no longer than a jal can reach, to an instruction of the function: whatever its
\* statements, however deep they nest, and whatever the sizes of the compiler's tables.
THEOREM JumpsAlwaysLand == Spec => []JumpsLand
<1>1. CInv => JumpsLand
  <2> SUFFICES ASSUME CInv, phase = "run", NEW i \in DOMAIN code, code[i].op = "jal"
               PROVE  code[i].target = "known" /\ (InReach => i - 1 + Distance(code[i].delta) \in Offsets)
    BY Zenon DEF JumpsLand
  <2>1. /\ code \in Seq(Insns)
        /\ code[i].target = "known" /\ i - 1 + code[i].delta \in Offsets
    BY Zenon DEF CInv, Running, AllPatched
  <2>2. code[i].delta \in Int /\ i \in 1 .. Size /\ Size \in Nat
    <3>1. \A S : code \in Seq(S) => code[i] \in S /\ i \in 1 .. Len(code) /\ Len(code) \in Nat
      BY i \in DOMAIN code
    <3>2. code[i] \in Insns
      BY <2>1, <3>1, Zenon
    <3> QED BY <2>1, <3>1, <3>2, Zenon DEF Insns, Size
  <2>3. ASSUME InReach PROVE Distance(code[i].delta) = code[i].delta
    <3>1. -JAL_REACH < code[i].delta /\ code[i].delta < JAL_REACH
      BY <2>1, <2>2, <2>3, CapacityAssumption DEF InReach, Offsets
    <3> QED BY <2>2, <3>1, DistanceKept
  <2> QED BY <2>1, <2>3, Zenon
<1> QED BY CInvAlways, <1>1, PTL

\* A return gives back the frame unless g_epilogue_patch_off is too small for the
\* returns of the function.
THEOREM ReturnsAlwaysRestore == Spec => []ReturnsRestore
<1>1. CInv => ReturnsRestore
  <2>1. ASSUME CInv, phase = "lost"
        PROVE  2 * (Cardinality(C!Tokens(prog, "return")) + 1) > EPILOGUE_PATCH_MAX
    <3>1. PICK n \in Nat : Has(C!Tokens(prog, "return"), n) /\ ~(2 * (n + 1) <= EPILOGUE_PATCH_MAX)
      BY <2>1, Zenon DEF CInv, Room
    <3>2. C!Tokens(prog, "return") \subseteq 1 .. Len(prog) /\ IsFiniteSet(1 .. Len(prog))
      <4>1. C!Tokens(prog, "return") \subseteq 1 .. Len(prog) /\ Len(prog) \in Nat
        BY <2>1, ProgramAssumption DEF CInv, C!Tokens
      <4> QED BY <4>1, FS_Interval
    <3>3. IsFiniteSet(C!Tokens(prog, "return"))
      BY <3>2, FS_Subset, Zenon
    <3>4. Cardinality(C!Tokens(prog, "return")) \in Nat /\ n <= Cardinality(C!Tokens(prog, "return"))
      BY <3>1, <3>3, HasAtMost, Zenon
    <3> QED BY <3>1, <3>4, CapacityAssumption
  <2> QED BY <2>1, Zenon DEF ReturnsRestore
<1> QED BY CInvAlways, <1>1, PTL
=============================================================================
