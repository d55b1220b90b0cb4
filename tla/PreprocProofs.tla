--------------------------- MODULE PreprocProofs ----------------------------
(***************************************************************************)
(* For every program, command line and capacity: a name has at most one    *)
(* active macro, text is kept exactly when every open conditional is in    *)
(* its chosen branch, and a file with #pragma once is read once.           *)
(***************************************************************************)
EXTENDS Preproc, TLAPS

\* The time the provers are given for a leaf that names none.
USE SMTT(20), ZenonT(20)

MacrosTyped == macros \in Seq([name : STRING, body : STRING, active : BOOLEAN])

\* What the conditional at place i remembers, against the values of its branches
\* and of those around it.
Outside(i) == \E j \in 1..i - 1 : ~Chosen(trail[j])
Remembers(i) ==
    /\ trail[i] # <<>>
    /\ ifs[i].parent <=> Outside(i)
    /\ ~ifs[i].parent => (ifs[i].taken <=> \E k \in DOMAIN trail[i] : trail[i][k])
    /\ ifs[i].on <=> (~ifs[i].parent /\ Chosen(trail[i]))

StackTyped ==
    /\ ifs \in Seq([on : BOOLEAN, parent : BOOLEAN, taken : BOOLEAN])
    /\ trail \in Seq(Seq(BOOLEAN))
    /\ Len(trail) = Len(ifs)
AllRemember == \A i \in 1..Len(ifs) : Remembers(i)
StackInv == StackTyped /\ AllRemember

-----------------------------------------------------------------------------
(* Facts about sequences.                                                  *)

\* What a sequence holds.
LEMMA SeqElement ==
  \A S : \A q \in Seq(S) : \A n \in 1..Len(q) : q[n] \in S
OBVIOUS

\* The empty sequence.
LEMMA SeqEmpty ==
  \A S : <<>> \in Seq(S) /\ Len(<<>>) = 0 /\ \A q \in Seq(S) : q # <<>> => Len(q) > 0
OBVIOUS

\* A sequence as a function.
LEMMA SeqLength ==
  \A S : \A q \in Seq(S) : Len(q) \in Nat /\ q \in [1..Len(q) -> S] /\ DOMAIN q = 1..Len(q)
OBVIOUS

\* A part of a sequence: its type, length and elements.
LEMMA SeqPart ==
  ASSUME NEW S, NEW q, NEW m \in Int, NEW n \in Int, \A i \in m..n : q[i] \in S
  PROVE  /\ SubSeq(q, m, n) \in Seq(S)
         /\ Len(SubSeq(q, m, n)) = IF m <= n THEN n - m + 1 ELSE 0
         /\ \A i \in 1..n - m + 1 : SubSeq(q, m, n)[i] = q[m + i - 1]
OBVIOUS

-----------------------------------------------------------------------------

\* find_macro answers the only active entry of a name.
LEMMA FindMacroOne ==
    ASSUME MacrosTyped, OneActiveMacro, NEW name, Defined(name)
    PROVE  FindMacro(name) \in Defines(name) /\ Defines(name) = {FindMacro(name)}
<1>1. PICK i \in Defines(name) : TRUE
  BY DEF Defined
<1>2. \A j \in Defines(name) : j = i
  BY <1>1 DEF Defines, OneActiveMacro
<1>3. i \in Nat
  BY <1>1 DEF Defines, MacrosTyped
<1>4. \A j \in Defines(name) : i <= j
  BY <1>2, <1>3
<1> QED
  BY <1>1, <1>2, <1>4 DEF FindMacro

\* #define of one name keeps the table.
LEMMA DefineKeeps ==
    ASSUME MacrosTyped, OneActiveMacro, NEW name \in STRING, NEW body \in STRING, Define(name, body)
    PROVE  MacrosTyped' /\ OneActiveMacro'
<1> DEFINE e == [name |-> name, body |-> body, active |-> TRUE]
<1>e. e \in [name : STRING, body : STRING, active : BOOLEAN] /\ e.name = name
  OBVIOUS
<1>1. CASE Defined(name) /\ macros' = [macros EXCEPT ![FindMacro(name)] = e]
  <2>1. FindMacro(name) \in DOMAIN macros /\ macros[FindMacro(name)].active
        /\ macros[FindMacro(name)].name = name
    BY <1>1, FindMacroOne DEF Defines
  <2> HIDE DEF e
  <2>2. MacrosTyped'
    BY <1>1, <1>e, <2>1 DEF MacrosTyped
  <2>3. DOMAIN macros' = DOMAIN macros /\ \A i \in DOMAIN macros : macros'[i].name = macros[i].name
        /\ (macros'[i].active => macros[i].active)
    BY <1>1, <1>e, <2>1 DEF MacrosTyped
  <2> QED
    BY <2>2, <2>3 DEF OneActiveMacro
<1>2. CASE ~Defined(name) /\ macros' = Append(macros, e)
  <2> HIDE DEF e
  <2>1. MacrosTyped'
    BY <1>2, <1>e DEF MacrosTyped
  <2>2. DOMAIN macros' = 1..Len(macros) + 1 /\ macros'[Len(macros) + 1] = e
        /\ \A i \in 1..Len(macros) : macros'[i] = macros[i]
    BY <1>2, <1>e DEF MacrosTyped
  <2>3. \A i \in 1..Len(macros) : ~(macros[i].active /\ macros[i].name = name)
    BY <1>2 DEF Defined, Defines, MacrosTyped
  <2>4. DOMAIN macros = 1..Len(macros) /\ Len(macros) \in Nat
    BY DEF MacrosTyped
  <2> QED
    BY <1>e, <2>1, <2>2, <2>3, <2>4 DEF OneActiveMacro
<1> QED
  BY <1>1, <1>2 DEF Define

-----------------------------------------------------------------------------

\* The files are those of the program, and a frame is at a line of one of them.
InputsTyped ==
    /\ files \in Programs
    /\ specs \in Seq([name : STRING, body : STRING])
    /\ frames \in Seq([path : DOMAIN files, next : Nat \ {0}])

\* A line of a program is a record of its kind.
LEMMA LineTyped ==
    ASSUME InputsTyped, NEW k, AtLine(k)
    PROVE  Line \in [d : STRING, arg : STRING, body : STRING]
<1> DEFINE F == [path : DOMAIN files, next : Nat \ {0}]
<1>a. frames \in Seq(F) /\ frames # <<>>
  BY DEF InputsTyped, AtLine, Running
<1>1. Top \in F
  <2> HIDE DEF F
  <2> QED  BY <1>a DEF Top
<1>2. Top.path \in DOMAIN files /\ Top.next \in Nat \ {0}
  BY <1>1
<1>3. files[Top.path] \in Seq([d : STRING, arg : STRING, body : STRING])
  <2>1. files \in Programs
    BY DEF InputsTyped
  <2> QED  BY <1>2, <2>1, ProgramAssumption, Zenon
<1>4. Top.next <= Len(files[Top.path])
  BY DEF AtLine
<1> DEFINE R == [d : STRING, arg : STRING, body : STRING]
<1>5. files[Top.path] \in Seq(R)
  BY <1>3
<1> HIDE DEF R
<1>6. files[Top.path][Top.next] \in R
  BY <1>2, <1>4, <1>5
<1> QED
  BY <1>6 DEF Line, R

\* Going on to the next line, into a file and out of it.
LEMMA FramesKept ==
    ASSUME InputsTyped, [Next]_vars
    PROVE  InputsTyped'
<1> DEFINE F == [path : DOMAIN files, next : Nat \ {0}]
<1>a. frames \in Seq(F)
  BY DEF InputsTyped
<1>b. \A f \in F : [f EXCEPT !.next = @ + 1] \in F
  OBVIOUS
<1>1. frames # <<>> => [frames EXCEPT ![Len(frames)].next = @ + 1] \in Seq(F)
  <2> SUFFICES ASSUME frames # <<>> PROVE [frames EXCEPT ![Len(frames)].next = @ + 1] \in Seq(F)
    OBVIOUS
  <2> HIDE DEF F
  <2>1. Len(frames) \in DOMAIN frames /\ frames[Len(frames)] \in F
    BY <1>a
  <2>2. PICK g \in F : g = [frames[Len(frames)] EXCEPT !.next = @ + 1]
    BY <1>b, <2>1, Zenon
  <2> QED
    BY <1>a, <2>1, <2>2
<1>2. ASSUME NextLine, frames # <<>>, UNCHANGED <<files, specs>> PROVE InputsTyped'
  BY <1>1, <1>2 DEF InputsTyped, NextLine
<1>3. ASSUME Predefine PROVE InputsTyped'
  BY <1>3 DEF InputsTyped, Predefine
<1>4. ASSUME StartFile \/ Fatal PROVE InputsTyped'
  BY <1>4, Zenon DEF InputsTyped, StartFile, Fatal
<1>5. ASSUME Text \/ DefineLine \/ UndefLine \/ EndifLine \/ OnceLine \/ ErrorLine \/ OtherLine
      PROVE InputsTyped'
  BY <1>2, <1>5, Zenon DEF Text, DefineLine, UndefLine, EndifLine, OnceLine, ErrorLine, OtherLine, AtLine, Running
<1>6. ASSUME IfdefLine \/ IfndefLine \/ IfLine \/ ElifLine \/ ElseLine PROVE InputsTyped'
  BY <1>2, <1>6, Zenon DEF IfdefLine, IfndefLine, IfLine, ElifLine, ElseLine, OpenDefined, Open, AtLine, Running
<1>7. ASSUME IncludeLine PROVE InputsTyped'
  <2>1. frames # <<>> /\ UNCHANGED <<files, specs>>
    BY <1>7 DEF IncludeLine, AtLine, Running
  <2>2. CASE NextLine
    BY <1>2, <2>1, <2>2
  <2>3. CASE \E full \in FindInclude(Line.arg, Line.body = "<>") :
             frames' = Append([frames EXCEPT ![Len(frames)].next = @ + 1], [path |-> full, next |-> 1])
    <3>1. PICK full \in DOMAIN files :
             frames' = Append([frames EXCEPT ![Len(frames)].next = @ + 1], [path |-> full, next |-> 1])
      BY <2>3 DEF FindInclude
    <3>2. [path |-> full, next |-> 1] \in F
      OBVIOUS
    <3> QED
      BY <1>1, <2>1, <3>1, <3>2 DEF InputsTyped
  <2> QED
    BY <1>7, <2>2, <2>3, Zenon DEF IncludeLine
<1>8. ASSUME EndFile PROVE InputsTyped'
  <2>1. Front(frames) \in Seq(F)
    <3> HIDE DEF F
    <3> QED  BY <1>8, <1>a DEF EndFile, Front, Running
  <2> QED
    BY <1>8, <2>1 DEF InputsTyped, EndFile
<1>9. ASSUME UNCHANGED vars PROVE InputsTyped'
  BY <1>9 DEF InputsTyped, vars
<1> QED
  BY <1>3, <1>4, <1>5, <1>6, <1>7, <1>8, <1>9 DEF Next

MacroInv == MacrosTyped /\ OneActiveMacro

\* #define, -D and #undef keep the macro table; nothing else writes it.
LEMMA MacrosKept ==
    ASSUME InputsTyped, MacroInv, [Next]_vars
    PROVE  MacroInv'
<1>1. ASSUME UNCHANGED macros PROVE MacroInv'
  BY <1>1 DEF MacroInv, MacrosTyped, OneActiveMacro
<1>2. ASSUME Predefine PROVE MacroInv'
  <2> DEFINE S == [name : STRING, body : STRING]
  <2>a. specs \in Seq(S) /\ specs # <<>>
    BY <1>2 DEF InputsTyped, Predefine
  <2>b. Head(specs) \in S
    <3> HIDE DEF S
    <3> QED  BY <2>a
  <2>1. Head(specs).name \in STRING /\ Head(specs).body \in STRING
    BY <2>b
  <2> QED
    BY <1>2, <2>1, DefineKeeps, Zenon DEF Predefine, MacroInv
<1>3. ASSUME DefineLine PROVE MacroInv'
  <2>1. AtLine("define")
    BY <1>3 DEF DefineLine
  <2>2. Line.arg \in STRING /\ Line.body \in STRING
    BY <2>1, LineTyped
  <2> QED
    BY <1>1, <1>3, <2>2, DefineKeeps, Zenon DEF DefineLine, MacroInv
<1>4. ASSUME UndefLine PROVE MacroInv'
  <2>1. CASE UNCHANGED macros
    BY <1>1, <2>1
  <2>2. CASE Defined(Line.arg) /\ macros' = [macros EXCEPT ![FindMacro(Line.arg)].active = FALSE]
    <3> DEFINE E == [name : STRING, body : STRING, active : BOOLEAN]
               m == FindMacro(Line.arg)
    <3>1. macros \in Seq(E) /\ m \in DOMAIN macros
      BY <2>2, FindMacroOne DEF MacroInv, MacrosTyped, Defines
    <3>2. macros[m] \in E
      <4> HIDE DEF E, m
      <4> QED  BY <3>1
    <3>a. \A x \in E : LET y == [x EXCEPT !.active = FALSE] IN y \in E /\ y.name = x.name /\ y.active = FALSE
      BY Zenon
    <3>3. PICK e \in E : e = [macros[m] EXCEPT !.active = FALSE] /\ e.name = macros[m].name /\ e.active = FALSE
      <4> HIDE DEF E, m
      <4> QED  BY <3>2, <3>a, Zenon
    <3>4. macros' = [macros EXCEPT ![m] = e]
      BY <2>2, <3>3
    <3>5. macros' \in Seq(E)
      <4> HIDE DEF E, m
      <4> QED  BY <3>1, <3>4
    <3>6. DOMAIN macros' = DOMAIN macros
          /\ \A i \in DOMAIN macros : macros'[i].name = macros[i].name /\ (macros'[i].active => macros[i].active)
      <4> HIDE DEF E, m
      <4> QED  BY <3>1, <3>3, <3>4
    <3> QED
      BY <3>5, <3>6 DEF MacroInv, MacrosTyped, OneActiveMacro
  <2> QED
    BY <1>4, <2>1, <2>2 DEF UndefLine
<1>5. ASSUME StartFile \/ Fatal \/ Text \/ IncludeLine \/ EndFile \/ OnceLine \/ ErrorLine \/ OtherLine
             \/ EndifLine \/ UNCHANGED vars
      PROVE UNCHANGED macros
  BY <1>5, Zenon DEF StartFile, Fatal, Text, IncludeLine, EndFile, OnceLine, ErrorLine, OtherLine, EndifLine, vars
<1>6. ASSUME IfdefLine \/ IfndefLine \/ IfLine \/ ElifLine \/ ElseLine PROVE UNCHANGED macros
  BY <1>6, Zenon DEF IfdefLine, IfndefLine, IfLine, ElifLine, ElseLine, OpenDefined, Open
<1> QED
  BY <1>1, <1>2, <1>3, <1>4, <1>5, <1>6 DEF Next

-----------------------------------------------------------------------------

\* The innermost conditional knows whether any of the open ones is not in its
\* chosen branch.
LEMMA InnermostKnows ==
    ASSUME StackInv
    PROVE  KeptWhenChosen
<1>1. CASE ifs = <<>>
  <2>1. Len(trail) = 0 /\ ~Skipping
    BY <1>1 DEF StackInv, StackTyped, Skipping
  <2> QED
    BY <2>1 DEF KeptWhenChosen, StackInv, StackTyped
<1>2. CASE ifs # <<>>
  <2> DEFINE n == Len(ifs)
  <2>1. n \in Nat \ {0} /\ DOMAIN trail = 1..n
    BY <1>2 DEF StackInv, StackTyped
  <2>2. Skipping <=> ~ifs[n].on
    BY <1>2 DEF Skipping
  <2>3. ifs[n].on <=> (~Outside(n) /\ Chosen(trail[n]))
    BY <2>1 DEF StackInv, AllRemember, Remembers
  <2>4. (\E i \in 1..n : ~Chosen(trail[i])) <=> (Outside(n) \/ ~Chosen(trail[n]))
    BY <2>1 DEF Outside
  <2> QED
    BY <2>1, <2>2, <2>3, <2>4 DEF KeptWhenChosen
<1> QED
  BY <1>1, <1>2

\* Whether a conditional is the chosen one depends on its branches only.
LEMMA OpenKeeps ==
    ASSUME StackInv, NEW c \in BOOLEAN, NEW on \in BOOLEAN, NEW taken \in BOOLEAN,
           on <=> (~Skipping /\ c), ~Skipping => (taken <=> c),
           ifs' = Append(ifs, [on |-> on, parent |-> Skipping, taken |-> taken]),
           trail' = Append(trail, <<c>>)
    PROVE  StackInv'
<1> DEFINE B == [on : BOOLEAN, parent : BOOLEAN, taken : BOOLEAN]
           b == [on |-> on, parent |-> Skipping, taken |-> taken]
<1>0. PICK n \in Nat : n = Len(ifs)
  BY DEF StackInv, StackTyped
<1>1. Skipping \in BOOLEAN
  BY DEF Skipping
<1>2. b \in B /\ b.on = on /\ b.parent = Skipping /\ b.taken = taken
  BY <1>1
<1>3. ifs \in Seq(B) /\ trail \in Seq(Seq(BOOLEAN)) /\ Len(ifs) = n /\ Len(trail) = n
  BY <1>0 DEF StackInv, StackTyped
<1>4. <<c>> \in Seq(BOOLEAN) /\ Len(<<c>>) = 1 /\ <<c>>[1] = c /\ <<c>> # <<>>
  OBVIOUS
<1>5. ifs' \in Seq(B) /\ Len(ifs') = n + 1 /\ ifs'[n + 1] = b /\ \A i \in 1..n : ifs'[i] = ifs[i]
  <2> HIDE DEF B, b
  <2> QED  BY <1>2, <1>3 DEF b
<1>6. trail' \in Seq(Seq(BOOLEAN)) /\ Len(trail') = n + 1 /\ trail'[n + 1] = <<c>>
      /\ \A i \in 1..n : trail'[i] = trail[i]
  BY <1>3, <1>4
<1>7. Chosen(<<c>>) <=> c
  BY <1>4 DEF Chosen
<1>8. KeptWhenChosen
  BY InnermostKnows
<1>9. Outside(n + 1)' <=> Skipping
  <2>1. Outside(n + 1)' <=> \E j \in 1..n : ~Chosen(trail[j])
    BY <1>6 DEF Outside, Chosen
  <2>2. DOMAIN trail = 1..n
    BY <1>3
  <2> QED
    BY <1>8, <2>1, <2>2, ZenonT(40) DEF KeptWhenChosen
<1>10. Remembers(n + 1)'
  BY <1>2, <1>4, <1>5, <1>6, <1>7, <1>9 DEF Remembers
<1>11. ASSUME NEW i \in 1..n PROVE Remembers(i)'
  <2>1. Remembers(i)
    BY <1>3 DEF StackInv, AllRemember
  <2>a. \A j \in 1..i - 1 : trail'[j] = trail[j]
    BY <1>6
  <2>2. Outside(i)' <=> Outside(i)
    BY <2>a, Zenon DEF Outside, Chosen
  <2> QED
    BY <1>5, <1>6, <2>1, <2>2 DEF Remembers
<1> QED
  BY <1>3, <1>5, <1>6, <1>10, <1>11 DEF StackInv, StackTyped, AllRemember

\* A further branch is chosen when its condition holds and none before it did.
LEMMA BranchKeeps ==
    ASSUME StackInv, ifs # <<>>, NEW c \in BOOLEAN, Branch(c)
    PROVE  StackInv'
<1> DEFINE B == [on : BOOLEAN, parent : BOOLEAN, taken : BOOLEAN]
<1>0. PICK n \in Nat : n = Len(ifs)
  BY DEF StackInv, StackTyped
<1>1. ifs \in Seq(B) /\ trail \in Seq(Seq(BOOLEAN)) /\ Len(ifs) = n /\ Len(trail) = n /\ n > 0
  BY <1>0 DEF StackInv, StackTyped
<1>2. ifs[n] \in B
  <2> HIDE DEF B
  <2> QED  BY <1>1
<1>3. PICK b \in B : /\ ifs' = [ifs EXCEPT ![n] = b]
                     /\ b.parent = ifs[n].parent
                     /\ Decided => ~b.on /\ b.taken = ifs[n].taken
                     /\ ~Decided => b.on = c /\ b.taken = c
  <2>1. \A x \in B : /\ [x EXCEPT !.on = FALSE] \in B
                      /\ [x EXCEPT !.on = FALSE].parent = x.parent
                      /\ [x EXCEPT !.on = FALSE].taken = x.taken
                      /\ [x EXCEPT !.on = FALSE].on = FALSE
    BY Zenon
  <2>2. \A x \in B : /\ [x EXCEPT !.on = c, !.taken = c] \in B
                      /\ [x EXCEPT !.on = c, !.taken = c].parent = x.parent
                      /\ [x EXCEPT !.on = c, !.taken = c].taken = c
                      /\ [x EXCEPT !.on = c, !.taken = c].on = c
    BY Zenon
  <2> HIDE DEF B
  <2>3. CASE Decided
    <3>1. ifs' = [ifs EXCEPT ![n] = [ifs[n] EXCEPT !.on = FALSE]]
      BY <1>1, <2>3 DEF Branch
    <3> QED
      BY <1>2, <2>1, <2>3, <3>1, Zenon
  <2>4. CASE ~Decided
    <3>1. ifs' = [ifs EXCEPT ![n] = [ifs[n] EXCEPT !.on = c, !.taken = c]]
      BY <1>1, <2>4 DEF Branch
    <3> QED
      BY <1>2, <2>2, <2>4, <3>1, Zenon
  <2> QED
    BY <2>3, <2>4
<1>4. ifs' \in Seq(B) /\ Len(ifs') = n /\ ifs'[n] = b /\ \A i \in 1..n - 1 : ifs'[i] = ifs[i]
  <2> HIDE DEF B
  <2> QED  BY <1>1, <1>3
<1>5. PICK t \in Seq(BOOLEAN) : t = trail[n]
  BY <1>1
<1>6. PICK u \in Seq(BOOLEAN) : u = Append(t, c)
  <2> DEFINE V == BOOLEAN
  <2>1. t \in Seq(V) /\ c \in V
    OBVIOUS
  <2> HIDE DEF V
  <2>2. Append(t, c) \in Seq(V)
    BY <2>1
  <2> QED
    BY <2>2, Zenon DEF V
<1>7. trail' = [trail EXCEPT ![n] = u]
  BY <1>1, <1>5, <1>6 DEF Branch
<1>8. trail' \in Seq(Seq(BOOLEAN)) /\ Len(trail') = n /\ trail'[n] = u
      /\ \A i \in 1..n - 1 : trail'[i] = trail[i]
  BY <1>1, <1>7
<1>9. Remembers(n)
  BY <1>1 DEF StackInv, AllRemember
<1>10. Decided <=> (ifs[n].parent \/ ifs[n].taken)
  BY <1>1 DEF Decided
<1>11. u # <<>> /\ (Chosen(u) <=> (c /\ \A k \in DOMAIN t : ~t[k]))
       /\ ((\E k \in DOMAIN u : u[k]) <=> (c \/ \E k \in DOMAIN t : t[k]))
  <2>1. Len(u) = Len(t) + 1 /\ u[Len(t) + 1] = c /\ Len(t) \in Nat /\ DOMAIN t = 1..Len(t)
        /\ DOMAIN u = 1..Len(t) + 1 /\ \A k \in 1..Len(t) : u[k] = t[k]
    BY <1>6
  <2>2. u # <<>>
    BY <2>1
  <2>3. Chosen(u) <=> (c /\ \A k \in DOMAIN t : ~t[k])
    BY <2>1 DEF Chosen
  <2>4. (\E k \in DOMAIN u : u[k]) <=> (c \/ \E k \in DOMAIN t : t[k])
    BY <2>1
  <2> QED
    BY <2>2, <2>3, <2>4
<1>12. ASSUME NEW i \in 1..n PROVE Outside(i)' <=> Outside(i)
  <2>1. \A j \in 1..i - 1 : trail'[j] = trail[j]
    BY <1>8
  <2> QED
    BY <2>1, Zenon DEF Outside, Chosen
<1>13. Remembers(n)'
  <2>1. (b.parent <=> Outside(n)) /\ (b.parent <=> ifs[n].parent)
    BY <1>3, <1>9 DEF Remembers
  <2>2. ~b.parent => (ifs[n].taken <=> \E k \in DOMAIN t : t[k])
    BY <1>3, <1>5, <1>9 DEF Remembers
  <2>3. ~b.parent => (b.taken <=> \E k \in DOMAIN u : u[k])
    BY <1>3, <1>10, <1>11, <2>2
  <2>4. b.on <=> (~b.parent /\ Chosen(u))
    BY <1>3, <1>10, <1>11, <2>1, <2>2
  <2>5. b.parent <=> Outside(n)'
    BY <1>1, <1>12, <2>1
  <2>6. (trail[n])' = u /\ (ifs[n])' = b
    BY <1>4, <1>8
  <2> QED
    BY <1>11, <2>3, <2>4, <2>5, <2>6 DEF Remembers, Chosen
<1>14. ASSUME NEW i \in 1..n - 1 PROVE Remembers(i)'
  <2>1. Remembers(i)
    BY <1>1 DEF StackInv, AllRemember
  <2>2. (trail[i])' = trail[i] /\ (ifs[i])' = ifs[i]
    BY <1>4, <1>8
  <2>3. Outside(i)' <=> Outside(i)
    BY <1>12
  <2> QED
    BY <2>1, <2>2, <2>3 DEF Remembers, Chosen
<1> QED
  BY <1>1, <1>4, <1>8, <1>13, <1>14 DEF StackInv, StackTyped, AllRemember

\* #endif forgets the innermost conditional only.
LEMMA EndifKeeps ==
    ASSUME StackInv, ifs # <<>>, ifs' = Front(ifs), trail' = Front(trail)
    PROVE  StackInv'
<1> DEFINE B == [on : BOOLEAN, parent : BOOLEAN, taken : BOOLEAN]
<1>a. Len(ifs) \in Nat \ {0}
  BY DEF StackInv, StackTyped
<1>0. PICK n \in Nat : n + 1 = Len(ifs)
  <2>1. Len(ifs) - 1 \in Nat /\ (Len(ifs) - 1) + 1 = Len(ifs)
    BY <1>a
  <2> QED
    BY <2>1, Zenon
<1>1. ifs \in Seq(B) /\ trail \in Seq(Seq(BOOLEAN)) /\ Len(ifs) = n + 1 /\ Len(trail) = n + 1
  BY <1>0 DEF StackInv, StackTyped
<1>2. ifs' \in Seq(B) /\ Len(ifs') = n /\ \A i \in 1..n : ifs'[i] = ifs[i]
  <2> HIDE DEF B
  <2> QED  BY <1>1 DEF Front
<1>3. trail' \in Seq(Seq(BOOLEAN)) /\ Len(trail') = n /\ \A i \in 1..n : trail'[i] = trail[i]
  BY <1>1 DEF Front
<1>4. ASSUME NEW i \in 1..n PROVE Remembers(i)'
  <2>1. Remembers(i)
    BY <1>1 DEF StackInv, AllRemember
  <2>2. (trail[i])' = trail[i] /\ (ifs[i])' = ifs[i]
    BY <1>2, <1>3
  <2>3. Outside(i)' <=> Outside(i)
    <3>1. \A j \in 1..i - 1 : trail'[j] = trail[j]
      BY <1>3
    <3> QED
      BY <3>1, ZenonT(40) DEF Outside, Chosen
  <2> QED
    BY <2>1, <2>2, <2>3 DEF Remembers, Chosen
<1> QED
  BY <1>2, <1>3, <1>4 DEF StackInv, StackTyped, AllRemember

\* A condition is true or false.
LEMMA HoldsBoolean == \A line : Holds(line) \in BOOLEAN
  BY Zenon DEF Holds, Defined

\* Every directive keeps the record of the conditionals.
LEMMA StackKept ==
    ASSUME StackInv, [Next]_vars
    PROVE  StackInv'
<1>1. ASSUME UNCHANGED <<ifs, trail>> PROVE StackInv'
  BY <1>1 DEF StackInv, StackTyped, AllRemember, Remembers, Outside, Chosen
<1>2. ASSUME Predefine \/ StartFile \/ Fatal \/ Text \/ DefineLine \/ UndefLine \/ IncludeLine \/ EndFile
             \/ OnceLine \/ ErrorLine \/ OtherLine \/ UNCHANGED vars
      PROVE UNCHANGED <<ifs, trail>>
  BY <1>2, Zenon DEF Predefine, StartFile, Fatal, Text, DefineLine, UndefLine, IncludeLine, EndFile,
              OnceLine, ErrorLine, OtherLine, vars
<1>3. ASSUME NEW taken \in BOOLEAN, OpenDefined(taken) PROVE StackInv'
  <2>1. (~Skipping /\ taken) \in BOOLEAN
    OBVIOUS
  <2>2. ifs' = Append(ifs, [on |-> (~Skipping /\ taken), parent |-> Skipping, taken |-> taken])
        /\ trail' = Append(trail, <<taken>>)
    BY <1>3 DEF OpenDefined, Open
  <2> QED
    BY <2>1, <2>2, OpenKeeps, Zenon
<1>4. ASSUME IfdefLine \/ IfndefLine PROVE StackInv'
  <2>1. Defined(Line.arg) \in BOOLEAN /\ (~Defined(Line.arg)) \in BOOLEAN
    BY DEF Defined
  <2> QED
    BY <1>3, <1>4, <2>1, Zenon DEF IfdefLine, IfndefLine
<1>5. ASSUME IfLine PROVE StackInv'
  <2>1. PICK c \in BOOLEAN : c = Holds(Line)
    BY HoldsBoolean
  <2>2. CASE Skipping
    <3>1. ifs' = Append(ifs, [on |-> FALSE, parent |-> TRUE, taken |-> FALSE]) /\ trail' = Append(trail, <<c>>)
      BY <1>5, <2>1, <2>2 DEF IfLine, Open
    <3>2. Skipping = TRUE
      BY <2>2 DEF Skipping
    <3> QED
      BY <2>2, <3>1, <3>2, OpenKeeps, Zenon
  <2>3. CASE ~Skipping
    <3>1. ifs' = Append(ifs, [on |-> c, parent |-> FALSE, taken |-> c]) /\ trail' = Append(trail, <<c>>)
      BY <1>5, <2>1, <2>3 DEF IfLine, Open
    <3>2. Skipping = FALSE
      BY <2>3 DEF Skipping
    <3> QED
      BY <2>3, <3>1, <3>2, OpenKeeps, Zenon
  <2> QED
    BY <2>2, <2>3
<1>6. ASSUME ElifLine PROVE StackInv'
  <2>1. CASE ifs = <<>>
    BY <1>1, <1>6, <2>1 DEF ElifLine
  <2>2. CASE ifs # <<>>
    <3>1. Holds(Line) \in BOOLEAN /\ Branch(Holds(Line))
      BY <1>6, <2>2, HoldsBoolean DEF ElifLine
    <3> QED
      BY <2>2, <3>1, BranchKeeps
  <2> QED
    BY <2>1, <2>2
<1>7. ASSUME ElseLine PROVE StackInv'
  <2>1. CASE ifs = <<>>
    BY <1>1, <1>7, <2>1 DEF ElseLine
  <2>2. CASE ifs # <<>>
    BY <1>7, <2>2, BranchKeeps, Zenon DEF ElseLine
  <2> QED
    BY <2>1, <2>2
<1>8. ASSUME EndifLine PROVE StackInv'
  <2>1. CASE ifs = <<>>
    BY <1>1, <1>8, <2>1 DEF EndifLine
  <2>2. CASE ifs # <<>>
    BY <1>8, <2>2, EndifKeeps DEF EndifLine
  <2> QED
    BY <2>1, <2>2
<1> QED
  BY <1>1, <1>2, <1>4, <1>5, <1>6, <1>7, <1>8 DEF Next

-----------------------------------------------------------------------------

\* The invariant holds at the start.
LEMMA InitInv ==
    ASSUME Init
    PROVE  InputsTyped /\ MacroInv /\ StackInv
<1>1. InputsTyped
  <2>1. [path |-> Main, next |-> 1] \in [path : DOMAIN files, next : Nat \ {0}]
    BY DEF Init
  <2>2. frames \in Seq([path : DOMAIN files, next : Nat \ {0}])
    BY <2>1 DEF Init
  <2> QED
    BY <2>2, ProgramAssumption DEF Init, InputsTyped
<1>2. MacroInv
  BY DEF Init, MacroInv, MacrosTyped, OneActiveMacro
<1>3. StackInv
  BY DEF Init, StackInv, StackTyped, AllRemember
<1> QED
  BY <1>1, <1>2, <1>3

\* A name has at most one active entry in g_macros, through every sequence of
\* -D, #define and #undef: what find_macro finds is what #undef removes.
THEOREM MacroUnique == Spec => []OneActiveMacro
<1>1. Init => InputsTyped /\ MacroInv
  BY InitInv
<1>2. InputsTyped /\ MacroInv /\ [Next]_vars => InputsTyped' /\ MacroInv'
  BY FramesKept, MacrosKept
<1>3. MacroInv => OneActiveMacro
  BY DEF MacroInv
<1> QED
  BY <1>1, <1>2, <1>3, PTL DEF Spec

\* The innermost entry of g_if_stack alone tells whether every open conditional
\* is in its chosen branch, at any depth and across included files.
THEOREM SelectionCorrect == Spec => []KeptWhenChosen
<1>1. Init => StackInv
  BY InitInv
<1>2. StackInv /\ [Next]_vars => StackInv'
  BY StackKept
<1>3. StackInv => KeptWhenChosen
  BY InnermostKnows
<1> QED
  BY <1>1, <1>2, <1>3, PTL DEF Spec

\* No conditional is open before the first line.
NoneBefore == status = "predefine" => ifs = <<>>

\* No true branch before this one, after a step that keeps the branches.
LEMMA NoneBeforeKept ==
    ASSUME NoneBefore, [Next]_vars
    PROVE  NoneBefore'
<1>1. ASSUME Predefine \/ UNCHANGED vars PROVE NoneBefore'
  BY <1>1 DEF NoneBefore, Predefine, vars
<1>2. ASSUME StartFile \/ Fatal PROVE NoneBefore'
  BY <1>2 DEF NoneBefore, StartFile, Fatal
<1>3. ASSUME Text \/ DefineLine \/ UndefLine \/ IncludeLine \/ OnceLine \/ ErrorLine \/ OtherLine \/ EndifLine
      PROVE NoneBefore'
  BY <1>3, Zenon DEF NoneBefore, Text, DefineLine, UndefLine, IncludeLine, OnceLine, ErrorLine, OtherLine,
              EndifLine, AtLine, Running
<1>4. ASSUME IfdefLine \/ IfndefLine \/ IfLine \/ ElifLine \/ ElseLine PROVE NoneBefore'
  BY <1>4, Zenon DEF NoneBefore, IfdefLine, IfndefLine, IfLine, ElifLine, ElseLine, OpenDefined, Open, AtLine, Running
<1>5. ASSUME EndFile PROVE NoneBefore'
  BY <1>5 DEF NoneBefore, EndFile, Running
<1> QED
  BY <1>1, <1>2, <1>3, <1>4, <1>5 DEF Next

\* An #elif is evaluated only where it could still be chosen.
LEMMA UndecidedElif ==
    ASSUME StackInv, ifs # <<>>, ~Decided
    PROVE  /\ \A i \in 1..Len(trail) - 1 : Chosen(trail[i])
           /\ \A j \in DOMAIN trail[Len(trail)] : ~trail[Len(trail)][j]
<1>1. Len(ifs) \in 1..Len(ifs) /\ Len(trail) = Len(ifs)
  BY DEF StackInv, StackTyped
<1>2. Remembers(Len(ifs))
  BY <1>1 DEF StackInv, AllRemember
<1>3. ~Outside(Len(ifs)) /\ ~ \E k \in DOMAIN trail[Len(ifs)] : trail[Len(ifs)][k]
  BY <1>2 DEF Decided, Remembers
<1> QED
  BY <1>1, <1>3 DEF Outside

\* Text that is skipped defines, includes and reports nothing; a condition in it
\* is evaluated only when it is an #elif that could still be chosen.
THEOREM SkippedTextInert == Spec => SkippedHasNoEffect
<1> DEFINE Effect ==
        Skipping =>
        /\ UNCHANGED <<macros, seen, entered>>
        /\ errors' # errors =>
              /\ Line.d = "elif"
              /\ \A i \in 1..Len(trail) - 1 : Chosen(trail[i])
              /\ \A j \in DOMAIN trail[Len(trail)] : ~trail[Len(trail)][j]
<1>1. Init => StackInv /\ NoneBefore
  BY InitInv DEF Init, NoneBefore
<1>2. StackInv /\ NoneBefore /\ [Next]_vars => StackInv' /\ NoneBefore'
  BY StackKept, NoneBeforeKept
<1>3. ASSUME StackInv, NoneBefore, [Next]_vars PROVE [Effect]_vars
  <2> SUFFICES ASSUME Skipping, Next PROVE Effect
    BY <1>3
  <2>0. ifs # <<>> /\ status # "predefine"
    BY <1>3 DEF Skipping, NoneBefore
  <2>1. ASSUME Predefine \/ StartFile PROVE FALSE
    BY <2>0, <2>1 DEF Predefine, StartFile
  <2>2. ASSUME Fatal \/ Text \/ EndFile \/ OtherLine \/ EndifLine \/ ElseLine \/ IfdefLine \/ IfndefLine
        PROVE UNCHANGED <<macros, seen, entered, errors>>
    BY <2>2, Zenon DEF Fatal, Text, EndFile, OtherLine, EndifLine, ElseLine, IfdefLine, IfndefLine, OpenDefined, Open
  <2>3. ASSUME DefineLine \/ UndefLine \/ IncludeLine \/ OnceLine \/ ErrorLine \/ IfLine
        PROVE UNCHANGED <<macros, seen, entered, errors>>
    BY <2>3 DEF DefineLine, UndefLine, IncludeLine, OnceLine, ErrorLine, IfLine, Open
  <2>4. ASSUME ElifLine PROVE Effect
    <3>1. Line.d = "elif" /\ UNCHANGED <<macros, seen, entered>>
      BY <2>4 DEF ElifLine, AtLine
    <3>2. errors' # errors => ~Decided
      BY <2>0, <2>4 DEF ElifLine
    <3> QED
      BY <1>3, <2>0, <3>1, <3>2, UndecidedElif
  <2> QED
    BY <2>1, <2>2, <2>3, <2>4 DEF Next
<1> QED
  BY <1>1, <1>2, <1>3, PTL DEF Spec, SkippedHasNoEffect



-----------------------------------------------------------------------------
(* Files that start with #pragma once.                                     *)

StartsOnce(p) == files[p] # <<>> /\ files[p][1].d = "once"

\* The file p has just been entered: its first line is next.
AtStart(p) == frames # <<>> /\ Top.next = 1 /\ Top.path = p

\* A file is entered from kept text and left at a later line; one that starts with
\* #pragma once is in g_seen_files as soon as its first line has been read.
SeenOrStarting ==
    Len(seen) < MAX_INCLUDES =>
        \A i \in DOMAIN entered : StartsOnce(entered[i]) => FileSeen(entered[i]) \/ AtStart(entered[i])
OnceInv ==
    /\ entered \in Seq(DOMAIN files) /\ seen \in Seq(DOMAIN files)
    /\ \A i \in 1..Len(frames) - 1 : frames[i].next >= 2
    /\ frames # <<>> /\ Top.next = 1 => ~Skipping
    /\ SeenOrStarting
    /\ OncePerFile

\* A sequence with one more element.
LEMMA Longer ==
    ASSUME NEW S, NEW s \in Seq(S), NEW e \in S, NEW r, r = Append(s, e)
    PROVE  /\ r \in Seq(S) /\ Len(s) \in Nat /\ Len(r) = Len(s) + 1 /\ r # <<>>
           /\ DOMAIN s = 1..Len(s) /\ DOMAIN r = 1..Len(s) + 1
           /\ r[Len(s) + 1] = e /\ \A i \in 1..Len(s) : r[i] = s[i]
  OBVIOUS

\* A sequence with the last element removed.
LEMMA Shorter ==
    ASSUME NEW S, NEW s \in Seq(S), s # <<>>, NEW r, r = SubSeq(s, 1, Len(s) - 1)
    PROVE  /\ r \in Seq(S) /\ Len(s) \in Nat \ {0} /\ Len(r) = Len(s) - 1
           /\ \A i \in 1..Len(s) - 1 : r[i] = s[i]
<1> DEFINE n == Len(s)
           m == n - 1
<1>1. n \in Nat /\ n # 0
  BY SeqEmpty, SeqLength
<1>2. r = SubSeq(s, 1, m)
  OBVIOUS
<1>3. \A i \in 1..n : s[i] \in S
  BY SeqElement
<1> HIDE DEF n
<1>4. m \in Int /\ 1 \in Int /\ \A i \in 1..m : i \in 1..n
  BY ONLY <1>1
<1>5. \A i \in 1..m : s[i] \in S
  BY ONLY <1>3, <1>4, Zenon
<1> HIDE DEF m
<1>6. /\ r \in Seq(S) /\ Len(r) = IF 1 <= m THEN m - 1 + 1 ELSE 0
      /\ \A i \in 1..m - 1 + 1 : r[i] = s[1 + i - 1]
  BY ONLY <1>2, <1>4, <1>5, SeqPart
<1>7. Len(r) = n - 1
  BY ONLY <1>1, <1>6 DEF m
<1>8. \A i \in 1..m : r[i] = s[i]
  <2>1. \A i \in 1..m : i \in 1..m - 1 + 1 /\ 1 + i - 1 = i
    BY ONLY <1>4
  <2> QED BY ONLY <1>6, <2>1, Zenon
<1>9. n \in Nat \ {0}
  BY ONLY <1>1
<1> QED BY <1>6, <1>7, <1>8, <1>9, Zenon DEF n, m

\* The line being read is one of a file on disk.
LEMMA TopTyped ==
    ASSUME InputsTyped, frames # <<>>
    PROVE  Top.next \in Nat \ {0} /\ Top.path \in DOMAIN files
<1> DEFINE F == [path : DOMAIN files, next : Nat \ {0}]
<1>1. frames \in Seq(F)
  BY DEF InputsTyped
<1> HIDE DEF F
<1>2. Top \in F
  BY <1>1 DEF Top
<1> QED BY <1>2 DEF F

\* The place in a file after NextLine.
LEMMA NextLineFrames ==
    ASSUME InputsTyped, OnceInv, frames # <<>>,
           NEW fs, fs = [frames EXCEPT ![Len(frames)].next = @ + 1]
    PROVE  /\ Len(fs) = Len(frames) /\ fs # <<>> /\ Len(frames) \in Nat \ {0}
           /\ fs \in Seq([path : DOMAIN files, next : Nat \ {0}])
           /\ \A i \in 1..Len(fs) : fs[i].next >= 2
           /\ Top.next \in Nat \ {0} /\ Top.path \in DOMAIN files
<1> DEFINE F == [path : DOMAIN files, next : Nat \ {0}]
           n == Len(frames)
<1>1. frames \in Seq(F)
  BY DEF InputsTyped
<1> HIDE DEF F
<1>2. n \in Nat \ {0} /\ DOMAIN frames = 1..n /\ frames[n] \in F
  BY <1>1
<1> HIDE DEF n
<1>3. frames[n].next \in Nat \ {0} /\ frames[n].path \in DOMAIN files
  BY <1>2 DEF F
<1> DEFINE g == [frames[n] EXCEPT !.next = @ + 1]
<1>4. g \in F /\ g.next = frames[n].next + 1
  BY <1>2 DEF F
<1>5. fs = [frames EXCEPT ![n] = g]
  BY <1>1, <1>2 DEF n
<1> HIDE DEF g
<1>6. fs \in Seq(F) /\ Len(fs) = n /\ fs[n] = g /\ \A i \in 1..n : i # n => fs[i] = frames[i]
  BY <1>1, <1>2, <1>4, <1>5 DEF n
<1>7. \A i \in 1..n : fs[i].next >= 2
  <2> SUFFICES ASSUME NEW i \in 1..n PROVE fs[i].next >= 2
    OBVIOUS
  <2>1. CASE i = n
    BY <1>3, <1>4, <1>6, <2>1
  <2>2. CASE i # n
    <3>1. i \in 1..n - 1
      BY <1>2, <2>2
    <3>2. frames[i].next >= 2
      BY <3>1 DEF OnceInv, n
    <3> QED BY <1>6, <2>2, <3>2
  <2> QED BY <2>1, <2>2
<1>8. Len(fs) = n /\ fs # <<>>
  BY <1>2, <1>6
<1> QED BY <1>2, <1>3, <1>6, <1>7, <1>8 DEF n, F, Top

\* A line that is not a #pragma once is not the first one of such a file.
LEMMA OthersSeen ==
    ASSUME InputsTyped, OnceInv, NEW k, AtLine(k), k # "once", Len(seen) < MAX_INCLUDES
    PROVE  \A i \in DOMAIN entered : StartsOnce(entered[i]) => FileSeen(entered[i])
<1> SUFFICES ASSUME NEW i \in DOMAIN entered, StartsOnce(entered[i]), AtStart(entered[i]) PROVE FALSE
  BY DEF OnceInv, SeenOrStarting
<1>1. files[Top.path][Top.next].d = k /\ Top.next = 1 /\ Top.path = entered[i]
  BY DEF AtLine, Line, AtStart
<1> QED BY <1>1 DEF StartsOnce

\* Any other line: on to the next one.
LEMMA NextLineOnce ==
    ASSUME InputsTyped, OnceInv, NEW k, AtLine(k), k # "once", NextLine,
           UNCHANGED <<files, seen, entered>>
    PROVE  OnceInv'
<1>1. frames # <<>> /\ files' = files /\ seen' = seen /\ entered' = entered
  BY DEF AtLine, Running
<1>2. /\ Len(frames') = Len(frames) /\ frames' # <<>> /\ Len(frames) \in Nat \ {0}
      /\ \A i \in 1..Len(frames') : frames'[i].next >= 2
  BY <1>1, NextLineFrames, Zenon DEF NextLine
<1>3. Top'.next >= 2
  BY <1>2 DEF Top
<1>4. Top'.next # 1
  <2>1. ~(1 >= 2)
    OBVIOUS
  <2> QED BY <1>3, <2>1, Zenon
<1>5. \A i \in 1..Len(frames') - 1 : frames'[i].next >= 2
  BY <1>2
<1>6. SeenOrStarting'
  <2> SUFFICES ASSUME Len(seen) < MAX_INCLUDES, NEW i \in DOMAIN entered, StartsOnce(entered[i])
               PROVE  FileSeen(entered[i])
    BY <1>1, Zenon DEF SeenOrStarting, StartsOnce, FileSeen
  <2> QED BY OthersSeen
<1>7. OncePerFile'
  BY <1>1 DEF OnceInv, OncePerFile
<1> QED BY <1>1, <1>4, <1>5, <1>6, <1>7, Zenon DEF OnceInv

\* #pragma once itself: on the first line of a file it is in kept text.
LEMMA OnceLineOnce == ASSUME InputsTyped, OnceInv, OnceLine PROVE OnceInv'
<1>1. AtLine("once") /\ NextLine /\ files' = files /\ entered' = entered /\ frames # <<>>
      /\ seen' = IF ~Skipping /\ Len(seen) < MAX_INCLUDES THEN Append(seen, Top.path) ELSE seen
  BY DEF OnceLine, AtLine, Running
<1>2. /\ Len(frames') = Len(frames) /\ frames' # <<>> /\ Len(frames) \in Nat \ {0}
      /\ \A i \in 1..Len(frames') : frames'[i].next >= 2
      /\ Top.path \in DOMAIN files
  BY <1>1, NextLineFrames, Zenon DEF NextLine
<1>3. Top'.next >= 2
  BY <1>2 DEF Top
<1>4. Top'.next # 1
  <2>1. ~(1 >= 2)
    OBVIOUS
  <2> QED BY <1>3, <2>1, Zenon
<1>5. \A i \in 1..Len(frames') - 1 : frames'[i].next >= 2
  BY <1>2
<1> DEFINE P == DOMAIN files
           p == Top.path
<1>6. seen \in Seq(P) /\ Len(seen) \in Nat
  BY DEF OnceInv
<1>7. p \in P
  BY <1>2
<1> HIDE DEF P, p
<1>8. Append(seen, p) \in Seq(P) /\ Len(Append(seen, p)) = Len(seen) + 1
      /\ \A x : (\E i \in DOMAIN seen : seen[i] = x) \/ x = p => \E i \in DOMAIN Append(seen, p) : Append(seen, p)[i] = x
  <2> DEFINE r == Append(seen, p)
  <2>1. /\ r \in Seq(P) /\ Len(r) = Len(seen) + 1 /\ DOMAIN seen = 1..Len(seen) /\ DOMAIN r = 1..Len(seen) + 1
        /\ r[Len(seen) + 1] = p /\ \A i \in 1..Len(seen) : r[i] = seen[i]
    BY <1>6, <1>7, Longer
  <2> HIDE DEF r
  <2>2. Len(seen) + 1 \in DOMAIN r /\ \A i \in DOMAIN seen : i \in DOMAIN r /\ r[i] = seen[i]
    BY <1>6, <2>1
  <2>3. \A x : (\E i \in DOMAIN seen : seen[i] = x) \/ x = p => \E i \in DOMAIN r : r[i] = x
    BY <2>1, <2>2, Zenon
  <2> QED BY <2>1, <2>3, Zenon DEF r
<1>9. seen' \in Seq(P) /\ (Len(seen') < MAX_INCLUDES => Len(seen) < MAX_INCLUDES)
  <2>1. MAX_INCLUDES \in Nat
    BY CapacityAssumption
  <2>2. CASE ~Skipping /\ Len(seen) < MAX_INCLUDES
    BY <1>1, <1>6, <1>8, <2>1, <2>2 DEF p
  <2>3. CASE ~(~Skipping /\ Len(seen) < MAX_INCLUDES)
    BY <1>1, <1>6, <2>3
  <2> QED BY <2>2, <2>3
<1>10. SeenOrStarting'
  <2> SUFFICES ASSUME Len(seen) < MAX_INCLUDES, NEW i \in DOMAIN entered, StartsOnce(entered[i])
               PROVE  \E j \in DOMAIN seen' : seen'[j] = entered[i]
    BY <1>1, <1>9, Zenon DEF SeenOrStarting, StartsOnce, FileSeen
  <2>1. CASE FileSeen(entered[i])
    BY <1>1, <1>8, <2>1, Zenon DEF FileSeen, p
  <2>2. CASE AtStart(entered[i])
    <3>1. ~Skipping /\ entered[i] = p
      BY <2>2 DEF OnceInv, AtStart, p
    <3>2. seen' = Append(seen, p)
      BY <1>1, <3>1 DEF p
    <3> QED BY <1>8, <3>1, <3>2, Zenon
  <2> QED BY <2>1, <2>2 DEF OnceInv, SeenOrStarting
<1>11. OncePerFile'
  BY <1>1, <1>9, Zenon DEF OnceInv, OncePerFile
<1> QED BY <1>1, <1>4, <1>5, <1>9, <1>10, <1>11, Zenon DEF OnceInv, P

\* #include: the file it enters, if it starts with #pragma once, was never entered.
LEMMA EnterOnce ==
    ASSUME InputsTyped, OnceInv, AtLine("include"), ~Skipping, NEW full \in DOMAIN files, ~FileSeen(full),
           frames' = Append([frames EXCEPT ![Len(frames)].next = @ + 1], [path |-> full, next |-> 1]),
           entered' = Append(entered, full), UNCHANGED <<files, seen, ifs>>
    PROVE  OnceInv'
<1> DEFINE fs == [frames EXCEPT ![Len(frames)].next = @ + 1]
           F == [path : DOMAIN files, next : Nat \ {0}]
           P == DOMAIN files
           t == [path |-> full, next |-> 1]
<1>1. frames # <<>> /\ files' = files /\ seen' = seen /\ ifs' = ifs /\ frames' = Append(fs, t)
  BY DEF AtLine, Running
<1>2. fs \in Seq(F) /\ \A i \in 1..Len(fs) : fs[i].next >= 2
  BY <1>1, NextLineFrames, Zenon
<1>3. t \in F /\ t.next = 1 /\ t.path = full
  OBVIOUS
<1>4. entered \in Seq(P) /\ full \in P
  BY DEF OnceInv
<1> HIDE DEF fs, F, P, t
<1>5. /\ Len(fs) \in Nat /\ Len(frames') = Len(fs) + 1 /\ frames' # <<>> /\ frames'[Len(fs) + 1] = t
      /\ \A i \in 1..Len(fs) : frames'[i] = fs[i]
  <2>1. fs \in Seq(F) /\ t \in F /\ frames' = Append(fs, t)
    BY <1>1, <1>2, <1>3
  <2> QED BY ONLY <2>1, Longer
<1>6. Top' = t
  <2>1. frames'[Len(frames')] = t
    BY <1>5
  <2> QED BY <2>1 DEF Top
<1>7. \A i \in 1..Len(frames') - 1 : frames'[i].next >= 2
  <2>1. 1..Len(frames') - 1 = 1..Len(fs)
    BY <1>5
  <2> QED BY <1>2, <1>5, <2>1, Zenon
<1>8. /\ entered' \in Seq(P) /\ Len(entered) \in Nat /\ DOMAIN entered = 1..Len(entered)
      /\ DOMAIN entered' = 1..Len(entered) + 1
      /\ entered'[Len(entered) + 1] = full /\ \A i \in 1..Len(entered) : entered'[i] = entered[i]
  BY <1>4
<1>9. ~Skipping'
  BY <1>1 DEF Skipping
<1>10. Len(seen) < MAX_INCLUDES =>
          \A i \in DOMAIN entered : StartsOnce(entered[i]) => FileSeen(entered[i]) /\ entered[i] # full
  BY OthersSeen, Zenon
<1>11. SeenOrStarting'
  <2> SUFFICES ASSUME Len(seen) < MAX_INCLUDES, NEW i \in DOMAIN entered', StartsOnce(entered'[i])
               PROVE  FileSeen(entered'[i]) \/ entered'[i] = full
    BY <1>1, <1>3, <1>5, <1>6 DEF SeenOrStarting, StartsOnce, FileSeen, AtStart
  <2>1. CASE i = Len(entered) + 1
    BY <1>8, <2>1
  <2>2. CASE i # Len(entered) + 1
    <3>1. i \in 1..Len(entered)
      BY <1>8, <2>2
    <3> QED BY <1>8, <1>10, <3>1, Zenon
  <2> QED BY <2>1, <2>2
<1>12. OncePerFile'
  <2> SUFFICES ASSUME Len(seen) < MAX_INCLUDES, NEW i \in DOMAIN entered', NEW j \in DOMAIN entered',
                      entered'[i] = entered'[j], StartsOnce(entered'[i])
               PROVE  i = j
    BY <1>1, Zenon DEF OncePerFile, StartsOnce
  <2> DEFINE n == Len(entered) + 1
  <2>1. i # n => i \in 1..Len(entered)
    BY <1>8
  <2>2. j # n => j \in 1..Len(entered)
    BY <1>8
  <2> HIDE DEF n
  <2>3. ASSUME NEW a \in 1..Len(entered), StartsOnce(entered[a]) PROVE entered[a] # full
    BY <1>8, <1>10, <2>3, Zenon
  <2>4. entered'[n] = full
    BY <1>8 DEF n
  <2>5. CASE i = n /\ j # n
    BY <1>8, <2>2, <2>3, <2>4, <2>5, Zenon
  <2>6. CASE i # n /\ j = n
    BY <1>8, <2>1, <2>3, <2>4, <2>6, Zenon
  <2>7. CASE i # n /\ j # n
    <3>1. i \in DOMAIN entered /\ j \in DOMAIN entered /\ entered'[i] = entered[i] /\ entered'[j] = entered[j]
      BY <1>8, <2>1, <2>2, <2>7, Zenon
    <3>2. entered[i] = entered[j] /\ files[entered[i]] # <<>> /\ files[entered[i]][1].d = "once"
      BY <3>1, Zenon DEF StartsOnce
    <3> QED BY <3>1, <3>2, Zenon DEF OnceInv, OncePerFile
  <2>8. CASE i = n /\ j = n
    BY <2>8
  <2> QED BY <2>5, <2>6, <2>7, <2>8
<1> QED BY <1>1, <1>7, <1>8, <1>9, <1>11, <1>12, Zenon DEF OnceInv, P

\* The end of a file: its includer is past its first line.
LEMMA EndFileOnce == ASSUME InputsTyped, OnceInv, EndFile PROVE OnceInv'
<1> DEFINE F == [path : DOMAIN files, next : Nat \ {0}]
<1>1. frames # <<>> /\ Top.next > Len(files[Top.path]) /\ frames' = SubSeq(frames, 1, Len(frames) - 1)
      /\ files' = files /\ seen' = seen /\ entered' = entered
  BY DEF EndFile, Running, Front
<1>2. frames \in Seq(F) /\ \A i \in 1..Len(frames) - 1 : frames[i].next >= 2
  BY DEF InputsTyped, OnceInv
<1> HIDE DEF F
<1>3. /\ Len(frames) \in Nat \ {0} /\ Len(frames') = Len(frames) - 1
      /\ \A i \in 1..Len(frames) - 1 : frames'[i] = frames[i]
  BY <1>1, <1>2, Shorter, Zenon
<1>4. \A i \in 1..Len(frames') : frames'[i].next >= 2
  BY <1>2, <1>3
<1>5. frames' # <<>> => Top'.next >= 2
  <2> SUFFICES ASSUME frames' # <<>> PROVE Top'.next >= 2
    OBVIOUS
  <2>1. frames' \in Seq(F)
    BY <1>1, <1>2, <1>3
  <2>2. Len(frames') \in 1..Len(frames')
    BY <2>1
  <2> QED BY <1>4, <2>2, Zenon DEF Top
<1>6. frames' # <<>> => Top'.next # 1
  <2>1. ~(1 >= 2)
    OBVIOUS
  <2> QED BY <1>5, <2>1, Zenon
<1>7. \A i \in 1..Len(frames') - 1 : frames'[i].next >= 2
  BY <1>3, <1>4
<1>8. SeenOrStarting'
  <2> SUFFICES ASSUME Len(seen) < MAX_INCLUDES, NEW i \in DOMAIN entered, StartsOnce(entered[i]),
                      AtStart(entered[i])
               PROVE  FALSE
    BY <1>1, Zenon DEF SeenOrStarting, StartsOnce, FileSeen, OnceInv
  <2>1. entered[i] \in DOMAIN files /\ files[entered[i]] # <<>> /\ 1 > Len(files[entered[i]])
    <3>1. entered[i] = Top.path /\ Top.next = 1
      BY DEF AtStart
    <3>2. Top.path \in DOMAIN files
      BY <1>1, TopTyped
    <3> QED BY <1>1, <3>1, <3>2 DEF StartsOnce
  <2> DEFINE R == [d : STRING, arg : STRING, body : STRING]
  <2>2. files[entered[i]] \in Seq(R)
    BY <2>1, ProgramAssumption, Zenon DEF InputsTyped
  <2> HIDE DEF R
  <2> QED BY <2>1, <2>2
<1>9. OncePerFile'
  BY <1>1 DEF OnceInv, OncePerFile
<1> QED BY <1>1, <1>6, <1>7, <1>8, <1>9, Zenon DEF OnceInv


\* Every step keeps it.
LEMMA OnceKept == ASSUME InputsTyped, OnceInv, [Next]_vars PROVE OnceInv'
<1>1. ASSUME UNCHANGED <<files, seen, entered, frames, ifs>> PROVE OnceInv'
  BY <1>1 DEF OnceInv, SeenOrStarting, OncePerFile, StartsOnce, AtStart, FileSeen, Top, Skipping
<1>2. ASSUME Predefine \/ StartFile \/ Fatal \/ UNCHANGED vars PROVE OnceInv'
  BY <1>1, <1>2 DEF Predefine, StartFile, Fatal, vars
<1>3. ASSUME NEW k, AtLine(k), k # "once", NextLine, UNCHANGED <<files, seen, entered>> PROVE OnceInv'
  BY <1>3, NextLineOnce
<1>4. ASSUME Text PROVE OnceInv'
  BY <1>3, <1>4 DEF Text
<1>5. ASSUME DefineLine PROVE OnceInv'
  BY <1>3, <1>5 DEF DefineLine
<1>6. ASSUME UndefLine PROVE OnceInv'
  BY <1>3, <1>6 DEF UndefLine
<1>7. ASSUME IfdefLine \/ IfndefLine PROVE OnceInv'
  BY <1>3, <1>7 DEF IfdefLine, IfndefLine, OpenDefined, Open
<1>8. ASSUME IfLine PROVE OnceInv'
  BY <1>3, <1>8 DEF IfLine, Open
<1>9. ASSUME ElifLine PROVE OnceInv'
  BY <1>3, <1>9 DEF ElifLine
<1>10. ASSUME ElseLine PROVE OnceInv'
  BY <1>3, <1>10 DEF ElseLine
<1>11. ASSUME EndifLine PROVE OnceInv'
  BY <1>3, <1>11 DEF EndifLine
<1>12. ASSUME ErrorLine PROVE OnceInv'
  BY <1>3, <1>12, Zenon DEF ErrorLine
<1>13. ASSUME OtherLine PROVE OnceInv'
  BY <1>3, <1>13 DEF OtherLine
<1>14. ASSUME IncludeLine PROVE OnceInv'
  <2>1. AtLine("include") /\ files' = files /\ seen' = seen /\ ifs' = ifs
    BY <1>14 DEF IncludeLine
  <2>2. CASE NextLine /\ entered' = entered
    BY <1>3, <2>1, <2>2
  <2>3. ASSUME ~Skipping, NEW full \in FindInclude(Line.arg, Line.body = "<>"), ~FileSeen(full),
               frames' = Append([frames EXCEPT ![Len(frames)].next = @ + 1], [path |-> full, next |-> 1]),
               entered' = Append(entered, full)
        PROVE  OnceInv'
    <3>1. full \in DOMAIN files
      BY DEF FindInclude
    <3> QED BY <2>1, <2>3, <3>1, EnterOnce
  <2> QED BY <1>14, <2>2, <2>3, Zenon DEF IncludeLine
<1>15. ASSUME OnceLine PROVE OnceInv'
  BY <1>15, OnceLineOnce
<1>16. ASSUME EndFile PROVE OnceInv'
  BY <1>16, EndFileOnce
<1> QED BY <1>2, <1>4, <1>5, <1>6, <1>7, <1>8, <1>9, <1>10, <1>11, <1>12, <1>13, <1>14, <1>15, <1>16 DEF Next

\* A file that starts with #pragma once is processed once while the table has room,
\* whatever includes it and in however many places (is_pragma_once, file_seen).
THEOREM OnceMeansOnce == Spec => []OncePerFile
<1>1. Init => InputsTyped /\ OnceInv
  <2> SUFFICES ASSUME Init PROVE OnceInv
    BY InitInv
  <2>1. /\ Main \in DOMAIN files /\ ifs = <<>> /\ seen = <<>> /\ entered = <<Main>>
        /\ frames = <<[path |-> Main, next |-> 1]>>
    BY DEF Init
  <2>2. Top = [path |-> Main, next |-> 1] /\ Len(frames) = 1 /\ frames # <<>>
    BY <2>1 DEF Top
  <2>3. SeenOrStarting
    BY <2>1, <2>2 DEF SeenOrStarting, AtStart
  <2>4. OncePerFile
    BY <2>1 DEF OncePerFile
  <2> QED BY <2>1, <2>2, <2>3, <2>4 DEF OnceInv, Skipping
<1>2. InputsTyped /\ OnceInv /\ [Next]_vars => InputsTyped' /\ OnceInv'
  BY FramesKept, OnceKept
<1>3. OnceInv => OncePerFile
  BY DEF OnceInv
<1> QED BY <1>1, <1>2, <1>3, PTL DEF Spec
=============================================================================
