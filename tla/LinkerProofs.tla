---------------------------- MODULE LinkerProofs ----------------------------
(***************************************************************************)
(* Proofs about Linker for every set of objects and every command line:    *)
(* the types, the layout, the uniqueness of global symbols, the image, the *)
(* words that relocations patch and the symbols they are bound to.         *)
(***************************************************************************)
EXTENDS Linker, TLAPS

\* The time the provers are given for a leaf that names none.
USE SMTT(20), ZenonT(20)

Early == {"args", "archive"}
SymbolSet == UNION {Range(o.syms) : o \in Objects}
GlobalSet == {[name |-> e[2].name, obj |-> e[1], sec |-> e[2].sec, value |-> e[2].value] :
                 e \in Nat \X SymbolSet}

\* What has been read so far.
InputsTyped ==
    /\ args \in Seq(Arguments)
    /\ phase = "archive" => args # <<>>
    /\ arch.rest \in Seq(Objects)
    /\ objs \in Seq(Objects)
    /\ Len(objs) <= MAX_OBJECTS
    /\ ring1 \in BOOLEAN

LoopTyped ==
    /\ phase \in Loops \cup {"args", "archive", "emit", "done", "failed", "help"}
    /\ cur \in [o : Nat \ {0}, k : Nat \ {0}]

\* The sections laid out belong to loaded objects, and during the layout the
\* loop has passed them: the next one is not among them.
Placed ==
    /\ \A p \in DOMAIN dataOff : /\ p \in (Nat \ {0}) \X (Nat \ {0})
                                 /\ p[1] \in DOMAIN objs /\ p[2] \in DOMAIN objs[p[1]].secs
                                 /\ dataOff[p] \in Nat
    /\ phase \in Early => DOMAIN dataOff = {}
    /\ phase = "layout" =>
          \A p \in DOMAIN dataOff : p[1] < cur.o \/ (p[1] = cur.o /\ p[2] < cur.k)
    /\ outSize \in [SecTypes -> Nat]

GlobalsTyped ==
    /\ globals \in Seq(GlobalSet)
    /\ Len(globals) <= MAX_SYMS
    /\ \A i \in DOMAIN globals : globals[i].obj \in DOMAIN objs

\* The inductive invariant.
IInv ==
    /\ InputsTyped
    /\ LoopTyped
    /\ Placed
    /\ SectionsApart
    /\ GlobalsTyped
    /\ OneDefinition

-----------------------------------------------------------------------------

\* Rounding an offset up to an alignment never moves it back.
LEMMA RoundUpBounds ==
  ASSUME NEW n \in Nat, NEW a \in Nat \ {0}
  PROVE  RoundUp(n, a) \in Nat /\ n <= RoundUp(n, a)
<1> DEFINE q == (n + a - 1) \div a
           m == (n + a - 1) % a
<1>1. q \in Nat /\ m \in 0 .. a - 1 /\ n + a - 1 = a * q + m
  OBVIOUS
<1>2. a * q = q * a /\ q * a \in Nat
  BY <1>1
<1>3. RoundUp(n, a) = q * a
  BY DEF RoundUp
<1> HIDE DEF q, m
<1>4. n <= a * q
  <2>1. a * q \in Nat
    BY <1>1, <1>2
  <2> QED BY <1>1, <2>1
<1> QED BY <1>2, <1>3, <1>4

\* The state before any argument is read satisfies the invariant.
LEMMA InitIInv == Init => IInv
<1> SUFFICES ASSUME Init PROVE IInv
  OBVIOUS
<1>1. InputsTyped
  <2>1. args \in Seq(Arguments) /\ ring1 \in BOOLEAN
    BY ArgumentAssumption, Zenon DEF Init
  <2>2. arch.rest = <<>> /\ objs = <<>> /\ phase = "args"
    BY DEF Init, Closed
  <2> QED BY <2>1, <2>2, CapacityAssumption DEF InputsTyped
<1>2. LoopTyped
  BY DEF Init, LoopTyped, Start
<1>3. DOMAIN dataOff = {} /\ outSize \in [SecTypes -> Nat]
  BY DEF Init
<1>4. Placed
  BY <1>3 DEF Placed
<1>5. SectionsApart
  BY <1>3 DEF SectionsApart
<1>6. GlobalsTyped /\ OneDefinition
  BY CapacityAssumption DEF Init, GlobalsTyped, OneDefinition
<1> QED BY <1>1, <1>2, <1>4, <1>5, <1>6 DEF IInv

\* A step that changes neither objects, layout nor symbols, and does not move
\* the layout loop back, keeps the invariant.
LEMMA FrameIInv ==
  ASSUME IInv, UNCHANGED <<objs, dataOff, outSize, globals>>,
         args' \in Seq(Arguments), phase' = "archive" => args' # <<>>, arch'.rest \in Seq(Objects), ring1' \in BOOLEAN,
         phase' \in Early => phase \in Early,
         phase' \in Loops \cup {"args", "archive", "emit", "done", "failed", "help"},
         cur' \in [o : Nat \ {0}, k : Nat \ {0}],
         phase' = "layout" =>
             phase \in Early \/ (phase = "layout" /\ (cur' = cur \/ cur.o < cur'.o))
  PROVE  IInv'
<1>1. InputsTyped' /\ LoopTyped'
  BY ZenonT(40) DEF IInv, InputsTyped, LoopTyped
<1>2. SectionsApart' /\ OneDefinition' /\ GlobalsTyped'
  BY DEF IInv, SectionsApart, OneDefinition, GlobalsTyped, SecEnd, SecAt
<1>3. Placed'
  <2>1. /\ \A p \in DOMAIN dataOff' : /\ p \in (Nat \ {0}) \X (Nat \ {0})
                                 /\ p[1] \in DOMAIN objs' /\ p[2] \in DOMAIN objs'[p[1]].secs
                                 /\ dataOff'[p] \in Nat
        /\ outSize' \in [SecTypes -> Nat]
        /\ phase' \in Early => DOMAIN dataOff' = {}
    BY DEF IInv, Placed
  <2>2. ASSUME phase' = "layout", NEW p \in DOMAIN dataOff'
        PROVE  p[1] < cur'.o \/ (p[1] = cur'.o /\ p[2] < cur'.k)
    <3>1. p \in DOMAIN dataOff /\ p[1] \in Nat /\ p[2] \in Nat
      BY DEF IInv, Placed
    <3>2. CASE phase \in Early
      BY <3>1, <3>2 DEF IInv, Placed
    <3>3. CASE phase = "layout"
      <4>1. p[1] < cur.o \/ (p[1] = cur.o /\ p[2] < cur.k)
        BY <3>1, <3>3 DEF IInv, Placed
      <4>2. cur.o \in Nat
        BY DEF IInv, LoopTyped
      <4> QED BY <2>2, <3>1, <3>3, <4>1, <4>2 DEF Early
    <3> QED BY <2>2, <3>2, <3>3
  <2> QED BY <2>1, <2>2 DEF Placed
<1> QED BY <1>1, <1>2, <1>3 DEF IInv

\* Reading an option, or failing, or closing an archive.
LEMMA FailIInv == IInv /\ Fail => IInv'
<1> SUFFICES ASSUME IInv, Fail PROVE IInv'
  OBVIOUS
<1>1. args \in Seq(Arguments) /\ arch.rest \in Seq(Objects) /\ ring1 \in BOOLEAN
  BY DEF IInv, InputsTyped
<1>2. cur \in [o : Nat \ {0}, k : Nat \ {0}]
  BY DEF IInv, LoopTyped
<1>3. phase' = "failed" /\ UNCHANGED <<args, arch, ring1, objs, cur, dataOff, outSize, globals>>
  BY DEF Fail, inputs
<1> QED BY <1>1, <1>2, <1>3, FrameIInv DEF Early

\* A file or member that parse_object accepts: before the layout, a longer
\* list of objects keeps the invariant.
LEMMA LoadIInv ==
  ASSUME IInv, phase \in Early, phase' = phase, Len(objs) < MAX_OBJECTS,
         NEW o \in Objects, objs' = Append(objs, o),
         args' \in Seq(Arguments), phase' = "archive" => args' # <<>>, arch'.rest \in Seq(Objects),
         UNCHANGED <<ring1, cur, dataOff, outSize, globals>>
  PROVE  IInv'
<1>1. /\ objs \in Seq(Objects) /\ objs' \in Seq(Objects) /\ Len(objs') = Len(objs) + 1
      /\ DOMAIN objs \subseteq DOMAIN objs'
  BY DEF IInv, InputsTyped
<1>2. InputsTyped'
  BY <1>1, CapacityAssumption DEF IInv, InputsTyped
<1>3. LoopTyped'
  BY DEF IInv, LoopTyped
<1>4. DOMAIN dataOff' = {} /\ outSize' \in [SecTypes -> Nat]
  BY DEF IInv, Placed
<1>5. Placed' /\ SectionsApart'
  BY <1>4 DEF Placed, SectionsApart
<1>6. GlobalsTyped' /\ OneDefinition'
  BY <1>1 DEF IInv, GlobalsTyped, OneDefinition
<1> QED BY <1>2, <1>3, <1>5, <1>6 DEF IInv

\* Every step of main that reads the arguments keeps the invariant.
LEMMA ArgumentsIInv ==
  IInv /\ (Option \/ Help \/ LoadObject \/ OpenArchive \/ ReadMember \/ CloseArchive \/ BeginLayout)
    => IInv'
<1> SUFFICES ASSUME IInv,
                    Option \/ Help \/ LoadObject \/ OpenArchive \/ ReadMember \/ CloseArchive \/ BeginLayout
             PROVE  IInv'
  OBVIOUS
<1>1. /\ args \in Seq(Arguments) /\ arch.rest \in Seq(Objects) /\ objs \in Seq(Objects)
      /\ ring1 \in BOOLEAN
  BY DEF IInv, InputsTyped
<1>2. cur \in [o : Nat \ {0}, k : Nat \ {0}]
  BY DEF IInv, LoopTyped
<1>3. args # <<>> => Head(args) \in Arguments /\ Tail(args) \in Seq(Arguments)
  BY <1>1
<1>0. phase = "archive" => args # <<>>
  BY DEF IInv, InputsTyped
<1>4. CASE Option
  <2>1. /\ phase = "args" /\ args # <<>> /\ args' = Tail(args) /\ ring1' \in BOOLEAN
        /\ UNCHANGED <<phase, arch, objs, cur, dataOff, outSize, globals>>
    BY <1>4 DEF Option
  <2> QED BY <1>1, <1>2, <1>3, <2>1, FrameIInv DEF Early
<1>5. CASE Help
  <2>1. phase' = "help" /\ UNCHANGED <<args, arch, ring1, objs, cur, dataOff, outSize, globals>>
    BY <1>5 DEF Help, inputs
  <2> QED BY <1>1, <1>2, <2>1, FrameIInv DEF Early
<1>6. CASE LoadObject
  <2>1. /\ phase = "args" /\ args # <<>> /\ args' = Tail(args) /\ Head(args).kind = "object"
        /\ Len(objs) < MAX_OBJECTS /\ objs' = Append(objs, Head(args).object)
        /\ UNCHANGED <<phase, arch, ring1, cur, dataOff, outSize, globals>>
    BY <1>6 DEF LoadObject, Parses
  <2>2. Head(args).object \in Objects
    BY <1>3, <2>1, ArgumentAssumption
  <2> QED BY <1>1, <1>3, <2>1, <2>2, LoadIInv DEF Early
<1>7. CASE OpenArchive
  <2>1. /\ phase = "args" /\ args # <<>> /\ Head(args).kind = "archive" /\ phase' = "archive"
        /\ arch'.rest = Head(args).members
        /\ UNCHANGED <<args, ring1, objs, cur, dataOff, outSize, globals>>
    BY <1>7 DEF OpenArchive
  <2>2. arch'.rest \in Seq(Objects)
    BY <1>3, <2>1, ArgumentAssumption
  <2> QED BY <1>1, <1>2, <2>1, <2>2, FrameIInv DEF Early
<1>8. CASE ReadMember
  <2>1. /\ phase = "archive" /\ arch.rest # <<>> /\ arch'.rest = Tail(arch.rest)
        /\ UNCHANGED <<phase, args, ring1, cur, dataOff, outSize, globals>>
    BY <1>8 DEF ReadMember
  <2>2. Head(arch.rest) \in Objects /\ arch'.rest \in Seq(Objects)
    BY <1>1, <2>1
  <2>3. \/ objs' = objs
        \/ objs' = Append(objs, Head(arch.rest)) /\ Len(objs) < MAX_OBJECTS
    BY <1>8 DEF ReadMember, Parses
  <2>4. CASE objs' = objs
    BY <1>1, <1>2, <1>0, <2>1, <2>2, <2>4, FrameIInv DEF Early
  <2>5. CASE objs' = Append(objs, Head(arch.rest)) /\ Len(objs) < MAX_OBJECTS
    BY <1>1, <1>0, <2>1, <2>2, <2>5, LoadIInv DEF Early
  <2> QED BY <2>3, <2>4, <2>5
<1>9. CASE CloseArchive
  <2>1. /\ phase = "archive" /\ phase' = "args" /\ args' = Tail(args) /\ arch'.rest = <<>>
        /\ UNCHANGED <<ring1, objs, cur, dataOff, outSize, globals>>
    BY <1>9 DEF CloseArchive, Closed
  <2>2. Tail(args) \in Seq(Arguments)
    BY <1>3, <1>0, <2>1
  <2> QED BY <1>1, <1>2, <2>1, <2>2, FrameIInv DEF Early
<1>10. CASE BeginLayout
  <2>1. /\ phase = "args" /\ phase' = "layout"
        /\ UNCHANGED <<args, arch, ring1, objs, cur, dataOff, outSize, globals>>
    BY <1>10 DEF BeginLayout, inputs
  <2> QED BY <1>1, <1>2, <2>1, FrameIInv DEF Early, Loops
<1> QED BY <1>4, <1>5, <1>6, <1>7, <1>8, <1>9, <1>10

\* The outer loops and the steps that only read the layout keep the invariant.
LEMMA LoopIInv ==
  IInv /\ (NextObject \/ NextLoop \/ CopySection \/ CheckSymbol \/ ApplyReloc \/ Emit) => IInv'
<1> SUFFICES ASSUME IInv, NextObject \/ NextLoop \/ CopySection \/ CheckSymbol \/ ApplyReloc \/ Emit
             PROVE  IInv'
  OBVIOUS
<1>1. args \in Seq(Arguments) /\ arch.rest \in Seq(Objects) /\ ring1 \in BOOLEAN
  BY DEF IInv, InputsTyped
<1>2. cur \in [o : Nat \ {0}, k : Nat \ {0}]
  BY DEF IInv, LoopTyped
<1>3. CASE NextObject
  <2>1. /\ phase \in Loops /\ cur' = [o |-> cur.o + 1, k |-> 1]
        /\ UNCHANGED <<phase, args, arch, ring1, objs, dataOff, outSize, globals>>
    BY <1>3 DEF NextObject, inputs
  <2>2. cur.o < cur'.o /\ cur' \in [o : Nat \ {0}, k : Nat \ {0}]
    BY <1>2, <2>1
  <2> QED BY <1>1, <2>1, <2>2, FrameIInv DEF Early, Loops
<1>4. CASE NextLoop
  <2>1. /\ phase' \in {"copy", "define", "undef", "relocate", "emit"} /\ cur' = [o |-> 1, k |-> 1]
        /\ UNCHANGED <<args, arch, ring1, objs, dataOff, outSize, globals>>
    BY <1>4 DEF NextLoop, inputs, Loops, Start
  <2> QED BY <1>1, <2>1, FrameIInv DEF Early, Loops
<1>5. CASE CopySection \/ CheckSymbol \/ ApplyReloc
  <2>1. /\ phase \in {"copy", "undef", "relocate"} /\ Advance
        /\ UNCHANGED <<phase, args, arch, ring1, objs, dataOff, outSize, globals>>
    BY <1>5, Zenon DEF CopySection, CheckSymbol, ApplyReloc, InLoop, inputs
  <2>2. cur' \in [o : Nat \ {0}, k : Nat \ {0}]
    BY <1>2, <2>1 DEF Advance
  <2> QED BY <1>1, <2>1, <2>2, FrameIInv DEF Early, Loops
<1>6. CASE Emit
  <2>1. /\ phase' = "done"
        /\ UNCHANGED <<args, arch, ring1, objs, cur, dataOff, outSize, globals>>
    BY <1>6 DEF Emit, inputs
  <2> QED BY <1>1, <1>2, <2>1, FrameIInv DEF Early
<1> QED BY <1>3, <1>4, <1>5, <1>6

\* merge_sections lays a section out behind those already in its merged section.
LEMMA PlaceIInv == IInv /\ PlaceSection => IInv'
<1> SUFFICES ASSUME IInv, PlaceSection PROVE IInv'
  OBVIOUS
<1>0. PICK c : c = <<cur.o, cur.k>>
  BY Zenon
<1> DEFINE s == objs[cur.o].secs[cur.k]
           off == RoundUp(outSize[s.type], IF s.align = 0 THEN 1 ELSE s.align)
<1>a. phase = "layout" /\ cur.o <= Len(objs) /\ cur.k <= Len(objs[cur.o].secs)
  BY Zenon DEF PlaceSection, InLoop, ItemCount
<1>b. dataOff' = Extend(dataOff, c, off)
  BY <1>0, Zenon DEF PlaceSection
<1>c. outSize' = [outSize EXCEPT ![s.type] = off + s.size]
  BY Zenon DEF PlaceSection
<1>1. cur' = [cur EXCEPT !.k = @ + 1] /\ UNCHANGED <<phase, args, arch, ring1, objs, globals>>
  BY Zenon DEF PlaceSection, Advance, inputs
<1>2. /\ cur \in [o : Nat \ {0}, k : Nat \ {0}] /\ objs \in Seq(Objects)
      /\ outSize \in [SecTypes -> Nat]
  BY DEF IInv, LoopTyped, InputsTyped, Placed
<1>3. cur.o \in DOMAIN objs /\ objs[cur.o] \in Objects
  BY <1>a, <1>2
<1>4. cur.k \in DOMAIN objs[cur.o].secs
  <2>1. objs[cur.o].secs \in Seq(Range(objs[cur.o].secs))
    BY <1>3, ObjectAssumption
  <2> QED BY <1>a, <1>2, <2>1
<1>5. s.type \in SecTypes /\ s.align \in Nat /\ s.size \in Nat
  BY <1>3, <1>4, ObjectAssumption
<1>6. off \in Nat /\ outSize[s.type] <= off
  <2>1. outSize[s.type] \in Nat
    BY <1>2, <1>5
  <2>2. (IF s.align = 0 THEN 1 ELSE s.align) \in Nat \ {0}
    BY <1>5
  <2> QED BY <2>1, <2>2, RoundUpBounds, Zenon
<1> HIDE DEF off
<1>7. \A p \in DOMAIN dataOff : p \in (Nat \ {0}) \X (Nat \ {0}) /\ p # c /\ dataOff[p] \in Nat
  <2> SUFFICES ASSUME NEW p \in DOMAIN dataOff
               PROVE  p \in (Nat \ {0}) \X (Nat \ {0}) /\ p # c /\ dataOff[p] \in Nat
    OBVIOUS
  <2>1. /\ p \in (Nat \ {0}) \X (Nat \ {0}) /\ dataOff[p] \in Nat
        /\ p[1] < cur.o \/ (p[1] = cur.o /\ p[2] < cur.k)
    BY <1>a DEF IInv, Placed
  <2>2. p # c
    BY <1>0, <1>2, <2>1
  <2> QED BY <2>1, <2>2
<1>8. /\ DOMAIN dataOff' = DOMAIN dataOff \cup {c}
      /\ dataOff'[c] = off
      /\ \A p \in DOMAIN dataOff : dataOff'[p] = dataOff[p]
  BY <1>b, <1>7 DEF Extend
<1>9. /\ outSize' \in [SecTypes -> Nat]
      /\ outSize'[s.type] = off + s.size
      /\ \A t \in SecTypes : outSize[t] <= outSize'[t]
  <2> HIDE DEF s
  <2> QED BY ONLY <1>c, <1>2, <1>5, <1>6
<1>10. \A p \in DOMAIN dataOff : /\ p[1] \in DOMAIN objs /\ p[2] \in DOMAIN objs[p[1]].secs
                                 /\ objs[p[1]] \in Objects
  BY <1>2 DEF IInv, Placed
<1>11. \A p \in DOMAIN dataOff : SecAt(p).type \in SecTypes /\ SecAt(p).size \in Nat
  BY <1>10, ObjectAssumption DEF SecAt
<1>12. SecAt(c) = s /\ \A p : SecAt(p)' = SecAt(p)
  BY <1>0, <1>1 DEF SecAt
<1>13. /\ SecEnd(c)' = off + s.size
       /\ \A p \in DOMAIN dataOff : SecEnd(p)' = SecEnd(p) /\ SecEnd(p) \in Nat
  <2> HIDE DEF s
  <2>1. SecEnd(c)' = off + s.size
    BY <1>8, <1>12 DEF SecEnd
  <2>2. ASSUME NEW p \in DOMAIN dataOff PROVE SecEnd(p)' = SecEnd(p) /\ SecEnd(p) \in Nat
    <3>1. dataOff'[p] = dataOff[p] /\ dataOff[p] \in Nat
      BY <1>7, <1>8
    <3>2. SecAt(p).size \in Nat /\ SecAt(p)' = SecAt(p)
      BY <1>11, <1>12
    <3> QED BY <3>1, <3>2 DEF SecEnd
  <2> QED BY <2>1, <2>2
<1>14. c \in (Nat \ {0}) \X (Nat \ {0}) /\ c[1] = cur.o /\ c[2] = cur.k
  BY <1>0, <1>2
<1> HIDE DEF s
<1>15. InputsTyped' /\ LoopTyped'
  <2>1. cur' \in [o : Nat \ {0}, k : Nat \ {0}]
    BY ONLY <1>1, <1>2
  <2> QED BY <1>1, <2>1 DEF IInv, InputsTyped, LoopTyped
<1>16. GlobalsTyped' /\ OneDefinition'
  BY <1>1 DEF IInv, GlobalsTyped, OneDefinition
<1>17. Placed'
  <2>1. ASSUME NEW p \in DOMAIN dataOff'
        PROVE  /\ p \in (Nat \ {0}) \X (Nat \ {0})
               /\ p[1] \in DOMAIN objs' /\ p[2] \in DOMAIN objs'[p[1]].secs
               /\ dataOff'[p] \in Nat
    <3>1. CASE p = c
      BY <1>1, <1>3, <1>4, <1>6, <1>8, <1>14, <3>1
    <3>2. CASE p \in DOMAIN dataOff
      BY <1>1, <1>7, <1>8, <1>10, <3>2
    <3> QED BY <1>8, <3>1, <3>2
  <2>2. ASSUME NEW p \in DOMAIN dataOff'
        PROVE  p[1] < cur'.o \/ (p[1] = cur'.o /\ p[2] < cur'.k)
    <3>1. cur'.o = cur.o /\ cur'.k = cur.k + 1 /\ cur.o \in Nat /\ cur.k \in Nat
      BY <1>1, <1>2
    <3>2. CASE p = c
      BY <1>14, <3>1, <3>2
    <3>3. CASE p \in DOMAIN dataOff
      <4>1. p[1] < cur.o \/ (p[1] = cur.o /\ p[2] < cur.k)
        BY <1>a, <3>3 DEF IInv, Placed
      <4>2. p[2] \in Nat
        BY <1>7, <3>3
      <4> QED BY <3>1, <4>1, <4>2
    <3> QED BY <1>8, <3>2, <3>3
  <2> QED BY <1>a, <1>1, <1>9, <2>1, <2>2 DEF Placed, Early
<1>18. \A p \in DOMAIN dataOff' : SecEnd(p)' <= outSize'[SecAt(p)'.type]
  <2> SUFFICES ASSUME NEW p \in DOMAIN dataOff' PROVE SecEnd(p)' <= outSize'[SecAt(p)'.type]
    OBVIOUS
  <2>1. CASE p = c
    <3>1. SecEnd(p)' = off + s.size /\ SecAt(p)' = s
      BY <1>12, <1>13, <2>1
    <3>2. off + s.size <= off + s.size
      BY <1>5, <1>6
    <3> QED BY <1>9, <3>1, <3>2
  <2>2. CASE p \in DOMAIN dataOff
    <3>1. SecEnd(p) <= outSize[SecAt(p).type]
      BY <2>2 DEF IInv, SectionsApart
    <3>2. SecAt(p).type \in SecTypes
      BY <1>11, <2>2
    <3>3. /\ SecEnd(p)' = SecEnd(p) /\ SecEnd(p) \in Nat /\ SecAt(p)' = SecAt(p)
          /\ outSize[SecAt(p).type] \in Nat /\ outSize'[SecAt(p).type] \in Nat
          /\ outSize[SecAt(p).type] <= outSize'[SecAt(p).type]
      BY <1>2, <1>9, <1>12, <1>13, <2>2, <3>2
    <3> QED BY <3>1, <3>3
  <2> QED BY <1>8, <2>1, <2>2
\* A section already placed in the same merged section ends where the new one starts.
<1>19. ASSUME NEW p \in DOMAIN dataOff, SecAt(p).type = s.type
       PROVE  SecEnd(p)' <= dataOff'[c]
  <2>1. SecEnd(p) <= outSize[s.type]
    BY <1>19 DEF IInv, SectionsApart
  <2>2. outSize[s.type] \in Nat /\ SecEnd(p)' = SecEnd(p) /\ SecEnd(p) \in Nat /\ dataOff'[c] = off
    BY <1>2, <1>5, <1>8, <1>13
  <2> QED BY <1>6, <2>1, <2>2
<1>20. ASSUME NEW p \in DOMAIN dataOff', NEW q \in DOMAIN dataOff', p # q,
              SecAt(p)'.type = SecAt(q)'.type
       PROVE  SecEnd(p)' <= dataOff'[q] \/ SecEnd(q)' <= dataOff'[p]
  <2>1. CASE p = c
    BY <1>8, <1>12, <1>19, <1>20, <2>1
  <2>2. CASE q = c
    BY <1>8, <1>12, <1>19, <1>20, <2>2
  <2>3. CASE p \in DOMAIN dataOff /\ q \in DOMAIN dataOff
    <3>1. SecEnd(p) <= dataOff[q] \/ SecEnd(q) <= dataOff[p]
      BY <1>12, <1>20, <2>3 DEF IInv, SectionsApart
    <3> QED BY <1>8, <1>13, <2>3, <3>1
  <2> QED BY <1>8, <2>1, <2>2, <2>3
<1>21. SectionsApart'
  BY <1>18, <1>20 DEF SectionsApart
<1> QED BY <1>15, <1>16, <1>17, <1>21 DEF IInv

\* build_global_symbol_table adds a name only when no entry has it.
LEMMA DefineIInv == IInv /\ DefineSymbol => IInv'
<1> SUFFICES ASSUME IInv, DefineSymbol PROVE IInv'
  OBVIOUS
<1> DEFINE s == objs[cur.o].syms[cur.k]
           g == [name |-> s.name, obj |-> cur.o, sec |-> s.sec, value |-> s.value]
<1>1. /\ phase = "define" /\ cur.o <= Len(objs) /\ cur.k <= Len(objs[cur.o].syms)
      /\ cur' = [cur EXCEPT !.k = @ + 1]
      /\ UNCHANGED <<phase, args, arch, ring1, objs, dataOff, outSize>>
  BY DEF DefineSymbol, InLoop, ItemCount, Advance, inputs
<1>2. cur \in [o : Nat \ {0}, k : Nat \ {0}] /\ objs \in Seq(Objects)
  BY DEF IInv, LoopTyped, InputsTyped
<1>3. cur' \in [o : Nat \ {0}, k : Nat \ {0}]
  BY <1>1, <1>2
<1>4. args \in Seq(Arguments) /\ arch.rest \in Seq(Objects) /\ ring1 \in BOOLEAN
  BY DEF IInv, InputsTyped
<1>5. CASE UNCHANGED globals
  BY <1>1, <1>3, <1>4, <1>5, FrameIInv DEF Early, Loops
<1>6. CASE ~Found(s.name) /\ Len(globals) < MAX_SYMS /\ globals' = Append(globals, g)
  <2>1. cur.o \in DOMAIN objs /\ objs[cur.o] \in Objects
    BY <1>1, <1>2
  <2>2. s \in SymbolSet
    <3>1. objs[cur.o].syms \in Seq(Range(objs[cur.o].syms))
      BY <2>1, ObjectAssumption
    <3>2. cur.k \in 1 .. Len(objs[cur.o].syms)
      BY <1>1, <1>2, <3>1
    <3>3. s \in Range(objs[cur.o].syms)
      BY <3>1, <3>2
    <3> QED BY <2>1, <3>3 DEF SymbolSet
  <2> HIDE DEF s
  <2>3. g \in GlobalSet
    <3>1. <<cur.o, s>> \in Nat \X SymbolSet
      BY <1>2, <2>2
    <3> QED BY <3>1 DEF GlobalSet
  <2>4. g.name = s.name /\ g.obj \in DOMAIN objs
    BY <2>1
  <2> HIDE DEF g
  <2>5. globals \in Seq(GlobalSet) /\ Len(globals) \in Nat
    BY DEF IInv, GlobalsTyped
  <2>6. /\ globals' \in Seq(GlobalSet) /\ Len(globals') = Len(globals) + 1
        /\ DOMAIN globals' = 1 .. Len(globals) + 1 /\ DOMAIN globals = 1 .. Len(globals)
        /\ globals'[Len(globals) + 1] = g
        /\ \A i \in 1 .. Len(globals) : globals'[i] = globals[i]
    BY <1>6, <2>3, <2>5
  <2>7. Len(globals') <= MAX_SYMS
    BY <1>6, <2>5, <2>6, CapacityAssumption
  <2>8. ASSUME NEW i \in DOMAIN globals'
        PROVE  i \in 1 .. Len(globals) \/ i = Len(globals) + 1
    BY <2>5, <2>6
  <2>9. GlobalsTyped'
    <3>1. ASSUME NEW i \in DOMAIN globals' PROVE globals'[i].obj \in DOMAIN objs
      <4>1. CASE i \in 1 .. Len(globals)
        BY <2>6, <4>1 DEF IInv, GlobalsTyped
      <4>2. CASE i = Len(globals) + 1
        BY <2>4, <2>6, <4>2
      <4> QED BY <2>8, <4>1, <4>2
    <3> QED BY <1>1, <2>6, <2>7, <3>1 DEF GlobalsTyped
  <2>10. \A i \in 1 .. Len(globals) : globals[i].name # s.name
    BY <1>6, <2>6 DEF Found
  <2>11. OneDefinition'
    <3>1. ASSUME NEW i \in DOMAIN globals', NEW j \in DOMAIN globals',
                 globals'[i].name = globals'[j].name
          PROVE  i = j
      <4>1. CASE i \in 1 .. Len(globals) /\ j \in 1 .. Len(globals)
        BY <2>6, <3>1, <4>1 DEF IInv, OneDefinition
      <4>2. CASE i \in 1 .. Len(globals) /\ j = Len(globals) + 1
        BY <2>4, <2>6, <2>10, <3>1, <4>2
      <4>3. CASE i = Len(globals) + 1 /\ j \in 1 .. Len(globals)
        BY <2>4, <2>6, <2>10, <3>1, <4>3
      <4> QED BY <2>8, <4>1, <4>2, <4>3
    <3> QED BY <3>1 DEF OneDefinition
  <2>12. InputsTyped' /\ LoopTyped'
    BY <1>1, <1>3, ZenonT(40) DEF IInv, InputsTyped, LoopTyped
  <2>13. Placed' /\ SectionsApart'
    BY <1>1, ZenonT(40) DEF IInv, Placed, SectionsApart, SecEnd, SecAt, Early
  <2> QED BY <2>9, <2>11, <2>12, <2>13 DEF IInv
<1> QED BY <1>5, <1>6 DEF DefineSymbol

\* Every step of the linker keeps the invariant.
LEMMA NextIInv == IInv /\ [Next]_vars => IInv'
<1> SUFFICES ASSUME IInv, [Next]_vars PROVE IInv'
  OBVIOUS
<1>1. CASE UNCHANGED vars
  <2>1. args \in Seq(Arguments) /\ arch.rest \in Seq(Objects) /\ ring1 \in BOOLEAN
    BY DEF IInv, InputsTyped
  <2>2. /\ cur \in [o : Nat \ {0}, k : Nat \ {0}]
        /\ phase \in Loops \cup {"args", "archive", "emit", "done", "failed", "help"}
    BY DEF IInv, LoopTyped
  <2>3. UNCHANGED <<phase, args, arch, ring1, objs, cur, dataOff, outSize, globals>>
    BY <1>1 DEF vars
  <2>4. phase = "archive" => args # <<>>
    BY DEF IInv, InputsTyped
  <2> QED BY <2>1, <2>2, <2>3, <2>4, FrameIInv
<1>2. CASE \/ BadOption \/ LoadFails \/ ArchiveFails \/ NoInput \/ OutOfMemory
           \/ DefineFails \/ CheckFails \/ ApplyFails \/ EmitFails
  <2>1. Fail
    BY <1>2, Zenon DEF BadOption, LoadFails, ArchiveFails, NoInput, OutOfMemory, DefineFails, CheckFails,
                ApplyFails, EmitFails
  <2> QED BY <2>1, FailIInv
<1>3. CASE Option \/ Help \/ LoadObject \/ OpenArchive \/ ReadMember \/ CloseArchive \/ BeginLayout
  BY <1>3, ArgumentsIInv
<1>4. CASE NextObject \/ NextLoop \/ CopySection \/ CheckSymbol \/ ApplyReloc \/ Emit
  BY <1>4, LoopIInv
<1>5. CASE PlaceSection
  BY <1>5, PlaceIInv
<1>6. CASE DefineSymbol
  BY <1>6, DefineIInv
<1> QED BY <1>1, <1>2, <1>3, <1>4, <1>5, <1>6, Zenon DEF Next

-----------------------------------------------------------------------------

\* The inductive invariant holds in every reachable state, for every set of
\* objects and command line and every capacity of the tables.
THEOREM InvariantHolds == Spec => []IInv
BY InitIInv, NextIInv, PTL DEF Spec

\* No two sections share a byte of a merged section: what merge_sections
\* computes from sizes and alignments never overlaps.
THEOREM LayoutApart == Spec => []SectionsApart
<1>1. IInv => SectionsApart
  BY DEF IInv
<1> QED BY <1>1, InvariantHolds, PTL

\* The global symbol table never holds a name twice, so the first match of
\* find_global_sym is the only one.
THEOREM NamesUnique == Spec => []OneDefinition
<1>1. IInv => OneDefinition
  BY DEF IInv
<1> QED BY <1>1, InvariantHolds, PTL

\* The linker's tables stay in their types and within their capacities.
THEOREM TypeCorrect == Spec => []TypeOK
<1>1. IInv => TypeOK
  <2> SUFFICES ASSUME IInv PROVE TypeOK
    OBVIOUS
  <2>1. /\ phase \in Loops \cup {"args", "archive", "emit", "done", "failed", "help"}
        /\ cur.o \in Nat \ {0} /\ cur.k \in Nat \ {0}
    BY DEF IInv, LoopTyped
  <2>2. /\ \A t \in SecTypes : outSize[t] \in Nat
        /\ \A p \in DOMAIN dataOff : /\ p[1] \in DOMAIN objs /\ p[2] \in DOMAIN objs[p[1]].secs
                                     /\ dataOff[p] \in Nat
    BY DEF IInv, Placed
  <2>3. ring1 \in BOOLEAN /\ Len(objs) <= MAX_OBJECTS
    BY DEF IInv, InputsTyped
  <2>4. Len(globals) <= MAX_SYMS /\ \A i \in DOMAIN globals : globals[i].obj \in DOMAIN objs
    BY DEF IInv, GlobalsTyped
  <2> QED BY <2>1, <2>2, <2>3, <2>4 DEF TypeOK
<1> QED BY <1>1, InvariantHolds, PTL



-----------------------------------------------------------------------------
(* The image.                                                              *)

\* Global symbol g is symbol k of the object it names.
DefinedBy(g, k) ==
    LET s == objs[g.obj].syms[k]
    IN  Exported(s) /\ g = [name |-> s.name, obj |-> g.obj, sec |-> s.sec, value |-> s.value]

\* The image that emit_onx writes of the tables as they are.
ImageNow == <<[magic |-> LdMagic, ring1 |-> ring1, segs |-> Segments,
               entry |-> SymVaddr(globals[FindGlobalSym(entrySym)])]>>

GlobalsDefined == \A i \in DOMAIN globals : \E k \in DOMAIN objs[globals[i].obj].syms : DefinedBy(globals[i], k)
ImageInv ==
    /\ GlobalsDefined
    /\ phase \in Early => globals = <<>>
    /\ phase = "done" => Found(entrySym) /\ image = ImageNow

\* What the steps other than Emit and DefineSymbol do to the symbols.
LEMMA OtherSteps ==
  ASSUME Next, ~Emit, ~DefineSymbol
  PROVE  /\ globals' = globals /\ phase' # "done"
         /\ phase' \in Early => phase \in Early
         /\ objs' = objs \/ phase \in Early
<1>1. CASE Fail
  BY <1>1 DEF Fail, inputs, Early
<1>2. CASE \/ BadOption \/ LoadFails \/ ArchiveFails \/ NoInput \/ OutOfMemory
           \/ DefineFails \/ CheckFails \/ ApplyFails \/ EmitFails
  <2>1. Fail
    BY <1>2, Zenon DEF BadOption, LoadFails, ArchiveFails, NoInput, OutOfMemory, DefineFails, CheckFails,
                ApplyFails, EmitFails
  <2> QED BY <1>1, <2>1
<1>3. CASE Option \/ LoadObject
  BY <1>3 DEF Option, LoadObject, Early
<1>4. CASE Help \/ BeginLayout
  BY <1>4 DEF Help, BeginLayout, Early, inputs
<1>5. CASE OpenArchive \/ CloseArchive
  BY <1>5 DEF OpenArchive, CloseArchive, Early
<1>6. CASE ReadMember
  <2>1. phase = "archive" /\ phase' = phase /\ globals' = globals
    BY <1>6, Zenon DEF ReadMember
  <2> QED BY <2>1 DEF Early
<1>7. CASE NextObject
  BY <1>7 DEF NextObject, Loops, Early, inputs
<1>8. CASE NextLoop
  <2>1. phase \in Loops /\ phase' \in {"copy", "define", "undef", "relocate", "emit"}
    BY <1>8 DEF NextLoop, Loops
  <2>2. globals' = globals /\ objs' = objs
    BY <1>8 DEF NextLoop, inputs
  <2> QED BY <2>1, <2>2 DEF Early
<1>9. CASE PlaceSection \/ CopySection \/ CheckSymbol \/ ApplyReloc
  <2>1. phase \in Loops /\ phase' = phase /\ globals' = globals /\ objs' = objs
    BY <1>9, Zenon DEF PlaceSection, CopySection, CheckSymbol, ApplyReloc, InLoop, inputs, Loops
  <2> QED BY <2>1 DEF Loops, Early
<1> QED BY <1>2, <1>3, <1>4, <1>5, <1>6, <1>7, <1>8, <1>9, Zenon DEF Next

\* A symbol that build_global_symbol_table adds is one of an object.
LEMMA DefineImage == ASSUME IInv, ImageInv, DefineSymbol PROVE ImageInv'
<1> DEFINE s == objs[cur.o].syms[cur.k]
           g == [name |-> s.name, obj |-> cur.o, sec |-> s.sec, value |-> s.value]
<1>1. /\ phase = "define" /\ cur.o <= Len(objs) /\ cur.k <= Len(objs[cur.o].syms)
      /\ phase' = phase /\ objs' = objs
  BY DEF DefineSymbol, InLoop, ItemCount, inputs
<1>2. phase' \notin Early /\ phase' # "done"
  BY <1>1, ZenonT(40) DEF Early
<1>3. CASE globals' = globals
  BY <1>1, <1>2, <1>3 DEF ImageInv, GlobalsDefined, DefinedBy
<1>4. CASE Exported(s) /\ globals' = Append(globals, g)
  <2>1. cur \in [o : Nat \ {0}, k : Nat \ {0}] /\ objs \in Seq(Objects)
    BY DEF IInv, LoopTyped, InputsTyped
  <2>2. cur.o \in DOMAIN objs /\ objs[cur.o] \in Objects
    BY <1>1, <2>1
  <2>3. cur.k \in DOMAIN objs[cur.o].syms
    <3>1. objs[cur.o].syms \in Seq(Range(objs[cur.o].syms))
      BY <2>2, ObjectAssumption
    <3> QED BY <1>1, <2>1, <3>1
  <2> HIDE DEF s
  <2>4. g.obj = cur.o /\ g = [name |-> s.name, obj |-> g.obj, sec |-> s.sec, value |-> s.value]
    BY ZenonT(40)
  <2>5. DefinedBy(g, cur.k)
    BY <1>4, <2>4, ZenonT(40) DEF DefinedBy, s
  <2> HIDE DEF g
  <2>6. globals \in Seq(GlobalSet \cup {g})
    BY DEF IInv, GlobalsTyped
  <2>7. /\ Len(globals) \in Nat /\ DOMAIN globals = 1 .. Len(globals) /\ DOMAIN globals' = 1 .. Len(globals) + 1
        /\ globals'[Len(globals) + 1] = g
        /\ \A i \in 1 .. Len(globals) : globals'[i] = globals[i]
    BY <1>4, <2>6
  <2>8. ASSUME NEW i \in DOMAIN globals'
        PROVE  \E k \in DOMAIN objs[globals'[i].obj].syms : DefinedBy(globals'[i], k)
    <3>1. CASE i = Len(globals) + 1
      BY <2>3, <2>4, <2>5, <2>7, <3>1, Zenon
    <3>2. CASE i # Len(globals) + 1
      <4>1. i \in DOMAIN globals /\ globals'[i] = globals[i]
        BY <2>7, <3>2
      <4> QED BY <4>1, Zenon DEF ImageInv, GlobalsDefined
    <3> QED BY <3>1, <3>2
  <2>9. GlobalsDefined'
    BY <1>1, <2>8, Zenon DEF GlobalsDefined, DefinedBy
  <2> QED BY <1>2, <2>9 DEF ImageInv
<1> QED BY <1>3, <1>4, Zenon DEF DefineSymbol

\* The image of the tables depends on nothing else.
LEMMA TablesKept ==
  ASSUME UNCHANGED <<entrySym, ring1, objs, globals, dataOff, outSize>>
  PROVE  ImageNow' = ImageNow /\ (Found(entrySym)' <=> Found(entrySym)) /\ (GlobalsDefined' <=> GlobalsDefined)
<1>1. \A t : Vaddr(t)' = Vaddr(t)
  BY Zenon DEF Vaddr
<1>2. Segments' = Segments
  <2>1. SegVaddr' = SegVaddr
    BY Zenon DEF SegVaddr
  <2> QED BY <2>1, Zenon DEF Segments, Segment
<1>3. FindGlobalSym(entrySym)' = FindGlobalSym(entrySym)
  BY Zenon DEF FindGlobalSym
<1>4. \A g : SymVaddr(g)' = SymVaddr(g)
  BY <1>1, Zenon DEF SymVaddr
<1>5. SymVaddr(globals[FindGlobalSym(entrySym)])' = SymVaddr(globals[FindGlobalSym(entrySym)])
  BY <1>3, <1>1, Zenon DEF SymVaddr
<1>6. ImageNow' = ImageNow
  BY <1>2, <1>5, Zenon DEF ImageNow
<1>7. Found(entrySym)' <=> Found(entrySym)
  BY Zenon DEF Found
<1>8. GlobalsDefined' <=> GlobalsDefined
  BY ZenonT(40) DEF GlobalsDefined, DefinedBy
<1> QED BY <1>6, <1>7, <1>8, Zenon

\* Every step keeps the symbols and writes the image from the tables.
LEMMA NextImage == IInv /\ ImageInv /\ [Next]_vars => ImageInv'
<1> SUFFICES ASSUME IInv, ImageInv, [Next]_vars PROVE ImageInv'
  OBVIOUS
<1>1. CASE UNCHANGED vars
  <2>1. UNCHANGED <<entrySym, ring1, objs, globals, dataOff, outSize, phase, image>>
    BY <1>1 DEF vars
  <2>2. ImageNow' = ImageNow /\ (Found(entrySym)' <=> Found(entrySym)) /\ (GlobalsDefined' <=> GlobalsDefined)
    BY <2>1, TablesKept
  <2> QED BY <2>1, <2>2, Zenon DEF ImageInv
<1>2. CASE Emit
  <2>1. /\ phase = "emit" /\ phase' = "done" /\ Found(entrySym) /\ image' = ImageNow
        /\ UNCHANGED <<entrySym, ring1, objs, globals, dataOff, outSize>>
    BY <1>2, Zenon DEF Emit, ImageNow, inputs
  <2>2. ImageNow' = ImageNow /\ Found(entrySym)'
    BY <2>1, TablesKept, ZenonT(40)
  <2>3. GlobalsDefined'
    BY <2>1 DEF ImageInv, GlobalsDefined, DefinedBy
  <2> QED BY <2>1, <2>2, <2>3 DEF ImageInv, Early
<1>3. CASE DefineSymbol
  BY <1>3, DefineImage
<1>4. CASE Next /\ ~Emit /\ ~DefineSymbol
  <2>1. /\ globals' = globals /\ phase' # "done"
        /\ phase' \in Early => phase \in Early
        /\ objs' = objs \/ phase \in Early
    BY <1>4, OtherSteps, ZenonT(40)
  <2>2. CASE objs' = objs
    BY <2>1, <2>2 DEF ImageInv, GlobalsDefined, DefinedBy
  <2>3. CASE phase \in Early
    <3>1. globals = <<>> /\ globals' = <<>>
      BY <2>1, <2>3 DEF ImageInv
    <3> QED BY <2>1, <3>1 DEF ImageInv, GlobalsDefined
  <2> QED BY <2>1, <2>2, <2>3
<1> QED BY <1>1, <1>2, <1>3, <1>4


\* The segments follow one another in memory.
LEMMA VaddrOrder ==
  ASSUME IInv
  PROVE  /\ Vaddr("text") \in Nat /\ Vaddr("rodata") \in Nat /\ Vaddr("data") \in Nat /\ Vaddr("bss") \in Nat
         /\ Vaddr("text") + outSize["text"] <= Vaddr("rodata")
         /\ Vaddr("rodata") + outSize["rodata"] <= Vaddr("data")
         /\ Vaddr("data") + outSize["data"] <= Vaddr("bss")
<1>1. /\ outSize["text"] \in Nat /\ outSize["rodata"] \in Nat /\ outSize["data"] \in Nat
      /\ TEXT_VADDR \in Nat /\ ALIGN \in Nat \ {0}
  BY AddressAssumption DEF IInv, Placed, SecTypes
<1> DEFINE rodata == RoundUp(TEXT_VADDR + outSize["text"], ALIGN)
           data == RoundUp(rodata + outSize["rodata"], ALIGN)
           bss == RoundUp(data + outSize["data"], ALIGN)
<1>2. Vaddr("text") = TEXT_VADDR /\ Vaddr("rodata") = rodata /\ Vaddr("data") = data /\ Vaddr("bss") = bss
  BY DEF Vaddr
<1>3. rodata \in Nat /\ TEXT_VADDR + outSize["text"] <= rodata
  BY <1>1, RoundUpBounds
<1> HIDE DEF rodata
<1>4. data \in Nat /\ rodata + outSize["rodata"] <= data
  BY <1>1, <1>3, RoundUpBounds
<1> HIDE DEF data
<1>5. bss \in Nat /\ data + outSize["data"] <= bss
  BY <1>1, <1>4, RoundUpBounds
<1> HIDE DEF bss
<1> QED BY <1>1, <1>2, <1>3, <1>4, <1>5

\* emit_onx and main give a merged section the same address.
LEMMA SameAddresses ==
  /\ SegVaddr["text"] = Vaddr("text") /\ SegVaddr["rodata"] = Vaddr("rodata")
  /\ SegVaddr["data"] = Vaddr("data") /\ SegVaddr["bss"] = Vaddr("bss")
BY DEF SegVaddr, Vaddr

\* What joining two sequences gives.
LEMMA JoinTwo ==
  ASSUME NEW S, NEW t \in Seq(S), NEW x \in Seq(S)
  PROVE  /\ t \o x \in Seq(S) /\ Len(t \o x) = Len(t) + Len(x)
         /\ \A i \in 1 .. Len(t) : (t \o x)[i] = t[i]
         /\ \A i \in 1 .. Len(x) : (t \o x)[Len(t) + i] = x[i]
OBVIOUS

\* The parts of a pair joined with two sequences of at most one element.
LEMMA JoinPair ==
  ASSUME NEW S, NEW t \in Seq(S), NEW x \in Seq(S), NEW y \in Seq(S), Len(t) = 2, Len(x) <= 1, Len(y) <= 1
  PROVE  LET s == t \o x \o y IN
         /\ DOMAIN s = 1 .. 2 + Len(x) + Len(y)
         /\ s[1] = t[1] /\ s[2] = t[2]
         /\ Len(x) = 1 => s[3] = x[1]
         /\ Len(y) = 1 => s[3 + Len(x)] = y[1]
<1>1. PICK u : u = t \o x
  BY Zenon
<1>2. Len(x) \in Nat /\ Len(y) \in Nat
  OBVIOUS
<1>3. /\ u \in Seq(S) /\ Len(u) = Len(t) + Len(x)
      /\ \A i \in 1 .. Len(t) : u[i] = t[i]
      /\ \A i \in 1 .. Len(x) : u[Len(t) + i] = x[i]
  <2>1. t \in Seq(S) /\ x \in Seq(S)
    OBVIOUS
  <2>2. /\ t \o x \in Seq(S) /\ Len(t \o x) = Len(t) + Len(x)
        /\ \A i \in 1 .. Len(t) : (t \o x)[i] = t[i]
        /\ \A i \in 1 .. Len(x) : (t \o x)[Len(t) + i] = x[i]
    BY ONLY <2>1, JoinTwo
  <2> QED BY ONLY <1>1, <2>2, Zenon
<1>4. /\ Len(u) = 2 + Len(x) /\ u[1] = t[1] /\ u[2] = t[2]
      /\ Len(x) = 1 => u[3] = x[1]
  BY <1>2, <1>3
<1>5. PICK v : v = u \o y
  BY Zenon
<1>6. v \in Seq(S) /\ Len(v) = 2 + Len(x) + Len(y)
  BY <1>2, <1>3, <1>4, <1>5
<1>7. /\ v[1] = u[1] /\ v[2] = u[2]
      /\ Len(x) = 1 => v[3] = u[3]
      /\ Len(y) = 1 => v[3 + Len(x)] = y[1]
  BY <1>2, <1>3, <1>4, <1>5
<1>8. DOMAIN v = 1 .. 2 + Len(x) + Len(y)
  BY <1>6
<1>9. /\ v[1] = t[1] /\ v[2] = t[2]
      /\ Len(x) = 1 => v[3] = x[1]
      /\ Len(y) = 1 => v[3 + Len(x)] = y[1]
  BY <1>4, <1>7, Zenon
<1> QED BY <1>1, <1>5, <1>8, <1>9, Zenon



\* The segments that emit_onx writes: those of the data and of the zeroed data
\* only when they are not empty.
TextSegment == Segment("text", outSize["text"], HeaderSize, {"R", "X"})
RodataSegment == Segment("rodata", outSize["rodata"], HeaderSize + outSize["text"], {"R"})
DataSegment == Segment("data", outSize["data"], HeaderSize + outSize["text"] + outSize["rodata"], {"R", "W"})
BssSegment == Segment("bss", 0, 0, {"R", "W"})
HasData == IF outSize["data"] = 0 THEN 0 ELSE 1
HasBss == IF outSize["bss"] = 0 THEN 0 ELSE 1

\* Which segment is at which place of the list.
LEMMA SegmentsAre ==
  /\ DOMAIN Segments = 1 .. 2 + HasData + HasBss
  /\ Segments[1] = TextSegment /\ Segments[2] = RodataSegment
  /\ HasData = 1 => Segments[3] = DataSegment
  /\ HasBss = 1 => Segments[3 + HasData] = BssSegment
<1>1. PICK x : x = IF outSize["data"] = 0 THEN <<>> ELSE <<DataSegment>>
  BY Zenon
<1>2. PICK y : y = IF outSize["bss"] = 0 THEN <<>> ELSE <<BssSegment>>
  BY Zenon
<1>3. PICK t : t = <<TextSegment, RodataSegment>>
  BY Zenon
<1>4. Segments = t \o x \o y
  BY <1>1, <1>2, <1>3, Zenon DEF Segments, TextSegment, RodataSegment, DataSegment, BssSegment
<1>5. PICK S : S = {TextSegment, RodataSegment, DataSegment, BssSegment}
  BY Zenon
<1>6. t \in Seq(S) /\ Len(t) = 2 /\ t[1] = TextSegment /\ t[2] = RodataSegment
  BY <1>3, <1>5
<1>7. x \in Seq(S) /\ Len(x) = HasData /\ (HasData = 1 => x[1] = DataSegment)
  <2>1. CASE outSize["data"] = 0
    BY <1>1, <2>1 DEF HasData
  <2>2. CASE outSize["data"] # 0
    BY <1>1, <1>5, <2>2 DEF HasData
  <2> QED BY <2>1, <2>2
<1>8. y \in Seq(S) /\ Len(y) = HasBss /\ (HasBss = 1 => y[1] = BssSegment)
  <2>1. CASE outSize["bss"] = 0
    BY <1>2, <2>1 DEF HasBss
  <2>2. CASE outSize["bss"] # 0
    BY <1>2, <1>5, <2>2 DEF HasBss
  <2> QED BY <2>1, <2>2
<1>9. Len(x) <= 1 /\ Len(y) <= 1
  BY <1>7, <1>8 DEF HasData, HasBss
<1>10. /\ DOMAIN (t \o x \o y) = 1 .. 2 + Len(x) + Len(y)
       /\ (t \o x \o y)[1] = t[1] /\ (t \o x \o y)[2] = t[2]
       /\ Len(x) = 1 => (t \o x \o y)[3] = x[1]
       /\ Len(y) = 1 => (t \o x \o y)[3 + Len(x)] = y[1]
  <2>1. t \in Seq(S) /\ x \in Seq(S) /\ y \in Seq(S) /\ Len(t) = 2 /\ Len(x) <= 1 /\ Len(y) <= 1
    BY ONLY <1>6, <1>7, <1>8, <1>9, Zenon
  <2> QED BY ONLY <2>1, JoinPair
<1> QED BY ONLY <1>4, <1>6, <1>7, <1>8, <1>10, Zenon

\* The segments overlap neither in memory nor in the file.
LEMMA SegmentsApart ==
  ASSUME IInv, NEW i \in DOMAIN Segments, NEW j \in DOMAIN Segments, i < j
  PROVE  /\ Segments[i].vaddr + Segments[i].memsz <= Segments[j].vaddr
         /\ Segments[j].filesz > 0 => Segments[i].offset + Segments[i].filesz <= Segments[j].offset
<1>1. PICK segs : segs = Segments
  BY Zenon
<1>2. PICK size : size = outSize
  BY Zenon
<1>3. /\ size["text"] \in Nat /\ size["rodata"] \in Nat /\ size["data"] \in Nat /\ size["bss"] \in Nat
  BY <1>2 DEF IInv, Placed, SecTypes
<1>4. PICK v : v = [t \in SecTypes |-> Vaddr(t)]
  BY Zenon
<1>5. /\ v["text"] = Vaddr("text") /\ v["rodata"] = Vaddr("rodata")
      /\ v["data"] = Vaddr("data") /\ v["bss"] = Vaddr("bss")
  BY <1>4, Zenon DEF SecTypes
<1>6. /\ v["text"] \in Nat /\ v["rodata"] \in Nat /\ v["data"] \in Nat /\ v["bss"] \in Nat
      /\ v["text"] + size["text"] <= v["rodata"]
      /\ v["rodata"] + size["rodata"] <= v["data"]
      /\ v["data"] + size["data"] <= v["bss"]
  BY <1>2, <1>5, VaddrOrder
<1>7. /\ segs[1].vaddr = v["text"] /\ segs[1].memsz = size["text"]
      /\ segs[1].filesz = size["text"] /\ segs[1].offset = HeaderSize
      /\ segs[2].vaddr = v["rodata"] /\ segs[2].memsz = size["rodata"]
      /\ segs[2].filesz = size["rodata"] /\ segs[2].offset = HeaderSize + size["text"]
  BY <1>1, <1>2, <1>5, SegmentsAre, SameAddresses DEF TextSegment, RodataSegment, Segment
<1>8. HasData = 1 =>
        /\ segs[3].vaddr = v["data"] /\ segs[3].memsz = size["data"]
        /\ segs[3].filesz = size["data"] /\ segs[3].offset = HeaderSize + size["text"] + size["rodata"]
  BY <1>1, <1>2, <1>5, SegmentsAre, SameAddresses DEF DataSegment, Segment
<1>9. HasBss = 1 =>
        /\ segs[3 + HasData].vaddr = v["bss"] /\ segs[3 + HasData].filesz = 0
  BY <1>1, <1>2, <1>5, SegmentsAre, SameAddresses DEF BssSegment, Segment
<1>10. i \in 1 .. 2 + HasData + HasBss /\ j \in 1 .. 2 + HasData + HasBss
       /\ HasData \in {0, 1} /\ HasBss \in {0, 1}
  BY SegmentsAre DEF HasData, HasBss
<1>11. /\ segs[i].vaddr + segs[i].memsz <= segs[j].vaddr
       /\ segs[j].filesz > 0 => segs[i].offset + segs[i].filesz <= segs[j].offset
  <2>1. CASE i = 1 /\ j = 2
    BY <1>3, <1>6, <1>7, <2>1 DEF HeaderSize
  <2>2. CASE i = 1 /\ HasData = 1 /\ j = 3
    BY <1>3, <1>6, <1>7, <1>8, <2>2 DEF HeaderSize
  <2>3. CASE i = 2 /\ HasData = 1 /\ j = 3
    BY <1>3, <1>6, <1>7, <1>8, <2>3 DEF HeaderSize
  <2>4. CASE HasBss = 1 /\ j = 3 + HasData /\ i \in 1 .. 2
    BY <1>3, <1>6, <1>7, <1>9, <2>4
  <2>5. CASE HasBss = 1 /\ HasData = 1 /\ j = 4 /\ i = 3
    BY <1>3, <1>6, <1>8, <1>9, <2>5
  <2> QED BY ONLY i < j, <1>10, <2>1, <2>2, <2>3, <2>4, <2>5
<1> QED BY <1>1, <1>11


\* A section that is not empty lies in the segment of its type, which is where
\* main took it to be.
LEMMA SectionsInside ==
  ASSUME IInv, NEW p \in DOMAIN dataOff, SecAt(p).size > 0
  PROVE  \E i \in DOMAIN Segments :
            /\ Segments[i].type = SecAt(p).type
            /\ Segments[i].vaddr = Vaddr(SecAt(p).type)
            /\ SecEnd(p) <= Segments[i].memsz
<1> DEFINE ty == SecAt(p).type
<1>1. /\ p[1] \in DOMAIN objs /\ p[2] \in DOMAIN objs[p[1]].secs /\ dataOff[p] \in Nat
      /\ SecEnd(p) <= outSize[ty] /\ outSize \in [SecTypes -> Nat]
  BY DEF IInv, Placed, SectionsApart
<1>2. objs[p[1]] \in Objects
  BY <1>1 DEF IInv, InputsTyped
<1>3. ty \in SecTypes /\ SecAt(p).size \in Nat
  BY <1>1, <1>2, ObjectAssumption DEF SecAt
<1>4. SecEnd(p) \in Nat /\ outSize[ty] \in Nat /\ outSize[ty] # 0
  BY <1>1, <1>3 DEF SecEnd
<1>6. SUFFICES \E i \in DOMAIN Segments : /\ Segments[i].type = ty /\ Segments[i].vaddr = Vaddr(ty)
                                          /\ Segments[i].memsz = outSize[ty]
  BY <1>1, <1>6, Zenon
<1> HIDE DEF ty
<1>7. HasData \in {0, 1} /\ HasBss \in {0, 1}
  BY DEF HasData, HasBss
<1>8. CASE ty = "text"
  <2>1. 1 \in DOMAIN Segments /\ Segments[1] = TextSegment
    BY <1>7, SegmentsAre
  <2>2. /\ TextSegment.type = ty /\ TextSegment.vaddr = Vaddr(ty) /\ TextSegment.memsz = outSize[ty]
    BY <1>8, SameAddresses DEF TextSegment, Segment
  <2> QED BY <2>1, <2>2, Zenon
<1>9. CASE ty = "rodata"
  <2>1. 2 \in DOMAIN Segments /\ Segments[2] = RodataSegment
    BY <1>7, SegmentsAre
  <2>2. /\ RodataSegment.type = ty /\ RodataSegment.vaddr = Vaddr(ty) /\ RodataSegment.memsz = outSize[ty]
    BY <1>9, SameAddresses DEF RodataSegment, Segment
  <2> QED BY <2>1, <2>2, Zenon
<1>10. CASE ty = "data"
  <2>1. HasData = 1
    BY <1>4, <1>10 DEF HasData
  <2>2. 3 \in DOMAIN Segments /\ Segments[3] = DataSegment
    BY <1>7, <2>1, SegmentsAre
  <2>3. /\ DataSegment.type = ty /\ DataSegment.vaddr = Vaddr(ty) /\ DataSegment.memsz = outSize[ty]
    BY <1>10, SameAddresses DEF DataSegment, Segment
  <2> QED BY <2>2, <2>3, Zenon
<1>11. CASE ty = "bss"
  <2>1. HasBss = 1
    BY <1>4, <1>11 DEF HasBss
  <2>2. 3 + HasData \in DOMAIN Segments /\ Segments[3 + HasData] = BssSegment
    BY <1>7, <2>1, SegmentsAre
  <2>3. /\ BssSegment.type = ty /\ BssSegment.vaddr = Vaddr(ty) /\ BssSegment.memsz = outSize[ty]
    BY <1>11, SameAddresses DEF BssSegment, Segment
  <2> QED BY <2>2, <2>3, Zenon
<1> QED BY <1>3, <1>8, <1>9, <1>10, <1>11 DEF SecTypes

\* What find_global_sym finds stands for a symbol that some object exports.
LEMMA FoundDefined ==
  ASSUME IInv, ImageInv, NEW name, Found(name)
  PROVE  \E d \in Definitions(name) : SymVaddr(globals[FindGlobalSym(name)]) = AddressOf(d)
<1>1. PICK i \in DOMAIN globals : globals[i].name = name
  BY DEF Found
<1>2. globals \in Seq(GlobalSet) /\ DOMAIN globals = 1 .. Len(globals) /\ Len(globals) \in Nat
  BY DEF IInv, GlobalsTyped
<1>3. \A j \in 1 .. i - 1 : globals[j].name # name
  BY <1>1, <1>2 DEF IInv, OneDefinition
<1>4. FindGlobalSym(name) \in DOMAIN globals /\ globals[FindGlobalSym(name)].name = name
  BY <1>1, <1>3, Zenon DEF FindGlobalSym
<1>5. PICK g : g = globals[FindGlobalSym(name)]
  BY Zenon
<1>6. PICK k \in DOMAIN objs[g.obj].syms : DefinedBy(g, k)
  BY <1>4, <1>5, Zenon DEF ImageInv, GlobalsDefined
<1>7. g.obj \in DOMAIN objs
  BY <1>4, <1>5, Zenon DEF IInv, GlobalsTyped
<1>8. PICK s : s = objs[g.obj].syms[k]
  BY Zenon
<1>9. Exported(s) /\ s.name = name /\ g.sec = s.sec /\ g.value = s.value
  <2>1. Exported(s) /\ g = [name |-> s.name, obj |-> g.obj, sec |-> s.sec, value |-> s.value]
    BY <1>6, <1>8, Zenon DEF DefinedBy
  <2>2. g.name = s.name /\ g.sec = s.sec /\ g.value = s.value
    BY <2>1
  <2> QED BY <1>4, <1>5, <2>1, <2>2
<1>10. PICK d : d = <<g.obj, k>>
  BY Zenon
<1>11. d[1] = g.obj /\ d[2] = k
  BY <1>10
<1>12. d \in Definitions(name)
  <2>1. d \in {g.obj} \X DOMAIN objs[g.obj].syms
    BY <1>6, <1>10
  <2>2. d \in UNION {{o} \X DOMAIN objs[o].syms : o \in DOMAIN objs}
    BY <1>7, <2>1
  <2> QED BY <1>8, <1>9, <1>11, <2>2, Zenon DEF Definitions
<1>13. SymVaddr(g) = AddressOf(d)
  <2>1. SecAt(<<d[1], s.sec>>) = objs[d[1]].secs[s.sec]
    BY DEF SecAt
  <2> QED BY <1>8, <1>9, <1>11, <2>1, Zenon DEF SymVaddr, AddressOf
<1> QED BY <1>5, <1>12, <1>13, Zenon

\* A finished link wrote an image whose segments overlap neither in memory nor
\* in the file, hold every section at the address the relocations were computed
\* with, and are entered at the entry symbol.
THEOREM ImageRight == Spec => []ImageWellFormed
<1>1. Init => ImageInv
  BY DEF Init, ImageInv, GlobalsDefined
<1>2. IInv /\ ImageInv => ImageWellFormed
  <2> SUFFICES ASSUME IInv, ImageInv, phase = "done"
               PROVE  LET segs == image[1].segs IN
                      /\ \A i, j \in DOMAIN segs : i < j =>
                            /\ segs[i].vaddr + segs[i].memsz <= segs[j].vaddr
                            /\ segs[j].filesz > 0 => segs[i].offset + segs[i].filesz <= segs[j].offset
                      /\ \A p \in DOMAIN dataOff : SecAt(p).size > 0 =>
                            \E i \in DOMAIN segs :
                                /\ segs[i].type = SecAt(p).type
                                /\ segs[i].vaddr = Vaddr(SecAt(p).type)
                                /\ SecEnd(p) <= segs[i].memsz
                      /\ \E d \in Definitions(entrySym) : image[1].entry = AddressOf(d)
    BY Zenon DEF ImageWellFormed
  <2>1. Found(entrySym) /\ image = ImageNow
    BY Zenon DEF ImageInv
  <2>2. image[1].segs = Segments /\ image[1].entry = SymVaddr(globals[FindGlobalSym(entrySym)])
    BY <2>1 DEF ImageNow
  <2>3. \A i, j \in DOMAIN Segments : i < j =>
            /\ Segments[i].vaddr + Segments[i].memsz <= Segments[j].vaddr
            /\ Segments[j].filesz > 0 => Segments[i].offset + Segments[i].filesz <= Segments[j].offset
    BY SegmentsApart
  <2>4. \A p \in DOMAIN dataOff : SecAt(p).size > 0 =>
            \E i \in DOMAIN Segments :
                /\ Segments[i].type = SecAt(p).type
                /\ Segments[i].vaddr = Vaddr(SecAt(p).type)
                /\ SecEnd(p) <= Segments[i].memsz
    BY SectionsInside
  <2>5. \E d \in Definitions(entrySym) : SymVaddr(globals[FindGlobalSym(entrySym)]) = AddressOf(d)
    BY <2>1, FoundDefined
  <2> QED BY ONLY <2>2, <2>3, <2>4, <2>5, Zenon
<1> QED BY <1>1, <1>2, NextImage, InvariantHolds, PTL DEF Spec
-----------------------------------------------------------------------------
(* The words of the sections.                                              *)

Words32 == SUBSET (0..31)

\* What a number or a shift leaves is a word.
LEMMA BitsWord == ASSUME NEW n PROVE Bits(n) \in Words32
BY DEF Bits, Words32

LEMMA ShrWord == ASSUME NEW b \in Words32, NEW k \in Nat PROVE Shr(b, k) \in Words32
BY DEF Shr, Words32

\* Word w2 is w outside the bits of field.
Keeps(w, field, w2) == w2 \in Words32 /\ w2 \ field = w \ field

\* A mask keeps what lies outside the field that is written.
LEMMA FieldReplaced ==
  ASSUME NEW all, NEW w \in SUBSET all, NEW rest \in SUBSET all, NEW field \in SUBSET all,
         NEW new \in SUBSET field, all \subseteq rest \cup field, rest \cap field = {}
  PROVE  (w \cap rest) \cup new \in SUBSET all /\ ((w \cap rest) \cup new) \ field = w \ field
BY Zenon

\* The fields of the instruction formats and the masks that keep the others.
LEMMA Fields ==
  /\ 0..11 \in SUBSET (0..31) /\ 12..31 \in SUBSET (0..31)
  /\ 0..31 \subseteq (0..11) \cup (12..31) /\ (0..11) \cap (12..31) = {}
  /\ 0..6 \in SUBSET (0..31) /\ 7..31 \in SUBSET (0..31)
  /\ 0..31 \subseteq (0..6) \cup (7..31) /\ (0..6) \cap (7..31) = {}
  /\ 0..19 \in SUBSET (0..31) /\ 20..31 \in SUBSET (0..31)
  /\ 0..31 \subseteq (0..19) \cup (20..31) /\ (0..19) \cap (20..31) = {}
  /\ (0..6) \cup (12..24) \in SUBSET (0..31) /\ (7..11) \cup (25..31) \in SUBSET (0..31)
  /\ 0..31 \subseteq ((0..6) \cup (12..24)) \cup ((7..11) \cup (25..31))
  /\ ((0..6) \cup (12..24)) \cap ((7..11) \cup (25..31)) = {}
OBVIOUS

LEMMA UnionOf ==
  \A a, b, c : a \cup b \cup c = a \cup (b \cup c)
BY Zenon

LEMMA SplitFieldReplaced ==
  ASSUME NEW w \in Words32, NEW new \in SUBSET ((7..11) \cup (25..31))
  PROVE  Keeps(w, (7..11) \cup (25..31), (w \cap ((0..6) \cup (12..24))) \cup new)
<1>1. PICK all : all = 0..31
  BY Zenon
<1>2. PICK rest : rest = (0..6) \cup (12..24)
  BY Zenon
<1>3. PICK field : field = (7..11) \cup (25..31)
  BY Zenon
<1>4. /\ rest \in SUBSET all /\ field \in SUBSET all
      /\ all \subseteq rest \cup field /\ rest \cap field = {}
  BY ONLY <1>1, <1>2, <1>3, Fields, Zenon
<1>5. w \in SUBSET all /\ new \in SUBSET field
  BY <1>1, <1>3, Zenon DEF Words32
<1>6. (w \cap rest) \cup new \in SUBSET all /\ ((w \cap rest) \cup new) \ field = w \ field
  BY ONLY <1>4, <1>5, FieldReplaced, Zenon
<1>7. Keeps(w, field, (w \cap rest) \cup new)
  BY ONLY <1>1, <1>6, Zenon DEF Words32, Keeps
<1> QED BY ONLY <1>2, <1>3, <1>7, SMT

\* Each writer of an immediate leaves the bits outside its field alone.
LEMMA PatchIKeeps ==
  ASSUME NEW w \in Words32, NEW imm
  PROVE  Keeps(w, 20..31, PatchImmI(w, imm))
<1>1. PICK new : new = Shl(Bits(imm), 20) \cap 20..31
  BY Zenon
<1>2. new \in SUBSET (20..31)
  BY <1>1, Zenon
<1>3. PatchImmI(w, imm) = (w \cap 0..19) \cup new
  BY <1>1, Zenon DEF PatchImmI
<1> QED BY ONLY <1>2, <1>3, Fields, FieldReplaced, w \in Words32, ZenonT(40) DEF Words32, Keeps

LEMMA PatchSKeeps ==
  ASSUME NEW w \in Words32, NEW imm
  PROVE  Keeps(w, (7..11) \cup (25..31), PatchImmS(w, imm))
<1>1. PICK b : b = Bits(imm)
  OBVIOUS
<1>2. Shl(b \cap 0..4, 7) \subseteq 7..11
  BY DEF Shl
<1>3. Shl(Shr(b, 5) \cap 0..6, 25) \subseteq 25..31
  BY DEF Shl
<1>4. PICK low : low = Shl(b \cap 0..4, 7)
  OBVIOUS
<1>5. PICK high : high = Shl(Shr(b, 5) \cap 0..6, 25)
  OBVIOUS
<1>6. PatchImmS(w, imm) = (w \cap ((0..6) \cup (12..24))) \cup (low \cup high)
  <2>1. PatchImmS(w, imm) = (w \cap ((0..6) \cup (12..24))) \cup low \cup high
    BY <1>1, <1>4, <1>5, Zenon DEF PatchImmS
  <2> QED BY ONLY <2>1, UnionOf, Zenon
<1>7. low \cup high \in SUBSET ((7..11) \cup (25..31))
  BY <1>2, <1>3, <1>4, <1>5, Zenon
<1>8. PICK new : new = low \cup high
  BY Zenon
<1>9. PatchImmS(w, imm) = (w \cap ((0..6) \cup (12..24))) \cup new /\ new \in SUBSET ((7..11) \cup (25..31))
  <2>1. PICK F : F = (7..11) \cup (25..31)
    BY Zenon
  <2>2. PICK A : A = w \cap ((0..6) \cup (12..24))
    BY Zenon
  <2>3. PatchImmS(w, imm) = A \cup new
    BY ONLY <1>6, <1>8, <2>2, SMT
  <2>4. new \in SUBSET F
    BY ONLY <1>7, <1>8, <2>1, SMT
  <2> QED BY ONLY <2>1, <2>2, <2>3, <2>4, SMT
<1> QED BY ONLY <1>9, SplitFieldReplaced, w \in Words32, Zenon

LEMMA PatchUKeeps ==
  ASSUME NEW w \in Words32, NEW imm20 \in Words32
  PROVE  Keeps(w, 12..31, PatchImmU(w, imm20))
<1>1. PICK high : high = Shl(imm20, 12)
  OBVIOUS
<1>2. high \in SUBSET (12..31)
  BY <1>1 DEF Shl, Words32
<1>3. PatchImmU(w, imm20) = (w \cap 0..11) \cup high
  BY <1>1, Zenon DEF PatchImmU
<1> QED BY ONLY <1>2, <1>3, Fields, FieldReplaced, w \in Words32, ZenonT(40) DEF Words32, Keeps

LEMMA PatchJKeeps ==
  ASSUME NEW w \in Words32, NEW imm
  PROVE  Keeps(w, 7..31, PatchImmJ(w, imm))
<1>1. PICK b : b = Bits(imm)
  BY Zenon
<1>2. PICK x : x = Shl(b \cap {20}, 10)
  BY Zenon
<1>3. PICK y : y = Shl(b \cap 1..10, 20)
  BY Zenon
<1>4. PICK z : z = Shl(b \cap {11}, 9)
  BY Zenon
<1>5. PICK u : u = b \cap 12..19
  BY Zenon
<1>6. PatchImmJ(w, imm) = (w \cap 0..6) \cup x \cup y \cup z \cup u
  BY <1>1, <1>2, <1>3, <1>4, <1>5, Zenon DEF PatchImmJ
<1>7. x \subseteq 7..31
  BY <1>2 DEF Shl
<1>8. y \subseteq 7..31
  BY <1>3 DEF Shl
<1>9. z \subseteq 7..31
  BY <1>4 DEF Shl
<1>10. u \subseteq 7..31
  BY <1>5
<1>11. PICK new : new = x \cup y \cup z \cup u
  BY Zenon
<1>12. new \in SUBSET (7..31)
  BY ONLY <1>7, <1>8, <1>9, <1>10, <1>11, Zenon
<1>13. PatchImmJ(w, imm) = (w \cap 0..6) \cup new
  BY ONLY <1>6, <1>11, UnionOf, Zenon
<1> QED BY ONLY <1>12, <1>13, Fields, FieldReplaced, w \in Words32, ZenonT(40) DEF Words32, Keeps

LEMMA PatchBKeeps ==
  ASSUME NEW w \in Words32, NEW imm
  PROVE  Keeps(w, (7..11) \cup (25..31), PatchImmB(w, imm))
<1>1. PICK b : b = Bits(imm)
  OBVIOUS
<1>2. PICK x : x = Shl(b \cap {12}, 19)
  OBVIOUS
<1>3. PICK y : y = Shl(b \cap 1..4, 7)
  OBVIOUS
<1>4. PICK z : z = Shl(b \cap 5..10, 20)
  OBVIOUS
<1>5. PICK u : u = Shr(b \cap {11}, 4)
  OBVIOUS
<1>6. PatchImmB(w, imm) = (w \cap ((0..6) \cup (12..24))) \cup (x \cup y \cup z \cup u)
  <2>1. PatchImmB(w, imm) = (w \cap ((0..6) \cup (12..24))) \cup x \cup y \cup z \cup u
    BY <1>1, <1>2, <1>3, <1>4, <1>5, Zenon DEF PatchImmB
  <2> QED BY ONLY <2>1, UnionOf, Zenon
<1>7. x \subseteq 25..31
  BY <1>2 DEF Shl
<1>8. y \subseteq 7..11
  BY <1>3 DEF Shl
<1>9. z \subseteq 25..31
  BY <1>4 DEF Shl
<1>10. u \subseteq 7..11
  BY <1>5 DEF Shr
<1>11. x \cup y \cup z \cup u \in SUBSET ((7..11) \cup (25..31))
  BY ONLY <1>7, <1>8, <1>9, <1>10, Zenon
<1>12. PICK new : new = x \cup y \cup z \cup u
  BY Zenon
<1>13. PatchImmB(w, imm) = (w \cap ((0..6) \cup (12..24))) \cup new /\ new \in SUBSET ((7..11) \cup (25..31))
  <2>1. PICK F : F = (7..11) \cup (25..31)
    BY Zenon
  <2>2. PICK A : A = w \cap ((0..6) \cup (12..24))
    BY Zenon
  <2>3. PatchImmB(w, imm) = A \cup new
    BY ONLY <1>6, <1>12, <2>2, SMT
  <2>4. new \in SUBSET F
    BY ONLY <1>11, <1>12, <2>1, SMT
  <2> QED BY ONLY <2>1, <2>2, <2>3, <2>4, SMT
<1> QED BY ONLY <1>13, SplitFieldReplaced, w \in Words32, Zenon

\* A relocation leaves a word, and the bits outside its field as they were.
LEMMA PatchedKeeps ==
  ASSUME NEW w \in Words32, NEW type \in RelocTypes, NEW v, NEW p
  PROVE  Keeps(w, PatchedBits(type), Patched(w, type, v, p))
<1>1. CASE type \in {"64", "32"}
  <2>1. Patched(w, type, v, p) = Bits(v) /\ PatchedBits(type) = 0..31
    BY <1>1 DEF Patched, PatchedBits
  <2>2. Bits(v) \in Words32
    BY BitsWord
  <2> QED BY ONLY <2>1, <2>2, w \in Words32, Zenon DEF Words32, Keeps
<1>2. CASE type = "HI20"
  <2>1. Patched(w, type, v, p) = PatchImmU(w, Shr(Bits(v + 2048), 12)) /\ PatchedBits(type) = 12..31
    BY <1>2 DEF Patched, PatchedBits
  <2>2. Shr(Bits(v + 2048), 12) \in Words32
    BY BitsWord, ShrWord
  <2> QED BY ONLY <2>1, <2>2, PatchUKeeps, w \in Words32, SMT
<1>3. CASE type = "PCREL_HI20"
  <2>1. Patched(w, type, v, p) = PatchImmU(w, Shr(Bits(v - p + 2048), 12)) /\ PatchedBits(type) = 12..31
    BY <1>3 DEF Patched, PatchedBits
  <2>2. Shr(Bits(v - p + 2048), 12) \in Words32
    BY BitsWord, ShrWord
  <2> QED BY ONLY <2>1, <2>2, PatchUKeeps, w \in Words32, SMT
<1>4. CASE type \in {"LO12_I", "PCREL_LO12_I"}
  <2>1. (\E imm : Patched(w, type, v, p) = PatchImmI(w, imm)) /\ PatchedBits(type) = 20..31
    BY <1>4 DEF Patched, PatchedBits
  <2> QED BY ONLY <2>1, PatchIKeeps, w \in Words32, SMT
<1>5. CASE type \in {"LO12_S", "PCREL_LO12_S"}
  <2>1. /\ \E imm : Patched(w, type, v, p) = PatchImmS(w, imm)
        /\ PatchedBits(type) = (7..11) \cup (25..31)
    BY <1>5 DEF Patched, PatchedBits
  <2> QED BY ONLY <2>1, PatchSKeeps, w \in Words32, SMT
<1>6. CASE type = "BRANCH"
  <2>1. Patched(w, type, v, p) = PatchImmB(w, v - p) /\ PatchedBits(type) = (7..11) \cup (25..31)
    BY <1>6 DEF Patched, PatchedBits
  <2> QED BY ONLY <2>1, PatchBKeeps, w \in Words32, SMT
<1>7. CASE type = "JAL"
  <2>1. Patched(w, type, v, p) = PatchImmJ(w, v - p) /\ PatchedBits(type) = 7..31
    BY <1>7 DEF Patched, PatchedBits
  <2> QED BY ONLY <2>1, PatchJKeeps, w \in Words32, SMT
<1> QED BY <1>1, <1>2, <1>3, <1>4, <1>5, <1>6, <1>7 DEF RelocTypes

\* The item at p is one the loop in progress has passed.
Behind(p) == p[1] < cur.o \/ (p[1] = cur.o /\ p[2] < cur.k)

At(p, x) == out[SecAt(p).type][dataOff[p] + x]
There(p, x) == dataOff[p] + x \in DOMAIN out[SecAt(p).type]
RelocsAt(p, x) ==
    {r \in {objs[p[1]].relocs[k] : k \in DOMAIN objs[p[1]].relocs} :
        r.sec = p[2] /\ (r.off = x \/ (r.type = "64" /\ r.off + 4 = x))}
FreeAt(p, x) == UNION {PatchedBits(r.type) : r \in RelocsAt(p, x)}

\* Section p is in its place as its object has it, or as relocated so far.
Copied(p) == \A x \in DOMAIN SecAt(p).words : There(p, x) /\ At(p, x) = SecAt(p).words[x]
KeptAt(p, x) ==
    /\ There(p, x) /\ At(p, x) \in Words32
    /\ At(p, x) \ FreeAt(p, x) = SecAt(p).words[x] \ FreeAt(p, x)
Kept(p) == \A x \in DOMAIN SecAt(p).words : KeptAt(p, x)

Real == {p \in DOMAIN dataOff : SecAt(p).type # "bss"}
Patching == {"relocate", "emit", "done"}
Laid == {"copy", "define", "undef"} \cup Patching
AllLaid == \A o \in DOMAIN objs : \A k \in DOMAIN objs[o].secs : <<o, k>> \in DOMAIN dataOff

\* The layout loop has placed what it has passed, the copy loop has copied it,
\* and relocating keeps the operations.
WordsInv ==
    /\ DOMAIN out = SecTypes
    /\ phase \in Early => cur = Start
    /\ phase = "layout" =>
          \A o \in DOMAIN objs : \A k \in DOMAIN objs[o].secs : Behind(<<o, k>>) => <<o, k>> \in DOMAIN dataOff
    /\ phase \in Laid => AllLaid
    /\ phase = "copy" => \A p \in Real : Behind(p) => Copied(p)
    /\ phase \in {"define", "undef"} => \A p \in Real : Copied(p)
    /\ phase \in Patching => \A p \in Real : Kept(p)

\* What an overlay holds where it is new, and elsewhere.
LEMMA OverNew ==
  ASSUME NEW f, NEW g, NEW x \in DOMAIN f
  PROVE  x \in DOMAIN Over(f, g) /\ Over(f, g)[x] = f[x]
BY Zenon DEF Over

LEMMA OverOld ==
  ASSUME NEW f, NEW g, NEW x \in DOMAIN g, x \notin DOMAIN f
  PROVE  x \in DOMAIN Over(f, g) /\ Over(f, g)[x] = g[x]
BY Zenon DEF Over

\* Words that agree outside a field agree outside a larger one.
LEMMA NestedFields ==
  ASSUME NEW small, NEW large, small \subseteq large, NEW w, NEW w2, NEW w3,
         w2 \ small = w \ small, w \ large = w3 \ large
  PROVE  w2 \ large = w3 \ large
BY Zenon

\* A section that is laid out belongs to a loaded object, and its words lie
\* inside it.
LEMMA SectionWords ==
  ASSUME IInv, NEW p \in DOMAIN dataOff
  PROVE  /\ p \in (Nat \ {0}) \X (Nat \ {0}) /\ p = <<p[1], p[2]>> /\ dataOff[p] \in Nat
         /\ p[1] \in DOMAIN objs /\ objs[p[1]] \in Objects /\ p[2] \in DOMAIN objs[p[1]].secs
         /\ SecAt(p).type \in SecTypes /\ SecAt(p).size \in Nat
         /\ \A x \in DOMAIN SecAt(p).words :
               x \in Nat /\ x + 4 <= SecAt(p).size /\ SecAt(p).words[x] \in Words32
<1>1. /\ p \in (Nat \ {0}) \X (Nat \ {0}) /\ dataOff[p] \in Nat
      /\ p[1] \in DOMAIN objs /\ p[2] \in DOMAIN objs[p[1]].secs
  BY Zenon DEF IInv, Placed
<1>2. objs \in Seq(Objects)
  BY DEF IInv, InputsTyped
<1>3. objs[p[1]] \in Objects
  BY <1>1, <1>2
<1>4. p = <<p[1], p[2]>>
  BY <1>1
<1>5. SecAt(p).type \in SecTypes /\ SecAt(p).size \in Nat
  BY <1>1, <1>3, ObjectAssumption, Zenon DEF SecAt
<1>6. \A x \in DOMAIN SecAt(p).words :
          x \in Nat /\ x + 4 <= SecAt(p).size /\ SecAt(p).words[x] \in Words32
  BY <1>1, <1>3, WordsAssumption, Zenon DEF SecAt, Words32
<1> QED BY <1>1, <1>3, <1>4, <1>5, <1>6, Zenon

\* Two words at one offset of a merged section are the same word.
LEMMA OneWord ==
  ASSUME IInv, NEW p \in DOMAIN dataOff, NEW q \in DOMAIN dataOff, SecAt(p).type = SecAt(q).type,
         NEW x \in DOMAIN SecAt(p).words, NEW y \in DOMAIN SecAt(q).words,
         dataOff[p] + x = dataOff[q] + y
  PROVE  p = q /\ x = y
<1>1. /\ dataOff[p] \in Nat /\ SecAt(p).size \in Nat /\ x \in Nat /\ x + 4 <= SecAt(p).size
      /\ dataOff[q] \in Nat /\ SecAt(q).size \in Nat /\ y \in Nat /\ y + 4 <= SecAt(q).size
  BY SectionWords, Zenon
<1>2. p = q
  <2> SUFFICES ASSUME p # q PROVE FALSE
    OBVIOUS
  <2>1. SecEnd(p) <= dataOff[q] \/ SecEnd(q) <= dataOff[p]
    BY Zenon DEF IInv, SectionsApart
  <2>2. SecEnd(p) = dataOff[p] + SecAt(p).size /\ SecEnd(q) = dataOff[q] + SecAt(q).size
    BY Zenon DEF SecEnd
  <2>3. PICK a, b, m, n : a = dataOff[p] /\ b = dataOff[q] /\ m = SecAt(p).size /\ n = SecAt(q).size
    BY Zenon
  <2> QED BY ONLY <1>1, <2>1, <2>2, <2>3, dataOff[p] + x = dataOff[q] + y, SMT
<1>3. x = y
  BY ONLY <1>1, <1>2, dataOff[p] + x = dataOff[q] + y, SMT
<1> QED BY <1>2, <1>3

\* A step that leaves objects, layout and words alone leaves these facts alone.
LEMMA WordsStill ==
  ASSUME UNCHANGED <<objs, dataOff, out>>
  PROVE  /\ Real' = Real /\ (AllLaid' <=> AllLaid)
         /\ \A p : (Copied(p)' <=> Copied(p)) /\ (Kept(p)' <=> Kept(p))
<1>1. Real' = Real /\ (AllLaid' <=> AllLaid)
  BY Zenon DEF Real, SecAt, AllLaid
<1>2. ASSUME NEW p PROVE Copied(p)' <=> Copied(p)
  BY Zenon DEF Copied, There, At, SecAt
<1>3. ASSUME NEW p PROVE Kept(p)' <=> Kept(p)
  <2>1. SecAt(p)' = SecAt(p)
    BY Zenon DEF SecAt
  <2>2. \A x : RelocsAt(p, x)' = RelocsAt(p, x)
    BY Zenon DEF RelocsAt
  <2>3. \A x : FreeAt(p, x)' = FreeAt(p, x)
    BY <2>2, Zenon DEF FreeAt
  <2>4. \A x : At(p, x)' = At(p, x) /\ (There(p, x)' <=> There(p, x))
    BY <2>1, Zenon DEF At, There
  <2>5. ASSUME NEW x PROVE KeptAt(p, x)' <=> KeptAt(p, x)
    <3>1. /\ SecAt(p)' = SecAt(p) /\ RelocsAt(p, x)' = RelocsAt(p, x) /\ FreeAt(p, x)' = FreeAt(p, x)
          /\ At(p, x)' = At(p, x) /\ (There(p, x)' <=> There(p, x))
      BY <2>1, <2>2, <2>3, <2>4, Zenon
    <3> QED BY ONLY <3>1 DEF KeptAt
  <2> QED BY <2>1, <2>5, Zenon DEF Kept
<1> QED BY <1>1, <1>2, <1>3

\* A step of main outside the loops, or of a loop that moves no words.
Quiet ==
    \/ phase' \in {"failed", "help"}
    \/ phase \in Early /\ phase' \in Early /\ cur' = cur
    \/ phase \in Early /\ phase' = "layout" /\ UNCHANGED <<cur, objs, dataOff>>
    \/ /\ phase' = phase /\ phase \notin Early /\ UNCHANGED <<objs, dataOff>>
       /\ cur' = cur \/ phase \notin {"layout", "copy"}
    \/ phase = "emit" /\ phase' = "done" /\ UNCHANGED <<objs, dataOff>>

LEMMA QuietWords == ASSUME IInv, WordsInv, out' = out, Quiet PROVE WordsInv'
<1>1. CASE phase' \in {"failed", "help"} \cup Early
  <2>1. phase' \in Early => cur' = Start
    BY <1>1 DEF Quiet, Early, WordsInv
  <2> QED BY <1>1, <2>1 DEF WordsInv, Early, Laid, Patching
<1>2. CASE phase \in Early /\ phase' = "layout" /\ UNCHANGED <<cur, objs, dataOff>>
  <2>1. cur' = [o |-> 1, k |-> 1] /\ objs \in Seq(Objects)
    BY <1>2 DEF WordsInv, Start, IInv, InputsTyped
  <2>2. ASSUME NEW o \in DOMAIN objs, NEW k \in DOMAIN objs[o].secs PROVE ~Behind(<<o, k>>)'
    <3>1. o \in Nat \ {0} /\ objs[o] \in Objects
      BY <2>1
    <3>2. objs[o].secs \in Seq(Range(objs[o].secs))
      BY <3>1, ObjectAssumption, Zenon
    <3>3. k \in Nat \ {0}
      BY <3>2
    <3> QED BY <2>1, <3>1, <3>3 DEF Behind
  <2> QED BY <1>2, <2>2 DEF WordsInv, Early, Laid, Patching
<1>3. CASE /\ phase' = phase /\ phase \notin Early /\ UNCHANGED <<objs, dataOff>>
           /\ cur' = cur \/ phase \notin {"layout", "copy"}
  <2>1. /\ Real' = Real /\ (AllLaid' <=> AllLaid)
        /\ \A p : (Copied(p)' <=> Copied(p)) /\ (Kept(p)' <=> Kept(p))
    BY <1>3, WordsStill, Zenon
  <2>2. phase' \in {"layout", "copy"} => \A p : Behind(p)' <=> Behind(p)
    BY <1>3, Zenon DEF Behind
  <2> QED BY <1>3, <2>1, <2>2, Zenon DEF WordsInv, Early
<1>4. CASE phase = "emit" /\ phase' = "done" /\ UNCHANGED <<objs, dataOff>>
  <2>1. /\ Real' = Real /\ (AllLaid' <=> AllLaid) /\ \A p : Kept(p)' <=> Kept(p)
    BY <1>4, WordsStill, Zenon
  <2>2. AllLaid /\ \A p \in Real : Kept(p)
    BY <1>4 DEF WordsInv, Laid, Patching
  <2> QED BY <1>4, <2>1, <2>2 DEF WordsInv, Early
<1> QED BY <1>1, <1>2, <1>3, <1>4, Zenon DEF Quiet

\* The loops pass every section: leaving an object, and leaving the loop.
LEMMA NextObjectWords == ASSUME IInv, WordsInv, NextObject PROVE WordsInv'
<1>1. /\ phase \in Loops /\ cur' = [o |-> cur.o + 1, k |-> 1]
      /\ cur.o <= Len(objs) /\ cur.k > ItemCount(cur.o, phase)
      /\ UNCHANGED <<phase, objs, dataOff, out>>
  BY DEF NextObject, inputs
<1>2. cur \in [o : Nat \ {0}, k : Nat \ {0}] /\ objs \in Seq(Objects)
  BY DEF IInv, LoopTyped, InputsTyped
<1>3. CASE phase \notin {"layout", "copy"}
  BY <1>1, <1>3, QuietWords DEF Quiet, Loops, Early
<1>4. CASE phase \in {"layout", "copy"}
  <2>1. cur.k > Len(objs[cur.o].secs) /\ objs[cur.o].secs \in Seq(Range(objs[cur.o].secs))
    <3>1. objs[cur.o] \in Objects
      BY <1>1, <1>2
    <3> QED BY <3>1, <1>1, <1>4, ObjectAssumption DEF ItemCount
  <2>2. ASSUME NEW o \in DOMAIN objs, NEW k \in DOMAIN objs[o].secs, Behind(<<o, k>>)'
        PROVE  Behind(<<o, k>>)
    <3>1. o \in Nat /\ (o < cur.o + 1 \/ (o = cur.o + 1 /\ k < 1))
      BY <1>1, <1>2, <2>2 DEF Behind
    <3>2. objs[o].secs \in Seq(Range(objs[o].secs))
      BY <1>2, ObjectAssumption
    <3>3. k \in Nat \ {0} /\ k <= Len(objs[o].secs)
      BY <3>2
    <3> QED BY <1>2, <2>1, <3>1, <3>3 DEF Behind
  <2>3. /\ Real' = Real /\ (AllLaid' <=> AllLaid)
        /\ \A p : (Copied(p)' <=> Copied(p))
    BY <1>1, WordsStill, Zenon
  <2>4. CASE phase = "layout"
    BY <1>1, <2>2, <2>4 DEF WordsInv, Early, Laid, Patching
  <2>5. CASE phase = "copy"
    <3>1. ASSUME NEW p \in Real, Behind(p)' PROVE Copied(p)
      <4>1. p = <<p[1], p[2]>> /\ p[1] \in DOMAIN objs /\ p[2] \in DOMAIN objs[p[1]].secs
        BY SectionWords, Zenon DEF Real
      <4>2. Behind(p)
        BY <2>2, <3>1, <4>1
      <4> QED BY <2>5, <4>2 DEF WordsInv
    <3> QED BY <1>1, <2>3, <2>5, <3>1 DEF WordsInv, Early, Laid, Patching
  <2> QED BY <1>4, <2>4, <2>5
<1> QED BY <1>3, <1>4

LEMMA NextLoopWords == ASSUME IInv, WordsInv, NextLoop PROVE WordsInv'
<1>1. /\ phase \in Loops /\ cur' = [o |-> 1, k |-> 1] /\ cur.o > Len(objs)
      /\ UNCHANGED <<objs, dataOff, out>>
  BY DEF NextLoop, inputs, Start
<1>2. cur \in [o : Nat \ {0}, k : Nat \ {0}] /\ objs \in Seq(Objects)
  BY DEF IInv, LoopTyped, InputsTyped
<1>3. \A p : p[1] \in DOMAIN objs => Behind(p)
  BY <1>1, <1>2 DEF Behind
<1>4. \A p \in Real : p \in DOMAIN dataOff /\ p[1] \in DOMAIN objs
  BY SectionWords, Zenon DEF Real
<1>5. /\ Real' = Real /\ (AllLaid' <=> AllLaid)
      /\ \A p : (Copied(p)' <=> Copied(p)) /\ (Kept(p)' <=> Kept(p))
  BY <1>1, WordsStill, Zenon
<1>6. CASE phase = "layout"
  <2>1. phase' = "copy"
    BY <1>6 DEF NextLoop
  <2>2. AllLaid
    <3>1. \A o \in DOMAIN objs : \A k : Behind(<<o, k>>)
      BY <1>1, <1>2 DEF Behind
    <3> QED BY <1>6, <3>1, Zenon DEF WordsInv, AllLaid
  <2>3. \A p \in Real : ~Behind(p)'
    <3>1. ASSUME NEW p \in Real PROVE ~Behind(p)'
      <4>1. p \in (Nat \ {0}) \X (Nat \ {0})
        BY SectionWords, Zenon DEF Real
      <4>2. cur'.o = 1 /\ cur'.k = 1 /\ p[1] >= 1 /\ p[2] >= 1 /\ p[1] \in Nat /\ p[2] \in Nat
        BY ONLY <1>1, <4>1, SMT
      <4>3. ~(p[1] < cur'.o) /\ ~(p[2] < cur'.k)
        BY ONLY <4>2, SMT
      <4> QED BY <4>3, Zenon DEF Behind
    <3> QED BY <3>1
  <2> QED BY <1>1, <1>5, <2>1, <2>2, <2>3 DEF WordsInv, Early, Patching
<1>7. CASE phase = "copy"
  <2>1. phase' = "define"
    BY <1>7 DEF NextLoop
  <2>2. AllLaid /\ \A p \in Real : Copied(p)
    BY <1>3, <1>4, <1>7 DEF WordsInv, Laid
  <2> QED BY <1>1, <1>5, <2>1, <2>2 DEF WordsInv, Early, Patching
<1>8. CASE phase = "define"
  <2>1. phase' = "undef"
    BY <1>8 DEF NextLoop
  <2>2. AllLaid /\ \A p \in Real : Copied(p)
    BY <1>8 DEF WordsInv, Laid
  <2> QED BY <1>1, <1>5, <2>1, <2>2 DEF WordsInv, Early, Patching
<1>9. CASE phase = "undef"
  <2>1. phase' = "relocate"
    BY <1>9 DEF NextLoop
  <2>2. AllLaid /\ \A p \in Real : Copied(p)
    BY <1>9 DEF WordsInv, Laid
  <2>3. ASSUME NEW p \in Real PROVE Kept(p)
    <3>1. \A x \in DOMAIN SecAt(p).words : SecAt(p).words[x] \in Words32
      BY SectionWords, Zenon DEF Real
    <3>2. \A x \in DOMAIN SecAt(p).words : There(p, x) /\ At(p, x) = SecAt(p).words[x]
      BY <2>2, Zenon DEF Copied
    <3> QED BY ONLY <3>1, <3>2, Zenon DEF Kept, KeptAt
  <2> QED BY <1>1, <1>5, <2>1, <2>2, <2>3 DEF WordsInv, Early
<1>10. CASE phase = "relocate"
  <2>1. phase' = "emit"
    BY <1>10 DEF NextLoop
  <2>2. AllLaid /\ \A p \in Real : Kept(p)
    BY <1>10 DEF WordsInv, Laid, Patching
  <2> QED BY <1>1, <1>5, <2>1, <2>2 DEF WordsInv, Early
<1> QED BY <1>1, <1>6, <1>7, <1>8, <1>9, <1>10 DEF Loops

\* merge_sections lays out the section it is at.
LEMMA PlaceWords == ASSUME IInv, WordsInv, PlaceSection PROVE WordsInv'
<1>1. /\ phase = "layout" /\ cur' = [cur EXCEPT !.k = @ + 1]
      /\ UNCHANGED <<phase, objs, out>>
  BY Zenon DEF PlaceSection, InLoop, Advance, inputs
<1>2. DOMAIN dataOff' = DOMAIN dataOff \cup {<<cur.o, cur.k>>}
  BY Zenon DEF PlaceSection, Extend
<1>3. cur \in [o : Nat \ {0}, k : Nat \ {0}] /\ objs \in Seq(Objects)
  BY DEF IInv, LoopTyped, InputsTyped
<1>4. ASSUME NEW o \in DOMAIN objs, NEW k \in DOMAIN objs[o].secs, Behind(<<o, k>>)'
      PROVE  <<o, k>> \in DOMAIN dataOff'
  <2>1. objs[o].secs \in Seq(Range(objs[o].secs))
    BY <1>3, ObjectAssumption
  <2>2. o \in Nat /\ k \in Nat
    BY <1>3, <2>1
  <2>3. Behind(<<o, k>>) \/ (o = cur.o /\ k = cur.k)
    BY <1>1, <1>3, <1>4, <2>2 DEF Behind
  <2> QED BY <1>1, <1>2, <2>3 DEF WordsInv
<1> QED BY <1>1, <1>4 DEF WordsInv, Early, Laid, Patching

\* A section that is copied comes to stand in its place, and covers no other.
LEMMA CopyWords == ASSUME IInv, WordsInv, CopySection PROVE WordsInv'
<1>0. PICK c : c = <<cur.o, cur.k>>
  BY Zenon
<1>1. /\ phase = "copy" /\ cur' = [cur EXCEPT !.k = @ + 1]
      /\ cur.o <= Len(objs) /\ cur.k <= Len(objs[cur.o].secs)
      /\ UNCHANGED <<phase, objs, dataOff>>
  BY Zenon DEF CopySection, InLoop, ItemCount, Advance, inputs
<1>2. PICK moved : /\ moved = [x \in {dataOff[c] + w : w \in DOMAIN SecAt(c).words} |-> SecAt(c).words[x - dataOff[c]]]
                   /\ out' = IF SecAt(c).type = "bss" THEN out
                             ELSE [out EXCEPT ![SecAt(c).type] = Over(moved, @)]
  <2>1. SecAt(c) = objs[cur.o].secs[cur.k]
    BY <1>0 DEF SecAt
  <2> QED BY <1>0, <2>1, Zenon DEF CopySection
<1>3. cur \in [o : Nat \ {0}, k : Nat \ {0}] /\ objs \in Seq(Objects)
  BY DEF IInv, LoopTyped, InputsTyped
<1>4. c \in DOMAIN dataOff
  <2>1. cur.o \in DOMAIN objs /\ objs[cur.o] \in Objects
    BY <1>1, <1>3
  <2>2. objs[cur.o].secs \in Seq(Range(objs[cur.o].secs))
    BY <2>1, ObjectAssumption, Zenon
  <2>3. cur.k \in DOMAIN objs[cur.o].secs
    BY <1>1, <1>3, <2>2
  <2>4. AllLaid
    BY <1>1 DEF WordsInv, Laid
  <2> QED BY <1>0, <2>1, <2>3, <2>4, Zenon DEF AllLaid
<1>5. /\ dataOff[c] \in Nat /\ SecAt(c).type \in SecTypes
      /\ \A x \in DOMAIN SecAt(c).words : x \in Nat
  BY <1>4, SectionWords, Zenon
<1>6. \A p : SecAt(p)' = SecAt(p)
  BY <1>1, Zenon DEF SecAt
<1>7. Real' = Real /\ (AllLaid' <=> AllLaid)
  BY <1>1, <1>6, Zenon DEF Real, AllLaid
<1>8. DOMAIN out' = SecTypes
  BY <1>2 DEF WordsInv
<1>9. ASSUME NEW p \in Real, Behind(p)' PROVE Behind(p) \/ p = c
  <2>1. p = <<p[1], p[2]>> /\ p[1] \in Nat /\ p[2] \in Nat
    BY SectionWords DEF Real
  <2>2. p[1] < cur.o \/ (p[1] = cur.o /\ p[2] < cur.k + 1)
    BY <1>1, <1>3, <1>9 DEF Behind
  <2>3. Behind(p) \/ (p[1] = cur.o /\ p[2] = cur.k)
    BY <1>3, <2>1, <2>2 DEF Behind
  <2> QED BY <1>0, <2>1, <2>3, Zenon
<1>10. /\ DOMAIN moved = {dataOff[c] + w : w \in DOMAIN SecAt(c).words}
       /\ \A x \in DOMAIN SecAt(c).words : moved[dataOff[c] + x] = SecAt(c).words[x]
  <2>1. DOMAIN moved = {dataOff[c] + w : w \in DOMAIN SecAt(c).words}
    BY <1>2, Zenon
  <2>2. ASSUME NEW x \in DOMAIN SecAt(c).words PROVE moved[dataOff[c] + x] = SecAt(c).words[x]
    <3>1. (dataOff[c] + x) - dataOff[c] = x
      BY <1>5
    <3> QED BY <1>2, <3>1, Zenon
  <2> QED BY <2>1, <2>2
<1>11. ASSUME NEW p \in Real, Behind(p)' PROVE Copied(p)'
  <2>0. p \in DOMAIN dataOff /\ SecAt(p).type # "bss" /\ SecAt(p).type \in SecTypes
    BY SectionWords, Zenon DEF Real
  <2>1. CASE SecAt(c).type = "bss"
    <3>1. out' = out /\ p # c
      BY <1>2, <2>0, <2>1
    <3>2. Copied(p)
      BY <1>1, <1>9, <1>11, <3>1 DEF WordsInv
    <3> QED BY <1>1, <3>1, <3>2, WordsStill, Zenon
  <2>2. CASE SecAt(c).type # "bss"
    <3>1. /\ out'[SecAt(c).type] = Over(moved, out[SecAt(c).type])
          /\ \A t \in SecTypes : t # SecAt(c).type => out'[t] = out[t]
      BY <1>2, <1>5, <2>2 DEF WordsInv
    <3>2. CASE p = c
      <4>1. ASSUME NEW x \in DOMAIN SecAt(c).words
            PROVE  There(c, x)' /\ At(c, x)' = SecAt(c).words[x]
        <5>1. dataOff[c] + x \in DOMAIN moved
          BY <1>10, Zenon
        <5>2. /\ dataOff[c] + x \in DOMAIN Over(moved, out[SecAt(c).type])
              /\ Over(moved, out[SecAt(c).type])[dataOff[c] + x] = SecAt(c).words[x]
          BY <1>10, <5>1, OverNew, Zenon
        <5> QED BY <1>1, <1>6, <3>1, <5>2, Zenon DEF There, At
      <4> QED BY <1>6, <3>2, <4>1, Zenon DEF Copied
    <3>3. CASE p # c
      <4>1. Copied(p)
        BY <1>1, <1>9, <1>11, <3>3 DEF WordsInv
      <4>2. CASE SecAt(p).type # SecAt(c).type
        <5>1. out'[SecAt(p).type] = out[SecAt(p).type]
          BY <2>0, <3>1, <4>2, Zenon
        <5> QED BY <1>1, <1>6, <4>1, <5>1, Zenon DEF Copied, There, At
      <4>3. CASE SecAt(p).type = SecAt(c).type
        <5>1. ASSUME NEW x \in DOMAIN SecAt(p).words
              PROVE  There(p, x)' /\ At(p, x)' = SecAt(p).words[x]
          <6>1. dataOff[p] + x \in DOMAIN out[SecAt(p).type] /\ out[SecAt(p).type][dataOff[p] + x] = SecAt(p).words[x]
            BY <4>1, Zenon DEF Copied, There, At
          <6>2. dataOff[p] + x \notin DOMAIN moved
            BY <1>4, <1>10, <2>0, <3>3, <4>3, OneWord, ZenonT(40)
          <6>3. /\ dataOff[p] + x \in DOMAIN Over(moved, out[SecAt(p).type])
                /\ Over(moved, out[SecAt(p).type])[dataOff[p] + x] = SecAt(p).words[x]
            BY ONLY <6>1, <6>2, OverOld, SMT
          <6> QED BY <1>1, <1>6, <3>1, <4>3, <6>3, Zenon DEF There, At
        <5> QED BY <1>6, <5>1, Zenon DEF Copied
      <4> QED BY <4>2, <4>3
    <3> QED BY <3>2, <3>3
  <2> QED BY <2>1, <2>2
<1>12. AllLaid
  BY <1>1 DEF WordsInv, Laid
<1> QED BY <1>1, <1>7, <1>8, <1>11, <1>12 DEF WordsInv, Early, Laid, Patching

\* A relocation patches the words it is for, in their fields.
LEMMA RelocWords == ASSUME IInv, WordsInv, ApplyReloc PROVE WordsInv'
<1>0. PICK r : r = objs[cur.o].relocs[cur.k]
  BY Zenon
<1>q. PICK q : q = <<cur.o, r.sec>>
  BY Zenon
<1>1. /\ phase = "relocate" /\ cur' = [cur EXCEPT !.k = @ + 1]
      /\ cur.o <= Len(objs) /\ cur.k <= Len(objs[cur.o].relocs)
      /\ UNCHANGED <<phase, objs, dataOff>>
  BY Zenon DEF ApplyReloc, InLoop, ItemCount, Advance, inputs
<1>2. /\ r.sec \in DOMAIN objs[cur.o].secs /\ objs[cur.o].secs[r.sec].type # "bss"
      /\ r.type \in RelocTypes
  BY <1>0, Zenon DEF ApplyReloc, Applies
<1>3. cur \in [o : Nat \ {0}, k : Nat \ {0}] /\ objs \in Seq(Objects)
  BY DEF IInv, LoopTyped, InputsTyped
<1>4. cur.o \in DOMAIN objs /\ objs[cur.o] \in Objects
  BY <1>1, <1>3
<1>5. cur.k \in DOMAIN objs[cur.o].relocs
  <2>1. objs[cur.o].relocs \in Seq(Range(objs[cur.o].relocs))
    BY <1>4, WordsAssumption, Zenon
  <2> QED BY <1>1, <1>3, <2>1
<1>6. AllLaid /\ \A p \in Real : Kept(p)
  BY <1>1 DEF WordsInv, Laid, Patching
<1>7. q \in DOMAIN dataOff /\ SecAt(q) = objs[cur.o].secs[r.sec] /\ q[1] = cur.o /\ q[2] = r.sec
  <2>1. q[1] = cur.o /\ q[2] = r.sec
    BY <1>q
  <2> QED BY <1>q, <1>2, <1>4, <1>6, <2>1, Zenon DEF AllLaid, SecAt
<1>8. /\ r.off \in DOMAIN SecAt(q).words
      /\ r.type = "64" => r.off + 4 \in DOMAIN SecAt(q).words
  BY <1>0, <1>2, <1>4, <1>5, <1>7, WordsAssumption, Zenon
<1>9. dataOff[q] \in Nat /\ r.off \in Nat /\ SecAt(q).type \in SecTypes /\ SecAt(q).type # "bss"
  BY <1>2, <1>7, <1>8, SectionWords, Zenon
<1>10. PICK new : /\ new = Written(cur.o, r, out[SecAt(q).type])
                  /\ out' = [out EXCEPT ![SecAt(q).type] = Over(new, @)]
  BY <1>0, <1>7, Zenon DEF ApplyReloc
<1>11. Site(cur.o, r) = dataOff[q] + r.off
  BY <1>q, Zenon DEF Site
<1>12. PICK v, a : new = [x \in {dataOff[q] + r.off} \cup (IF r.type = "64" THEN {dataOff[q] + r.off + 4} ELSE {}) |->
                            IF x = dataOff[q] + r.off THEN Patched(out[SecAt(q).type][x], r.type, v, a)
                            ELSE IF v < 0 THEN 0..31 ELSE {}]
  BY <1>10, <1>11, ZenonT(40) DEF Written
<1>13. /\ DOMAIN new = {dataOff[q] + r.off} \cup (IF r.type = "64" THEN {dataOff[q] + r.off + 4} ELSE {})
       /\ new[dataOff[q] + r.off] = Patched(At(q, r.off), r.type, v, a)
       /\ r.type = "64" => new[dataOff[q] + (r.off + 4)] \in Words32
  <2>1. new[dataOff[q] + r.off] = Patched(At(q, r.off), r.type, v, a)
    BY <1>12, Zenon DEF At
  <2>2. ASSUME r.type = "64" PROVE new[dataOff[q] + (r.off + 4)] \in Words32
    <3>1. dataOff[q] + (r.off + 4) = dataOff[q] + r.off + 4 /\ dataOff[q] + r.off + 4 # dataOff[q] + r.off
      BY <1>9
    <3>2. (IF v < 0 THEN 0..31 ELSE {}) \in Words32
      BY Zenon DEF Words32
    <3> QED BY <1>12, <2>2, <3>1, <3>2, Zenon
  <2> QED BY <1>12, <2>1, <2>2, Zenon
<1>14. /\ out'[SecAt(q).type] = Over(new, out[SecAt(q).type])
       /\ \A t \in SecTypes : t # SecAt(q).type => out'[t] = out[t]
       /\ DOMAIN out' = SecTypes
  BY <1>9, <1>10, Zenon DEF WordsInv
<1>15. \A p : SecAt(p)' = SecAt(p)
  BY <1>1, Zenon DEF SecAt
<1>16. Real' = Real /\ (AllLaid' <=> AllLaid)
  BY <1>1, <1>15, Zenon DEF Real, AllLaid
<1>17. \A p, x : RelocsAt(p, x)' = RelocsAt(p, x)
  BY <1>1, Zenon DEF RelocsAt
<1>18. \A p, x : FreeAt(p, x)' = FreeAt(p, x)
  BY <1>17, Zenon DEF FreeAt
<1>19. ASSUME NEW p \in Real, NEW x \in DOMAIN SecAt(p).words PROVE KeptAt(p, x)'
  <2>1. p \in DOMAIN dataOff /\ SecAt(p).type \in SecTypes /\ SecAt(p).words[x] \in Words32
    BY SectionWords, Zenon DEF Real
  <2>2. KeptAt(p, x)
    BY <1>6, Zenon DEF Kept
  <2>3. There(p, x) /\ At(p, x) \in Words32
    BY <2>2, ZenonT(40) DEF KeptAt
  <2>4. ASSUME At(p, x)' = At(p, x), There(p, x)' PROVE KeptAt(p, x)'
    <3>1. SecAt(p)' = SecAt(p) /\ RelocsAt(p, x)' = RelocsAt(p, x) /\ FreeAt(p, x)' = FreeAt(p, x)
      BY <1>15, <1>17, <1>18, Zenon
    <3> QED BY ONLY <2>2, <2>4, <3>1 DEF KeptAt
  <2>5. CASE SecAt(p).type # SecAt(q).type
    <3>1. out'[SecAt(p).type] = out[SecAt(p).type]
      BY <1>14, <2>1, <2>5, Zenon
    <3>2. At(p, x)' = At(p, x) /\ There(p, x)'
      BY <1>1, <1>15, <2>3, <3>1, Zenon DEF At, There
    <3> QED BY <2>4, <3>2
  <2>6. CASE SecAt(p).type = SecAt(q).type /\ dataOff[p] + x \notin DOMAIN new
    <3>1. dataOff[p] + x \in DOMAIN out[SecAt(p).type]
      BY <2>3, ZenonT(40) DEF There
    <3>2. /\ dataOff[p] + x \in DOMAIN Over(new, out[SecAt(p).type])
          /\ Over(new, out[SecAt(p).type])[dataOff[p] + x] = out[SecAt(p).type][dataOff[p] + x]
      BY ONLY <2>6, <3>1, OverOld, SMT
    <3>3. At(p, x)' = At(p, x) /\ There(p, x)'
      BY <1>1, <1>14, <1>15, <2>6, <3>2, Zenon DEF At, There
    <3> QED BY <2>4, <3>3
  <2>7. CASE SecAt(p).type = SecAt(q).type /\ dataOff[p] + x \in DOMAIN new
    <3>1. p = q /\ (x = r.off \/ (r.type = "64" /\ x = r.off + 4))
      <4>1. \/ dataOff[p] + x = dataOff[q] + r.off
            \/ r.type = "64" /\ dataOff[p] + x = dataOff[q] + r.off + 4
        BY <1>13, <2>7
      <4>2. dataOff[q] + r.off + 4 = dataOff[q] + (r.off + 4)
        BY <1>9
      <4>3. CASE dataOff[p] + x = dataOff[q] + r.off
        BY <1>7, <1>8, <2>1, <2>7, <4>3, OneWord, ZenonT(40)
      <4>4. CASE r.type = "64" /\ dataOff[p] + x = dataOff[q] + (r.off + 4)
        <5>1. r.off + 4 \in DOMAIN SecAt(q).words
          BY <1>8, <4>4
        <5>2. q \in DOMAIN dataOff /\ p \in DOMAIN dataOff /\ SecAt(p).type = SecAt(q).type
          BY <1>7, <2>1, <2>7, ZenonT(40)
        <5>3. p = q /\ x = r.off + 4
          BY ONLY IInv, <1>19, <4>4, <5>1, <5>2, OneWord, SMT
        <5> QED BY <4>4, <5>3
      <4> QED BY ONLY <4>1, <4>2, <4>3, <4>4, SMT
    <3>2. r \in RelocsAt(p, x)
      BY <1>0, <1>5, <1>7, <3>1, Zenon DEF RelocsAt
    <3>3. PatchedBits(r.type) \subseteq FreeAt(p, x)
      BY <3>2, Zenon DEF FreeAt
    <3>4. At(p, x)' = new[dataOff[p] + x] /\ There(p, x)'
      <4>1. /\ dataOff[p] + x \in DOMAIN Over(new, out[SecAt(p).type])
            /\ Over(new, out[SecAt(p).type])[dataOff[p] + x] = new[dataOff[p] + x]
        BY <2>7, OverNew, ZenonT(40)
      <4> QED BY <1>1, <1>14, <1>15, <2>7, <4>1, Zenon DEF At, There
    <3>5. ASSUME At(p, x)' \in Words32, At(p, x)' \ FreeAt(p, x) = SecAt(p).words[x] \ FreeAt(p, x)
          PROVE  KeptAt(p, x)'
      <4>1. SecAt(p)' = SecAt(p) /\ RelocsAt(p, x)' = RelocsAt(p, x) /\ FreeAt(p, x)' = FreeAt(p, x)
        BY <1>15, <1>17, <1>18, Zenon
      <4> QED BY ONLY <3>4, <3>5, <4>1, ZenonT(40) DEF KeptAt
    <3>6. CASE x = r.off
      <4>1. At(p, x)' = Patched(At(p, x), r.type, v, a)
        BY <1>13, <3>1, <3>4, <3>6, ZenonT(40)
      <4>2. Keeps(At(p, x), PatchedBits(r.type), At(p, x)')
        BY <1>2, <2>3, <4>1, PatchedKeeps, ZenonT(40)
      <4>3. At(p, x)' \in Words32 /\ At(p, x)' \ PatchedBits(r.type) = At(p, x) \ PatchedBits(r.type)
        BY <4>2, Zenon DEF Keeps
      <4>4. At(p, x) \ FreeAt(p, x) = SecAt(p).words[x] \ FreeAt(p, x)
        BY <2>2, Zenon DEF KeptAt
      <4>5. At(p, x)' \ FreeAt(p, x) = SecAt(p).words[x] \ FreeAt(p, x)
        BY ONLY <3>3, <4>3, <4>4, NestedFields
      <4> QED BY <3>5, <4>3, <4>5, ZenonT(40)
    <3>7. CASE r.type = "64" /\ x = r.off + 4
      <4>1. At(p, x)' \in Words32
        BY <1>13, <3>1, <3>4, <3>7, Zenon
      <4>2. 0..31 \subseteq FreeAt(p, x)
        BY <3>3, <3>7 DEF PatchedBits
      <4>3. At(p, x)' \ FreeAt(p, x) = SecAt(p).words[x] \ FreeAt(p, x)
        BY ONLY <2>1, <4>1, <4>2, Zenon DEF Words32
      <4> QED BY <3>5, <4>1, <4>3
    <3> QED BY <3>1, <3>6, <3>7
  <2> QED BY <2>5, <2>6, <2>7
<1>20. \A p \in Real : Kept(p)'
  BY <1>15, <1>19, Zenon DEF Kept
<1> QED BY <1>1, <1>6, <1>14, <1>16, <1>20 DEF WordsInv, Early, Patching

\* Every step of the linker keeps the words.
LEMMA NextWords == IInv /\ WordsInv /\ [Next]_vars => WordsInv'
<1> SUFFICES ASSUME IInv, WordsInv, [Next]_vars PROVE WordsInv'
  OBVIOUS
<1>0. phase \in Early \/ phase \notin Early
  OBVIOUS
<1>1. CASE UNCHANGED vars
  BY <1>1, QuietWords DEF vars, Quiet
<1>2. CASE \/ BadOption \/ LoadFails \/ ArchiveFails \/ NoInput \/ OutOfMemory
           \/ DefineFails \/ CheckFails \/ ApplyFails \/ EmitFails
  <2>1. Fail
    BY <1>2, Zenon DEF BadOption, LoadFails, ArchiveFails, NoInput, OutOfMemory, DefineFails, CheckFails,
                ApplyFails, EmitFails
  <2>2. phase' = "failed" /\ out' = out
    BY <2>1, Zenon DEF Fail
  <2> QED BY <2>2, QuietWords DEF Quiet
<1>3. CASE Option \/ LoadObject \/ OpenArchive \/ ReadMember \/ CloseArchive
  <2>1. phase \in Early /\ phase' \in Early /\ cur' = cur /\ out' = out
    BY <1>3, Zenon DEF Option, LoadObject, OpenArchive, ReadMember, CloseArchive, Early
  <2> QED BY <2>1, QuietWords, Zenon DEF Quiet
<1>4. CASE Help
  <2>1. phase' = "help" /\ out' = out
    BY <1>4, Zenon DEF Help
  <2> QED BY <2>1, QuietWords DEF Quiet
<1>5. CASE BeginLayout
  <2>1. phase \in Early /\ phase' = "layout" /\ UNCHANGED <<cur, objs, dataOff>> /\ out' = out
    BY <1>5, Zenon DEF BeginLayout, Early, inputs
  <2> QED BY <2>1, QuietWords, Zenon DEF Quiet
<1>6. CASE DefineSymbol \/ CheckSymbol
  <2>1. /\ phase \in {"define", "undef"} /\ phase' = phase /\ UNCHANGED <<objs, dataOff>> /\ out' = out
    BY <1>6, Zenon DEF DefineSymbol, CheckSymbol, InLoop, inputs
  <2>2. phase \notin Early /\ phase \notin {"layout", "copy"}
    BY <2>1 DEF Early
  <2> QED BY <2>1, <2>2, QuietWords, Zenon DEF Quiet
<1>7. CASE Emit
  <2>1. phase = "emit" /\ phase' = "done" /\ UNCHANGED <<objs, dataOff>> /\ out' = out
    BY <1>7, Zenon DEF Emit, inputs
  <2> QED BY <2>1, QuietWords, Zenon DEF Quiet
<1>8. CASE NextObject \/ NextLoop \/ PlaceSection \/ CopySection \/ ApplyReloc
  BY <1>8, NextObjectWords, NextLoopWords, PlaceWords, CopyWords, RelocWords, Zenon
<1> QED BY <1>1, <1>2, <1>3, <1>4, <1>5, <1>6, <1>7, <1>8, Zenon DEF Next

\* However many relocations patch a word, the operation of the instruction
\* there stays, and so do its registers, except the link register of a call,
\* and no relocation of one section reaches the words of another:
\* apply_relocations writes only the fields it is for, and for a call rd.
THEOREM OperationsAlwaysKept == Spec => []OperationsKept
<1>1. Init => WordsInv
  BY DEF Init, WordsInv, Early, Laid, Patching
<1>2. IInv /\ WordsInv => OperationsKept
  <2> SUFFICES ASSUME IInv, WordsInv, phase \in {"relocate", "emit", "done"},
                      NEW p \in DOMAIN dataOff, SecAt(p).type # "bss",
                      NEW x \in DOMAIN SecAt(p).words
               PROVE  At(p, x) \ FreeAt(p, x) = SecAt(p).words[x] \ FreeAt(p, x)
    BY Zenon DEF OperationsKept, At, RelocsAt, FreeAt
  <2>1. Kept(p)
    BY DEF WordsInv, Patching, Real
  <2> QED BY <2>1, Zenon DEF Kept, KeptAt
<1> QED BY <1>1, <1>2, NextWords, InvariantHolds, PTL DEF Spec

-----------------------------------------------------------------------------
(* What the references are bound to.                                       *)

\* The symbols the objects export, the relocations, and the names of both.
Exports == {d \in UNION {{o} \X DOMAIN objs[o].syms : o \in DOMAIN objs} : Exported(objs[d[1]].syms[d[2]])}
NameOf(d) == objs[d[1]].syms[d[2]].name
Relocations == UNION {{o} \X DOMAIN objs[o].relocs : o \in DOMAIN objs}
Referred(d) == objs[d[1]].syms[objs[d[1]].relocs[d[2]].sym].name

\* build_global_symbol_table and apply_relocations have passed d.
Entered(d) == phase \in {"undef", "relocate", "emit", "done"} \/ (phase = "define" /\ Behind(d))
Applied(d) == phase \in {"emit", "done"} \/ (phase = "relocate" /\ Behind(d))

\* The symbols passed have their names in the table and no name in common, and
\* the relocations passed found theirs.
BindInv ==
    /\ \A d \in Exports : Entered(d) => Found(NameOf(d))
    /\ \A d, e \in Exports : Entered(d) /\ Entered(e) /\ NameOf(d) = NameOf(e) => d = e
    /\ \A d \in Relocations : Applied(d) => Found(Referred(d))

\* Every relocation of a finished link was computed from the address of the
\* symbol it names, and exactly one of the objects exports that name.
ReferencesBind ==
    phase = "done" =>
        \A o \in DOMAIN objs : \A k \in DOMAIN objs[o].relocs :
            LET r == objs[o].relocs[k]
                name == objs[o].syms[r.sym].name
            IN  \E d \in Definitions(name) :
                    Definitions(name) = {d} /\ Target(o, r) = AddressOf(d) + r.addend

\* An exported symbol and a relocation are found by their object and number.
LEMMA Places ==
  ASSUME IInv
  PROVE  /\ \A d \in Exports : /\ d = <<d[1], d[2]>> /\ d[1] \in 1 .. Len(objs)
                               /\ d[2] \in 1 .. Len(objs[d[1]].syms)
         /\ \A d \in Relocations : /\ d = <<d[1], d[2]>> /\ d[1] \in 1 .. Len(objs)
                                   /\ d[2] \in 1 .. Len(objs[d[1]].relocs)
<1>1. objs \in Seq(Objects) /\ DOMAIN objs = 1 .. Len(objs)
  BY DEF IInv, InputsTyped
<1>2. ASSUME NEW o \in DOMAIN objs
      PROVE  DOMAIN objs[o].syms = 1 .. Len(objs[o].syms) /\ DOMAIN objs[o].relocs = 1 .. Len(objs[o].relocs)
  <2>1. objs[o] \in Objects
    BY <1>1
  <2>2. objs[o].syms \in Seq(Range(objs[o].syms)) /\ objs[o].relocs \in Seq(Range(objs[o].relocs))
    BY <2>1, ObjectAssumption, WordsAssumption, Zenon
  <2> QED BY <2>2
<1>3. ASSUME NEW d \in Exports
      PROVE  d = <<d[1], d[2]>> /\ d[1] \in 1 .. Len(objs) /\ d[2] \in 1 .. Len(objs[d[1]].syms)
  <2>1. PICK o \in DOMAIN objs : d \in {o} \X DOMAIN objs[o].syms
    BY Zenon DEF Exports
  <2>2. d = <<d[1], d[2]>> /\ d[1] = o /\ d[2] \in DOMAIN objs[o].syms
    BY <2>1
  <2> QED BY <1>1, <1>2, <2>2, Zenon
<1>4. ASSUME NEW d \in Relocations
      PROVE  d = <<d[1], d[2]>> /\ d[1] \in 1 .. Len(objs) /\ d[2] \in 1 .. Len(objs[d[1]].relocs)
  <2>1. PICK o \in DOMAIN objs : d \in {o} \X DOMAIN objs[o].relocs
    BY Zenon DEF Relocations
  <2>2. d = <<d[1], d[2]>> /\ d[1] = o /\ d[2] \in DOMAIN objs[o].relocs
    BY <2>1
  <2> QED BY <1>1, <1>2, <2>2, Zenon
<1> QED BY <1>3, <1>4, Zenon

\* How the loops pass their items.
LEMMA Passing ==
  ASSUME cur \in [o : Nat \ {0}, k : Nat \ {0}], NEW d, d[1] \in Nat \ {0}, d[2] \in Nat \ {0}
  PROVE  /\ d[1] < cur.o => Behind(d)
         /\ cur' = [o |-> 1, k |-> 1] => ~Behind(d)'
         /\ cur' = [o |-> cur.o + 1, k |-> 1] /\ (d[1] = cur.o => d[2] < cur.k) /\ Behind(d)' => Behind(d)
         /\ cur' = [cur EXCEPT !.k = @ + 1] /\ Behind(d)' => Behind(d) \/ (d[1] = cur.o /\ d[2] = cur.k)
<1>1. cur.o \in Nat /\ cur.k \in Nat
  OBVIOUS
<1>2. ASSUME cur' = [o |-> 1, k |-> 1] PROVE ~Behind(d)'
  BY <1>2 DEF Behind
<1>3. ASSUME cur' = [o |-> cur.o + 1, k |-> 1], d[1] = cur.o => d[2] < cur.k, Behind(d)' PROVE Behind(d)
  <2>1. cur'.o = cur.o + 1 /\ cur'.k = 1
    BY <1>3
  <2> QED BY <1>1, <1>3, <2>1 DEF Behind
<1>4. ASSUME cur' = [cur EXCEPT !.k = @ + 1], Behind(d)' PROVE Behind(d) \/ (d[1] = cur.o /\ d[2] = cur.k)
  <2>1. cur'.o = cur.o /\ cur'.k = cur.k + 1
    BY <1>4
  <2> QED BY <1>1, <1>4, <2>1 DEF Behind
<1> QED BY <1>2, <1>3, <1>4 DEF Behind

\* Before the table is built there is nothing to bind.
LEMMA BindNothing == ASSUME \A d \in Exports' \cup Relocations' : ~Entered(d)' /\ ~Applied(d)' PROVE BindInv'
BY Zenon DEF BindInv

\* A step that leaves the symbols alone and passes no item that is not bound.
LEMMA BindFrame ==
  ASSUME BindInv, UNCHANGED <<objs, globals>>,
         \A d \in Exports : Entered(d)' => Entered(d),
         \A d \in Relocations : Applied(d)' => Applied(d) \/ Found(Referred(d))
  PROVE  BindInv'
<1>1. /\ Exports' = Exports /\ Relocations' = Relocations
      /\ \A d : NameOf(d)' = NameOf(d) /\ Referred(d)' = Referred(d)
  BY Zenon DEF Exports, Relocations, NameOf, Referred
<1>2. /\ \A d : Found(NameOf(d))' <=> Found(NameOf(d))
      /\ \A d : Found(Referred(d))' <=> Found(Referred(d))
  BY <1>1, Zenon DEF Found
<1>3. \A d \in Exports' : Entered(d)' => Found(NameOf(d))'
  BY <1>1, <1>2, Zenon DEF BindInv
<1>4. \A d, e \in Exports' : Entered(d)' /\ Entered(e)' /\ NameOf(d)' = NameOf(e)' => d = e
  BY <1>1, Zenon DEF BindInv
<1>5. \A d \in Relocations' : Applied(d)' => Found(Referred(d))'
  BY <1>1, <1>2, Zenon DEF BindInv
<1> QED BY <1>3, <1>4, <1>5, Zenon DEF BindInv

\* The outer loops reach every object, and each loop every item before the next.
LEMMA LoopBinds == ASSUME IInv, BindInv, NextObject \/ NextLoop PROVE BindInv'
<1>1. cur \in [o : Nat \ {0}, k : Nat \ {0}] /\ Len(objs) \in Nat
  BY DEF IInv, LoopTyped, InputsTyped
<1>2. phase \in Loops /\ UNCHANGED <<objs, globals>>
  BY Zenon DEF NextObject, NextLoop, inputs
<1>3. /\ \A d \in Exports : /\ d[1] \in Nat \ {0} /\ d[2] \in Nat \ {0} /\ d[1] <= Len(objs)
                            /\ d[2] <= Len(objs[d[1]].syms)
      /\ \A d \in Relocations : /\ d[1] \in Nat \ {0} /\ d[2] \in Nat \ {0} /\ d[1] <= Len(objs)
                                /\ d[2] <= Len(objs[d[1]].relocs)
  <2>1. \A n \in Nat : \A i \in 1 .. n : i \in Nat \ {0} /\ i <= n
    OBVIOUS
  <2>2. ASSUME NEW o \in DOMAIN objs PROVE Len(objs[o].syms) \in Nat /\ Len(objs[o].relocs) \in Nat
    <3>1. objs[o] \in Objects
      BY DEF IInv, InputsTyped
    <3>2. objs[o].syms \in Seq(Range(objs[o].syms)) /\ objs[o].relocs \in Seq(Range(objs[o].relocs))
      BY <3>1, ObjectAssumption, WordsAssumption, Zenon
    <3> QED BY <3>2
  <2>3. DOMAIN objs = 1 .. Len(objs)
    BY DEF IInv, InputsTyped
  <2> QED BY <1>1, <2>1, <2>2, <2>3, Places, Zenon
<1>4. CASE NextObject
  <2>1. cur' = [o |-> cur.o + 1, k |-> 1] /\ cur.k > ItemCount(cur.o, phase) /\ phase' = phase
    BY <1>4, Zenon DEF NextObject
  <2>2. ASSUME NEW d \in Exports, Entered(d)' PROVE Entered(d)
    <3>1. CASE phase = "define"
      <4>1. cur.k > Len(objs[cur.o].syms)
        BY <2>1, <3>1 DEF ItemCount
      <4>2. Behind(d)'
        BY <2>1, <2>2, <3>1 DEF Entered
      <4>3. d[1] = cur.o => d[2] < cur.k
        <5>1. d[1] = cur.o => d[2] \in Nat /\ cur.k \in Nat /\ d[2] <= Len(objs[cur.o].syms)
          BY <1>1, <1>3
        <5>2. d[1] = cur.o => Len(objs[cur.o].syms) \in Nat
          <6>1. d[1] \in DOMAIN objs /\ objs \in Seq(Objects)
            BY Places DEF IInv, InputsTyped
          <6>2. objs[d[1]].syms \in Seq(Range(objs[d[1]].syms))
            BY <6>1, ObjectAssumption
          <6> QED BY <6>2
        <5> QED BY ONLY <4>1, <5>1, <5>2
      <4> QED BY <1>1, <1>3, <2>1, <3>1, <4>2, <4>3, Passing, Zenon DEF Entered
    <3>2. CASE phase # "define"
      BY <2>1, <2>2, <3>2, Zenon DEF Entered
    <3> QED BY <3>1, <3>2
  <2>3. ASSUME NEW d \in Relocations, Applied(d)' PROVE Applied(d)
    <3>1. CASE phase = "relocate"
      <4>1. cur.k > Len(objs[cur.o].relocs)
        BY <2>1, <3>1 DEF ItemCount
      <4>2. Behind(d)'
        BY <2>1, <2>3, <3>1 DEF Applied
      <4>3. d[1] = cur.o => d[2] < cur.k
        <5>1. d[1] = cur.o => d[2] \in Nat /\ cur.k \in Nat /\ d[2] <= Len(objs[cur.o].relocs)
          BY <1>1, <1>3
        <5>2. d[1] = cur.o => Len(objs[cur.o].relocs) \in Nat
          <6>1. d[1] \in DOMAIN objs /\ objs \in Seq(Objects)
            BY Places DEF IInv, InputsTyped
          <6>2. objs[d[1]].relocs \in Seq(Range(objs[d[1]].relocs))
            BY <6>1, WordsAssumption
          <6> QED BY <6>2
        <5> QED BY ONLY <4>1, <5>1, <5>2
      <4> QED BY <1>1, <1>3, <2>1, <3>1, <4>2, <4>3, Passing, Zenon DEF Applied
    <3>2. CASE phase # "relocate"
      BY <2>1, <2>3, <3>2, Zenon DEF Applied
    <3> QED BY <3>1, <3>2
  <2> QED BY <1>2, <2>2, <2>3, BindFrame, Zenon
<1>5. CASE NextLoop
  <2>1. /\ cur.o > Len(objs) /\ cur' = [o |-> 1, k |-> 1]
        /\ phase' = CASE phase = "layout" -> "copy"
                      [] phase = "copy" -> "define"
                      [] phase = "define" -> "undef"
                      [] phase = "undef" -> "relocate"
                      [] phase = "relocate" -> "emit"
    BY <1>5, Zenon DEF NextLoop, Start
  <2>2. ASSUME NEW d \in Exports \cup Relocations PROVE Behind(d) /\ ~Behind(d)'
    <3>1. d[1] \in Nat \ {0} /\ d[2] \in Nat \ {0} /\ d[1] <= Len(objs)
      BY <1>3, Zenon
    <3>2. d[1] < cur.o
      BY <1>1, <2>1, <3>1
    <3> QED BY <1>1, <2>1, <3>1, <3>2, Passing, Zenon
  <2>3. Exports' = Exports /\ Relocations' = Relocations
    BY <1>2, Zenon DEF Exports, Relocations
  <2>4. CASE phase \in {"layout", "copy"}
    <3>1. phase' \in {"copy", "define"}
      BY <2>1, <2>4
    <3>2. \A d \in Exports' \cup Relocations' : ~Entered(d)' /\ ~Applied(d)'
      BY <2>2, <2>3, <3>1 DEF Entered, Applied
    <3> QED BY <3>2, BindNothing
  <2>5. CASE phase \in {"define", "undef", "relocate"}
    <3>1. \/ phase = "define" /\ phase' = "undef"
          \/ phase = "undef" /\ phase' = "relocate"
          \/ phase = "relocate" /\ phase' = "emit"
      BY <2>1, <2>5
    <3>2. \A d \in Exports : Entered(d)
      BY <2>2, <2>5 DEF Entered
    <3>3. \A d \in Relocations : Applied(d)' => Applied(d)
      BY <2>2, <3>1 DEF Applied
    <3> QED BY <1>2, <3>2, <3>3, BindFrame, Zenon
  <2> QED BY <1>2, <2>4, <2>5 DEF Loops
<1> QED BY <1>4, <1>5

\* A name that build_global_symbol_table enters is new, so no symbol before has it.
LEMMA DefineBinds == ASSUME IInv, BindInv, DefineSymbol PROVE BindInv'
<1>0. PICK c : c = <<cur.o, cur.k>>
  BY Zenon
<1>1. /\ phase = "define" /\ phase' = "define" /\ cur' = [cur EXCEPT !.k = @ + 1] /\ objs' = objs
  BY Zenon DEF DefineSymbol, InLoop, Advance, inputs
<1>2. cur \in [o : Nat \ {0}, k : Nat \ {0}] /\ c[1] = cur.o /\ c[2] = cur.k
  BY <1>0 DEF IInv, LoopTyped
<1>3. /\ Exports' = Exports /\ Relocations' = Relocations /\ \A d : NameOf(d)' = NameOf(d)
  BY <1>1, Zenon DEF Exports, Relocations, NameOf
<1>4. \A d \in Relocations : ~Applied(d)'
  BY <1>1 DEF Applied
<1>5. ASSUME NEW d \in Exports, Entered(d)' PROVE Entered(d) \/ d = c
  <2>1. d = <<d[1], d[2]>> /\ d[1] \in Nat \ {0} /\ d[2] \in Nat \ {0}
    BY Places
  <2>2. Behind(d)'
    BY <1>1, <1>5 DEF Entered
  <2>3. Behind(d) \/ (d[1] = cur.o /\ d[2] = cur.k)
    BY <1>1, <1>2, <2>1, <2>2, Passing, Zenon
  <2> QED BY <1>0, <1>1, <2>1, <2>3, Zenon DEF Entered
<1>6. CASE ~Exported(objs[cur.o].syms[cur.k]) /\ globals' = globals
  <2>1. c \notin Exports
    BY <1>2, <1>6, Zenon DEF Exports
  <2>2. \A d \in Exports : Entered(d)' => Entered(d)
    BY <1>5, <2>1, Zenon
  <2> QED BY <1>1, <1>4, <1>6, <2>2, BindFrame, Zenon
<1>7. CASE \E g : g.name = NameOf(c) /\ ~Found(NameOf(c)) /\ globals' = Append(globals, g)
  <2>1. PICK g : g.name = NameOf(c) /\ ~Found(NameOf(c)) /\ globals' = Append(globals, g)
    BY <1>7, Zenon
  <2>2. globals \in Seq(GlobalSet \cup {g})
    BY DEF IInv, GlobalsTyped
  <2>3. /\ \A i \in DOMAIN globals : i \in DOMAIN globals' /\ globals'[i] = globals[i]
        /\ \E i \in DOMAIN globals' : globals'[i] = g
    BY <2>1, <2>2
  <2>4. \A d : Found(NameOf(d)) \/ d = c => Found(NameOf(d))'
    BY <1>3, <2>1, <2>3, Zenon DEF Found
  <2>5. \A d \in Exports : Entered(d) => NameOf(d) # NameOf(c)
    BY <2>1, Zenon DEF BindInv
  <2>6. \A d \in Exports' : Entered(d)' => Found(NameOf(d))'
    BY <1>3, <1>5, <2>4, Zenon DEF BindInv
  <2>7. \A d, e \in Exports' : Entered(d)' /\ Entered(e)' /\ NameOf(d)' = NameOf(e)' => d = e
    BY <1>3, <1>5, <2>5, Zenon DEF BindInv
  <2> QED BY <1>3, <1>4, <2>6, <2>7, Zenon DEF BindInv
<1>8. \/ ~Exported(objs[cur.o].syms[cur.k]) /\ globals' = globals
      \/ \E g : g.name = NameOf(c) /\ ~Found(NameOf(c)) /\ globals' = Append(globals, g)
  <2>1. NameOf(c) = objs[cur.o].syms[cur.k].name
    BY <1>2, Zenon DEF NameOf
  <2>2. ASSUME NEW s, ~Found(s.name),
               globals' = Append(globals, [name |-> s.name, obj |-> cur.o, sec |-> s.sec, value |-> s.value])
        PROVE  \E g : g.name = s.name /\ ~Found(s.name) /\ globals' = Append(globals, g)
    <3>1. [name |-> s.name, obj |-> cur.o, sec |-> s.sec, value |-> s.value].name = s.name
      OBVIOUS
    <3> QED BY <2>2, <3>1, Zenon
  <2> QED BY <2>1, <2>2, Zenon DEF DefineSymbol
<1> QED BY <1>6, <1>7, <1>8, Zenon

\* A relocation is applied only if its name is in the table.
LEMMA RelocBinds == ASSUME IInv, BindInv, ApplyReloc PROVE BindInv'
<1>1. /\ phase = "relocate" /\ phase' = "relocate" /\ cur' = [cur EXCEPT !.k = @ + 1]
      /\ UNCHANGED <<objs, globals>> /\ Applies(cur.o, objs[cur.o].relocs[cur.k])
  BY Zenon DEF ApplyReloc, InLoop, Advance, inputs
<1>2. cur \in [o : Nat \ {0}, k : Nat \ {0}]
  BY DEF IInv, LoopTyped
<1>3. \A d \in Exports : Entered(d)
  BY <1>1, Zenon DEF Entered
<1>4. ASSUME NEW d \in Relocations, Applied(d)' PROVE Applied(d) \/ Found(Referred(d))
  <2>1. d[1] \in Nat \ {0} /\ d[2] \in Nat \ {0}
    BY Places
  <2>2. Behind(d)'
    BY <1>1, <1>4 DEF Applied
  <2>3. Behind(d) \/ (d[1] = cur.o /\ d[2] = cur.k)
    BY <1>1, <1>2, <2>1, <2>2, Passing, Zenon
  <2>4. CASE d[1] = cur.o /\ d[2] = cur.k
    BY <1>1, <2>4, Zenon DEF Applies, Referred
  <2> QED BY <1>1, <2>3, <2>4, Zenon DEF Applied
<1> QED BY <1>1, <1>3, <1>4, BindFrame, Zenon

\* Every step of the linker keeps what is bound.
LEMMA NextBinds == IInv /\ BindInv /\ [Next]_vars => BindInv'
<1> SUFFICES ASSUME IInv, BindInv, [Next]_vars PROVE BindInv'
  OBVIOUS
<1>1. ASSUME phase' \in {"args", "archive", "layout", "copy", "failed", "help"} PROVE BindInv'
  <2>1. \A d : ~Entered(d)' /\ ~Applied(d)'
    BY <1>1 DEF Entered, Applied
  <2> QED BY <2>1, BindNothing, Zenon
<1>2. ASSUME UNCHANGED <<phase, cur, objs, globals>> PROVE BindInv'
  <2>1. \A d : (Entered(d)' <=> Entered(d)) /\ (Applied(d)' <=> Applied(d))
    BY <1>2, Zenon DEF Entered, Applied, Behind
  <2> QED BY <1>2, <2>1, BindFrame, Zenon
<1>3. CASE UNCHANGED vars
  BY <1>2, <1>3, Zenon DEF vars
<1>4. CASE \/ BadOption \/ LoadFails \/ ArchiveFails \/ NoInput \/ OutOfMemory
           \/ DefineFails \/ CheckFails \/ ApplyFails \/ EmitFails
  <2>1. Fail
    BY <1>4, Zenon DEF BadOption, LoadFails, ArchiveFails, NoInput, OutOfMemory, DefineFails, CheckFails,
                ApplyFails, EmitFails
  <2> QED BY <1>1, <2>1, Zenon DEF Fail
<1>5. CASE \/ Option \/ LoadObject \/ OpenArchive \/ ReadMember \/ CloseArchive \/ Help \/ BeginLayout
           \/ PlaceSection \/ CopySection
  BY <1>1, <1>5, Zenon DEF Option, LoadObject, OpenArchive, ReadMember, CloseArchive, Help, BeginLayout,
                           PlaceSection, CopySection, InLoop
<1>6. CASE CheckSymbol
  <2>1. phase = "undef" /\ phase' = "undef" /\ UNCHANGED <<objs, globals>>
    BY <1>6, Zenon DEF CheckSymbol, InLoop, inputs
  <2>2. \A d : Entered(d) /\ ~Applied(d)'
    BY <2>1 DEF Entered, Applied
  <2> QED BY <2>1, <2>2, BindFrame, Zenon
<1>7. CASE Emit
  <2>1. phase = "emit" /\ UNCHANGED <<objs, globals>>
    BY <1>7, Zenon DEF Emit, inputs
  <2>2. \A d : Entered(d) /\ Applied(d)
    BY <2>1 DEF Entered, Applied
  <2> QED BY <2>1, <2>2, BindFrame, Zenon
<1> QED BY <1>3, <1>4, <1>5, <1>6, <1>7, LoopBinds, DefineBinds, RelocBinds, Zenon DEF Next

\* A link that build_global_symbol_table and apply_relocations let through leaves
\* no reference open and none ambiguous: each relocation is computed from the one
\* exported symbol of its name, in whatever object and order.
THEOREM ReferencesAlwaysBind == Spec => []ReferencesBind
<1>1. Init => BindInv /\ ImageInv
  <2> SUFFICES ASSUME Init PROVE BindInv /\ ImageInv
    OBVIOUS
  <2>1. phase = "args" /\ DOMAIN globals = {} /\ globals = <<>>
    BY DEF Init
  <2>2. \A d : ~Entered(d) /\ ~Applied(d)
    BY <2>1 DEF Entered, Applied
  <2> QED BY <2>1, <2>2 DEF BindInv, ImageInv, GlobalsDefined
<1>2. IInv /\ ImageInv /\ BindInv => ReferencesBind
  <2> SUFFICES ASSUME IInv, ImageInv, BindInv, phase = "done",
                      NEW o \in DOMAIN objs, NEW k \in DOMAIN objs[o].relocs
               PROVE  LET r == objs[o].relocs[k]
                          name == objs[o].syms[r.sym].name
                      IN  \E d \in Definitions(name) :
                              Definitions(name) = {d} /\ Target(o, r) = AddressOf(d) + r.addend
    BY Zenon DEF ReferencesBind
  <2>1. PICK r : r = objs[o].relocs[k]
    BY Zenon
  <2>2. PICK name : name = objs[o].syms[r.sym].name
    BY Zenon
  <2>3. Found(name)
    <3>1. PICK c : c = <<o, k>>
      BY Zenon
    <3>2. c[1] = o /\ c[2] = k /\ c \in {o} \X DOMAIN objs[o].relocs
      BY <3>1
    <3>3. c \in Relocations /\ Applied(c)
      BY <3>2, Zenon DEF Relocations, Applied
    <3>4. Referred(c) = name
      BY <2>1, <2>2, <3>2, Zenon DEF Referred
    <3> QED BY <3>3, <3>4, Zenon DEF BindInv
  <2>4. PICK d \in Definitions(name) : SymVaddr(globals[FindGlobalSym(name)]) = AddressOf(d)
    BY <2>3, FoundDefined, Zenon
  <2>5. \A e \in Definitions(name) : e \in Exports /\ NameOf(e) = name /\ Entered(e)
    BY Zenon DEF Definitions, Exports, NameOf, Entered
  <2>6. \A e \in Definitions(name) : e = d
    BY <2>4, <2>5, Zenon DEF BindInv
  <2>7. Definitions(name) = {d}
    BY <2>4, <2>6, Zenon
  <2>8. Target(o, r) = AddressOf(d) + r.addend
    BY <2>2, <2>4, Zenon DEF Target
  <2> QED BY <2>1, <2>2, <2>4, <2>7, <2>8, Zenon
<1> QED BY <1>1, <1>2, NextBinds, NextImage, InvariantHolds, PTL DEF Spec
=============================================================================
