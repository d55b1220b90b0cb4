---------------------------- MODULE UnitMeaning ----------------------------
(* What C says of the programs of Unit: which object a name denotes, what   *)
(* the objects hold when the program starts, and which programs are         *)
(* rejected. A declaration states its type directly (type) and its initial  *)
(* value as a tree (value); the tokens the compiler reads spell both.       *)
EXTENDS Unit

-----------------------------------------------------------------------------
(* Spelling a type and a value. *)
Tok(t) == [t |-> t, v |-> 0]
RECURSIVE Spelled(_, _)
Spelled(t, inner) ==
  CASE t.k = "ptr" -> Spelled(t.base, IF t.base.k \in {"array", "func"}
                                      THEN <<Tok("("), Tok("*")>> \o inner \o <<Tok(")")>> ELSE <<Tok("*")>> \o inner)
    [] t.k = "array" -> Spelled(t.base, inner \o <<Tok("[")>> \o
                                        (IF t.len = 0 THEN <<>> ELSE <<[t |-> "num", v |-> t.len]>>) \o <<Tok("]")>>)
    [] t.k = "func" -> Spelled(t.base, inner \o <<Tok("("), [t |-> "type", v |-> Void], Tok(")")>>)
    [] OTHER -> [base |-> t, declr |-> inner]

(* braces: "full" for all of them, "elided" for the outermost only; last is *)
(* what stands before the closing brace of the outermost list.              *)
RECURSIVE Written(_, _, _)
Written(v, open, last) ==
  IF v.k # "list" THEN <<[t |-> v.k, v |-> v.v]>>
  ELSE LET parts == [i \in 1 .. Len(v.v) |-> (IF i = 1 THEN <<>> ELSE <<Tok(",")>>) \o Written(v.v[i], open, <<>>)]
           all == FlattenSeq(parts) \o last
       IN IF open THEN <<Tok("{")>> \o all \o <<Tok("}")>> ELSE all
Initializer(v, braces, comma) ==
  LET last == IF comma THEN <<Tok(",")>> ELSE <<>>
  IN CASE v.k = "none" -> <<>>
       [] v.k = "list" /\ braces = "elided" -> <<Tok("{")>> \o Written(v, FALSE, last) \o <<Tok("}")>>
       [] OTHER -> Written(v, TRUE, last)

-----------------------------------------------------------------------------
(* Names. An object is a file-level name, with the file if it is static there, *)
(* or the item of a body that declares it.                                     *)
Places == UNION {{<<f, d>> : d \in 1 .. Len(files[f].decls)} : f \in 1 .. Len(files)}
DeclAt(p) == files[p[1]].decls[p[2]]
Naming(n) == {p \in Places : DeclAt(p).k \in {"var", "func", "proto"} /\ DeclAt(p).name = n}
FileLevel(f, n) ==
  [file |-> IF \E p \in Naming(n) : p[1] = f /\ DeclAt(p).static THEN f ELSE 0, name |-> n, item |-> <<>>]

(* An item of a body; a negative one is a parameter. *)
ItemAt(f, d, i) == IF i < 0 THEN files[f].decls[d].params[-i] ELSE files[f].decls[d].body[i]
ParametersOf(at, n) == {k \in 1 .. Len(files[at.file].decls[at.decl].params) : ItemAt(at.file, at.decl, -k).name = n}

Blocks(body, i) == Cardinality({j \in 1 .. i : body[j].k = "{"}) - Cardinality({j \in 1 .. i : body[j].k = "}"})
Visible(body, i, j) == \A m \in i .. j : Blocks(body, m) >= Blocks(body, i)
Denoted(at, n) ==
  LET body == files[at.file].decls[at.decl].body
      block == {i \in 1 .. at.item - 1 : body[i].k \in {"local", "static"} /\ body[i].name = n /\ Visible(body, i, at.item)}
  IN CASE block # {} -> [file |-> at.file, name |-> n, item |-> <<at.decl, Max(block)>>]
       [] block = {} /\ ParametersOf(at, n) # {} -> [file |-> at.file, name |-> n, item |-> <<at.decl, -Max(ParametersOf(at, n))>>]
       [] OTHER -> FileLevel(at.file, n)

DefinesIt(p, o) == DeclAt(p).name = o.name /\ (o.file = 0 \/ p[1] = o.file) /\ (o.file = 0 => ~DeclAt(p).static)
(* The definition of an object: the declaration that says most. *)
Definitions(o) == {p \in Naming(o.name) : DefinesIt(p, o) /\ DeclAt(p).k # "proto" /\ ~(DeclAt(p).k = "var" /\ DeclAt(p).extern)}
Definition(o) ==
  LET valued == {p \in Definitions(o) : DeclAt(p).k = "func" \/ DeclAt(p).value.k # "none"}
      these == IF valued = {} THEN Definitions(o) ELSE valued
  IN CHOOSE p \in these : \A q \in these : p[1] < q[1] \/ (p[1] = q[1] /\ p[2] <= q[2])
DeclOf(o) == IF o.item # <<>> THEN ItemAt(o.file, o.item[1], o.item[2]) ELSE DeclAt(Definition(o))

-----------------------------------------------------------------------------
(* The loaded program. *)
Byte(a) == IF a \in DOMAIN mem.at THEN mem.at[a] ELSE IF a \div PAGE_SIZE \in mem.pages THEN 0 ELSE -1
Bytes(a, n) == [k \in 1 .. n |-> Byte(a + k - 1)]
Signed(v, w) == IF v < 2^(w - 1) THEN v ELSE v - 2^w
PairValue(t) == Signed(mem.at[CC_TEXT_VADDR + t], 20) * 4096 + Signed(mem.at[CC_TEXT_VADDR + t + 4], 12)

(* Where the compiler put an object that is not automatic. *)
SymbolOf(o) ==
  LET nm == IF o.item # <<>> THEN <<0, files[o.file].decls[o.item[1]].name, o.name>>
            ELSE <<IF Len(files) > 1 THEN o.file ELSE 0, "", o.name>>
  IN CHOOSE i \in 1 .. Len(syms) : syms[i].name = nm
Address(o) == syms[SymbolOf(o)].vaddr

(* The bytes from a on, in src where it has them and else in memory, are the *)
(* value v of the type, for names used in file f.                            *)
From(src, a, n) == [k \in 1 .. n |-> IF a + k - 1 \in DOMAIN src THEN src[a + k - 1] ELSE Byte(a + k - 1)]
Nth(v, k) == IF k < Len(v.v) THEN v.v[k + 1] ELSE [k |-> "none", v |-> 0]
Size(type) == IF type.k = "array" THEN type.len ELSE Len(type.fields)
RECURSIVE Holds(_, _, _, _, _)
Holds(src, a, type, v, f) ==
  LET here == From(src, a, type.size)
  IN CASE v.k = "none" -> here = Zeros(type.size)
       [] v.k = "num" -> here = Little(v.v, type.size)
       [] v.k = "str" /\ type.k = "array" -> here = SubSeq(v.v \o Zeros(type.size), 1, type.size)
       [] v.k = "str" /\ type.k = "ptr" ->
            \E p \in {FoldRight(LAMBDA b, n : b + 256 * n, SubSeq(here, 1, 3), 0)} :
               here = Little(p, 8) /\ Bytes(p, Len(v.v) + 1) = Append(v.v, 0)
       [] v.k = "addr" -> here = Little(Address(FileLevel(f, v.v)), 8)
       [] v.k = "list" /\ Aggregate(type) /\ ~(CharArray(type) /\ v.v[1].k = "str") ->
            \A k \in 0 .. Size(type) - 1 : Holds(src, a + Offset(type, k), Member(type, k), Nth(v, k), f)
       [] OTHER -> Holds(src, a, type, Nth(v, 0), f)

(* A function's frame when its initializers have run. *)
Stored(s) == CASE s.k = "num" -> Little(s.v, s.n)
               [] s.k = "addr" -> Little(PairValue(s.at), 8)
               [] s.k = "copy" -> <<Byte(PairValue(s.at) + s.i)>>
Store(frame, s) == LET b == Stored(s) IN [a \in s.off .. s.off + Len(b) - 1 |-> b[a - s.off + 1]] @@ frame
Frame(stores) == FoldLeft(Store, <<>>, stores)

-----------------------------------------------------------------------------
(* The properties. *)
CodeItems(k) == {c \in {obj.code[i] : i \in 1 .. Len(obj.code)} : c.k = k}
ItemOf(c) == ItemAt(c.at.file, c.at.decl, c.at.item)
Slot(o) == CHOOSE c \in CodeItems("slot") : c.at = [file |-> o.file, decl |-> o.item[1], item |-> o.item[2]]
Constants(n) == UNION {{e.val : e \in {x \in {DeclAt(p).consts[i] : i \in 1 .. Len(DeclAt(p).consts)} : x.name = n}}
                         : p \in {q \in Places : DeclAt(q).k = "enum"}}
Automatic(o) == o.item # <<>> /\ DeclOf(o).k = "local"

IsCode(a, o) == a \in DOMAIN mem.at /\ mem.at[a] = Mark(Definition(o)[1], Definition(o)[2])

Leads(c, o, add) ==
  IF Automatic(o) THEN c.k = "frame" /\ c.v = Slot(o).v + add
  ELSE IF o.item = <<>> /\ Constants(o.name) # {} THEN c.k = "imm" /\ c.v \in Constants(o.name)
  ELSE /\ c.k = "addr" /\ PairValue(c.v) = Address(o) + add
       /\ DeclOf(o).k = "func" => IsCode(Address(o), o)

(* Every name a function uses leads, in the loaded program, to what C says the *)
(* name denotes there: the innermost declaration in scope, a static of its own *)
(* file before a global of another, a function's own code, an enumerator's     *)
(* value; a string literal leads to its characters; and the program starts at  *)
(* the first definition of its entry symbol. gen_lookup_global, the scopes of  *)
(* ast.c, and the addresses gen_finalize patches into lui and addi.            *)
ReferencesDenote ==
  phase = "loaded" =>
    /\ \A c \in CodeItems("addr") \cup CodeItems("imm") \cup CodeItems("frame") :
         LET it == ItemOf(c)
         IN IF it.k = "str" THEN Bytes(PairValue(c.v), Len(it.s) + 1) = Append(it.s, 0)
            ELSE Leads(c, Denoted(c.at, it.name), it.add)
    /\ IsCode(image.entry, [file |-> 0, name |-> session.entry, item |-> <<>>])

StaticObjects ==
  {[file |-> FileLevel(p[1], DeclAt(p).name).file, name |-> DeclAt(p).name, item |-> <<>>]
     : p \in {q \in Places : DeclAt(q).k = "var" /\ Definitions(FileLevel(q[1], DeclAt(q).name)) # {}}}
  \cup UNION {{[file |-> p[1], name |-> DeclAt(p).body[i].name, item |-> <<p[2], i>>]
                 : i \in {j \in 1 .. Len(DeclAt(p).body) : DeclAt(p).body[j].k = "static"}}
                : p \in {q \in Places : DeclAt(q).k = "func"}}
Holder(o) == IF o.item # <<>> THEN o.file ELSE Definition(o)[1]
Extent(o) == Address(o) .. Address(o) + DeclOf(o).type.size - 1
SlotsIn(fr) == {c \in CodeItems("slot") : c.at.file = fr.at[1] /\ c.at.decl = fr.at[2]}
SlotExtent(c) == c.v .. c.v + ItemOf(c).type.size - 1

(* When the program starts, every object with static storage holds the value   *)
(* its initializer gives it, zeros where it gives none, pointers included; an  *)
(* automatic object does once its initializer has run; and no two objects      *)
(* share a byte. The initializers of gen.c, with all their braces or without,  *)
(* gen_decl's sections, gen_finalize's pointers, onx_emit's segments and       *)
(* load_onx.                                                                   *)
ObjectsInitialised ==
  phase = "loaded" =>
    /\ \A o \in StaticObjects : Holds(<<>>, Address(o), DeclOf(o).type, DeclOf(o).value, Holder(o))
    /\ \A o, q \in StaticObjects : o # q => Extent(o) \cap Extent(q) = {}
    /\ \A i \in 1 .. Len(obj.frames) :
         LET fr == obj.frames[i]
             frame == Frame(fr.stores)
         IN /\ \A c \in SlotsIn(fr) : ItemOf(c).value.k # "none" =>
                 Holds(frame, c.v, ItemOf(c).type, ItemOf(c).value, fr.at[1])
            /\ \A c, d \in SlotsIn(fr) : c # d => SlotExtent(c) \cap SlotExtent(d) = {}

(* A use before any declaration of the name, a string where a number belongs, *)
(* a local declared twice in its block, or as a parameter is in the outermost one. The files share one table of symbols: *)
(* what an earlier file declares, and is not static there, needs no extern.   *)
Declared(f, d, i, n) ==
  \/ \E p \in Naming(n) : (p[1] = f /\ p[2] <= d) \/ (p[1] < f /\ ~DeclAt(p).static)
  \/ \E j \in 1 .. i - 1 : LET it == files[f].decls[d].body[j] IN it.k = "extern" /\ it.name = n
BadItem(f, d, i) ==
  LET body == files[f].decls[d].body
      it == body[i]
  IN \/ /\ it.k = "use" /\ Constants(it.name) = {}
        /\ LET o == Denoted([file |-> f, decl |-> d, item |-> i], it.name)
           IN o.item = <<>> /\ ~Declared(f, d, i, it.name)
     \/ /\ it.k = "local"
        /\ \/ Blocks(body, i) = 0 /\ ParametersOf([file |-> f, decl |-> d], it.name) # {}
           \/ \E j \in 1 .. i - 1 : /\ body[j].k = "local" /\ body[j].name = it.name
                                    /\ Visible(body, j, i) /\ Blocks(body, j) = Blocks(body, i)
BadValue(d) == d.k = "var" /\ d.value.k = "str" /\ d.type.k = "int"
BadFile == \E p \in Places : \/ BadValue(DeclAt(p))
                             \/ DeclAt(p).k = "func" /\ \E i \in 1 .. Len(DeclAt(p).body) : BadItem(p[1], p[2], i)
NoBody(f, n) == Definitions(FileLevel(f, n)) = {}
FunctionOnly(n) == Naming(n) # {} /\ \A p \in Naming(n) : DeclAt(p).k # "var"
MissingIn(p, it) ==
  \/ it.k = "call" /\ NoBody(p[1], it.name)
  \/ it.k = "use" /\ FunctionOnly(it.name) /\ NoBody(p[1], it.name)
Missing ==
  \E p \in Places :
    \/ DeclAt(p).k = "func" /\ \E i \in 1 .. Len(DeclAt(p).body) : MissingIn(p, DeclAt(p).body[i])
    \/ DeclAt(p).k = "var" /\ \E n \in NamesIn(DeclAt(p).init) : FunctionOnly(n) /\ NoBody(p[1], n)

(* A command line is refused exactly when it names too many files or one that *)
(* cannot be read, when a file has an error, when a function that is called,  *)
(* used or put in a pointer has no definition, or when nothing defines the    *)
(* entry symbol: what main, gen_finalize and load_onx report, and no more.    *)
RejectsExactly ==
  phase \in {"loaded", "stopped", "failed"} =>
    (phase = "failed" <=> \/ Len(session.files) > CC_MAX_INPUT_FILES - (IF session.nostdlib THEN 0 ELSE Len(session.lib))
                          \/ \E f \in 1 .. Len(files) : ~files[f].readable
                          \/ BadFile
                          \/ ~session.syntaxOnly /\ (Missing \/ NoBody(0, session.entry)))
=============================================================================
