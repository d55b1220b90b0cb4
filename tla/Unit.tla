------------------------------- MODULE Unit --------------------------------
(* The compiler driver and the top level of the code generator (main.c,      *)
(* parse.c, gen.c, ast.c), the writer of images (emit.c) and onx-run's       *)
(* loader: several files are compiled into one set of sections, addresses    *)
(* are assigned and patched in, the image is written and loaded.             *)
(* A program is a sequence of files, each a sequence of declarations; of a   *)
(* function body only what refers to or creates symbols is kept, the rest is *)
(* a number of instructions.                                                 *)
EXTENDS Declarations, FiniteSets

CONSTANTS
  SESSIONS,           \* the command lines: [files, lib, nostdlib, entry, syntaxOnly]
  CC_MAX_INPUT_FILES,
  CC_TEXT_VADDR,
  HEADER,             \* ONX_V1_HEADER_SIZE
  PAGE_SIZE

ASSUME UnitConstants == CC_TEXT_VADDR \in Nat \ {0} /\ HEADER \in Nat /\ PAGE_SIZE \in Nat \ {0}

VARIABLES
  session,    \* the command line
  files,      \* g_opts.input_files: the files and the library's
  phase,      \* "start", "compile", "finalize", "emit", "load", "loaded", "stopped", "failed"
  pos,        \* the file, its declaration and, in a function body, the item
  obj,        \* sections, fixups and errors
  syms,       \* g_globals
  func,       \* the function being compiled: its locals, scopes and frame
  image,      \* the .onx file
  mem         \* the loaded program: what was written, and the mapped pages

vars == <<session, files, phase, pos, obj, syms, func, image, mem>>

NoFunc == [name |-> "", locals |-> <<>>, scope |-> 0, stack |-> <<>>, cur |-> 16]
NoImage == [entry |-> 0, segs |-> <<>>, at |-> <<>>]

Init ==
  /\ \E all \in {SESSIONS} : \E i \in 1 .. Len(all) : session = all[i]
  /\ files = <<>> /\ phase = "start" /\ pos = [file |-> 1, decl |-> 1, item |-> 0]
  /\ obj = [text |-> 0, w |-> <<>>, data |-> <<>>, rodata |-> <<>>, bss |-> 0, entry |-> 0, errs |-> 0,
            fix |-> <<>>, rofix |-> <<>>, strfix |-> <<>>, symfix |-> <<>>, stores |-> <<>>, code |-> <<>>, frames |-> <<>>]
  /\ syms = <<>> /\ func = NoFunc /\ image = NoImage
  /\ mem = [at |-> <<>>, pages |-> {}]

(* main: the files named, then the library's unless there is none. *)
Start ==
  /\ phase = "start"
  /\ files' = session.files \o (IF session.nostdlib THEN <<>> ELSE session.lib)
  /\ phase' = IF Len(session.files) > CC_MAX_INPUT_FILES - (IF session.nostdlib THEN 0 ELSE Len(session.lib))
              THEN "failed" ELSE "compile"
  /\ UNCHANGED <<session, pos, obj, syms, func, image, mem>>

-----------------------------------------------------------------------------
(* Symbols. A symbol's name is <<file, function, name>>: the file of a static *)
(* one when there are several files, the function of a static local.          *)
Plain(n) == <<0, "", n>>
Mangled(n) == <<pos.file, "", n>>
DeclName(d) == IF d.static /\ Len(files) > 1 THEN Mangled(d.name) ELSE Plain(d.name)

Named(ss, nm) == {i \in 1 .. Len(ss) : ss[i].name = nm}
SlotOf(ss, nm) == IF Named(ss, nm) = {} THEN Len(ss) + 1 ELSE Max(Named(ss, nm))
Install(ss, nm, kind) ==
  IF Named(ss, nm) # {} THEN ss
  ELSE Append(ss, [name |-> nm, kind |-> kind, defined |-> FALSE, off |-> 0, val |-> 0, vaddr |-> 0])
(* Mutant: the name as it is written comes first. *)
LookupPlainFirst(ss, nm) ==
  IF Named(ss, nm) # {} THEN Max(Named(ss, nm))
  ELSE LET mangled == <<pos.file, nm[2], nm[3]>>
       IN IF Len(files) > 1 /\ Named(ss, mangled) # {} THEN Max(Named(ss, mangled)) ELSE 0
Lookup(ss, nm) ==
  LET mangled == <<pos.file, nm[2], nm[3]>>
  IN IF Len(files) > 1 /\ Named(ss, mangled) # {} THEN Max(Named(ss, mangled))
     ELSE IF Named(ss, nm) # {} THEN Max(Named(ss, nm)) ELSE 0

Defined(ss, i, off) == [ss EXCEPT ![i].defined = TRUE, ![i].off = off]

-----------------------------------------------------------------------------
(* The position in the program. *)
Decls == files[pos.file].decls
Decl == Decls[pos.decl]
Item == Decl.body[pos.item]
AtDecl(kind) ==
  /\ phase = "compile" /\ pos.file <= Len(files) /\ pos.item = 0
  /\ files[pos.file].readable
  /\ pos.decl <= Len(Decls) /\ Decl.k = kind
AtItem(kind) == phase = "compile" /\ pos.item # 0 /\ pos.item <= Len(Decl.body) /\ Item.k = kind
NextDecl == pos' = [pos EXCEPT !.decl = @ + 1, !.item = 0]
NextItem == pos' = [pos EXCEPT !.item = @ + 1]
Compiles == UNCHANGED <<session, files, phase, image, mem>>

(* What an initializer's tokens are parsed with, and what it leaves. *)
State(o, names) == o @@ [i |-> 1, start |-> 0, find |-> [n \in names |-> Lookup(syms, Plain(n))]]
Leaves(st) == [f \in DOMAIN obj |-> st[f]]
NamesIn(toks) == {toks[i].v : i \in {j \in 1 .. Len(toks) : toks[j].t = "addr"}}

(* gen_parse_global_init and the part of gen_decl that follows it: the bytes *)
(* in the data section, at its end. gen_decl copies a string into any array. *)
GlobalInit(o, type, toks) ==
  LET st == State(o, NamesIn(toks))
  IN CASE At(toks, 1) = "{" -> Braced(toks, st, type)
       [] At(toks, 1) = "addr" /\ st.find[toks[1].v] # 0 -> SymbolPointer(st, st.find[toks[1].v])
       [] At(toks, 1) = "str" /\ type.k = "array" -> StringBytes(Pooled(st, toks[1].v), type, toks[1].v)
       [] OTHER -> Scalar(toks, st, type)

Bss(o, size) == [o EXCEPT !.bss = Up(@ + size, 8)]

(* gen_decl for a variable called nm. *)
DeclareVar(nm, type, d) ==
  LET ss == Install(syms, nm, "var")
      i == SlotOf(syms, nm)
  IN IF d.init = <<>> THEN
       IF d.extern THEN syms' = ss /\ UNCHANGED obj
       ELSE syms' = [ss EXCEPT ![i].off = obj.bss] /\ obj' = Bss(obj, type.size)
     ELSE syms' = Defined(ss, i, Len(obj.data)) /\ obj' = Leaves(GlobalInit(obj, type, d.init))

TypeOf(d) == Declarator(d.declr, 1, d.base).t

DeclVar ==
  /\ AtDecl("var")
  /\ DeclareVar(DeclName(Decl), TypeOf(Decl), Decl)
  /\ NextDecl /\ UNCHANGED func /\ Compiles

DeclFunc ==
  /\ AtDecl("proto")
  /\ syms' = Install(syms, DeclName(Decl), "func")
  /\ NextDecl /\ UNCHANGED <<obj, func>> /\ Compiles

DeclTypedef ==
  /\ AtDecl("typedef")
  /\ syms' = Install(syms, DeclName(Decl), "typedef")
  /\ NextDecl /\ UNCHANGED <<obj, func>> /\ Compiles

(* enum { ... }: the value is given to the last symbol of the table. *)
Enumerator(ss, e) == LET more == Install(ss, Plain(e.name), "enum") IN [more EXCEPT ![Len(more)].val = e.val]
DeclEnum ==
  /\ AtDecl("enum")
  /\ syms' = FoldLeft(Enumerator, syms, Decl.consts)
  /\ NextDecl /\ UNCHANGED <<obj, func>> /\ Compiles

(* The first word of a function stands for the function. *)
Mark(f, d) == 256 * f + d

Local(n, scope, off, alias) == [name |-> n, scope |-> scope, off |-> off, alias |-> alias]
(* The parameters are locals of scope 1, as the body's outermost block is, and *)
(* arrive in registers: one store each. A slot names the item that declares it, *)
(* the k-th parameter is item -k.                                              *)
Parameter(f, p) ==
  LET cur == Up(f.cur + p.type.size, p.type.align)
  IN [f EXCEPT !.cur = cur, !.locals = Append(@, Local(p.name, 1, -cur, 0))]
Parameters(f, o) ==
  [Insns(o, Len(f.locals)) EXCEPT
    !.code = @ \o [k \in 1 .. Len(f.locals) |-> [at |-> [pos EXCEPT !.item = -k], k |-> "slot", v |-> f.locals[k].off]]]

(* A function: the prologue of six instructions, the body, the epilogue. The *)
(* first definition of the entry symbol stays the entry and the definition.  *)
FuncDef ==
  /\ AtDecl("func")
  /\ LET nm == DeclName(Decl)
         i == SlotOf(syms, nm)
         isEntry == nm = Plain(session.entry)
         ss == Install(syms, nm, "func")
         params == FoldLeft(Parameter, NoFunc, Decl.params)
     IN /\ syms' = IF isEntry /\ obj.entry # 0 THEN ss ELSE Defined(ss, i, obj.text)
        /\ obj' = [Parameters(params, Insns(obj, 6)) EXCEPT
                     !.entry = IF isEntry /\ @ = 0 THEN CC_TEXT_VADDR + obj.text ELSE @,
                     !.w = (obj.text :> Mark(pos.file, pos.decl)) @@ @]
        /\ func' = [params EXCEPT !.name = Decl.name, !.scope = 1, !.stack = <<Len(params.locals)>>]
  /\ pos' = [pos EXCEPT !.item = 1] /\ Compiles
EndFunc ==
  /\ phase = "compile" /\ pos.item # 0 /\ pos.item > Len(Decl.body)
  /\ obj' = [Insns(obj, 9) EXCEPT !.frames = Append(@, [at |-> <<pos.file, pos.decl>>, stores |-> obj.stores]),
                                  !.stores = <<>>]
  /\ func' = NoFunc /\ NextDecl
  /\ UNCHANGED syms /\ Compiles

NextFile ==
  /\ phase = "compile" /\ pos.file <= Len(files) /\ pos.item = 0
  /\ IF files[pos.file].readable THEN pos.decl > Len(Decls) /\ phase' = phase ELSE phase' = "failed"
  /\ pos' = [file |-> pos.file + 1, decl |-> 1, item |-> 0] /\ func' = NoFunc
  /\ UNCHANGED <<session, files, obj, syms, image, mem>>

-----------------------------------------------------------------------------
(* Function bodies. *)
LocalNamed(n) == {i \in 1 .. Len(func.locals) : func.locals[i].name = n}
HereBlock == {i \in 1 .. Len(func.locals) : func.locals[i].scope >= func.scope}
Code(o, k, v) == [o EXCEPT !.code = Append(@, [at |-> pos, k |-> k, v |-> v])]

Fill ==
  /\ AtItem("insns")
  /\ obj' = Insns(obj, Item.n) /\ NextItem /\ UNCHANGED <<syms, func>> /\ Compiles

OpenBlock ==
  /\ AtItem("{")
  /\ func' = [func EXCEPT !.scope = @ + 1, !.stack = Append(@, Len(func.locals))]
  /\ NextItem /\ UNCHANGED <<obj, syms>> /\ Compiles
CloseBlock ==
  /\ AtItem("}")
  /\ func' = [func EXCEPT !.scope = @ - 1, !.stack = Front(@),
                          !.locals = SubSeq(@, 1, Last(func.stack))]
  /\ NextItem /\ UNCHANGED <<obj, syms>> /\ Compiles

(* A name in an expression, with a constant distance from it. *)
UseLocal ==
  /\ AtItem("use") /\ LocalNamed(Item.name) # {}
  /\ LET l == func.locals[Max(LocalNamed(Item.name))]
     IN obj' = IF l.alias # 0 THEN Code(SymbolPair(obj, l.alias, Item.add), "addr", obj.text)
               ELSE Code(Insns(obj, 1), "frame", l.off + Item.add)
  /\ NextItem /\ UNCHANGED <<syms, func>> /\ Compiles
UseGlobal ==
  /\ AtItem("use") /\ LocalNamed(Item.name) = {}
  /\ LET i == Lookup(syms, Plain(Item.name))
     IN obj' = CASE i = 0 -> Wrong(obj)
                 [] i # 0 /\ syms[i].kind = "enum" -> Code(Insns(obj, 1), "imm", syms[i].val)
                 [] OTHER -> Code(SymbolPair(obj, i, Item.add), "addr", obj.text)
  /\ NextItem /\ UNCHANGED <<syms, func>> /\ Compiles
(* A call of a function no one has declared declares it. *)
Call ==
  /\ AtItem("call")
  /\ LET i == Lookup(syms, Plain(Item.name))
         j == IF i = 0 THEN Len(syms) + 1 ELSE i
     IN /\ syms' = IF i = 0 THEN Install(syms, Plain(Item.name), "func") ELSE syms
        /\ obj' = Code(Insns(SymbolPair(obj, j, 0), 1), "addr", obj.text)
  /\ NextItem /\ UNCHANGED func /\ Compiles
UseString ==
  /\ AtItem("str")
  /\ obj' = Code(RodataPair(obj, Item.s), "addr", obj.text)
  /\ NextItem /\ UNCHANGED <<syms, func>> /\ Compiles

(* extern in a block. *)
LocalExtern ==
  /\ AtItem("extern")
  /\ syms' = IF Lookup(syms, Plain(Item.name)) # 0 THEN syms ELSE Install(syms, Plain(Item.name), "var")
  /\ NextItem /\ UNCHANGED <<obj, func>> /\ Compiles

(* A static local is a global named after its function, and an alias. *)
StaticLocal ==
  /\ AtItem("static")
  /\ LET nm == <<0, func.name, Item.name>>
         i == SlotOf(syms, nm)
         type == TypeOf(Item)
         again == Named(syms, nm) # {} /\ syms[i].defined
         known == LocalNamed(Item.name)
     IN /\ IF again THEN /\ UNCHANGED syms
                         /\ obj' = IF At(Item.init, 1) = "{" THEN Leaves(GlobalInit(obj, type, Item.init)) ELSE obj
           ELSE DeclareVar(nm, type, Item)
        /\ func' = IF known = {} THEN [func EXCEPT !.locals = Append(@, Local(Item.name, func.scope, 0, i))]
                   ELSE [func EXCEPT !.locals[Max(known)].alias = i]
  /\ NextItem /\ Compiles

(* An automatic object: its slot and its initializer. An array without a *)
(* length gets its slot from the initializer.                            *)
Sized(type, toks) ==
  IF type.k # "array" \/ type.len # 0 THEN type
  ELSE IF At(toks, 1) = "{" THEN Complete(type, BraceElements(toks) * type.base.size)
  ELSE Complete(type, Len(toks[1].v) + 1)
LocalInit(o, type, off, toks) ==
  LET st == State(o, NamesIn(toks))
  IN CASE toks = <<>> -> st
       [] At(toks, 1) = "{" -> LocalBraced(toks, st, type, off)
       [] At(toks, 1) = "str" /\ CharArray(type) -> CopyString(st, type, off, toks[1].v)
       [] OTHER -> LocalScalar(toks, st, type, off)
DeclLocal ==
  /\ AtItem("local")
  /\ LET type == Sized(TypeOf(Item), Item.init)
         cur == Up(func.cur + type.size, type.align)
         twice == LocalNamed(Item.name) \cap HereBlock # {}
     IN /\ func' = [func EXCEPT !.cur = cur,
                                !.locals = IF twice THEN [@ EXCEPT ![Max(LocalNamed(Item.name))].off = -cur]
                                           ELSE Append(@, Local(Item.name, func.scope, -cur, 0))]
        /\ obj' = Code(Leaves(LocalInit(IF twice THEN Wrong(obj) ELSE obj, type, -cur, Item.init)), "slot", -cur)
  /\ NextItem /\ UNCHANGED syms /\ Compiles

-----------------------------------------------------------------------------
(* gen_finalize, onx_emit and load_onx. *)
Sections(o) ==
  LET rodata == Up(CC_TEXT_VADDR + o.text, 8)
      data == Up(rodata + Len(o.rodata), 8)
  IN [rodata |-> rodata, data |-> data, bss |-> Up(data + Len(o.data), 8)]

Vaddr(s, at) ==
  CASE s.kind = "func" -> CC_TEXT_VADDR + s.off
    [] s.kind = "var" /\ s.defined -> at.data + s.off
    [] s.kind = "var" /\ ~s.defined -> at.bss + s.off
    [] OTHER -> 0

(* lui and addi: the upper part is rounded, the lower one is signed. *)
High(addr) == (addr + 2048) \div 4096
Patched(w, f, addr) == (f.at :> High(addr) % 2^20) @@ (f.at + 4 :> (addr - High(addr) * 4096) % 4096) @@ w
Fixed(o, ss, at) ==
  LET Text(w, f) == Patched(w, f, ss[f.sym].vaddr + f.add)
      Strings(w, f) == Patched(w, f, at.rodata + f.off)
      Pointer(d, f, addr) == [k \in 1 .. Len(d) |-> IF k \in f.at + 1 .. f.at + 8 THEN Little(addr, 8)[k - f.at] ELSE d[k]]
      StringPointers(d, f) == Pointer(d, f, at.rodata + f.off)
      SymbolPointers(d, f) == Pointer(d, f, ss[f.sym].vaddr)
  IN [o EXCEPT !.w = FoldLeft(Strings, FoldLeft(Text, @, o.fix), o.rofix),
               !.data = FoldLeft(SymbolPointers, FoldLeft(StringPointers, @, o.strfix), o.symfix)]

(* Mutant: pointers in the data are not looked at. *)
UndefinedCode(ss, o) ==
  LET used == {o.fix[i].sym : i \in 1 .. Len(o.fix)}
  IN {i \in used : ss[i].kind = "func" /\ ~ss[i].defined}
Undefined(ss, o) ==
  LET used == {o.fix[i].sym : i \in 1 .. Len(o.fix)} \cup {o.symfix[i].sym : i \in 1 .. Len(o.symfix)}
  IN {i \in used : ss[i].kind = "func" /\ ~ss[i].defined}

AllCompiled ==
  /\ phase = "compile" /\ pos.file > Len(files)
  /\ phase' = CASE obj.errs > 0 -> "failed" [] obj.errs = 0 /\ session.syntaxOnly -> "stopped" [] OTHER -> "finalize"
  /\ UNCHANGED <<session, files, pos, obj, syms, func, image, mem>>

Finalize ==
  /\ phase = "finalize"
  /\ LET at == Sections(obj)
         ss == [i \in 1 .. Len(syms) |-> [syms[i] EXCEPT !.vaddr = Vaddr(syms[i], at)]]
         e == Lookup(syms, Plain(session.entry))
         missing == IF e # 0 /\ syms[e].defined THEN Undefined(ss, obj) ELSE {}
         fixed == Fixed(obj, ss, at)
     IN /\ syms' = ss
        /\ obj' = [fixed EXCEPT !.errs = Cardinality(missing),
                                !.entry = IF @ = 0 /\ e # 0 /\ syms[e].kind = "func" THEN ss[e].vaddr ELSE @]
        /\ phase' = IF missing # {} THEN "failed" ELSE "emit"
  /\ UNCHANGED <<session, files, pos, func, image, mem>>

Segment(vaddr, filesz, memsz, off) == [vaddr |-> vaddr, filesz |-> filesz, memsz |-> memsz, off |-> off]
OnxEmit ==
  /\ phase = "emit"
  /\ LET rodata == Up(CC_TEXT_VADDR + obj.text, 8)
         data == Up(rodata + Len(obj.rodata), 8)
         bss == Up(data + Len(obj.data), 8)
         rodataOff == HEADER + obj.text
         dataOff == rodataOff + Len(obj.rodata)
     IN image' = [entry |-> obj.entry,
                  segs |-> <<Segment(CC_TEXT_VADDR, obj.text, obj.text, HEADER),
                             Segment(rodata, Len(obj.rodata), Len(obj.rodata), rodataOff),
                             Segment(data, Len(obj.data), Len(obj.data), dataOff)>>
                          \o (IF obj.bss > 0 THEN <<Segment(bss, 0, obj.bss, 0)>> ELSE <<>>),
                  at |-> [a \in {HEADER + t : t \in DOMAIN obj.w} |-> obj.w[a - HEADER]]
                         @@ [a \in rodataOff .. dataOff - 1 |-> obj.rodata[a - rodataOff + 1]]
                         @@ [a \in dataOff .. dataOff + Len(obj.data) - 1 |-> obj.data[a - dataOff + 1]]]
  /\ phase' = "load"
  /\ UNCHANGED <<session, files, pos, obj, syms, func, mem>>

PagesOf(s) == {a \div PAGE_SIZE : a \in s.vaddr .. s.vaddr + s.memsz - 1}
LoadOnx ==
  /\ phase = "load"
  /\ IF image.entry = 0 THEN phase' = "failed" /\ UNCHANGED mem
     ELSE LET Put(m, s) == [at |-> [a \in {v \in s.vaddr .. s.vaddr + s.filesz - 1 : v - s.vaddr + s.off \in DOMAIN image.at}
                                         |-> image.at[a - s.vaddr + s.off]] @@ m.at,
                            pages |-> m.pages \cup PagesOf(s)]
          IN phase' = "loaded" /\ mem' = FoldLeft(Put, mem, image.segs)
  /\ UNCHANGED <<session, files, pos, obj, syms, func, image>>

Stopped == phase \in {"loaded", "stopped", "failed"} /\ UNCHANGED vars

Next ==
  \/ Start \/ DeclVar \/ DeclFunc \/ DeclTypedef \/ DeclEnum \/ FuncDef \/ EndFunc \/ NextFile
  \/ Fill \/ OpenBlock \/ CloseBlock \/ UseLocal \/ UseGlobal \/ Call \/ UseString
  \/ LocalExtern \/ StaticLocal \/ DeclLocal
  \/ AllCompiled \/ Finalize \/ OnxEmit \/ LoadOnx \/ Stopped

Spec == Init /\ [][Next]_vars
=============================================================================
