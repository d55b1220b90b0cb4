------------------------------- MODULE Linker -------------------------------
(***************************************************************************)
(* The linker onyx-ld (src/src/tools/onyx-ld.c): it loads objects and      *)
(* archives, lays their sections out, builds the table of global symbols,  *)
(* applies the relocations and writes one .onx image.  Each loop of the    *)
(* program is a phase that visits its items one step at a time.            *)
(*                                                                         *)
(* An object is [object, ok, secs, syms, relocs]: object says that it has  *)
(* the magic number, ok that parse_object accepts what follows it.  A      *)
(* section is [type, align, size, words] where words gives its relocated   *)
(* words by offset; a symbol is [name, flags, sec, value] with sec = 0     *)
(* when it has no section; a relocation [sec, type, off, sym, addend].     *)
(* Relocated words lie inside their sections and do not overlap, and       *)
(* alignments are powers of two, so that the mask of the code rounds.      *)
(***************************************************************************)
EXTENDS Insn, Sequences, Functions

CONSTANTS
    Objects,        \* what an object file or an archive member may hold
    Arguments,      \* options, object files and archives of these
    CommandLines,   \* the argument lists main may be given
    MAX_OBJECTS,    \* capacity of g_objs
    MAX_SYMS,       \* MAX_SYMS_TOTAL, capacity of the symbol table
    TEXT_VADDR,     \* ONYX_LD_TEXT_VADDR
    ALIGN           \* alignment of the segments in memory

SecTypes == {"text", "rodata", "data", "bss"}

ASSUME ObjectAssumption ==
    \A o \in Objects :
        /\ o.secs \in Seq(Range(o.secs))
        /\ o.syms \in Seq(Range(o.syms))
        /\ \A k \in DOMAIN o.secs :
              /\ o.secs[k].type \in SecTypes /\ o.secs[k].size \in Nat /\ o.secs[k].align \in Nat
              /\ o.secs[k].align = 0 \/ \E e \in 0..16 : o.secs[k].align = 2^e
\* A section holds four-byte words that do not overlap, and a relocation that
\* names a section with contents names words of it.
ASSUME WordsAssumption ==
    \A o \in Objects :
        /\ \A k \in DOMAIN o.secs : LET s == o.secs[k] IN
              /\ \A x \in DOMAIN s.words : x \in Nat /\ x + 4 <= s.size /\ s.words[x] \subseteq 0..31
              /\ \A x, y \in DOMAIN s.words : x < y => x + 4 <= y
        /\ o.relocs \in Seq(Range(o.relocs))
        /\ \A j \in DOMAIN o.relocs : LET r == o.relocs[j] IN
              r.sec \in DOMAIN o.secs /\ o.secs[r.sec].type # "bss" =>
                  /\ r.off \in DOMAIN o.secs[r.sec].words
                  /\ r.type = "64" => r.off + 4 \in DOMAIN o.secs[r.sec].words
ASSUME ArgumentAssumption ==
    /\ CommandLines \subseteq Seq(Arguments)
    /\ \A a \in Arguments : /\ (a.kind = "object" => a.object \in Objects)
                            /\ (a.kind = "archive" => a.members \in Seq(Objects))
ASSUME CapacityAssumption == MAX_OBJECTS \in Nat /\ MAX_SYMS \in Nat
ASSUME AddressAssumption == TEXT_VADDR \in Nat /\ ALIGN \in Nat \ {0}

VARIABLES
    phase,      \* the loop or call of main in progress
    args,       \* arguments not yet read
    entrySym,   \* g_entry_sym
    ring1,      \* g_ring1
    arch,       \* the archive being read: members to come, whether one was taken
    objs,       \* g_objs, in the order they were loaded
    cur,        \* the object and the item the loop in progress is at
    dataOff,    \* <<o, k>> :> offset of section k of object o in its merged section
    outSize,    \* size of each merged section
    out,        \* words of each merged section, by offset
    globals,    \* g_global_syms: symbols with the object they came from
    image       \* the file written: <<>> before, then <<header and segments>>

vars == <<phase, args, entrySym, ring1, arch, objs, cur, dataOff, outSize, out, globals, image>>

inputs == <<args, entrySym, ring1, arch, objs>>
Closed == [rest |-> <<>>, found |-> FALSE]
Start == [o |-> 1, k |-> 1]

\* Mutant: an offset that is rounded down.
RoundDown(n, a) == (n \div a) * a

RoundUp(n, a) == ((n + a - 1) \div a) * a

\* The addresses main gives the merged sections, for the relocations.
Vaddr(type) ==
    LET rodata == RoundUp(TEXT_VADDR + outSize["text"], ALIGN)
        data   == RoundUp(rodata + outSize["rodata"], ALIGN)
    IN  CASE type = "text"   -> TEXT_VADDR
          [] type = "rodata" -> rodata
          [] type = "data"   -> data
          [] type = "bss"    -> RoundUp(data + outSize["data"], ALIGN)

Init ==
    /\ phase = "args"
    /\ args \in CommandLines
    /\ entrySym = "_start" /\ ring1 = FALSE
    /\ arch = Closed /\ objs = <<>> /\ cur = Start
    /\ dataOff = <<>>
    /\ outSize = [t \in SecTypes |-> 0]
    /\ out = [t \in SecTypes |-> <<>>]
    /\ globals = <<>>
    /\ image = <<>>

\* main returns 1.
Fail ==
    /\ phase' = "failed"
    /\ UNCHANGED <<inputs, cur, dataOff, outSize, out, globals, image>>

-----------------------------------------------------------------------------
(* Reading the arguments.                                                  *)

\* parse_object accepts o and there is room: it becomes the last of g_objs.
Parses(o) == Len(objs) < MAX_OBJECTS /\ o.ok

Option ==
    /\ phase = "args" /\ args # <<>>
    /\ Head(args).kind \in {"entry", "ring1", "output"}
    /\ entrySym' = IF Head(args).kind = "entry" THEN Head(args).name ELSE entrySym
    /\ ring1' = (ring1 \/ Head(args).kind = "ring1")
    /\ args' = Tail(args)
    /\ UNCHANGED <<phase, arch, objs, cur, dataOff, outSize, out, globals, image>>

BadOption ==
    /\ phase = "args" /\ args # <<>> /\ Head(args).kind = "unknown"
    /\ Fail

\* -h: main returns 0 without linking.
Help ==
    /\ phase = "args" /\ args # <<>> /\ Head(args).kind = "help"
    /\ phase' = "help"
    /\ UNCHANGED <<inputs, cur, dataOff, outSize, out, globals, image>>

LoadObject ==
    /\ phase = "args" /\ args # <<>>
    /\ Head(args).kind = "object" /\ Parses(Head(args).object)
    /\ objs' = Append(objs, Head(args).object)
    /\ args' = Tail(args)
    /\ UNCHANGED <<phase, entrySym, ring1, arch, cur, dataOff, outSize, out, globals, image>>

\* A file that cannot be read, is neither format, or is not accepted.
LoadFails ==
    /\ phase = "args" /\ args # <<>>
    /\ \/ Head(args).kind = "unreadable"
       \/ Head(args).kind = "object" /\ ~Parses(Head(args).object)
    /\ Fail

OpenArchive ==
    /\ phase = "args" /\ args # <<>> /\ Head(args).kind = "archive"
    /\ phase' = "archive"
    /\ arch' = [rest |-> Head(args).members, found |-> FALSE]
    /\ UNCHANGED <<args, entrySym, ring1, objs, cur, dataOff, outSize, out, globals, image>>

\* Every member that is an object is taken; one that does not parse, or that
\* parse_object has no memory for, is passed over.
ReadMember ==
    /\ phase = "archive" /\ arch.rest # <<>>
    /\ \E memory \in BOOLEAN :
       LET m == Head(arch.rest)
           taken == m.object /\ Parses(m) /\ memory
       IN  /\ objs' = IF taken THEN Append(objs, m) ELSE objs
           /\ arch' = [rest |-> Tail(arch.rest), found |-> arch.found \/ taken]
    /\ UNCHANGED <<phase, args, entrySym, ring1, cur, dataOff, outSize, out, globals, image>>

CloseArchive ==
    /\ phase = "archive" /\ arch.rest = <<>> /\ arch.found
    /\ phase' = "args" /\ args' = Tail(args) /\ arch' = Closed
    /\ UNCHANGED <<entrySym, ring1, objs, cur, dataOff, outSize, out, globals, image>>

ArchiveFails ==
    /\ phase = "archive" /\ arch.rest = <<>> /\ ~arch.found
    /\ Fail

NoInput ==
    /\ phase = "args" /\ args = <<>> /\ objs = <<>>
    /\ Fail

BeginLayout ==
    /\ phase = "args" /\ args = <<>> /\ objs # <<>>
    /\ phase' = "layout"
    /\ UNCHANGED <<inputs, cur, dataOff, outSize, out, globals, image>>

-----------------------------------------------------------------------------
(* The loops over all items of all objects.                                *)

Loops == {"layout", "copy", "define", "undef", "relocate"}

ItemCount(o, p) ==
    CASE p \in {"layout", "copy"} -> Len(objs[o].secs)
      [] p \in {"define", "undef"} -> Len(objs[o].syms)
      [] p = "relocate" -> Len(objs[o].relocs)

InLoop(p) == phase = p /\ cur.o <= Len(objs) /\ cur.k <= ItemCount(cur.o, p)
Advance == cur' = [cur EXCEPT !.k = @ + 1]

\* The outer loop moves to the next object.
NextObject ==
    /\ phase \in Loops
    /\ cur.o <= Len(objs) /\ cur.k > ItemCount(cur.o, phase)
    /\ cur' = [o |-> cur.o + 1, k |-> 1]
    /\ UNCHANGED <<phase, inputs, dataOff, outSize, out, globals, image>>

\* A loop is over: main goes on to the next one, or to the output.
NextLoop ==
    /\ phase \in Loops /\ cur.o > Len(objs)
    /\ phase' = CASE phase = "layout" -> "copy"
                  [] phase = "copy" -> "define"
                  [] phase = "define" -> "undef"
                  [] phase = "undef" -> "relocate"
                  [] phase = "relocate" -> "emit"
    /\ cur' = Start
    /\ UNCHANGED <<inputs, dataOff, outSize, out, globals, image>>

-----------------------------------------------------------------------------
(* merge_sections.                                                         *)

Extend(f, x, v) == [y \in DOMAIN f \cup {x} |-> IF y = x THEN v ELSE f[y]]
Over(new, old) ==
    [x \in DOMAIN new \cup DOMAIN old |-> IF x \in DOMAIN new THEN new[x] ELSE old[x]]

PlaceSection ==
    /\ InLoop("layout")
    /\ LET s == objs[cur.o].secs[cur.k]
           off == RoundUp(outSize[s.type], IF s.align = 0 THEN 1 ELSE s.align)
       IN  /\ dataOff' = Extend(dataOff, <<cur.o, cur.k>>, off)
           /\ outSize' = [outSize EXCEPT ![s.type] = off + s.size]
    /\ Advance
    /\ UNCHANGED <<phase, inputs, out, globals, image>>

CopySection ==
    /\ InLoop("copy")
    /\ LET s == objs[cur.o].secs[cur.k]
           off == dataOff[<<cur.o, cur.k>>]
           moved == [x \in {off + w : w \in DOMAIN s.words} |-> s.words[x - off]]
       IN  out' = IF s.type = "bss" THEN out
                  ELSE [out EXCEPT ![s.type] = Over(moved, @)]
    /\ Advance
    /\ UNCHANGED <<phase, inputs, dataOff, outSize, globals, image>>

\* There is no memory for a file, the copy of a member, the symbol table or a
\* merged section.
OutOfMemory ==
    /\ \/ phase = "args" /\ args # <<>> /\ Head(args).kind \in {"object", "archive"}
       \/ phase = "args" /\ args = <<>> /\ objs # <<>>
       \/ phase = "archive" /\ arch.rest # <<>> /\ Head(arch.rest).object
       \/ phase = "copy" /\ cur = Start
    /\ Fail

-----------------------------------------------------------------------------
(* build_global_symbol_table.                                              *)

\* Mutant: only the newest symbol is compared.
FoundLast(name) == globals # <<>> /\ globals[Len(globals)].name = name

Found(name) == \E i \in DOMAIN globals : globals[i].name = name
FindGlobalSym(name) ==
    CHOOSE i \in DOMAIN globals :
        globals[i].name = name /\ \A j \in 1..i-1 : globals[j].name # name

Exported(s) ==
    "DEFINED" \in s.flags /\ ("LOCAL" \notin s.flags \/ "GLOBAL" \in s.flags) /\ s.name # ""

DefineSymbol ==
    /\ InLoop("define")
    /\ LET s == objs[cur.o].syms[cur.k] IN
       \/ /\ ~Exported(s)
          /\ UNCHANGED globals
       \/ /\ Exported(s) /\ ~Found(s.name) /\ Len(globals) < MAX_SYMS
          /\ globals' = Append(globals, [name |-> s.name, obj |-> cur.o,
                                         sec |-> s.sec, value |-> s.value])
    /\ Advance
    /\ UNCHANGED <<phase, inputs, dataOff, outSize, out, image>>

DefineFails ==
    /\ InLoop("define")
    /\ LET s == objs[cur.o].syms[cur.k] IN
       Exported(s) /\ (Found(s.name) \/ Len(globals) >= MAX_SYMS)
    /\ Fail

Wanted(s) == "DEFINED" \notin s.flags /\ s.name # ""

CheckSymbol ==
    /\ InLoop("undef")
    /\ LET s == objs[cur.o].syms[cur.k] IN Wanted(s) => Found(s.name)
    /\ Advance
    /\ UNCHANGED <<phase, inputs, dataOff, outSize, out, globals, image>>

CheckFails ==
    /\ InLoop("undef")
    /\ LET s == objs[cur.o].syms[cur.k] IN Wanted(s) /\ ~Found(s.name)
    /\ Fail

-----------------------------------------------------------------------------
(* apply_relocations.                                                      *)

\* Mutant: the offset of the section in its merged section is forgotten.
SymVaddrUnplaced(g) ==
    IF g.sec \notin DOMAIN objs[g.obj].secs THEN 0
    ELSE Vaddr(objs[g.obj].secs[g.sec].type) + g.value

\* compute_sym_vaddr.
SymVaddr(g) ==
    IF g.sec \notin DOMAIN objs[g.obj].secs THEN 0
    ELSE Vaddr(objs[g.obj].secs[g.sec].type) + dataOff[<<g.obj, g.sec>>] + g.value

RelocTypes == {"64", "32", "HI20", "LO12_I", "LO12_S", "PCREL_HI20", "PCREL_LO12_I",
               "PCREL_LO12_S", "JAL", "BRANCH"}

InRange(r, delta) ==
    /\ r.type = "JAL" => delta \in -(2^20) .. 2^20 - 1
    /\ r.type = "BRANCH" => delta \in -4096 .. 4095

\* The word w once it refers to address v from address p.
Patched(w, type, v, p) ==
    CASE type \in {"64", "32"}     -> Bits(v)
      [] type = "HI20"            -> PatchImmU(w, Shr(Bits(v + 2048), 12))
      [] type = "LO12_I"          -> PatchImmI(w, v % 4096)
      [] type = "LO12_S"          -> PatchImmS(w, v % 4096)
      [] type = "PCREL_HI20"      -> PatchImmU(w, Shr(Bits(v - p + 2048), 12))
      [] type = "PCREL_LO12_I"    -> PatchImmI(w, (v - p) % 4096)
      [] type = "PCREL_LO12_S"    -> PatchImmS(w, (v - p) % 4096)
      [] type = "JAL"             -> PatchImmJ(w, v - p)
      [] type = "BRANCH"          -> PatchImmB(w, v - p)

\* Where relocation r of object o patches, its target and its address.
Site(o, r) == dataOff[<<o, r.sec>>] + r.off
Place(o, r) == Vaddr(objs[o].secs[r.sec].type) + Site(o, r)
Target(o, r) == SymVaddr(globals[FindGlobalSym(objs[o].syms[r.sym].name)]) + r.addend

\* A relocation names a word of its section (WordsAssumption), so its merged
\* section is allocated and the test for one that is not skips nothing.
Applies(o, r) ==
    /\ r.sec \in DOMAIN objs[o].secs /\ objs[o].secs[r.sec].type # "bss"
    /\ r.sym \in DOMAIN objs[o].syms /\ Found(objs[o].syms[r.sym].name)
    /\ r.type \in RelocTypes /\ InRange(r, Target(o, r) - Place(o, r))

\* The words relocation r of object o writes over those in w, by offset.
Written(o, r, w) ==
    [x \in {Site(o, r)} \cup (IF r.type = "64" THEN {Site(o, r) + 4} ELSE {}) |->
        IF x = Site(o, r) THEN Patched(w[x], r.type, Target(o, r), Place(o, r))
        ELSE IF Target(o, r) < 0 THEN 0..31 ELSE {}]

ApplyReloc ==
    /\ InLoop("relocate")
    /\ LET r == objs[cur.o].relocs[cur.k] IN
       /\ Applies(cur.o, r)
       /\ out' = [out EXCEPT ![objs[cur.o].secs[r.sec].type] = Over(Written(cur.o, r, @), @)]
    /\ Advance
    /\ UNCHANGED <<phase, inputs, dataOff, outSize, globals, image>>

ApplyFails ==
    /\ InLoop("relocate")
    /\ ~Applies(cur.o, objs[cur.o].relocs[cur.k])
    /\ Fail

-----------------------------------------------------------------------------
(* emit_onx.                                                               *)

HeaderSize == 344
LdMagic == <<49, 88, 78, 79>>      \* the bytes of 0x4F4E5831, low byte first

\* emit_onx does not use main's addresses: it computes them again.
SegVaddr ==
    LET rodata == RoundUp(TEXT_VADDR + outSize["text"], ALIGN)
        data   == RoundUp(rodata + outSize["rodata"], ALIGN)
    IN  [text |-> TEXT_VADDR, rodata |-> rodata, data |-> data,
         bss |-> RoundUp(data + outSize["data"], ALIGN)]

\* Mutant: memory is sized by the bytes in the file.
SegmentOfFile(type, filesz, offset, perms) ==
    [type |-> type, vaddr |-> SegVaddr[type], filesz |-> filesz, memsz |-> filesz,
     offset |-> offset, perms |-> perms]

Segment(type, filesz, offset, perms) ==
    [type |-> type, vaddr |-> SegVaddr[type], filesz |-> filesz, memsz |-> outSize[type],
     offset |-> offset, perms |-> perms]

Segments ==
    <<Segment("text", outSize["text"], HeaderSize, {"R", "X"}),
      Segment("rodata", outSize["rodata"], HeaderSize + outSize["text"], {"R"})>>
    \o (IF outSize["data"] = 0 THEN <<>>
        ELSE <<Segment("data", outSize["data"],
                       HeaderSize + outSize["text"] + outSize["rodata"], {"R", "W"})>>)
    \o (IF outSize["bss"] = 0 THEN <<>>
        ELSE <<Segment("bss", 0, 0, {"R", "W"})>>)

Emit ==
    /\ phase = "emit" /\ Found(entrySym)
    /\ image' = <<[magic |-> LdMagic, ring1 |-> ring1, segs |-> Segments,
                   entry |-> SymVaddr(globals[FindGlobalSym(entrySym)])]>>
    /\ phase' = "done"
    /\ UNCHANGED <<inputs, cur, dataOff, outSize, out, globals>>

\* There is no entry symbol, or the output cannot be opened.
EmitFails ==
    /\ phase = "emit"
    /\ Fail

-----------------------------------------------------------------------------

Next ==
    \/ Option \/ BadOption \/ Help \/ LoadObject \/ LoadFails \/ OpenArchive \/ ReadMember
    \/ CloseArchive \/ ArchiveFails \/ NoInput \/ BeginLayout
    \/ NextObject \/ NextLoop \/ OutOfMemory
    \/ PlaceSection \/ CopySection
    \/ DefineSymbol \/ DefineFails \/ CheckSymbol \/ CheckFails
    \/ ApplyReloc \/ ApplyFails \/ Emit \/ EmitFails

Spec == Init /\ [][Next]_vars

-----------------------------------------------------------------------------
(* Properties.                                                             *)

SecAt(p) == objs[p[1]].secs[p[2]]
SecEnd(p) == dataOff[p] + SecAt(p).size

\* Every variable stays in its type: the loop position and every laid-out
\* section belong to a loaded object, every global symbol to one of its sections.
TypeOK ==
    /\ phase \in Loops \cup {"args", "archive", "emit", "done", "failed", "help"}
    /\ ring1 \in BOOLEAN
    /\ cur.o \in Nat \ {0} /\ cur.k \in Nat \ {0}
    /\ \A t \in SecTypes : outSize[t] \in Nat
    /\ \A p \in DOMAIN dataOff : /\ p[1] \in DOMAIN objs /\ p[2] \in DOMAIN objs[p[1]].secs
                                 /\ dataOff[p] \in Nat
    /\ \A i \in DOMAIN globals : globals[i].obj \in DOMAIN objs
    /\ Len(objs) <= MAX_OBJECTS /\ Len(globals) <= MAX_SYMS

\* merge_sections gives every section a range of its merged section that no
\* other section shares, whatever the sizes and alignments of the inputs.
SectionsApart ==
    /\ \A p \in DOMAIN dataOff : SecEnd(p) <= outSize[SecAt(p).type]
    /\ \A p, q \in DOMAIN dataOff :
          p # q /\ SecAt(p).type = SecAt(q).type =>
              SecEnd(p) <= dataOff[q] \/ SecEnd(q) <= dataOff[p]

\* The table never holds two symbols of one name, so which object a reference
\* is bound to does not depend on the order of the search.
OneDefinition ==
    \A i, j \in DOMAIN globals : globals[i].name = globals[j].name => i = j

\* The symbols of all objects that export a name.
Definitions(name) ==
    {d \in UNION {{o} \X DOMAIN objs[o].syms : o \in DOMAIN objs} :
        Exported(objs[d[1]].syms[d[2]]) /\ objs[d[1]].syms[d[2]].name = name}
AddressOf(d) ==
    LET s == objs[d[1]].syms[d[2]] IN
    IF s.sec \notin DOMAIN objs[d[1]].secs THEN 0
    ELSE Vaddr(SecAt(<<d[1], s.sec>>).type) + dataOff[<<d[1], s.sec>>] + s.value

Word(o, r) == out[objs[o].secs[r.sec].type][Site(o, r)]
Low(o, r) == IF r.type \in {"LO12_S", "PCREL_LO12_S"} THEN ImmS(Word(o, r)) ELSE ImmI(Word(o, r))

\* The next relocation completes the address whose upper part is at r: same
\* symbol, and for a PC-relative pair an addend that counts from r.
Completes(o, r, next) ==
    /\ next.sym = r.sym /\ next.sec = r.sec
    /\ \/ /\ r.type = "HI20" /\ next.type \in {"LO12_I", "LO12_S"}
          /\ next.addend = r.addend
       \/ /\ r.type = "PCREL_HI20" /\ next.type \in {"PCREL_LO12_I", "PCREL_LO12_S"}
          /\ next.addend = r.addend + next.off - r.off

\* What the emulator computes from relocation k of object o is address v.
Computes(o, k, v) ==
    LET r == objs[o].relocs[k]
        w == Word(o, r)
        p == Place(o, r)
    IN  CASE r.type \in {"64", "32"} -> Sx(w, 32) = v
          [] r.type = "BRANCH" -> p + ImmB(w) = v
          [] r.type \in {"HI20", "PCREL_HI20"} ->
                k + 1 \in DOMAIN objs[o].relocs /\ Completes(o, r, objs[o].relocs[k+1]) =>
                    (IF r.type = "HI20" THEN 0 ELSE p) + ImmU(w) + Low(o, objs[o].relocs[k+1]) = v
          [] OTHER -> TRUE

\* In a finished image every reference to an exported symbol, executed as the
\* emulator decodes it, leads to the one place where that name is defined: across
\* objects, load orders, alignments, and lower halves that are negative.
ReferencesLead ==
    phase = "done" =>
        \A o \in DOMAIN objs : \A k \in DOMAIN objs[o].relocs :
            LET r == objs[o].relocs[k]
                s == objs[o].syms[r.sym]
            IN  Exported(s) \/ Wanted(s) =>
                    \E d \in Definitions(s.name) :
                        Definitions(s.name) = {d} /\ Computes(o, k, AddressOf(d) + r.addend)

\* The bits a relocation may change: those of its immediate, and for a call
\* also the link register, which patch_imm_j clears (see CallsWork).
PatchedBits(type) ==
    CASE type \in {"64", "32"} -> 0..31
      [] type \in {"LO12_I", "PCREL_LO12_I"} -> 20..31
      [] type \in {"LO12_S", "PCREL_LO12_S", "BRANCH"} -> (7..11) \cup (25..31)
      [] type \in {"HI20", "PCREL_HI20"} -> 12..31
      [] type = "JAL" -> 7..31

\* Patching a word, by one relocation or several, changes no other bit of it:
\* its operation stays, and so do its registers, except the link register of a
\* call.  No relocation of one object touches a word of another.
OperationsKept ==
    phase \in {"relocate", "emit", "done"} =>
        \A p \in DOMAIN dataOff : SecAt(p).type # "bss" =>
            \A x \in DOMAIN SecAt(p).words :
                LET rs == {objs[p[1]].relocs[k] : k \in DOMAIN objs[p[1]].relocs}
                    here == {r \in rs : r.sec = p[2] /\ (r.off = x \/ (r.type = "64" /\ r.off + 4 = x))}
                    free == UNION {PatchedBits(r.type) : r \in here}
                IN  out[SecAt(p).type][dataOff[p] + x] \ free = SecAt(p).words[x] \ free

\* The segments of the image do not overlap in memory, nor their bytes in the
\* file; every input section is loaded where the relocations took it to be; and
\* the entry point is where the entry symbol is defined.
ImageWellFormed ==
    phase = "done" =>
        LET segs == image[1].segs IN
        /\ \A i, j \in DOMAIN segs : i < j =>
              /\ segs[i].vaddr + segs[i].memsz <= segs[j].vaddr
              /\ segs[j].filesz > 0 => segs[i].offset + segs[i].filesz <= segs[j].offset
        /\ \A p \in DOMAIN dataOff : SecAt(p).size > 0 =>
              \E i \in DOMAIN segs :
                  /\ segs[i].type = SecAt(p).type
                  /\ segs[i].vaddr = Vaddr(SecAt(p).type)
                  /\ SecEnd(p) <= segs[i].memsz
        /\ \E d \in Definitions(entrySym) : image[1].entry = AddressOf(d)

-----------------------------------------------------------------------------
(* A statement of the linker's documentation that the program does not keep. *)

\* "R_ONYO_JAL -- jal imm21 (function call)" (include/sys/onyxo.h): a patched
\* call goes to the function and still links, that is, keeps the register it
\* saves the return address in.
CallsWork ==
    phase = "done" =>
        \A o \in DOMAIN objs : \A k \in DOMAIN objs[o].relocs :
            LET r == objs[o].relocs[k] IN
            r.type = "JAL" =>
                /\ Place(o, r) + ImmJ(Word(o, r)) = Target(o, r)
                /\ Field(Word(o, r), 11, 7) = Field(objs[o].secs[r.sec].words[r.off], 11, 7)

=============================================================================
