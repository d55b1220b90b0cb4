---------------------------- MODULE Declarations ----------------------------
(* Declarators and initializers (decl.c, gen.c): the type a declarator gives *)
(* its name, and the bytes, or the stores, an initializer becomes. A token   *)
(* is a record [t, v]: t its kind, v the number, string, name or type.       *)
EXTENDS Integers, Sequences, SequencesExt, TLC

Up(n, al) == ((n + al - 1) \div al) * al
Zeros(n) == [k \in 1 .. n |-> 0]
(* The bytes of a number, none of which here reaches 2^31. *)
Little(v, n) == [k \in 1 .. n |-> IF k > 4 THEN 0 ELSE (v \div 256^(k - 1)) % 256]

(* Types. Nothing is the missing base of a parenthesised declarator; it has *)
(* no size, as the null pointer it stands for has none.                     *)
Nothing == [k |-> "nothing"]
IntOf(n) == [k |-> "int", size |-> n, align |-> n]
Void == [k |-> "void", size |-> 0, align |-> 1]
Ptr(base) == [k |-> "ptr", base |-> base, size |-> 8, align |-> 8]
ArrayOf(base, n) == [k |-> "array", base |-> base, len |-> n, size |-> base.size * n, align |-> base.align]
Func(ret, params) == [k |-> "func", base |-> ret, params |-> params]

(* A structure's fields in order, each at the next multiple of its alignment. *)
Field(s, f) ==
  LET at == Up(s.size, f.align)
  IN [s EXCEPT !.fields = Append(@, [type |-> f, off |-> at]), !.size = at + f.size,
               !.align = IF f.align > @ THEN f.align ELSE @]
StructOf(ts) ==
  LET s == FoldLeft(Field, [k |-> "struct", fields |-> <<>>, size |-> 0, align |-> 1], ts)
  IN [s EXCEPT !.size = Up(@, s.align)]

Aggregate(t) == t.k \in {"array", "struct"}
CharArray(t) == t.k = "array" /\ t.base.k = "int" /\ t.base.size = 1
Complete(t, bytes) == [t EXCEPT !.len = bytes \div t.base.size, !.size = bytes]

-----------------------------------------------------------------------------
(* Declarators. *)
At(toks, i) == IF i <= Len(toks) THEN toks[i].t ELSE "eof"

RECURSIVE Splice(_, _)
Splice(t, base) ==
  CASE t.k = "nothing" -> base
    [] t.k \in {"ptr", "array", "func"} -> [t EXCEPT !.base = Splice(@, base)]
    [] OTHER -> t

Decayed(t) == CASE t.k = "array" -> Ptr(t.base) [] t.k = "func" -> Ptr(t) [] OTHER -> t

RECURSIVE Declarator(_, _, _)
RECURSIVE Suffix(_, _, _)
RECURSIVE Params(_, _, _)
Params(toks, i, ps) ==
  IF At(toks, i) # "type" THEN [ps |-> ps, i |-> i]
  ELSE LET d == Declarator(toks, i + 1, toks[i].v)
           qs == Append(ps, Decayed(d.t))
       IN IF At(toks, d.i) = "," THEN Params(toks, d.i + 1, qs) ELSE [ps |-> qs, i |-> d.i]
Suffix(toks, i, base) ==
  CASE At(toks, i) = "[" -> LET n == IF At(toks, i + 1) = "num" THEN toks[i + 1].v ELSE 0
                                rest == Suffix(toks, i + (IF At(toks, i + 1) = "num" THEN 3 ELSE 2), base)
                            IN [t |-> ArrayOf(rest.t, n), i |-> rest.i]
    [] At(toks, i) = "(" -> LET p == Params(toks, i + 1, <<>>)
                            IN Suffix(toks, p.i + 1, Func(base, IF p.ps = <<Void>> THEN <<>> ELSE p.ps))
    [] OTHER -> [t |-> base, i |-> i]
Declarator(toks, i, base) ==
  CASE At(toks, i) = "*" -> Declarator(toks, i + 1, Ptr(base))
    [] At(toks, i) = "(" -> LET inner == Declarator(toks, i + 1, Nothing)
                                suf == Suffix(toks, inner.i + 1, base)
                            IN [t |-> Splice(inner.t, suf.t), i |-> suf.i]
    [] At(toks, i) = "name" -> Suffix(toks, i + 1, base)
    [] OTHER -> Suffix(toks, i, base)

-----------------------------------------------------------------------------
(* The pool of string literals: a literal found anywhere in it, its NUL *)
(* included, is not added again.                                        *)
PoolAt(rodata, s) ==
  LET hits == {o \in 0 .. Len(rodata) - Len(s) - 1 : SubSeq(rodata, o + 1, o + Len(s) + 1) = Append(s, 0)}
  IN IF hits = {} THEN Len(rodata) ELSE CHOOSE o \in hits : \A p \in hits : o <= p
PoolAfter(rodata, s) == IF PoolAt(rodata, s) = Len(rodata) THEN rodata \o Append(s, 0) ELSE rodata

-----------------------------------------------------------------------------
(* Initializers of objects with static storage. st is the compiler's state: *)
(* the token i, data and rodata, what is to be patched, and the errors;     *)
(* st.find is the symbol a name leads to, or 0.                             *)
Push(st, bytes) == [st EXCEPT !.data = @ \o bytes]
PadTo(st, start, n) == Push(st, Zeros(IF Len(st.data) - start < n THEN n - (Len(st.data) - start) ELSE 0))
Next1(st) == [st EXCEPT !.i = @ + 1]
Wrong(st) == [st EXCEPT !.errs = @ + 1]
Expect(toks, st, t) == IF At(toks, st.i) = t THEN Next1(st) ELSE Next1(Wrong(st))
Accept(toks, st, t) == IF At(toks, st.i) = t THEN Next1(st) ELSE st

StringBytes(st, type, s) ==
  LET n == Len(s) + 1
  IN Push(st, Append(s, 0) \o Zeros(IF type.size > n THEN type.size - n ELSE 0))
Pooled(st, s) == [st EXCEPT !.rodata = PoolAfter(@, s)]
StringPointer(st, s) ==
  Push([Pooled(st, s) EXCEPT !.strfix = Append(@, [off |-> PoolAt(st.rodata, s), at |-> Len(st.data)])], Zeros(8))
SymbolPointer(st, sym) == Push([st EXCEPT !.symfix = Append(@, [sym |-> sym, at |-> Len(st.data)])], Zeros(8))

(* One scalar, string or address. *)
Scalar(toks, st, type) ==
  LET tok == toks[st.i]
  IN CASE tok.t = "str" -> IF type.k = "ptr" THEN StringPointer(Next1(st), tok.v)
                           ELSE IF CharArray(type) THEN StringBytes(Pooled(Next1(st), tok.v), type, tok.v)
                           ELSE Wrong(Pooled(Next1(st), tok.v))
       [] tok.t = "addr" /\ st.find[tok.v] # 0 ->
            IF type.size = 8 THEN SymbolPointer(Next1(st), st.find[tok.v]) ELSE Wrong(Next1(st))
       [] tok.t = "num" -> Push(Next1(st), Little(tok.v, type.size))
       [] OTHER -> Push(Next1(Wrong(st)), Zeros(type.size))

RECURSIVE Body(_, _, _)
RECURSIVE Elements(_, _, _, _)
Braced(toks, st, type) == Expect(toks, Accept(toks, Body(toks, Next1(st), type), ","), "}")
Element(toks, st, type) ==
  IF Aggregate(type) THEN IF At(toks, st.i) = "{" THEN Braced(toks, st, type) ELSE Body(toks, st, type)
  ELSE Scalar(toks, st, type)

(* The members from the k-th on, until a brace ends them, a comma is missing *)
(* or there are no more; start is where the whole object begins.             *)
More(toks, st, type, k) == IF k = 0 THEN type.k = "struct" \/ At(toks, st.i) \notin {"}", "eof"}
                           ELSE At(toks, st.i) = "," /\ At(toks, st.i + 1) # "}"
Full(type, k) == IF type.k = "array" THEN type.len # 0 /\ k = type.len ELSE k = Len(type.fields)
Member(type, k) == IF type.k = "array" THEN type.base ELSE type.fields[k + 1].type
Offset(type, k) == IF type.k = "array" THEN k * type.base.size ELSE type.fields[k + 1].off
Elements(toks, st, type, k) ==
  LET here == IF k = 0 THEN st ELSE Next1(st)
      padded == IF type.k = "array" THEN here ELSE PadTo(here, st.start, Offset(type, k))
  IN CASE Full(type, k) -> st
       [] ~Full(type, k) /\ ~More(toks, st, type, k) -> IF k = 0 THEN st ELSE Accept(toks, st, ",")
       [] OTHER -> Elements(toks, [Element(toks, padded, Member(type, k)) EXCEPT !.start = st.start], type, k + 1)
Body(toks, st, type) ==
  CASE CharArray(type) /\ At(toks, st.i) = "str" -> Scalar(toks, st, type)
    [] Aggregate(type) -> LET start == Len(st.data)
                          IN [PadTo(Elements(toks, [st EXCEPT !.start = start], type, 0), start, type.size)
                               EXCEPT !.start = st.start]
    [] OTHER -> Scalar(toks, st, type)

-----------------------------------------------------------------------------
(* Initializers of automatic objects: stores into the frame. A pair of lui *)
(* and addi in the text is named by its offset; its fields are patched     *)
(* when the addresses are known.                                           *)
Insns(st, n) == [st EXCEPT !.text = @ + 4 * n]
Pair(st) == Insns([st EXCEPT !.w = (st.text :> 0) @@ (st.text + 4 :> 0) @@ @], 2)
RodataPair(st, s) ==
  [Pair(Pooled(st, s)) EXCEPT !.rofix = Append(@, [off |-> PoolAt(st.rodata, s), at |-> st.text])]
SymbolPair(st, sym, add) == [Pair(st) EXCEPT !.fix = Append(@, [sym |-> sym, at |-> st.text, add |-> add])]
StoreNum(st, off, n, v) == [Insns(st, 3) EXCEPT !.stores = Append(@, [k |-> "num", off |-> off, n |-> n, v |-> v])]
StoreAddr(st, off, at) == [Insns(st, 1) EXCEPT !.stores = Append(@, [k |-> "addr", off |-> off, at |-> at])]
CopyByte(st, off, at, i) == [Insns(st, 2) EXCEPT !.stores = Append(@, [k |-> "copy", off |-> off, at |-> at, i |-> i])]
Repeat(Op(_, _), st, n) == FoldLeft(Op, st, [k \in 1 .. n |-> k - 1])

LocalScalar(toks, st, type, off) ==
  LET tok == toks[st.i]
  IN CASE tok.t = "str" -> StoreAddr(RodataPair(Next1(st), tok.v), off, st.text)
       [] tok.t = "addr" /\ st.find[tok.v] # 0 -> StoreAddr(SymbolPair(Next1(st), st.find[tok.v], 0), off, st.text)
       [] tok.t = "num" -> StoreNum(Next1(st), off, type.size, tok.v)
       [] OTHER -> Next1(Wrong(st))

LocalString(st, type, off, s) ==
  LET Put(r, i) == StoreNum(r, off + i, 1, IF i < Len(s) THEN s[i + 1] ELSE 0)
  IN Repeat(Put, IF Len(s) > type.size THEN Wrong(Next1(st)) ELSE Next1(st), type.size)

Close(toks, st) == IF At(toks, st.i) = "}" THEN Next1(st) ELSE Wrong(st)
RECURSIVE LocalBody(_, _, _, _)
RECURSIVE LocalElements(_, _, _, _, _)
LocalElement(toks, st, type, off) ==
  IF ~Aggregate(type) THEN LocalScalar(toks, st, type, off)
  ELSE IF At(toks, st.i) = "{" THEN Close(toks, LocalBody(toks, Next1(st), type, off))
  ELSE LocalBody(toks, st, type, off)
LocalElements(toks, st, type, off, k) ==
  LET here == IF k = 0 THEN st ELSE Next1(st)
  IN CASE Full(type, k) -> st
       [] ~Full(type, k) /\ ~More(toks, st, type, k) -> IF k = 0 THEN st ELSE Accept(toks, st, ",")
       [] OTHER -> LocalElements(toks, LocalElement(toks, here, Member(type, k), off + Offset(type, k)), type, off, k + 1)
LocalBody(toks, st, type, off) ==
  CASE CharArray(type) /\ At(toks, st.i) = "str" -> LocalString(st, type, off, toks[st.i].v)
    [] Aggregate(type) -> LocalElements(toks, st, type, off, 0)
    [] OTHER -> LocalScalar(toks, st, type, off)

(* Mutant: the bytes after the last double word keep what the stack held. *)
ClearNoTail(st, size, off) ==
  LET prefix == Min({(-off) % 8, size})
      Byte(r, i) == StoreNum(r, off + i, 1, 0)
      Double(r, i) == StoreNum(r, off + prefix + 8 * i, 8, 0)
  IN Repeat(Double, Repeat(Byte, st, prefix), (size - prefix) \div 8)
(* The object is cleared first: bytes up to a multiple of eight, double words *)
(* in a loop, and the bytes that are left.                                    *)
Clear(st, size, off) ==
  LET prefix == Min({(-off) % 8, size})
      words == (size - prefix) \div 8
      Byte(r, i) == StoreNum(r, off + i, 1, 0)
      Double(r, i) == StoreNum(r, off + prefix + 8 * i, 8, 0)
      Rest(r, i) == StoreNum(r, off + prefix + 8 * words + i, 1, 0)
  IN Repeat(Rest, Repeat(Double, Repeat(Byte, st, prefix), words), (size - prefix) % 8)
LocalBraced(toks, st, type, off) ==
  Close(toks, Accept(toks, LocalBody(toks, Next1(Clear(st, type.size, off)), type, off), ","))

(* The elements of a braced initializer: its commas outside other braces. *)
Depth(toks, i) == Cardinality({j \in 1 .. i : toks[j].t = "{"}) - Cardinality({j \in 1 .. i : toks[j].t = "}"})
BraceElements(toks) ==
  LET end == Min({i \in 1 .. Len(toks) : Depth(toks, i) = 0})
  IN Cardinality({i \in 1 .. end - 1 : (i = 1 /\ end > 2) \/ (toks[i].t = "," /\ Depth(toks, i) = 1 /\ i + 1 # end)})

(* char a[] = "...": a copy of the literal, then zeros. *)
CopyString(st, type, off, s) ==
  LET Copy(r, i) == IF i <= Len(s) THEN CopyByte(r, off + i, st.text, i) ELSE StoreNum(r, off + i, 1, 0)
  IN Repeat(Copy, RodataPair(Next1(st), s), type.size)
=============================================================================
