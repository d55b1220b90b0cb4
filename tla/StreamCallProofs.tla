-------------------------- MODULE StreamCallProofs --------------------------
(***************************************************************************)
(* Proofs about Stream, 2: every call, with each turn of the loops of      *)
(* fread and fwrite, is a step of the plain file of ByteFile.  The last    *)
(* section proves that output is out when fwrite says it is.               *)
(***************************************************************************)
EXTENDS StreamProofs

\* The time the provers are given for a leaf that names none.
USE SMTT(20), ZenonT(20)

-----------------------------------------------------------------------------
(* Reading and writing the buffer keep the file, too.                      *)

\* Reading ahead does not move the client.
LEMMA FillView ==
  ASSUME NEW f, NEW ker, Right(f, ker), Has(f, "UNREAD"), ~Has(f, "PUSHBACK"),
         f.start >= Len(f.buf), NEW o \in Fills(f, ker)
  PROVE  /\ Right(o.fp, o.file) /\ SameFile(f, ker, o.fp, o.file)
         /\ Psh(o.fp) = Psh(f)
<1> DEFINE left == Len(ker.data) - ker.off
           most == Least(IF Has(f, "UNBUF") THEN 1 ELSE f.size, left)
           part(n) == SubSeq(ker.data, ker.off + 1, ker.off + n)
           filled(n) == [f EXCEPT !.buf = part(n), !.start = 0]
           read(n) == [ker EXCEPT !.off = @ + n]
<1>1. /\ Good(f, ker) /\ f.open /\ f \in FpSet /\ ker \in FileSet /\ f.pb = NL
      /\ f.buf \in Seq(Int) /\ Len(f.buf) \in Nat /\ f.start \in Nat /\ f.size \in Nat /\ f.start <= Len(f.buf)
      /\ ker.data \in Seq(Int) /\ Len(ker.data) \in Nat /\ ker.off \in Nat
  BY RightFacts, Zenon
<1>2. /\ o \in Outcomes /\ Good(o.fp, o.file) /\ Same(f, o.fp) /\ Has(o.fp, "UNREAD") /\ ~Has(o.fp, "PUSHBACK")
  BY <1>1, FillKeeps, ZenonT(40)
<1>3. ~Has(f, "DIRTY") /\ ~Has(o.fp, "DIRTY")
  BY <1>1, <1>2, ZenonT(40) DEF Good, Roles
<1>4. \/ o = [ok |-> FALSE, fp |-> f, file |-> ker]
      \/ o = [ok |-> FALSE, fp |-> Set(f, "ERR"), file |-> ker]
      \/ o = [ok |-> FALSE, fp |-> Set(f, "EOF"), file |-> ker]
      \/ left > 0 /\ \E n \in 1 .. most : o = [ok |-> TRUE, fp |-> filled(n), file |-> read(n)]
  <2> HIDE DEF most
  <2>1. ~(left <= 0) => left > 0
    BY <1>1
  <2> HIDE DEF left
  <2> QED BY <2>1, Zenon DEF Fills, most, left
<1>5. CASE o = [ok |-> FALSE, fp |-> f, file |-> ker]
  <2>1. o.fp = f /\ o.file = ker
    BY <1>5
  <2> QED BY <2>1, Zenon DEF SameFile, Same
<1>6. CASE o = [ok |-> FALSE, fp |-> Set(f, "ERR"), file |-> ker]
  BY <1>6, ErrView, ZenonT(40)
<1>7. CASE o = [ok |-> FALSE, fp |-> Set(f, "EOF"), file |-> ker]
  <2>1. "EOF" \in Flags /\ o.fp = Set(f, "EOF") /\ o.file = ker
    BY <1>7, ZenonT(40) DEF Flags
  <2>2. o.fp.buf = f.buf /\ o.fp.start = f.start /\ o.fp.pb = f.pb
    BY <1>1, <2>1, SetFields
  <2> QED BY <1>2, <1>3, <2>1, <2>2, FlagView, ZenonT(40)
<1>8. CASE left > 0 /\ \E n \in 1 .. most : o = [ok |-> TRUE, fp |-> filled(n), file |-> read(n)]
  <2>1. PICK n \in 1 .. most : o = [ok |-> TRUE, fp |-> filled(n), file |-> read(n)]
    BY <1>8, Zenon
  <2>2. n \in Nat /\ n >= 1 /\ ker.off + n <= Len(ker.data)
    <3>1. ker.off \in Nat /\ Len(ker.data) \in Nat
      BY <1>1, Zenon
    <3>2. n \in 1 .. left
      <4>1. n \in 1 .. most /\ left \in Int /\ (most = left \/ (most < left /\ most \in Nat))
        <5>1. f.size \in Nat /\ (IF Has(f, "UNBUF") THEN 1 ELSE f.size) \in Nat
          BY <1>1, Zenon
        <5> QED BY ONLY <2>1, <3>1, <5>1 DEF Least, most, left
      <4> QED BY ONLY <4>1
    <3> QED BY ONLY <3>1, <3>2 DEF left
  <2> HIDE DEF most, left
  <2>3. /\ part(n) \in Seq(Int) /\ Len(part(n)) = n
        /\ \A i \in 1 .. n : part(n)[i] = ker.data[ker.off + i]
    BY <1>1, <2>2, PartFrom, ZenonT(40)
  <2> HIDE DEF part
  <2>4. filled(n).buf = part(n) /\ filled(n).start = 0 /\ filled(n).pb = f.pb
    BY <1>1, <2>3, RefillFields, Zenon
  <2>5. read(n).data = ker.data /\ read(n).off = ker.off + n
    BY <1>1, <2>2 DEF FileSet
  <2> HIDE DEF filled, read
  <2>6. o.fp.buf = part(n) /\ o.fp.start = 0 /\ o.fp.pb = f.pb /\ o.file.data = ker.data /\ o.file.off = ker.off + n
    BY <2>1, <2>4, <2>5, ZenonT(40)
  <2>7. InputRight(o.fp, o.file)
    <3>0. o.file.off <= Len(o.file.data)
      BY <2>2, <2>6
    <3>1. Len(o.fp.buf) = n /\ n <= ker.off + n /\ (ker.off + n) - n = ker.off
      BY ONLY <1>1, <2>2, <2>3, <2>6
    <3>2. \A i \in 1 .. n : o.fp.buf[i] = o.file.data[o.file.off - Len(o.fp.buf) + i]
      <4>1. o.file.off - Len(o.fp.buf) = ker.off
        BY <2>6, <3>1, ZenonT(40)
      <4> QED BY <2>3, <2>6, <4>1, ZenonT(40)
    <3> QED BY <2>6, <3>0, <3>1, <3>2, ZenonT(40) DEF InputRight
  <2>8. Unread(o.fp) = n /\ Unread(f) = 0
    <3>1. Len(o.fp.buf) = n /\ f.start = Len(f.buf)
      <4>1. f.start \in Nat /\ Len(f.buf) \in Nat /\ f.start <= Len(f.buf) /\ Len(part(n)) = n /\ o.fp.buf = part(n)
        BY <1>1, <2>3, <2>6, Zenon
      <4> QED BY ONLY <4>1, f.start >= Len(f.buf)
    <3>2. Unread(o.fp) = Len(o.fp.buf) - o.fp.start + 0 /\ Unread(f) = Len(f.buf) - f.start + 0
      BY <1>2, Zenon DEF Unread
    <3>3. n \in Nat /\ Len(f.buf) \in Nat /\ o.fp.start = 0
      BY <1>1, <2>2, <2>6, Zenon
    <3> QED BY ONLY <3>1, <3>2, <3>3
  <2>9. Pos(o.fp, o.file) = Pos(f, ker) /\ Con(o.fp, o.file) = Con(f, ker)
    <3>1. /\ Pos(o.fp, o.file) = o.file.off - Unread(o.fp) /\ Con(o.fp, o.file) = o.file.data
          /\ Pos(f, ker) = ker.off - Unread(f) /\ Con(f, ker) = ker.data
      BY <1>3, Zenon DEF Pos, Con
    <3>2. n \in Nat /\ ker.off \in Nat /\ o.file.off = ker.off + n /\ o.file.data = ker.data
      BY <1>1, <2>2, <2>6, Zenon
    <3> QED BY ONLY <2>8, <3>1, <3>2
  <2> QED BY <1>1, <1>2, <2>6, <2>7, <2>9, ZenonT(40) DEF Right, SameFile, Same, Psh
<1> QED BY <1>4, <1>5, <1>6, <1>7, <1>8, Zenon

\* The next n bytes of the buffer are the next n of the client's file.
LEMMA UseView ==
  ASSUME NEW f, NEW ker, Right(f, ker), Has(f, "UNREAD"), ~Has(f, "PUSHBACK"),
         f.start < Len(f.buf), NEW n \in Nat, f.start + n <= Len(f.buf), n = 0 \/ ~Has(f, "EOF")
  PROVE  LET g == [f EXCEPT !.start = @ + n]
         IN  /\ Right(g, ker) /\ Con(g, ker) = Con(f, ker) /\ Pos(g, ker) = Pos(f, ker) + n
             /\ Psh(g) = -1 /\ Psh(f) = -1 /\ Same(f, g)
             /\ SubSeq(f.buf, f.start + 1, f.start + n)
                   = SubSeq(Con(f, ker), Pos(f, ker) + 1, Pos(f, ker) + n)
             /\ Pos(f, ker) \in Nat /\ Pos(f, ker) + n <= Len(Con(f, ker))
<1> DEFINE to == f.start + n
           g == [f EXCEPT !.start = to]
           pos == ker.off - (Len(f.buf) - f.start)
           mine == SubSeq(f.buf, f.start + 1, f.start + n)
           theirs == SubSeq(ker.data, pos + 1, pos + n)
<1>1. /\ Good(f, ker) /\ f.open /\ f \in FpSet /\ ker \in FileSet /\ f.pb = NL
      /\ f.buf \in Seq(Int) /\ Len(f.buf) \in Nat /\ f.start \in Nat /\ f.start <= Len(f.buf)
      /\ ker.data \in Seq(Int) /\ Len(ker.data) \in Nat /\ ker.off \in Nat /\ to \in Nat
  <2>1. /\ Good(f, ker) /\ f.open /\ f \in FpSet /\ ker \in FileSet /\ f.pb = NL
        /\ f.buf \in Seq(Int) /\ Len(f.buf) \in Nat /\ f.start \in Nat /\ f.start <= Len(f.buf)
        /\ ker.data \in Seq(Int) /\ Len(ker.data) \in Nat /\ ker.off \in Nat
    BY RightFacts, Zenon
  <2>2. \A i, j \in Nat : i + j \in Nat
    OBVIOUS
  <2> QED BY <2>1, <2>2, Zenon
<1>2. /\ Len(f.buf) <= ker.off /\ ker.off <= Len(ker.data)
      /\ \A i \in 1 .. Len(f.buf) : f.buf[i] = ker.data[ker.off - Len(f.buf) + i]
  <2>1. f.buf # <<>>
    <3>1. Len(f.buf) # 0
      BY <1>1
    <3> QED BY <3>1, SeqEmpty
  <2> QED BY <2>1, Zenon DEF Right, InputRight
<1>0. /\ pos \in Nat /\ pos + n <= Len(ker.data)
      /\ ker.off - (Len(f.buf) - (f.start + n)) = pos + n
      /\ \A i \in 1 .. n : f.start + i \in 1 .. Len(f.buf) /\ ker.off - Len(f.buf) + (f.start + i) = pos + i
  <2> DEFINE off == ker.off
             len == Len(f.buf)
             start == f.start
             total == Len(ker.data)
  <2>1. /\ off \in Nat /\ len \in Nat /\ start \in Nat /\ total \in Nat
        /\ start + n <= len /\ len <= off /\ off <= total
    BY <1>1, <1>2
  <2> HIDE DEF off, len, start, total
  <2>2. /\ off - (len - start) \in Nat /\ off - (len - start) + n <= total
        /\ off - (len - (start + n)) = off - (len - start) + n
        /\ \A i \in 1 .. n : start + i \in 1 .. len /\ off - len + (start + i) = off - (len - start) + i
    BY <2>1, Behind
  <2> QED BY <2>2, Zenon DEF off, len, start, total
<1>3. ~Has(f, "DIRTY")
  BY <1>1 DEF Good, Roles
<1>4. [f EXCEPT !.start = @ + n] = g
  BY <1>1 DEF FpSet
<1>5. Good(g, ker) /\ Same(f, g) /\ Has(g, "UNREAD")
  BY <1>1, <1>4, UseKeeps, ZenonT(40)
<1>6. g.flags = f.flags /\ g.buf = f.buf /\ g.start = to /\ g.pb = f.pb
  BY <1>1, StartFields
<1> HIDE DEF g, to
<1>7. \A x : Has(g, x) <=> Has(f, x)
  BY <1>6 DEF Has
<1>8. Con(f, ker) = ker.data /\ Con(g, ker) = ker.data /\ Psh(f) = -1 /\ Psh(g) = -1
  BY <1>3, <1>7, Zenon DEF Con, Psh
<1>9. Pos(f, ker) = pos /\ Pos(g, ker) = pos + n /\ pos \in Nat /\ pos + n <= Len(ker.data)
  <2>1. Unread(f) = Len(f.buf) - f.start
    BY <1>1 DEF Unread
  <2>2. Unread(g) = Len(f.buf) - (f.start + n)
    BY <1>1, <1>6, <1>7 DEF Unread, to
  <2>3. Pos(f, ker) = ker.off - Unread(f) /\ Pos(g, ker) = ker.off - Unread(g)
    BY <1>3, <1>7, ZenonT(40) DEF Pos
  <2> QED BY <1>0, <2>1, <2>2, <2>3, Zenon
<1>10. Right(g, ker)
  BY <1>1, <1>5, <1>6, <1>7 DEF Right, InputRight, Same
<1>11. mine = theirs
  <2> HIDE DEF pos
  <2>1. \A i \in 1 .. n : f.buf[f.start + i] = ker.data[pos + i]
    BY <1>0, <1>2, Zenon
  <2> DEFINE s == f.buf
             t == ker.data
             a == f.start
  <2>2. /\ s \in Seq(Int) /\ t \in Seq(Int) /\ a \in Nat /\ pos \in Nat
        /\ a + n <= Len(s) /\ pos + n <= Len(t) /\ Agree(s, a, t, pos, n)
    BY <1>0, <1>1, <2>1 DEF Agree
  <2> HIDE DEF s, t, a
  <2>3. SubSeq(s, a + 1, a + n) = SubSeq(t, pos + 1, pos + n)
    BY <2>2, SameParts
  <2> QED BY <2>3, Zenon DEF s, t, a
<1> HIDE DEF pos, mine, theirs
<1> QED BY <1>4, <1>5, <1>8, <1>9, <1>10, <1>11, Zenon DEF mine, theirs

\* The pushed-back byte is the next one.
LEMMA PopView ==
  ASSUME NEW f, NEW ker, Right(f, ker), Has(f, "PUSHBACK")
  PROVE  LET g == Clear(f, {"PUSHBACK"})
         IN  /\ Right(g, ker) /\ Con(g, ker) = Con(f, ker) /\ Pos(g, ker) = Pos(f, ker) + 1
             /\ Psh(g) = -1 /\ Psh(f) = f.pb /\ Same(f, g)
<1> DEFINE g == Clear(f, {"PUSHBACK"})
<1>1. /\ Good(f, ker) /\ f.open /\ f \in FpSet /\ f.pb = NL /\ ~Has(f, "DIRTY")
      /\ Len(f.buf) \in Nat /\ f.start \in Nat /\ ker.off \in Nat
  BY SeqLength DEF Right, Good, FpSet, FileSet, Roles
<1>2. g.flags = f.flags \ {"PUSHBACK"} /\ g.buf = f.buf /\ g.start = f.start /\ g.pb = f.pb
  BY <1>1, ClearFields
<1>3. Good(g, ker) /\ Same(f, g)
  BY <1>1, PopKeeps
<1> HIDE DEF g
<1>4. ~Has(g, "PUSHBACK") /\ ~Has(g, "DIRTY") /\ (Has(g, "UNREAD") <=> Has(f, "UNREAD"))
  BY <1>1, <1>2 DEF Has
<1>5. Unread(f) = Unread(g) + 1 /\ Unread(g) \in Int
  BY <1>1, <1>2, <1>4 DEF Unread
<1>6. Right(g, ker)
  BY <1>1, <1>2, <1>3, <1>4 DEF Right, InputRight, Same
<1>7. Con(g, ker) = Con(f, ker) /\ Psh(g) = -1 /\ Psh(f) = f.pb
  BY <1>1, <1>4 DEF Con, Psh
<1>8. Pos(g, ker) = Pos(f, ker) + 1
  BY <1>1, <1>4, <1>5 DEF Pos
<1> QED BY <1>3, <1>6, <1>7, <1>8 DEF g

\* A byte pushed back: the client is one byte further back.
LEMMA PushView ==
  ASSUME NEW f, NEW ker, Right(f, ker), Has(f, "UNREAD"), ~Has(f, "PUSHBACK")
  PROVE  LET g == Clear(Set([f EXCEPT !.pb = NL], "PUSHBACK"), {"EOF"})
         IN  /\ Right(g, ker) /\ Con(g, ker) = Con(f, ker) /\ Pos(g, ker) = Pos(f, ker) - 1
             /\ Psh(g) = NL /\ Psh(f) = -1 /\ Same(f, g)
<1> DEFINE a == [f EXCEPT !.pb = NL]
           b == Set(a, "PUSHBACK")
           g == Clear(b, {"EOF"})
<1>1. /\ Good(f, ker) /\ f.open /\ f \in FpSet /\ f.pb = NL /\ ~Has(f, "DIRTY") /\ NL \in Int
      /\ Len(f.buf) \in Nat /\ f.start \in Nat /\ ker.off \in Nat /\ "PUSHBACK" \in Flags
  BY SeqLength, BytesAssumption DEF Right, Good, FpSet, FileSet, Roles, Flags
<1>2. a = f
  BY <1>1 DEF FpSet
<1>3. Good(g, ker)
  BY <1>1, PushKeeps
<1> HIDE DEF a
<1>4. /\ b \in FpSet /\ b.flags = f.flags \cup {"PUSHBACK"} /\ b.buf = f.buf /\ b.start = f.start /\ b.pb = f.pb
      /\ b.open = f.open /\ b.mode = f.mode /\ b.size = f.size
  <2> DEFINE c == Set(f, "PUSHBACK")
  <2>1. /\ c \in FpSet /\ c.flags = f.flags \cup {"PUSHBACK"} /\ c.buf = f.buf /\ c.start = f.start /\ c.pb = f.pb
        /\ c.open = f.open /\ c.mode = f.mode /\ c.size = f.size
    <3>1. f \in FpSet /\ "PUSHBACK" \in Flags
      BY <1>1
    <3> QED BY <3>1, SetFields, Zenon
  <2>2. b = c
    BY <1>2
  <2> QED BY <2>1, <2>2, Zenon
<1> HIDE DEF b
<1>5. /\ g.flags = (f.flags \cup {"PUSHBACK"}) \ {"EOF"} /\ g.buf = f.buf /\ g.start = f.start /\ g.pb = f.pb
      /\ g.open = f.open /\ g.mode = f.mode /\ g.size = f.size
  BY <1>4, ClearFields
<1> HIDE DEF g
<1>6. Has(g, "PUSHBACK") /\ ~Has(g, "DIRTY") /\ Has(g, "UNREAD")
  BY <1>1, <1>5 DEF Has
<1>7. Unread(g) = Unread(f) + 1 /\ Unread(f) \in Int
  <2>1. Unread(g) = Len(f.buf) - f.start + 1
    BY <1>5, <1>6 DEF Unread
  <2>2. Unread(f) = Len(f.buf) - f.start + 0
    BY DEF Unread
  <2> QED BY <1>1, <2>1, <2>2
<1>8. Right(g, ker)
  BY <1>1, <1>3, <1>5, <1>6 DEF Right, InputRight
<1>9. Con(g, ker) = Con(f, ker) /\ Psh(g) = NL /\ Psh(f) = -1
  BY <1>1, <1>5, <1>6 DEF Con, Psh
<1>10. Pos(g, ker) = Pos(f, ker) - 1
  BY <1>1, <1>6, <1>7 DEF Pos
<1> QED BY <1>5, <1>8, <1>9, <1>10, ZenonT(40) DEF Same, g, b, a

\* Bytes added to the waiting writes are written at the client's position, or at
\* the end of an appending stream.
LEMMA CopyView ==
  ASSUME NEW f, NEW ker, Right(f, ker), ~Has(f, "UNREAD"), NEW bs \in Seq(Int),
         NEW g, Good(g, ker), Same(f, g), g.buf = f.buf \o bs, g.pb = f.pb,
         Has(g, "DIRTY"), ~Has(g, "UNREAD")
  PROVE  LET at == IF f.mode.app THEN Len(Con(f, ker)) ELSE Pos(f, ker)
         IN  /\ at \in Nat
             /\ Con(g, ker) = Overlay(Con(f, ker), at, bs)
             /\ Pos(g, ker) = at + Len(bs)
             /\ Right(g, ker) /\ Psh(g) = -1 /\ Psh(f) = -1
<1> DEFINE at == IF f.mode.app THEN Len(Con(f, ker)) ELSE Pos(f, ker)
           a == Base(f, ker)
           d == ker.data
           b == f.buf
<1>1. /\ Good(f, ker) /\ f.open /\ f \in FpSet /\ f.pb = NL /\ ker \in FileSet
      /\ b \in Seq(Int) /\ Len(b) \in Nat /\ ker.off \in Nat /\ d \in Seq(Int)
      /\ Len(d) \in Nat /\ f.mode.app \in BOOLEAN
      /\ Len(bs) \in Nat /\ ~Has(f, "PUSHBACK") /\ ~Has(g, "PUSHBACK")
  BY SeqLength, ZenonT(40) DEF Right, Good, FpSet, FileSet, Roles, ModeSet
<1>2. Base(g, ker) = a /\ g.open
  BY <1>1 DEF Base, Same
<1>3. a \in Nat /\ Con(g, ker) = Overlay(d, a, b \o bs) /\ Pos(g, ker) = a + Len(b \o bs)
  <2>1. /\ Base(g, ker) \in Nat /\ Con(g, ker) = Overlay(ker.data, Base(g, ker), g.buf)
        /\ Pos(g, ker) = Base(g, ker) + Len(g.buf)
    BY <1>2, DirtyView, Zenon
  <2> HIDE DEF a
  <2> QED BY <1>2, <2>1, Zenon
<1>4. Con(f, ker) = Overlay(d, a, b)
  <2>1. CASE Has(f, "DIRTY")
    BY <1>1, <2>1, DirtyView
  <2>2. CASE ~Has(f, "DIRTY")
    <3>1. b = <<>> /\ Con(f, ker) = d
      BY <1>1, <2>2, EmptyView
    <3> HIDE DEF a, d, b
    <3> QED BY <1>1, <1>3, <3>1, OverlayNone
  <2> QED BY <2>1, <2>2
<1>5. at = a + Len(b)
  <2>1. CASE f.mode.app
    <3>1. a = Len(d)
      BY <2>1 DEF Base
    <3> HIDE DEF a, d, b
    <3>2. Len(Overlay(d, a, b)) = IF b # <<>> /\ a + Len(b) > Len(d) THEN a + Len(b) ELSE Len(d)
      BY <1>1, <1>3, OverlayLength
    <3>3. CASE b = <<>>
      <4>1. Overlay(d, a, b) = d /\ Len(b) = 0
        BY <1>1, <1>3, <3>3, OverlayNone, SeqEmpty
      <4>2. a = a + Len(b)
        BY <1>1, <3>1, <4>1
      <4> QED BY <1>4, <2>1, <3>1, <4>1, <4>2, Zenon
    <3>4. CASE b # <<>>
      <4>1. Len(b) > 0
        BY <1>1, <3>4, SeqEmpty
      <4>2. Len(Overlay(d, a, b)) = a + Len(b)
        BY <1>1, <3>1, <3>2, <3>4, <4>1
      <4> QED BY <1>4, <2>1, <4>2
    <3> QED BY <3>3, <3>4
  <2>2. CASE ~f.mode.app /\ Has(f, "DIRTY")
    BY <1>1, <2>2, DirtyView
  <2>3. CASE ~f.mode.app /\ ~Has(f, "DIRTY")
    <3>1. b = <<>> /\ Pos(f, ker) = ker.off
      BY <1>1, <2>3, EmptyView
    <3>2. a = ker.off
      BY <2>3 DEF Base
    <3> QED BY <1>1, <2>3, <3>1, <3>2
  <2> QED BY <2>1, <2>2, <2>3
<1>6. Right(g, ker) /\ Psh(g) = -1 /\ Psh(f) = -1
  BY <1>1, <1>2 DEF Right, InputRight, Psh
<1> HIDE DEF at, a, d, b
<1>7. Con(g, ker) = Overlay(Con(f, ker), at, bs)
  BY <1>1, <1>3, <1>4, <1>5, OverlayTwice
<1>8. Pos(g, ker) = at + Len(bs) /\ at \in Nat
  <2>1. Len(b \o bs) = Len(b) + Len(bs)
    BY <1>1, SeqConcat
  <2> QED BY <1>1, <1>3, <1>5, <2>1
<1> QED BY <1>6, <1>7, <1>8, ZenonT(40) DEF at

\* A flush and then a discard, of fflush and setvbuf.
LEMMA BothView ==
  ASSUME NEW f, NEW ker, Right(f, ker), NEW o \in FlushAndDiscard(f, ker)
  PROVE  /\ o \in Outcomes /\ Right(o.fp, o.file) /\ SameFile(f, ker, o.fp, o.file)
         /\ Psh(o.fp) = Psh(f) \/ Psh(o.fp) = -1
         /\ o.ok => ~Has(o.fp, "DIRTY") /\ ~Has(o.fp, "UNREAD")
<1>1. PICK p \in Flushes(f, ker) : o = IF p.ok THEN Discard(p.fp, p.file) ELSE p
  BY DEF FlushAndDiscard
<1>2. Right(p.fp, p.file) /\ SameFile(f, ker, p.fp, p.file) /\ Psh(p.fp) = Psh(f)
  BY FlushView
<1>3. Good(p.fp, p.file) /\ p \in Outcomes /\ (p.ok => ~Has(p.fp, "DIRTY"))
  BY FlushKeeps DEF Right
<1>4. CASE p.ok
  <2>1. o = Discard(p.fp, p.file)
    BY <1>1, <1>4
  <2>2. /\ Right(o.fp, o.file) /\ SameFile(p.fp, p.file, o.fp, o.file)
        /\ Psh(o.fp) = Psh(p.fp) \/ Psh(o.fp) = -1
    BY <1>2, <2>1, DiscardView
  <2>3. o \in Outcomes /\ (o.ok => ~Has(o.fp, "UNREAD")) /\ ~Has(o.fp, "DIRTY")
    BY <1>3, <1>4, <2>1, DiscardKeeps
  <2> QED BY <1>2, <2>2, <2>3 DEF SameFile, Same
<1>5. CASE ~p.ok
  BY <1>1, <1>2, <1>3, <1>5
<1> QED BY <1>4, <1>5

-----------------------------------------------------------------------------
(* The calls as steps of ByteFile.                                         *)

\* What the inductive invariant adds to that of StreamProofs.
More ==
    /\ InputRight(fp, file)
    /\ fp.pb = NL
    /\ call.op = "fwrite" => call.rest # <<>>

RestOf(c) == IF c.op = "fwrite" THEN c.rest ELSE <<>>
DoneOf(c) == CASE c.op = "fwrite" -> c.put
               [] c.op = "fread" -> c.got
               [] OTHER -> 0

\* A step that leaves the client's file alone.
LEMMA KeepStep ==
  ASSUME fp.open, fp'.open, SameFile(fp, file, fp', file'),
         Psh(fp') = Psh(fp) \/ Psh(fp') = -1, seen' = <<>>,
         DoneOf(call') = 0, RestOf(call) = <<>> \/ RestOf(call') = <<>>,
         ret'.op \in {"fwrite", "fread"} => ret'.val = DoneOf(call),
         ret'.op = "ftell" => ret'.val = -1 \/ ret'.val = Pos(fp, file)
  PROVE  Plain!Next
<1>1. Contents = Con(fp, file) /\ Contents' = Con(fp', file')
  BY DEF Contents, Con, IsOpen
<1>2. Position = Pos(fp, file) /\ Position' = Pos(fp', file') /\ IsOpen /\ IsOpen'
  BY DEF Position, Pos, IsOpen
<1>3. Plain!Keep
  BY <1>1, <1>2, Zenon DEF Plain!Keep, SameFile, Same, Psh, DoneOf, RestOf, IsOpen
<1> QED BY <1>3 DEF Plain!Next

\* A call that returns and leaves the client's file alone.
LEMMA KeepReturn ==
  ASSUME fp.open, NEW op, NEW arg, NEW val, NEW o, ReturnsFrom(op, arg, val, o), Right(o.fp, o.file),
         SameFile(fp, file, o.fp, o.file), Psh(o.fp) = Psh(fp) \/ Psh(o.fp) = -1, seen' = <<>>,
         op \in {"fwrite", "fread"} => val = DoneOf(call),
         op = "ftell" => val = -1 \/ val = Pos(fp, file)
  PROVE  More' /\ Plain!Next
<1>1. fp' = o.fp /\ file' = o.file /\ call' = Idle /\ ret' = [op |-> op, arg |-> arg, val |-> val]
  BY DEF ReturnsFrom
<1>2. call'.op = "idle" /\ ret'.op = op /\ ret'.val = val /\ fp'.open
  BY <1>1 DEF Idle, Right
<1>3. DoneOf(call') = 0 /\ RestOf(call') = <<>>
  BY <1>2 DEF DoneOf, RestOf
<1>4. More'
  BY <1>1, <1>2 DEF More, Right
<1>5. SameFile(fp, file, fp', file') /\ (Psh(fp') = Psh(fp) \/ Psh(fp') = -1)
  BY <1>1
<1>6. /\ ret'.op \in {"fwrite", "fread"} => ret'.val = DoneOf(call)
      /\ ret'.op = "ftell" => ret'.val = -1 \/ ret'.val = Pos(fp, file)
  BY <1>2
<1>7. Plain!Next
  BY <1>2, <1>3, <1>5, <1>6, KeepStep
<1> QED BY <1>4, <1>7

\* The FILE between two calls.
LEMMA RightNow == ASSUME IInv, More, fp.open PROVE Right(fp, file)
  BY DEF IInv, More, Right

\* Between calls nothing is in progress.
LEMMA IdleDone == ASSUME call = Idle PROVE DoneOf(call) = 0 /\ RestOf(call) = <<>>
  BY DEF DoneOf, RestOf, Idle

\* fflush leaves the client's file alone.
LEMMA FflushStep == ASSUME IInv, More, Fflush PROVE More' /\ Plain!Next
<1>1. PICK o \in FlushAndDiscard(fp, file) : ReturnsFrom("fflush", 0, IF o.ok THEN 0 ELSE EOF, o)
  BY DEF Fflush, Returns
<1>2. fp.open /\ Right(fp, file) /\ seen' = <<>>
  BY RightNow DEF Fflush, IsOpen
<1>3. Right(o.fp, o.file) /\ SameFile(fp, file, o.fp, o.file) /\ (Psh(o.fp) = Psh(fp) \/ Psh(o.fp) = -1)
  BY <1>2, BothView
<1> QED BY <1>1, <1>2, <1>3, KeepReturn

\* fwrite up to its loop leaves the client's file alone.
LEMMA FwriteBegins == ASSUME IInv, More, NEW bs \in Inputs, Fwrite(bs) PROVE More' /\ Plain!Next
<1> DEFINE o == PrepareWrite(fp, file)
<1>1. fp.open /\ Right(fp, file) /\ seen' = <<>> /\ call = Idle /\ bs # <<>>
  BY RightNow, BytesAssumption DEF Fwrite, IsOpen
<1>2. /\ Right(o.fp, o.file) /\ SameFile(fp, file, o.fp, o.file)
      /\ Psh(o.fp) = Psh(fp) \/ Psh(o.fp) = -1
  <2>1. CASE ~fp.mode.wr
    <3>1. o = [ok |-> FALSE, fp |-> Set(fp, "ERR"), file |-> file]
      BY <2>1 DEF PrepareWrite
    <3>2. o.fp = Set(fp, "ERR") /\ o.file = file
      BY <3>1
    <3> HIDE DEF o
    <3> QED BY <1>1, <3>2, ErrView
  <2>2. CASE fp.mode.wr
    <3>1. o = Discard(fp, file)
      BY <2>2 DEF PrepareWrite
    <3> HIDE DEF o
    <3> QED BY <1>1, <3>1, DiscardView
  <2> QED BY <2>1, <2>2
<1>3. IF ~o.ok THEN ReturnsFrom("fwrite", 0, 0, o)
      ELSE /\ call' = [op |-> "fwrite", rest |-> bs, put |-> 0] /\ fp' = o.fp /\ file' = o.file
           /\ ret' = [op |-> "none", arg |-> 0, val |-> 0]
  BY DEF Fwrite, Returns
<1>4. DoneOf(call) = 0 /\ RestOf(call) = <<>>
  BY <1>1, IdleDone, ZenonT(40)
<1> HIDE DEF o
<1>5. CASE ~o.ok
  BY <1>1, <1>2, <1>3, <1>4, <1>5, KeepReturn
<1>6. CASE o.ok
  <2>1. /\ call' = [op |-> "fwrite", rest |-> bs, put |-> 0] /\ fp' = o.fp /\ file' = o.file
        /\ ret' = [op |-> "none", arg |-> 0, val |-> 0]
    BY <1>3, <1>6
  <2>2. call'.rest = bs /\ DoneOf(call') = 0 /\ ret'.op = "none"
    BY <2>1, ZenonT(40) DEF DoneOf
  <2>3. More'
    BY <1>1, <1>2, <2>1, <2>2, ZenonT(40) DEF More, Right
  <2>4. fp'.open /\ SameFile(fp, file, fp', file') /\ (Psh(fp') = Psh(fp) \/ Psh(fp') = -1)
    BY <1>2, <2>1, ZenonT(40) DEF Right
  <2>5. Plain!Next
    BY <1>1, <1>4, <2>2, <2>4, KeepStep, ZenonT(40)
  <2> QED BY <2>3, <2>5
<1> QED BY <1>5, <1>6

\* fread up to its loop leaves the client's file alone.
LEMMA FreadBegins == ASSUME IInv, More, NEW want \in 1 .. MaxLen, Fread(want) PROVE More' /\ Plain!Next
<1>1. fp.open /\ Right(fp, file) /\ seen' = <<>> /\ call = Idle
  BY RightNow DEF Fread, IsOpen
<1>2. PICK o \in PrepareRead(fp, file) :
        IF ~o.ok THEN ReturnsFrom("fread", 0, 0, o)
        ELSE /\ call' = [op |-> "fread", want |-> want, got |-> 0] /\ fp' = o.fp /\ file' = o.file
             /\ ret' = [op |-> "none", arg |-> 0, val |-> 0]
  BY DEF Fread, Returns
<1>3. Right(o.fp, o.file) /\ SameFile(fp, file, o.fp, o.file) /\ Psh(o.fp) = Psh(fp)
  BY <1>1, PrepareReadView
<1>4. DoneOf(call) = 0 /\ RestOf(call) = <<>>
  BY <1>1, IdleDone
<1>5. CASE ~o.ok
  BY <1>1, <1>2, <1>3, <1>4, <1>5, KeepReturn
<1>6. CASE o.ok
  <2>1. /\ call' = [op |-> "fread", want |-> want, got |-> 0] /\ fp' = o.fp /\ file' = o.file
        /\ ret' = [op |-> "none", arg |-> 0, val |-> 0]
    BY <1>2, <1>6
  <2>2. call'.op = "fread" /\ DoneOf(call') = 0 /\ ret'.op = "none"
    BY <2>1, ZenonT(40) DEF DoneOf
  <2>3. More'
    BY <1>1, <1>3, <2>1, <2>2 DEF More, Right
  <2>4. fp'.open /\ SameFile(fp, file, fp', file') /\ (Psh(fp') = Psh(fp) \/ Psh(fp') = -1)
    BY <1>3, <2>1 DEF Right
  <2>5. Plain!Next
    BY <1>1, <1>4, <2>2, <2>4, KeepStep
  <2> QED BY <2>3, <2>5
<1> QED BY <1>5, <1>6

\* Sameness of the fixed fields is transitive.
LEMMA SameTrans == ASSUME NEW f, NEW g, NEW h, Same(f, g), Same(g, h) PROVE Same(f, h)
  BY Zenon DEF Same

\* A successful seek.
LEMMA MoveStep ==
  ASSUME fp.open, fp'.open, Same(fp, fp'), Con(fp', file') = Con(fp, file), Psh(fp') = -1, seen' = <<>>,
         RestOf(call') = RestOf(call), DoneOf(call') = DoneOf(call), ret'.val = 0,
         \/ ret'.op = "SEEK_SET" /\ Pos(fp', file') = ret'.arg
         \/ ret'.op = "SEEK_CUR" /\ Pos(fp', file') = Pos(fp, file) + ret'.arg
         \/ ret'.op = "SEEK_END" /\ Pos(fp', file') = Len(Con(fp, file)) + ret'.arg
  PROVE  Plain!Next
<1>1. Contents = Con(fp, file) /\ Contents' = Con(fp', file')
  BY DEF Contents, Con, IsOpen
<1>2. Position = Pos(fp, file) /\ Position' = Pos(fp', file') /\ IsOpen /\ IsOpen'
  BY DEF Position, Pos, IsOpen
<1>3. Plain!Move
  BY <1>1, <1>2, Zenon DEF Plain!Move, Same, Psh, DoneOf, RestOf, IsOpen
<1> QED BY <1>3, ZenonT(40) DEF Plain!Next

\* A part of an fwrite.
LEMMA PutStep ==
  ASSUME fp.open, fp'.open, Same(fp, fp'), NEW n \in 1 .. Len(RestOf(call)), NEW at, at >= 0,
         at = IF fp.mode.app THEN Len(Con(fp, file)) ELSE Pos(fp, file),
         Con(fp', file') = Overlay(Con(fp, file), at, SubSeq(RestOf(call), 1, n)),
         Pos(fp', file') = at + n, Psh(fp') = -1, seen' = <<>>,
         \/ /\ RestOf(call') = SubSeq(RestOf(call), n + 1, Len(RestOf(call))) /\ RestOf(call') # <<>>
            /\ DoneOf(call') = DoneOf(call) + n /\ ret' = ret
         \/ /\ RestOf(call') = <<>> /\ DoneOf(call') = 0 /\ ret'.op = "fwrite"
            /\ ret'.val \in {DoneOf(call), DoneOf(call) + n}
  PROVE  Plain!Next
<1>1. Contents = Con(fp, file) /\ Contents' = Con(fp', file')
  BY DEF Contents, Con, IsOpen
<1>2. Position = Pos(fp, file) /\ Position' = Pos(fp', file') /\ IsOpen /\ IsOpen'
  BY DEF Position, Pos, IsOpen
<1>3. Plain!Put
  BY <1>1, <1>2, Zenon DEF Plain!Put, Plain!Patched, Overlay, Same, Psh, DoneOf, RestOf, IsOpen
<1> QED BY <1>3, ZenonT(40) DEF Plain!Next

\* A part of an fread, or an fgetc.
LEMMA GetStep ==
  ASSUME fp.open, fp'.open, Same(fp, fp'), NEW n \in 1 .. 1 + Len(Con(fp, file)),
         IF Psh(fp) # -1 THEN n = 1 /\ seen' = <<Psh(fp)>>
         ELSE /\ Pos(fp, file) + n <= Len(Con(fp, file))
              /\ seen' = SubSeq(Con(fp, file), Pos(fp, file) + 1, Pos(fp, file) + n),
         Con(fp', file') = Con(fp, file), Pos(fp', file') = Pos(fp, file) + n, Psh(fp') = -1,
         RestOf(call') = RestOf(call),
         \/ DoneOf(call') = DoneOf(call) + n /\ ret' = ret
         \/ DoneOf(call') = 0 /\ ret'.op = "fread" /\ ret'.val = DoneOf(call) + n
         \/ DoneOf(call') = 0 /\ ret'.op = "fgetc" /\ n = 1
  PROVE  Plain!Next
<1>1. Contents = Con(fp, file) /\ Contents' = Con(fp', file')
  BY DEF Contents, Con, IsOpen
<1>2. Position = Pos(fp, file) /\ Position' = Pos(fp', file') /\ IsOpen /\ IsOpen'
  BY DEF Position, Pos, IsOpen
<1>3. Plain!Get
  BY <1>1, <1>2, Zenon DEF Plain!Get, Same, Psh, DoneOf, RestOf, IsOpen
<1> QED BY <1>3, ZenonT(40) DEF Plain!Next

\* A byte pushed back.
LEMMA PushStep ==
  ASSUME fp.open, fp'.open, Same(fp, fp'), Con(fp', file') = Con(fp, file),
         Pos(fp', file') = Pos(fp, file) - 1, Psh(fp) = -1, Psh(fp') # -1, seen' = <<>>,
         RestOf(call') = RestOf(call), DoneOf(call') = DoneOf(call)
  PROVE  Plain!Next
<1>1. Contents = Con(fp, file) /\ Contents' = Con(fp', file')
  BY DEF Contents, Con, IsOpen
<1>2. Position = Pos(fp, file) /\ Position' = Pos(fp', file') /\ IsOpen /\ IsOpen'
  BY DEF Position, Pos, IsOpen
<1>3. Plain!Push
  BY <1>1, <1>2, Zenon DEF Plain!Push, Same, Psh, DoneOf, RestOf, IsOpen
<1> QED BY <1>3, ZenonT(40) DEF Plain!Next

\* clearerr leaves the client's file alone.
LEMMA ClearerrStep == ASSUME IInv, More, Clearerr PROVE More' /\ Plain!Next
<1> DEFINE g == Clear(fp, {"EOF", "ERR"})
           o == [fp |-> g, file |-> file]
<1>1. ReturnsFrom("clearerr", 0, 0, o)
  BY DEF Clearerr, Returns
<1>2. fp.open /\ Right(fp, file) /\ seen' = <<>> /\ fp \in FpSet
  BY RightNow DEF Clearerr, IsOpen, Right, Good
<1>3. o.fp = g /\ o.file = file
  OBVIOUS
<1>4. Good(g, file)
  <2>1. fp' = g /\ file' = file
    BY <1>1 DEF ReturnsFrom
  <2>2. Good(fp', file')
    BY ClearerrInv DEF IInv
  <2> QED BY <2>1, <2>2
<1>5. /\ g.flags = fp.flags \ {"EOF", "ERR"} /\ g.buf = fp.buf /\ g.start = fp.start /\ g.pb = fp.pb
      /\ Same(fp, g)
  <2>1. /\ g.flags = fp.flags \ {"EOF", "ERR"} /\ g.buf = fp.buf /\ g.start = fp.start /\ g.pb = fp.pb
        /\ g.open = fp.open /\ g.mode = fp.mode /\ g.size = fp.size
    BY <1>2, ClearFields, ZenonT(40)
  <2> QED BY <2>1, Zenon DEF Same
<1> HIDE DEF g
<1>6. \A x \in {"DIRTY", "UNREAD", "PUSHBACK"} : Has(g, x) <=> Has(fp, x)
  BY <1>5 DEF Has
<1>7. Right(g, file) /\ SameFile(fp, file, g, file) /\ Psh(g) = Psh(fp)
  BY <1>2, <1>4, <1>5, <1>6, FlagView, ZenonT(40)
<1> HIDE DEF o
<1> QED BY <1>1, <1>2, <1>3, <1>7, KeepReturn, ZenonT(40)

\* ftell tells the client's position.
LEMMA FtellStep == ASSUME IInv, More, Ftell PROVE More' /\ Plain!Next
<1> DEFINE end == IF fp.mode.app /\ Has(fp, "DIRTY") THEN Len(file.data) ELSE file.off
           physical == KSeek(end)
           adjust == IF Has(fp, "UNREAD") THEN -Unread(fp) ELSE IF Has(fp, "DIRTY") THEN Len(fp.buf) ELSE 0
           moved == [file EXCEPT !.off = physical]
<1>1. fp.open /\ Right(fp, file) /\ seen' = <<>> /\ Good(fp, file)
  BY RightNow DEF Ftell, IsOpen, Right
<1>2. /\ file \in FileSet /\ file.off \in Nat /\ Len(file.data) \in Nat /\ Len(fp.buf) \in Nat
      /\ fp.start \in Nat /\ fp.mode.app \in BOOLEAN /\ Unread(fp) \in Int
  BY <1>1, SeqLength DEF Good, FileSet, FpSet, ModeSet, Unread
<1>3. IF physical = -1 THEN ReturnsFrom("ftell", 0, EOF, [fp |-> fp, file |-> file])
      ELSE ReturnsFrom("ftell", 0, physical + adjust, [fp |-> fp, file |-> moved])
  BY Zenon DEF Ftell, Returns
<1>4. physical # -1 => physical = end
  BY DEF KSeek
<1>5. end \in Nat
  BY <1>2
<1>6. CASE physical = -1
  <2> DEFINE o == [fp |-> fp, file |-> file]
  <2>1. ReturnsFrom("ftell", 0, EOF, o) /\ o.fp = fp /\ o.file = file /\ EOF = -1
    BY <1>3, <1>6 DEF EOF
  <2>2. SameFile(fp, file, fp, file)
    BY DEF SameFile, Same
  <2> HIDE DEF o
  <2> QED BY <1>1, <2>1, <2>2, KeepReturn
<1>7. CASE physical # -1
  <2> DEFINE o == [fp |-> fp, file |-> moved]
  <2>1. ReturnsFrom("ftell", 0, physical + adjust, o) /\ o.fp = fp /\ o.file = moved
    BY <1>3, <1>7
  <2>2. moved.data = file.data /\ moved.off = end
    BY <1>2, <1>4, <1>7 DEF FileSet
  <2>3. Good(fp, moved)
    <3>1. fp' = fp /\ file' = moved
      BY <2>1, ZenonT(40) DEF ReturnsFrom
    <3>2. Good(fp', file')
      BY FtellInv DEF IInv
    <3> QED BY <3>1, <3>2
  <2> HIDE DEF moved
  <2>4. SameFile(fp, file, fp, moved) /\ InputRight(fp, moved) /\ physical + adjust = Pos(fp, file)
    <3>1. CASE Has(fp, "DIRTY")
      <4>1. ~Has(fp, "UNREAD")
        BY <1>1, <3>1 DEF Good, Roles
      <4>2. end = Base(fp, file) /\ Base(fp, moved) = Base(fp, file)
        BY <2>2, <3>1 DEF Base
      <4>3. /\ Con(fp, file) = Overlay(file.data, Base(fp, file), fp.buf)
            /\ Pos(fp, file) = Base(fp, file) + Len(fp.buf)
        BY <1>1, <3>1, DirtyView
      <4>4. /\ Con(fp, moved) = Overlay(moved.data, Base(fp, moved), fp.buf)
            /\ Pos(fp, moved) = Base(fp, moved) + Len(fp.buf)
        BY <1>1, <2>3, <3>1, DirtyView
      <4>5. adjust = Len(fp.buf)
        BY <3>1, <4>1
      <4> QED BY <1>4, <1>7, <2>2, <4>1, <4>2, <4>3, <4>4, <4>5, Zenon DEF SameFile, Same, InputRight
    <3>2. CASE ~Has(fp, "DIRTY")
      <4>1. moved.off = file.off /\ physical = file.off
        BY <1>4, <1>7, <2>2, <3>2
      <4>2. Con(fp, moved) = Con(fp, file) /\ Pos(fp, moved) = Pos(fp, file) /\ InputRight(fp, moved)
        BY <1>1, <2>2, <3>2, <4>1, Zenon DEF Con, Pos, InputRight, Right
      <4>3. CASE Has(fp, "UNREAD")
        <5>1. Pos(fp, file) = file.off - Unread(fp) /\ adjust = -Unread(fp)
          BY <3>2, <4>3 DEF Pos
        <5>2. file.off - Unread(fp) = file.off + (-Unread(fp))
          BY <1>2
        <5> QED BY <4>1, <4>2, <5>1, <5>2, Zenon DEF SameFile, Same
      <4>4. CASE ~Has(fp, "UNREAD")
        <5>1. Pos(fp, file) = file.off /\ adjust = 0
          BY <1>1, <3>2, <4>4, EmptyView
        <5>2. physical + adjust = Pos(fp, file)
          BY <1>2, <4>1, <5>1
        <5> QED BY <4>2, <5>2 DEF SameFile, Same
      <4> QED BY <4>3, <4>4, ZenonT(40)
    <3> QED BY <3>1, <3>2
  <2>5. Right(o.fp, o.file)
    BY <1>1, <2>1, <2>3, <2>4 DEF Right
  <2> HIDE DEF o, physical, adjust
  <2> QED BY <1>1, <2>1, <2>4, <2>5, KeepReturn
<1> QED BY <1>6, <1>7

\* setvbuf leaves the client's file alone.
LEMMA SetvbufStep ==
  ASSUME IInv, More, NEW mode \in {"_IOFBF", "_IOLBF", "_IONBF"}, NEW n \in Sizes, Setvbuf(mode, n)
  PROVE  More' /\ Plain!Next
<1>1. fp.open /\ Right(fp, file) /\ seen' = <<>>
  BY RightNow DEF Setvbuf, IsOpen
<1>2. PICK o \in FlushAndDiscard(fp, file) :
        IF ~o.ok THEN ReturnsFrom("setvbuf", 0, EOF, o)
        ELSE ReturnsFrom("setvbuf", 0, 0, [o EXCEPT !.fp = Rebuffered(@, mode, n)])
  BY DEF Setvbuf, Returns
<1>3. /\ o \in Outcomes /\ Right(o.fp, o.file) /\ SameFile(fp, file, o.fp, o.file)
      /\ Psh(o.fp) = Psh(fp) \/ Psh(o.fp) = -1
      /\ o.ok => ~Has(o.fp, "DIRTY") /\ ~Has(o.fp, "UNREAD")
  BY <1>1, BothView
<1>4. CASE ~o.ok
  BY <1>1, <1>2, <1>3, <1>4, KeepReturn, ZenonT(40)
<1>5. CASE o.ok
  <2> DEFINE g == Rebuffered(o.fp, mode, n)
             r == [o EXCEPT !.fp = g]
  <2>1. ReturnsFrom("setvbuf", 0, 0, r)
    BY <1>2, <1>5
  <2>2. Good(g, o.file) /\ g \in FpSet
    BY <1>3, <1>5, RebufferKeeps, ZenonT(40) DEF Good, Right
  <2>3. /\ g.open = o.fp.open /\ g.mode = o.fp.mode /\ g.pb = o.fp.pb
        /\ g.flags = (o.fp.flags \ {"LINE_BUF", "UNBUF"}) \cup Buffering(mode)
    BY DEF Rebuffered
  <2>4. Buffering(mode) \in SUBSET {"LINE_BUF", "UNBUF"}
    BY DEF Buffering
  <2> HIDE DEF g
  <2>5. ~Has(g, "DIRTY") /\ ~Has(g, "UNREAD")
    BY <1>3, <1>5, <2>3, <2>4 DEF Has
  <2>6. r.fp = g /\ r.file = o.file
    BY <1>3, <2>2, OtherFp, ZenonT(40)
  <2> HIDE DEF r
  <2>7. /\ Con(g, o.file) = o.file.data /\ Pos(g, o.file) = o.file.off /\ Psh(g) = -1
        /\ InputRight(g, o.file)
    BY <2>2, <2>5, EmptyView, ZenonT(40)
  <2>8. Con(o.fp, o.file) = o.file.data /\ Pos(o.fp, o.file) = o.file.off
    BY <1>3, <1>5, EmptyView DEF Right
  <2>9. Right(r.fp, r.file)
    BY <1>3, <2>2, <2>3, <2>6, <2>7, Zenon DEF Right
  <2>10. SameFile(fp, file, r.fp, r.file)
    BY <1>3, <2>3, <2>6, <2>7, <2>8 DEF SameFile
  <2> QED BY <1>1, <2>1, <2>6, <2>7, <2>9, <2>10, KeepReturn
<1> QED BY <1>4, <1>5

\* fseek moves the client's position, or leaves it alone.
LEMMA FseekStep ==
  ASSUME IInv, More, NEW offset \in Int, NEW whence \in {"SEEK_SET", "SEEK_CUR", "SEEK_END"},
         Fseek(offset, whence)
  PROVE  More' /\ Plain!Next
<1> DEFINE base(o) == CASE whence = "SEEK_SET" -> 0
                        [] whence = "SEEK_END" -> Len(o.file.data)
                        [] whence = "SEEK_CUR" ->
                              o.file.off - (IF Has(o.fp, "UNREAD") THEN Unread(o.fp) ELSE 0)
           target(o) == KSeek(base(o) + offset)
           e(o) == [o.fp EXCEPT !.buf = <<>>, !.start = 0]
           g(o) == Clear(e(o), {"EOF", "UNREAD", "PUSHBACK"})
           k(o) == [o.file EXCEPT !.off = target(o)]
<1>1. fp.open /\ Right(fp, file) /\ seen' = <<>> /\ Good(fp, file) /\ call = Idle
  BY RightNow DEF Fseek, IsOpen, Right
<1>2. PICK o \in Flushes(fp, file) :
        IF ~o.ok \/ target(o) = -1 THEN ReturnsFrom(whence, offset, EOF, o)
        ELSE ReturnsFrom(whence, offset, 0, [fp |-> g(o), file |-> k(o)])
  BY Zenon DEF Fseek
<1>3. Right(o.fp, o.file) /\ SameFile(fp, file, o.fp, o.file) /\ Psh(o.fp) = Psh(fp)
  BY <1>1, FlushView, ZenonT(40)
<1>4. o \in Outcomes /\ Same(fp, o.fp) /\ (o.ok => ~Has(o.fp, "DIRTY")) /\ Good(o.fp, o.file)
  BY <1>1, FlushKeeps, ZenonT(40)
<1>5. CASE ~o.ok \/ target(o) = -1
  <2>1. ReturnsFrom(whence, offset, EOF, o)
    BY <1>2, <1>5
  <2> HIDE DEF target
  <2> QED BY <1>1, <1>3, <2>1, KeepReturn
<1>6. CASE o.ok /\ target(o) # -1
  <2>1. ReturnsFrom(whence, offset, 0, [fp |-> g(o), file |-> k(o)])
    BY <1>2, <1>6
  <2>2. target(o) = base(o) + offset
    BY <1>6 DEF KSeek
  <2> HIDE DEF target
  <2>3. fp' = g(o) /\ file' = k(o) /\ call' = Idle /\ ret'.op = whence /\ ret'.arg = offset /\ ret'.val = 0
    BY <2>1 DEF ReturnsFrom
  <2>4. Good(fp', file')
    BY FseekInv DEF IInv
  <2>5. o.fp \in FpSet /\ o.file \in FileSet /\ <<>> \in Seq(Int)
    BY <1>4 DEF Good
  <2>6. e(o) \in FpSet /\ e(o).flags = o.fp.flags /\ e(o).open = o.fp.open /\ e(o).mode = o.fp.mode
        /\ e(o).size = o.fp.size /\ e(o).pb = o.fp.pb
    BY <2>5, RefillFields, Zenon
  <2>7. k(o).data = o.file.data /\ k(o).off = target(o)
    BY <2>5 DEF FileSet
  <2> HIDE DEF e, k
  <2>8. /\ g(o).flags = o.fp.flags \ {"EOF", "UNREAD", "PUSHBACK"} /\ g(o).open = o.fp.open
        /\ g(o).mode = o.fp.mode /\ g(o).size = o.fp.size /\ g(o).pb = o.fp.pb
    BY <2>6, ClearFields
  <2> HIDE DEF g
  <2>9. ~Has(fp', "DIRTY") /\ ~Has(fp', "UNREAD")
    BY <1>4, <1>6, <2>3, <2>8, ZenonT(40) DEF Has
  <2>10. /\ Con(fp', file') = o.file.data /\ Pos(fp', file') = target(o) /\ Psh(fp') = -1
         /\ InputRight(fp', file')
    <3>1. Con(fp', file') = file'.data /\ Pos(fp', file') = file'.off /\ Psh(fp') = -1
          /\ InputRight(fp', file')
      BY <2>4, <2>9, EmptyView, ZenonT(40)
    <3> QED BY <2>3, <2>7, <3>1, ZenonT(40)
  <2>11. More'
    BY <1>3, <2>3, <2>8, <2>10, ZenonT(40) DEF More, Right, Idle
  <2>12. Con(o.fp, o.file) = o.file.data
    BY <1>4, <1>6, ZenonT(40) DEF Con
  <2>13. whence = "SEEK_CUR" => base(o) = Pos(fp, file)
    <3> SUFFICES ASSUME whence = "SEEK_CUR" PROVE base(o) = Pos(fp, file)
      OBVIOUS
    <3>1. base(o) = o.file.off - (IF Has(o.fp, "UNREAD") THEN Unread(o.fp) ELSE 0)
      OBVIOUS
    <3>2. CASE Has(o.fp, "UNREAD")
      <4>1. Pos(o.fp, o.file) = o.file.off - Unread(o.fp)
        BY <1>4, <1>6 DEF Pos
      <4> QED BY <1>3, <3>1, <3>2, <4>1, ZenonT(40) DEF SameFile
    <3>3. CASE ~Has(o.fp, "UNREAD")
      <4>1. Pos(o.fp, o.file) = o.file.off
        BY <1>4, <1>6, <3>3, EmptyView, ZenonT(40)
      <4>2. o.file.off \in Nat
        BY <2>5 DEF FileSet
      <4>3. base(o) = o.file.off
        BY <3>1, <3>3, <4>2
      <4> QED BY <1>3, <4>1, <4>3, ZenonT(40) DEF SameFile
    <3> QED BY <3>2, <3>3
  <2>14. whence = "SEEK_END" => base(o) = Len(Con(fp, file))
    BY <1>3, <2>12 DEF SameFile
  <2>15. whence = "SEEK_SET" => base(o) + offset = offset
    OBVIOUS
  <2> HIDE DEF base
  <2>16. \/ ret'.op = "SEEK_SET" /\ Pos(fp', file') = ret'.arg
         \/ ret'.op = "SEEK_CUR" /\ Pos(fp', file') = Pos(fp, file) + ret'.arg
         \/ ret'.op = "SEEK_END" /\ Pos(fp', file') = Len(Con(fp, file)) + ret'.arg
    BY <2>2, <2>3, <2>10, <2>13, <2>14, <2>15, ZenonT(40)
  <2>17. Same(fp, fp') /\ fp'.open /\ Con(fp', file') = Con(fp, file) /\ call' = call
    BY <1>1, <1>3, <1>4, <2>3, <2>8, <2>10, <2>12, ZenonT(40) DEF SameFile, Same
  <2>18. Plain!Next
    BY <1>1, <2>3, <2>10, <2>16, <2>17, MoveStep
  <2> QED BY <2>11, <2>18
<1> QED BY <1>5, <1>6

\* fopen starts at the first byte, of the same file or of an empty one.
LEMMA FopenStep == ASSUME IInv, More, NEW m \in Modes, Fopen(m) PROVE More' /\ Plain!Next
<1>1. /\ ~fp.open /\ call = Idle /\ seen' = <<>> /\ fp' = Opened(m) /\ call' = Idle
      /\ file' = [data |-> IF OpenMode(m).trunc THEN <<>> ELSE file.data, off |-> 0]
      /\ ret' = [op |-> "fopen", arg |-> 0, val |-> 0]
  BY DEF Fopen, Returns, ReturnsFrom, IsOpen
<1>2. fp'.open /\ fp'.pb = NL /\ fp'.flags \in SUBSET {"LINE_BUF", "UNBUF"}
  BY <1>1 DEF Opened
<1>3. Good(fp', file')
  BY FopenInv DEF IInv
<1>4. ~Has(fp', "DIRTY") /\ ~Has(fp', "UNREAD")
  BY <1>2 DEF Has
<1>5. Con(fp', file') = file'.data /\ Pos(fp', file') = file'.off /\ Psh(fp') = -1 /\ InputRight(fp', file')
  BY <1>3, <1>4, EmptyView, ZenonT(40)
<1>6. More'
  BY <1>1, <1>2, <1>5, ZenonT(40) DEF More, Idle
<1>7. Contents = file.data /\ Contents' = Con(fp', file') /\ Position' = Pos(fp', file') /\ IsOpen'
  BY <1>1, <1>2, ZenonT(40) DEF Contents, Con, IsOpen, Position, Pos
<1>8. ret'.op = "fopen" /\ file'.off = 0 /\ file'.data \in {file.data, <<>>} /\ call' = call
  BY <1>1, ZenonT(40)
<1>9. Plain!Open
  BY <1>1, <1>5, <1>7, <1>8, Zenon DEF Plain!Open, Psh, IsOpen
<1> QED BY <1>6, <1>9 DEF Plain!Next

\* fclose that returns 0 has kept every byte.
LEMMA FcloseStep == ASSUME IInv, More, Fclose PROVE More' /\ Plain!Next
<1>1. fp.open /\ Right(fp, file) /\ seen' = <<>> /\ Good(fp, file) /\ call = Idle
  BY RightNow DEF Fclose, IsOpen, Right
<1>2. PICK o \in Flushes(fp, file), closes \in BOOLEAN :
         ReturnsFrom("fclose", 0, IF o.ok /\ closes THEN 0 ELSE EOF, [fp |-> Closed(o.fp), file |-> o.file])
  BY DEF Fclose, Returns
<1>3. Right(o.fp, o.file) /\ SameFile(fp, file, o.fp, o.file)
  BY <1>1, FlushView
<1>4. o.ok => ~Has(o.fp, "DIRTY")
  BY <1>1, FlushKeeps
<1>5. /\ fp' = Closed(o.fp) /\ file' = o.file /\ call' = Idle /\ ret'.op = "fclose"
      /\ ret'.val = IF o.ok /\ closes THEN 0 ELSE EOF
  BY <1>2 DEF ReturnsFrom
<1>6. fp'.open = FALSE /\ fp'.flags = {} /\ fp'.pb = o.fp.pb
  BY <1>5 DEF Closed
<1>7. ~Has(fp', "UNREAD")
  BY <1>6, ZenonT(40) DEF Has
<1>8. More'
  BY <1>3, <1>5, <1>6, <1>7, ZenonT(40) DEF More, InputRight, Right, Idle
<1>9. Contents = Con(fp, file) /\ Contents' = o.file.data /\ ~IsOpen'
  BY <1>1, <1>5, <1>6 DEF Contents, Con, IsOpen
<1>10. ret'.val = 0 => Contents' = Contents
  <2>1. ret'.val = 0 => o.ok
    BY <1>5 DEF EOF
  <2>2. o.ok => Con(o.fp, o.file) = o.file.data
    BY <1>4 DEF Con
  <2> QED BY <1>3, <1>9, <2>1, <2>2 DEF SameFile
<1>11. call' = call
  BY <1>1, <1>5
<1>12. Plain!Close
  BY <1>1, <1>5, <1>9, <1>10, <1>11, Zenon DEF Plain!Close
<1> QED BY <1>8, <1>12 DEF Plain!Next

\* ungetc puts one byte before the position.
LEMMA UngetcStep == ASSUME IInv, More, NEW ch \in {NL}, Ungetc(ch) PROVE More' /\ Plain!Next
<1>1. fp.open /\ Right(fp, file) /\ seen' = <<>> /\ Good(fp, file) /\ call = Idle /\ ch = NL
  BY RightNow DEF Ungetc, IsOpen, Right
<1>2. PICK o \in PrepareRead(fp, file) :
        IF ~o.ok \/ Has(o.fp, "PUSHBACK") THEN ReturnsFrom("ungetc", 0, EOF, o)
        ELSE ReturnsFrom("ungetc", 0, 0, [o EXCEPT !.fp = Clear(Set([@ EXCEPT !.pb = ch], "PUSHBACK"), {"EOF"})])
  BY Zenon DEF Ungetc, Returns
<1>3. Right(o.fp, o.file) /\ SameFile(fp, file, o.fp, o.file) /\ Psh(o.fp) = Psh(fp)
  BY <1>1, PrepareReadView
<1>4. o \in Outcomes /\ Same(fp, o.fp) /\ (o.ok => Has(o.fp, "UNREAD"))
  BY <1>1, PrepareReadKeeps
<1>5. CASE ~o.ok \/ Has(o.fp, "PUSHBACK")
  BY <1>1, <1>2, <1>3, <1>5, KeepReturn
<1>6. CASE o.ok /\ ~Has(o.fp, "PUSHBACK")
  <2> DEFINE g == Clear(Set([o.fp EXCEPT !.pb = NL], "PUSHBACK"), {"EOF"})
             r == [o EXCEPT !.fp = g]
  <2>1. ReturnsFrom("ungetc", 0, 0, r)
    BY <1>1, <1>2, <1>6
  <2>2. /\ Right(g, o.file) /\ Con(g, o.file) = Con(o.fp, o.file) /\ Pos(g, o.file) = Pos(o.fp, o.file) - 1
        /\ Psh(g) = NL /\ Psh(o.fp) = -1 /\ Same(o.fp, g)
    BY <1>3, <1>4, <1>6, PushView
  <2> HIDE DEF g
  <2>3. r.fp = g /\ r.file = o.file
    <3>1. g \in FpSet
      BY <2>2 DEF Right, Good
    <3> QED BY <1>4, <3>1, OtherFp, ZenonT(40)
  <2> HIDE DEF r
  <2>4. fp' = g /\ file' = o.file /\ call' = Idle
    BY <2>1, <2>3, ZenonT(40) DEF ReturnsFrom
  <2>5. More'
    BY <2>2, <2>4 DEF More, Right, Idle
  <2>6. NL # -1
    BY BytesAssumption
  <2>7. /\ fp'.open /\ Same(fp, fp') /\ Con(fp', file') = Con(fp, file) /\ Pos(fp', file') = Pos(fp, file) - 1
        /\ Psh(fp) = -1 /\ Psh(fp') # -1 /\ call' = call
    <3>1. Con(g, o.file) = Con(fp, file) /\ Pos(g, o.file) = Pos(fp, file) - 1 /\ Psh(fp) = -1
      BY <1>3, <2>2 DEF SameFile
    <3>2. Same(fp, g) /\ g.open
      BY <1>4, <2>2, SameTrans, Zenon DEF Right
    <3> QED BY <1>1, <2>2, <2>4, <2>6, <3>1, <3>2, ZenonT(40)
  <2>8. Plain!Next
    BY <1>1, <2>7, PushStep
  <2> QED BY <2>5, <2>8
<1> QED BY <1>5, <1>6

-----------------------------------------------------------------------------
(* Reading and writing.                                                    *)

\* The client's file is a sequence of bytes.
LEMMA ConTyped ==
  ASSUME NEW f, NEW ker, Right(f, ker)
  PROVE  Con(f, ker) \in Seq(Int)
<1>1. Good(f, ker) /\ f.open /\ ker.data \in Seq(Int) /\ f.buf \in Seq(Int)
  BY DEF Right, Good, FpSet, FileSet
<1>2. CASE Has(f, "DIRTY")
  BY <1>1, <1>2, DirtyView, OverlayLength
<1>3. CASE ~Has(f, "DIRTY")
  BY <1>1, <1>3 DEF Con
<1> QED BY <1>2, <1>3, ZenonT(40)

\* A part of one element.
LEMMA OneElement ==
  ASSUME NEW s \in Seq(Int), NEW i \in 1 .. Len(s)
  PROVE  SubSeq(s, i, i) = <<s[i]>>
<1> DEFINE x == SubSeq(s, i, i)
           y == <<s[i]>>
<1>1. i \in Int /\ s[i] \in Int /\ \A j \in i .. i : s[j] \in Int
  BY SeqElement, SeqLength
<1>2. /\ x \in Seq(Int) /\ Len(x) = (IF i <= i THEN i - i + 1 ELSE 0)
      /\ \A j \in 1 .. i - i + 1 : x[j] = s[i + j - 1]
  BY <1>1, SeqPart
<1>3. y \in Seq(Int) /\ Len(y) = 1 /\ y[1] = s[i]
  BY <1>1
<1>4. (IF i <= i THEN i - i + 1 ELSE 0) = 1 /\ i - i + 1 = 1 /\ i + 1 - 1 = i
  BY <1>1
<1> HIDE DEF x, y
<1>5. Len(x) = 1 /\ x[1] = s[i]
  BY <1>2, <1>4
<1>6. \A j \in 1 .. 1 : x[j] = y[j]
  BY <1>3, <1>5
<1>7. x = y
  BY <1>2, <1>3, <1>5, <1>6, SeqSame, ZenonT(40)
<1> QED BY <1>7 DEF x, y

\* A byte for fgetc: from o, which stands for the client's file, to g.
LEMMA GetcStep ==
  ASSUME fp.open, call = Idle, NEW o, NEW g, NEW r, r.fp = g, r.file = o.file,
         SameFile(fp, file, o.fp, o.file), Psh(o.fp) = Psh(fp), Same(fp, o.fp),
         ReturnsFrom("fgetc", 0, 0, r), Right(g, o.file), Same(o.fp, g), Psh(g) = -1,
         Con(g, o.file) = Con(o.fp, o.file), Pos(g, o.file) = Pos(o.fp, o.file) + 1,
         \/ Psh(o.fp) # -1 /\ seen' = <<Psh(o.fp)>>
         \/ /\ Psh(o.fp) = -1 /\ Pos(o.fp, o.file) + 1 <= Len(Con(o.fp, o.file))
            /\ seen' = SubSeq(Con(o.fp, o.file), Pos(o.fp, o.file) + 1, Pos(o.fp, o.file) + 1)
  PROVE  More' /\ Plain!Next
<1>1. fp' = g /\ file' = o.file /\ call' = Idle /\ ret'.op = "fgetc"
  BY ZenonT(40) DEF ReturnsFrom
<1>2. More'
  BY <1>1, ZenonT(40) DEF More, Right, Idle
<1>3. Con(o.fp, o.file) = Con(fp, file) /\ Pos(o.fp, o.file) = Pos(fp, file)
  BY DEF SameFile
<1>4. /\ fp'.open /\ Same(fp, fp') /\ Con(fp', file') = Con(fp, file) /\ Pos(fp', file') = Pos(fp, file) + 1
      /\ Psh(fp') = -1
  <2>1. Same(fp, g) /\ g.open
    BY SameTrans, Zenon DEF Right
  <2> QED BY <1>1, <1>3, <2>1, Zenon
<1>5. IF Psh(fp) # -1 THEN 1 = 1 /\ seen' = <<Psh(fp)>>
      ELSE /\ Pos(fp, file) + 1 <= Len(Con(fp, file))
           /\ seen' = SubSeq(Con(fp, file), Pos(fp, file) + 1, Pos(fp, file) + 1)
  BY <1>3, Zenon
<1>6. RestOf(call') = RestOf(call) /\ DoneOf(call') = 0
  BY <1>1, IdleDone, ZenonT(40)
<1>7. 1 \in 1 .. 1 + Len(Con(fp, file))
  <2>1. Len(Con(fp, file)) \in Nat
    <3>1. Con(g, o.file) \in Seq(Int)
      BY ConTyped, ZenonT(40)
    <3> QED BY <1>1, <1>4, <3>1, SeqLength, ZenonT(40)
  <2> QED BY ONLY <2>1
<1>8. Plain!Next
  <2>1. DoneOf(call') = 0 /\ ret'.op = "fgetc" /\ 1 = 1
    BY <1>1, <1>6, ZenonT(40)
  <2> QED BY <1>4, <1>5, <1>6, <1>7, <2>1, GetStep, Zenon
<1> QED BY <1>2, <1>8, ZenonT(40)

\* fgetc hands over the next byte.
LEMMA FgetcStep == ASSUME IInv, More, Fgetc PROVE More' /\ Plain!Next
<1>1. fp.open /\ Right(fp, file) /\ Good(fp, file) /\ call = Idle
  BY RightNow DEF Fgetc, IsOpen, Right
<1>2. PICK p \in PrepareRead(fp, file) :
        IF ~p.ok THEN ReturnsFrom("fgetc", 0, EOF, p) /\ seen' = <<>>
        ELSE IF Has(p.fp, "PUSHBACK")
        THEN /\ ReturnsFrom("fgetc", 0, 0, [p EXCEPT !.fp = Clear(@, {"PUSHBACK"})])
             /\ seen' = <<p.fp.pb>>
        ELSE \E o \in (IF p.fp.start >= Len(p.fp.buf) THEN Fills(p.fp, p.file) ELSE {p}) :
                IF ~o.ok THEN ReturnsFrom("fgetc", 0, EOF, o) /\ seen' = <<>>
                ELSE /\ ReturnsFrom("fgetc", 0, 0, [o EXCEPT !.fp.start = @ + 1])
                     /\ seen' = <<o.fp.buf[o.fp.start + 1]>>
  BY Zenon DEF Fgetc, Returns
<1>3. Right(p.fp, p.file) /\ SameFile(fp, file, p.fp, p.file) /\ Psh(p.fp) = Psh(fp)
  BY <1>1, PrepareReadView
<1>4. /\ p \in Outcomes /\ Same(fp, p.fp) /\ Good(p.fp, p.file)
      /\ p.ok => Has(p.fp, "UNREAD") /\ ~Has(p.fp, "DIRTY")
  BY <1>1, PrepareReadKeeps
<1>5. CASE ~p.ok
  <2>1. ReturnsFrom("fgetc", 0, EOF, p) /\ seen' = <<>>
    BY <1>2, <1>5, ZenonT(40)
  <2> QED BY <1>1, <1>3, <2>1, KeepReturn
<1>6. CASE p.ok /\ Has(p.fp, "PUSHBACK")
  <2> DEFINE g == Clear(p.fp, {"PUSHBACK"})
             r == [p EXCEPT !.fp = g]
  <2>1. ReturnsFrom("fgetc", 0, 0, r) /\ seen' = <<p.fp.pb>>
    BY <1>2, <1>6, ZenonT(40)
  <2>2. /\ Right(g, p.file) /\ Con(g, p.file) = Con(p.fp, p.file) /\ Pos(g, p.file) = Pos(p.fp, p.file) + 1
        /\ Psh(g) = -1 /\ Psh(p.fp) = p.fp.pb /\ Same(p.fp, g)
    BY <1>3, <1>6, PopView, ZenonT(40)
  <2> HIDE DEF g
  <2>3. r.fp = g /\ r.file = p.file
    <3>1. g \in FpSet
      BY <2>2, ZenonT(40) DEF Right, Good
    <3> QED BY <1>4, <3>1, OtherFp, ZenonT(40)
  <2> HIDE DEF r
  <2>4. p.fp.pb # -1
    BY <1>3, BytesAssumption DEF Right
  <2> QED BY <1>1, <1>3, <1>4, <2>1, <2>2, <2>3, <2>4, GetcStep, ZenonT(40)
<1>7. CASE p.ok /\ ~Has(p.fp, "PUSHBACK")
  <2>1. PICK o \in (IF p.fp.start >= Len(p.fp.buf) THEN Fills(p.fp, p.file) ELSE {p}) :
                IF ~o.ok THEN ReturnsFrom("fgetc", 0, EOF, o) /\ seen' = <<>>
                ELSE /\ ReturnsFrom("fgetc", 0, 0, [o EXCEPT !.fp.start = @ + 1])
                     /\ seen' = <<o.fp.buf[o.fp.start + 1]>>
    BY <1>2, <1>7, Zenon
  <2>2. /\ o \in Outcomes /\ Has(o.fp, "UNREAD") /\ ~Has(o.fp, "PUSHBACK") /\ Same(p.fp, o.fp)
        /\ o.ok => o.fp.start < Len(o.fp.buf)
        /\ Right(o.fp, o.file) /\ SameFile(p.fp, p.file, o.fp, o.file) /\ Psh(o.fp) = Psh(p.fp)
    <3>1. CASE p.fp.start >= Len(p.fp.buf)
      <4>1. p.fp.open /\ o \in Fills(p.fp, p.file)
        BY <1>1, <1>4, <2>1, <3>1, ZenonT(40) DEF Same
      <4>2. /\ o \in Outcomes /\ Has(o.fp, "UNREAD") /\ ~Has(o.fp, "PUSHBACK") /\ Same(p.fp, o.fp)
            /\ o.ok => o.fp.start < Len(o.fp.buf)
        BY <1>4, <1>7, <3>1, <4>1, FillKeeps, ZenonT(40)
      <4>3. Right(o.fp, o.file) /\ SameFile(p.fp, p.file, o.fp, o.file) /\ Psh(o.fp) = Psh(p.fp)
        BY <1>3, <1>4, <1>7, <3>1, <4>1, FillView, ZenonT(40)
      <4> QED BY <4>2, <4>3
    <3>2. CASE ~(p.fp.start >= Len(p.fp.buf))
      <4>1. p.fp.start \in Nat /\ Len(p.fp.buf) \in Nat
        BY <1>4, SeqLength DEF Good, FpSet
      <4>2. p.fp.start < Len(p.fp.buf) /\ o = p
        BY ONLY <2>1, <3>2, <4>1
      <4> QED BY <1>3, <1>4, <1>7, <4>2, Zenon DEF SameFile, Same
    <3> QED BY <3>1, <3>2, ZenonT(40)
  <2>3. SameFile(fp, file, o.fp, o.file) /\ Psh(o.fp) = Psh(fp) /\ Same(fp, o.fp)
    BY <1>3, <1>4, <2>2, ZenonT(40) DEF SameFile, Same
  <2>4. CASE ~o.ok
    <3>1. ReturnsFrom("fgetc", 0, EOF, o) /\ seen' = <<>>
      BY <2>1, <2>4
    <3> QED BY <1>1, <2>2, <2>3, <3>1, KeepReturn, ZenonT(40)
  <2>5. CASE o.ok
    <3> DEFINE g == [o.fp EXCEPT !.start = @ + 1]
               r == [o EXCEPT !.fp = g]
               s == o.fp.start
               b == o.fp.buf
    <3>1. s \in Nat /\ Len(b) \in Nat /\ b \in Seq(Int) /\ s < Len(b) /\ s + 1 <= Len(b) /\ Good(o.fp, o.file)
      <4>1. s \in Nat /\ Len(b) \in Nat /\ b \in Seq(Int) /\ Good(o.fp, o.file)
        BY <2>2, SeqLength, ZenonT(40) DEF Right, Good, FpSet
      <4> QED BY ONLY <2>2, <2>5, <4>1
    <3>2. ~Has(o.fp, "EOF")
      BY <2>2, <2>5, <3>1, InputLeft
    <3>3. /\ Right(g, o.file) /\ Con(g, o.file) = Con(o.fp, o.file) /\ Pos(g, o.file) = Pos(o.fp, o.file) + 1
          /\ Psh(g) = -1 /\ Psh(o.fp) = -1 /\ Same(o.fp, g)
          /\ SubSeq(b, s + 1, s + 1) = SubSeq(Con(o.fp, o.file), Pos(o.fp, o.file) + 1, Pos(o.fp, o.file) + 1)
          /\ Pos(o.fp, o.file) \in Nat /\ Pos(o.fp, o.file) + 1 <= Len(Con(o.fp, o.file))
      BY <2>2, <3>1, <3>2, UseView, Zenon
    <3>4. [o EXCEPT !.fp.start = @ + 1] = r
      BY <2>2 DEF Outcomes, FpSet
    <3>5. ReturnsFrom("fgetc", 0, 0, r) /\ seen' = <<b[s + 1]>>
      BY <2>1, <2>5, <3>4, ZenonT(40)
    <3>6. SubSeq(b, s + 1, s + 1) = <<b[s + 1]>>
      <4> HIDE DEF s, b
      <4> QED BY <3>1, OneElement
    <3> HIDE DEF g, s, b
    <3>7. r.fp = g /\ r.file = o.file
      <4>1. g \in FpSet
        BY <3>3, ZenonT(40) DEF Right, Good
      <4> QED BY <2>2, <4>1, OtherFp, ZenonT(40)
    <3> HIDE DEF r
    <3>8. /\ Psh(o.fp) = -1 /\ Pos(o.fp, o.file) + 1 <= Len(Con(o.fp, o.file))
          /\ seen' = SubSeq(Con(o.fp, o.file), Pos(o.fp, o.file) + 1, Pos(o.fp, o.file) + 1)
      BY <3>3, <3>5, <3>6, Zenon
    <3>9. /\ Right(g, o.file) /\ Con(g, o.file) = Con(o.fp, o.file) /\ Pos(g, o.file) = Pos(o.fp, o.file) + 1
          /\ Psh(g) = -1 /\ Same(o.fp, g)
      BY <3>3, ZenonT(40)
    <3>10. ReturnsFrom("fgetc", 0, 0, r)
      BY <3>5, ZenonT(40)
    <3> QED BY <1>1, <2>3, <3>7, <3>8, <3>9, <3>10, GetcStep, Zenon
  <2> QED BY <2>4, <2>5
<1> QED BY <1>5, <1>6, <1>7

\* n bytes for fread: from o, which stands for the client's file, to g.
LEMMA FreadPart ==
  ASSUME IInv, call.op = "fread", NEW o, NEW g, NEW n \in Nat, n >= 1, n <= call.want - call.got,
         SameFile(fp, file, o.fp, o.file), Psh(o.fp) = Psh(fp), Same(fp, o.fp),
         FreadGoesOn(g, o.file, n), Right(g, o.file), Same(o.fp, g), Psh(g) = -1,
         Con(g, o.file) = Con(o.fp, o.file), Pos(g, o.file) = Pos(o.fp, o.file) + n,
         \/ Psh(o.fp) # -1 /\ n = 1 /\ seen' = <<Psh(o.fp)>>
         \/ /\ Psh(o.fp) = -1 /\ Pos(o.fp, o.file) \in Nat /\ Pos(o.fp, o.file) + n <= Len(Con(o.fp, o.file))
            /\ seen' = SubSeq(Con(o.fp, o.file), Pos(o.fp, o.file) + 1, Pos(o.fp, o.file) + n)
  PROVE  More' /\ Plain!Next
<1>1. call \in [op : {"fread"}, want : Nat, got : Nat] /\ fp.open
  <2>1. CallTyped /\ fp.open
    BY Zenon DEF IInv
  <2> QED BY ONLY <2>1, call.op = "fread" DEF CallTyped, Idle
<1> DEFINE got == call.got + n
<1>2. IF got = call.want THEN ReturnsFrom("fread", 0, got, [fp |-> g, file |-> o.file])
      ELSE call' = [call EXCEPT !.got = got] /\ fp' = g /\ file' = o.file /\ UNCHANGED ret
  BY DEF FreadGoesOn, Returns
<1>3. DoneOf(call) = call.got /\ RestOf(call) = <<>>
  BY DEF DoneOf, RestOf
<1>4. fp' = g /\ file' = o.file
  BY <1>2, ZenonT(40) DEF ReturnsFrom
<1>5. /\ call'.op # "fwrite" /\ RestOf(call') = <<>>
      /\ \/ DoneOf(call') = DoneOf(call) + n /\ ret' = ret
         \/ DoneOf(call') = 0 /\ ret'.op = "fread" /\ ret'.val = DoneOf(call) + n
  <2>1. CASE got = call.want
    <3>1. call' = Idle /\ ret' = [op |-> "fread", arg |-> 0, val |-> got]
      BY <1>2, <2>1, ZenonT(40) DEF ReturnsFrom
    <3>2. call'.op = "idle" /\ ret'.op = "fread" /\ ret'.val = got
      BY <3>1 DEF Idle
    <3> QED BY <1>3, <3>2 DEF DoneOf, RestOf
  <2>2. CASE got # call.want
    <3>1. call' = [call EXCEPT !.got = got] /\ ret' = ret
      BY <1>2, <2>2
    <3> HIDE DEF got
    <3>2. call'.op = "fread" /\ call'.got = got
      BY <1>1, <3>1, ZenonT(40)
    <3> QED BY <1>3, <3>1, <3>2 DEF DoneOf, RestOf, got
  <2> QED BY <2>1, <2>2
<1> HIDE DEF got
<1>6. More'
  BY <1>4, <1>5, ZenonT(40) DEF More, Right
<1>7. Con(o.fp, o.file) = Con(fp, file) /\ Pos(o.fp, o.file) = Pos(fp, file)
  BY DEF SameFile
<1>8. /\ fp'.open /\ Same(fp, fp') /\ Con(fp', file') = Con(fp, file) /\ Pos(fp', file') = Pos(fp, file) + n
      /\ Psh(fp') = -1
  <2>1. Same(fp, g) /\ g.open
    BY SameTrans, Zenon DEF Right
  <2> QED BY <1>4, <1>7, <2>1, Zenon
<1>9. IF Psh(fp) # -1 THEN n = 1 /\ seen' = <<Psh(fp)>>
      ELSE /\ Pos(fp, file) + n <= Len(Con(fp, file))
           /\ seen' = SubSeq(Con(fp, file), Pos(fp, file) + 1, Pos(fp, file) + n)
  BY <1>7, Zenon
<1>10. n \in 1 .. 1 + Len(Con(fp, file))
  <2>1. Len(Con(fp, file)) \in Nat
    <3>1. Con(g, o.file) \in Seq(Int)
      BY ConTyped
    <3> QED BY <1>7, <3>1, SeqLength
  <2>2. n = 1 \/ (Pos(fp, file) \in Nat /\ Pos(fp, file) + n <= Len(Con(fp, file)))
    BY <1>7, Zenon
  <2> QED BY ONLY n \in Nat, n >= 1, <2>1, <2>2
<1>11. RestOf(call') = RestOf(call)
  BY <1>3, <1>5
<1>12. Plain!Next
  BY <1>1, <1>5, <1>8, <1>9, <1>10, <1>11, GetStep, Zenon
<1> QED BY <1>6, <1>12, ZenonT(40)

\* A turn of fread's loop hands over the next bytes.
LEMMA FreadStepView == ASSUME IInv, More, FreadStep PROVE More' /\ Plain!Next
<1>1. /\ call.op = "fread" /\ Good(fp, file) /\ fp.open /\ Has(fp, "UNREAD") /\ call.got < call.want
      /\ Right(fp, file)
  BY RightNow DEF IInv, FreadStep
<1>2. call \in [op : {"fread"}, want : Nat, got : Nat]
  BY <1>1 DEF IInv, CallTyped, Idle
<1>3. CASE Has(fp, "PUSHBACK")
  <2> DEFINE g == Clear(fp, {"PUSHBACK"})
             o == [ok |-> TRUE, fp |-> fp, file |-> file]
  <2>1. FreadGoesOn(g, file, 1) /\ seen' = <<fp.pb>>
    BY <1>3 DEF FreadStep
  <2>2. /\ Right(g, file) /\ Con(g, file) = Con(fp, file) /\ Pos(g, file) = Pos(fp, file) + 1
        /\ Psh(g) = -1 /\ Psh(fp) = fp.pb /\ Same(fp, g)
    BY <1>1, <1>3, PopView
  <2>3. 1 <= call.want - call.got
    BY <1>1, <1>2
  <2>4. Psh(fp) # -1 /\ seen' = <<Psh(fp)>>
    BY <1>1, <2>1, <2>2, BytesAssumption DEF Right
  <2>5. SameFile(fp, file, fp, file) /\ Same(fp, fp) /\ o.fp = fp /\ o.file = file
    BY DEF SameFile, Same
  <2> HIDE DEF g, o
  <2>6. 1 \in Nat /\ 1 >= 1 /\ 1 = 1
    OBVIOUS
  <2> QED BY <1>1, <2>1, <2>2, <2>3, <2>4, <2>5, <2>6, FreadPart, Zenon
<1>4. CASE ~Has(fp, "PUSHBACK")
  <2> DEFINE take(o) == Least(Len(o.fp.buf) - o.fp.start, call.want - call.got)
             used(o) == [o.fp EXCEPT !.start = @ + take(o)]
  <2>1. PICK o \in (IF fp.start >= Len(fp.buf) THEN Fills(fp, file)
                    ELSE {[ok |-> TRUE, fp |-> fp, file |-> file]}) :
          IF ~o.ok THEN ReturnsFrom("fread", 0, call.got, o) /\ seen' = <<>>
          ELSE /\ FreadGoesOn(used(o), o.file, take(o))
               /\ seen' = SubSeq(o.fp.buf, o.fp.start + 1, o.fp.start + take(o))
    BY <1>4, Zenon DEF FreadStep, Returns
  <2>2. /\ Good(o.fp, o.file) /\ Same(fp, o.fp) /\ Has(o.fp, "UNREAD") /\ ~Has(o.fp, "PUSHBACK")
        /\ o.ok => o.fp.start < Len(o.fp.buf)
        /\ Right(o.fp, o.file) /\ SameFile(fp, file, o.fp, o.file) /\ Psh(o.fp) = Psh(fp)
    <3>1. CASE fp.start >= Len(fp.buf)
      <4>1. o \in Fills(fp, file)
        BY <2>1, <3>1, ZenonT(40)
      <4>2. /\ Good(o.fp, o.file) /\ Same(fp, o.fp) /\ Has(o.fp, "UNREAD") /\ ~Has(o.fp, "PUSHBACK")
            /\ o.ok => o.fp.start < Len(o.fp.buf)
        BY <1>1, <1>4, <3>1, <4>1, FillKeeps, ZenonT(40)
      <4>3. Right(o.fp, o.file) /\ SameFile(fp, file, o.fp, o.file) /\ Psh(o.fp) = Psh(fp)
        BY <1>1, <1>4, <3>1, <4>1, FillView, ZenonT(40)
      <4> QED BY <4>2, <4>3
    <3>2. CASE ~(fp.start >= Len(fp.buf))
      <4>1. o.fp = fp /\ o.file = file
        BY <2>1, <3>2
      <4>2. fp.start \in Nat /\ Len(fp.buf) \in Nat
        BY <1>1, SeqLength DEF Good, FpSet
      <4>3. fp.start < Len(fp.buf)
        BY ONLY <3>2, <4>2
      <4> QED BY <1>1, <1>4, <4>1, <4>3, Zenon DEF Same, SameFile
    <3> QED BY <3>1, <3>2
  <2>3. CASE ~o.ok
    <3>1. ReturnsFrom("fread", 0, call.got, o) /\ seen' = <<>>
      BY <2>1, <2>3
    <3>2. DoneOf(call) = call.got
      BY <1>1 DEF DoneOf
    <3> QED BY <1>1, <2>2, <3>1, <3>2, KeepReturn
  <2>4. CASE o.ok
    <3>1. ~Has(o.fp, "EOF")
      BY <2>2, <2>4, InputLeft, ZenonT(40)
    <3>2. o.fp.start \in Nat /\ Len(o.fp.buf) \in Nat /\ o.fp.start < Len(o.fp.buf)
      BY <2>2, <2>4, SeqLength DEF Good, FpSet
    <3>3. /\ take(o) \in Nat /\ take(o) >= 1 /\ o.fp.start + take(o) <= Len(o.fp.buf)
          /\ take(o) <= call.want - call.got
      <4>1. call.got \in Nat /\ call.want \in Nat
        BY <1>2
      <4> QED BY <1>1, <3>2, <4>1, LeastOf, Zenon
    <3>4. /\ FreadGoesOn(used(o), o.file, take(o))
          /\ seen' = SubSeq(o.fp.buf, o.fp.start + 1, o.fp.start + take(o))
      BY <2>1, <2>4
    <3> HIDE DEF take
    <3>5. /\ Right(used(o), o.file) /\ Con(used(o), o.file) = Con(o.fp, o.file)
          /\ Pos(used(o), o.file) = Pos(o.fp, o.file) + take(o)
          /\ Psh(used(o)) = -1 /\ Psh(o.fp) = -1 /\ Same(o.fp, used(o))
          /\ SubSeq(o.fp.buf, o.fp.start + 1, o.fp.start + take(o))
                = SubSeq(Con(o.fp, o.file), Pos(o.fp, o.file) + 1, Pos(o.fp, o.file) + take(o))
          /\ Pos(o.fp, o.file) \in Nat /\ Pos(o.fp, o.file) + take(o) <= Len(Con(o.fp, o.file))
      BY <2>2, <3>1, <3>2, <3>3, UseView, Zenon
    <3> HIDE DEF used
    <3>6. /\ Psh(o.fp) = -1 /\ Pos(o.fp, o.file) \in Nat /\ Pos(o.fp, o.file) + take(o) <= Len(Con(o.fp, o.file))
          /\ seen' = SubSeq(Con(o.fp, o.file), Pos(o.fp, o.file) + 1, Pos(o.fp, o.file) + take(o))
      BY <3>4, <3>5, Zenon
    <3> QED BY <1>1, <2>2, <3>3, <3>4, <3>5, <3>6, FreadPart, Zenon
  <2> QED BY <2>3, <2>4
<1> QED BY <1>3, <1>4

\* What a turn of fwrite's loop finds before it copies: the client's file, with room.
LEMMA BeforeCopyView ==
  ASSUME IInv, More, call.op = "fwrite", NEW o \in BeforeCopy(fp, file)
  PROVE  /\ Right(o.fp, o.file) /\ SameFile(fp, file, o.fp, o.file) /\ Psh(o.fp) = Psh(fp)
         /\ Same(fp, o.fp) /\ ~Has(o.fp, "UNREAD")
         /\ Has(o.fp, "UNBUF") <=> Has(fp, "UNBUF")
         /\ Has(o.fp, "LINE_BUF") <=> Has(fp, "LINE_BUF")
         /\ o.ok => /\ Len(o.fp.buf) < o.fp.size
                    /\ o.fp.buf = fp.buf \/ o.fp.buf = <<>>
<1>1. /\ Good(fp, file) /\ fp.open /\ ~Has(fp, "UNREAD") /\ Right(fp, file)
  BY RightNow DEF IInv
<1>2. fp.size \in Nat /\ Len(fp.buf) \in Nat /\ fp.size >= 1
  BY <1>1, SeqLength, ZenonT(40) DEF Good, FpSet, Fits
<1>3. CASE Len(fp.buf) >= fp.size
  <2>1. o \in Flushes(fp, file)
    BY <1>3 DEF BeforeCopy
  <2>2. /\ Good(o.fp, o.file) /\ Same(fp, o.fp) /\ ~Has(o.fp, "UNREAD")
        /\ o.ok => ~Has(o.fp, "DIRTY")
    BY <1>1, <2>1, FlushKeeps, ZenonT(40)
  <2>3. /\ Right(o.fp, o.file) /\ SameFile(fp, file, o.fp, o.file) /\ Psh(o.fp) = Psh(fp)
        /\ Has(o.fp, "UNBUF") <=> Has(fp, "UNBUF")
        /\ Has(o.fp, "LINE_BUF") <=> Has(fp, "LINE_BUF")
    BY <1>1, <2>1, FlushView, ZenonT(40)
  <2>4. ASSUME o.ok PROVE Len(o.fp.buf) < o.fp.size /\ o.fp.buf = <<>>
    <3>1. o.fp.buf = <<>>
      BY <2>2, <2>4, EmptyView, ZenonT(40)
    <3>2. o.fp.size = fp.size
      BY <2>2 DEF Same
    <3> QED BY ONLY <1>2, <3>1, <3>2
  <2> QED BY <2>2, <2>3, <2>4, ZenonT(40)
<1>4. CASE ~(Len(fp.buf) >= fp.size)
  <2>1. o.fp = fp /\ o.file = file
    BY <1>4 DEF BeforeCopy
  <2>2. Len(fp.buf) < fp.size
    BY ONLY <1>2, <1>4
  <2> QED BY <1>1, <2>1, <2>2, Zenon DEF Same, SameFile
<1> QED BY <1>3, <1>4, ZenonT(40)

\* The copy of a turn: at least one byte, after those that wait.
LEMMA CopiedView ==
  ASSUME IInv, More, call.op = "fwrite", NEW f, NEW ker, Right(f, ker), Same(fp, f), ~Has(f, "UNREAD"),
         Len(f.buf) < f.size
  PROVE  LET n == Take(f)
             g == Copied(f)
             bs == SubSeq(call.rest, 1, n)
             at == IF f.mode.app THEN Len(Con(f, ker)) ELSE Pos(f, ker)
         IN  /\ n \in 1 .. Len(call.rest) /\ bs \in Seq(Int) /\ Len(bs) = n
             /\ Right(g, ker) /\ Same(f, g) /\ ~Has(g, "UNREAD") /\ g.buf = f.buf \o bs /\ at \in Nat
             /\ Con(g, ker) = Overlay(Con(f, ker), at, bs) /\ Pos(g, ker) = at + n /\ Psh(g) = -1
             /\ Has(g, "UNBUF") <=> Has(f, "UNBUF")
             /\ Has(g, "LINE_BUF") <=> Has(f, "LINE_BUF")
<1> DEFINE n == Take(f)
           bs == SubSeq(call.rest, 1, n)
           at == IF f.mode.app THEN Len(Con(f, ker)) ELSE Pos(f, ker)
           longer == f.buf \o bs
           e == [f EXCEPT !.buf = longer]
           g == Copied(f)
<1>1. Good(f, ker) /\ f.open /\ f \in FpSet /\ f.buf \in Seq(Int) /\ Len(f.buf) \in Nat /\ f.size \in Nat
  BY SeqLength DEF Right, Good, FpSet
<1>2. call.rest \in Seq(Int) /\ call.rest # <<>>
  <2>1. call \in [op : {"fwrite"}, rest : Seq(Int), put : Nat]
    BY DEF IInv, CallTyped, Idle
  <2> QED BY <2>1 DEF More
<1>3. Len(call.rest) \in Nat /\ Len(call.rest) >= 1
  <2>1. Len(call.rest) \in Nat /\ Len(call.rest) # 0
    BY <1>2, SeqEmpty, SeqLength
  <2> QED BY <2>1
<1>4. f.mode.wr
  BY DEF IInv, Same
<1>5. Good(g, ker) /\ Same(f, g) /\ ~Has(g, "UNREAD")
  BY <1>1, <1>4, CopyKeeps
<1>6. n \in 1 .. Len(call.rest)
  <2> DEFINE room == f.size - Len(f.buf)
             more == Len(call.rest)
  <2>1. room \in Nat /\ room >= 1 /\ more \in Nat /\ more >= 1
    BY <1>1, <1>3
  <2>2. n = Least(room, more)
    BY DEF Take
  <2> HIDE DEF room, more, n
  <2>3. n \in 1 .. more
    BY <2>1, <2>2 DEF Least
  <2> QED BY <2>3 DEF more
<1> HIDE DEF n
<1>7. bs \in Seq(Int) /\ Len(bs) = n
  <2>1. n \in 0 .. Len(call.rest) /\ 1 \in 1 .. Len(call.rest) + 1 /\ n \in Nat /\ 1 <= n
    BY <1>3, <1>6
  <2>2. bs \in Seq(Int) /\ Len(bs) = IF 1 <= n THEN n - 1 + 1 ELSE 0
    BY <1>2, <2>1, PartOf
  <2> HIDE DEF bs
  <2> QED BY <2>1, <2>2
<1>8. e.buf = longer /\ g = Set(e, "DIRTY")
  BY <1>1, Zenon DEF Copied, FpSet, n
<1> HIDE DEF bs, g
<1>9. longer \in Seq(Int)
  BY <1>1, <1>7, SeqConcat, Zenon
<1> HIDE DEF longer
<1>10. /\ e \in FpSet /\ e.flags = f.flags /\ e.buf = longer /\ e.pb = f.pb
  BY <1>1, <1>9, BufFields, Zenon
<1> HIDE DEF e
<1>11. "DIRTY" \in Flags
  BY DEF Flags
<1>12. g.flags = f.flags \cup {"DIRTY"} /\ g.buf = longer /\ g.pb = f.pb
  BY <1>8, <1>10, <1>11, SetFields, ZenonT(40)
<1>13. /\ Has(g, "DIRTY") /\ (Has(g, "UNBUF") <=> Has(f, "UNBUF"))
       /\ (Has(g, "LINE_BUF") <=> Has(f, "LINE_BUF"))
  BY <1>12 DEF Has
<1>14. g.buf = f.buf \o bs
  BY <1>12 DEF longer
<1>15. /\ at \in Nat /\ Con(g, ker) = Overlay(Con(f, ker), at, bs) /\ Pos(g, ker) = at + Len(bs)
       /\ Right(g, ker) /\ Psh(g) = -1
  <2>1. /\ bs \in Seq(Int) /\ Good(g, ker) /\ Same(f, g) /\ g.buf = f.buf \o bs /\ g.pb = f.pb
        /\ Has(g, "DIRTY") /\ ~Has(g, "UNREAD")
    BY <1>5, <1>7, <1>12, <1>13, <1>14, Zenon
  <2> QED BY ONLY <2>1, Right(f, ker), ~Has(f, "UNREAD"), CopyView, ZenonT(40)
<1> QED BY <1>5, <1>6, <1>7, <1>13, <1>14, <1>15, ZenonT(40) DEF n, bs, g

\* No newline among the last n bytes of a buffer.
NoNewLine(b, n) ==
    LET new == SubSeq(b, Len(b) - n + 1, Len(b)) IN ~\E i \in DOMAIN new : new[i] = NL

\* The flush at the end of a turn leaves the client's file alone.
LEMMA AfterCopyView ==
  ASSUME NEW f, NEW ker, NEW n, Right(f, ker), ~Has(f, "UNREAD"), NEW a \in AfterCopy(f, ker, n)
  PROVE  /\ Right(a.fp, a.file) /\ SameFile(f, ker, a.fp, a.file) /\ Psh(a.fp) = Psh(f) /\ Same(f, a.fp)
         /\ a.ok => \/ a.fp.buf = <<>>
                    \/ /\ a.fp.buf = f.buf /\ ~Has(f, "UNBUF")
                       /\ Has(f, "LINE_BUF") => NoNewLine(f.buf, n)
<1> DEFINE new == SubSeq(f.buf, Len(f.buf) - n + 1, Len(f.buf))
<1>1. CASE a \in Flushes(f, ker)
  <2>1. Good(f, ker)
    BY DEF Right
  <2>2. /\ Good(a.fp, a.file) /\ Same(f, a.fp) /\ ~Has(a.fp, "UNREAD")
        /\ a.ok => ~Has(a.fp, "DIRTY")
    BY <1>1, <2>1, FlushKeeps, ZenonT(40)
  <2>3. Right(a.fp, a.file) /\ SameFile(f, ker, a.fp, a.file) /\ Psh(a.fp) = Psh(f)
    BY <1>1, FlushView, ZenonT(40)
  <2>4. a.ok => a.fp.buf = <<>>
    BY <2>2, EmptyView
  <2> QED BY <2>2, <2>3, <2>4, ZenonT(40)
<1>2. CASE a \notin Flushes(f, ker)
  <2>1. /\ a = [ok |-> TRUE, fp |-> f, file |-> ker]
        /\ ~(Has(f, "UNBUF") \/ (Has(f, "LINE_BUF") /\ \E i \in DOMAIN new : new[i] = NL))
    BY <1>2, Zenon DEF AfterCopy
  <2>2. a.fp = f /\ a.file = ker
    BY <2>1
  <2>3. Same(f, f) /\ SameFile(f, ker, f, ker)
    BY DEF Same, SameFile
  <2>4. /\ a.fp.buf = f.buf /\ ~Has(f, "UNBUF")
        /\ Has(f, "LINE_BUF") => NoNewLine(f.buf, n)
    BY <2>1, <2>2, Zenon DEF NoNewLine
  <2> HIDE DEF new
  <2>5. Right(a.fp, a.file) /\ SameFile(f, ker, a.fp, a.file) /\ Psh(a.fp) = Psh(f) /\ Same(f, a.fp)
    BY <2>2, <2>3, Zenon
  <2> QED BY <2>4, <2>5, Zenon
<1> QED BY <1>1, <1>2, Zenon

\* A turn of fwrite's loop as a whole: it gives up before it copies, or it takes
\* n >= 1 bytes and then fails, returns or goes round.
LEMMA FwriteTurn ==
  ASSUME FwriteStep
  PROVE  /\ call.op = "fwrite" /\ seen' = <<>>
         /\ \E o \in BeforeCopy(fp, file) :
               \/ ~o.ok /\ ReturnsFrom("fwrite", 0, call.put, o)
               \/ /\ o.ok
                  /\ \E a \in AfterCopy(Copied(o.fp), o.file, Take(o.fp)) :
                        LET rest == SubSeq(call.rest, Take(o.fp) + 1, Len(call.rest))
                        IN  \/ ~a.ok /\ ReturnsFrom("fwrite", 0, call.put, a)
                            \/ a.ok /\ rest = <<>> /\ ReturnsFrom("fwrite", 0, call.put + Take(o.fp), a)
                            \/ /\ a.ok /\ rest # <<>> /\ fp' = a.fp /\ file' = a.file /\ ret' = ret
                               /\ call' = [call EXCEPT !.rest = rest, !.put = call.put + Take(o.fp)]
  BY Zenon DEF FwriteStep, Returns

\* Every turn of fwrite's loop puts its bytes into the client's file.
LEMMA FwriteStepView == ASSUME IInv, More, FwriteStep PROVE More' /\ Plain!Next
<1>1. call.op = "fwrite" /\ seen' = <<>>
  BY Zenon DEF FwriteStep
<1>2. fp.open /\ call \in [op : {"fwrite"}, rest : Seq(Int), put : Nat]
  BY <1>1 DEF IInv, CallTyped, Idle
<1>3. DoneOf(call) = call.put /\ RestOf(call) = call.rest
  BY <1>1 DEF DoneOf, RestOf
<1> DEFINE n(o) == Take(o.fp)
           rest(o) == SubSeq(call.rest, n(o) + 1, Len(call.rest))
           Fails(a) == ~a.ok /\ ReturnsFrom("fwrite", 0, call.put, a)
           Ends(o, a) == a.ok /\ rest(o) = <<>> /\ ReturnsFrom("fwrite", 0, call.put + n(o), a)
           Goes(o, a) == /\ a.ok /\ rest(o) # <<>> /\ fp' = a.fp /\ file' = a.file /\ ret' = ret
                         /\ call' = [call EXCEPT !.rest = rest(o), !.put = call.put + n(o)]
<1>4. PICK o \in BeforeCopy(fp, file) :
         \/ ~o.ok /\ ReturnsFrom("fwrite", 0, call.put, o)
         \/ /\ o.ok
            /\ \E a \in AfterCopy(Copied(o.fp), o.file, n(o)) : Fails(a) \/ Ends(o, a) \/ Goes(o, a)
  BY FwriteTurn, Zenon
<1>5. /\ Right(o.fp, o.file) /\ SameFile(fp, file, o.fp, o.file) /\ Psh(o.fp) = Psh(fp)
      /\ Same(fp, o.fp) /\ ~Has(o.fp, "UNREAD")
      /\ o.ok => Len(o.fp.buf) < o.fp.size
  BY <1>1, BeforeCopyView, ZenonT(40)
<1>6. CASE ~o.ok
  <2>1. ReturnsFrom("fwrite", 0, call.put, o)
    BY <1>4, <1>6
  <2> QED BY <1>1, <1>2, <1>3, <1>5, <2>1, KeepReturn, ZenonT(40)
<1>7. CASE o.ok
  <2> DEFINE g == Copied(o.fp)
             bs == SubSeq(call.rest, 1, n(o))
             at == IF o.fp.mode.app THEN Len(Con(o.fp, o.file)) ELSE Pos(o.fp, o.file)
  <2>1. PICK a \in AfterCopy(g, o.file, n(o)) : Fails(a) \/ Ends(o, a) \/ Goes(o, a)
    BY <1>4, <1>7, ZenonT(40)
  <2>2. Len(o.fp.buf) < o.fp.size
    BY <1>5, <1>7, ZenonT(40)
  <2>3. /\ n(o) \in 1 .. Len(call.rest)
        /\ Right(g, o.file) /\ Same(o.fp, g) /\ ~Has(g, "UNREAD") /\ at \in Nat
        /\ Con(g, o.file) = Overlay(Con(o.fp, o.file), at, bs) /\ Pos(g, o.file) = at + n(o) /\ Psh(g) = -1
    BY <1>1, <1>5, <2>2, CopiedView, Zenon
  <2> HIDE DEF n, g
  <2>4. Right(a.fp, a.file) /\ SameFile(g, o.file, a.fp, a.file) /\ Psh(a.fp) = Psh(g) /\ Same(g, a.fp)
    BY <2>1, <2>3, AfterCopyView
  <2>5. fp' = a.fp /\ file' = a.file
    BY <2>1 DEF ReturnsFrom
  <2>6. at = IF fp.mode.app THEN Len(Con(fp, file)) ELSE Pos(fp, file)
    BY <1>5, Zenon DEF SameFile
  <2> HIDE DEF at, rest
  <2>7. /\ Same(fp, fp') /\ fp'.open
        /\ Con(fp', file') = Overlay(Con(fp, file), at, bs) /\ Pos(fp', file') = at + n(o) /\ Psh(fp') = -1
    <3>1. Same(fp, g)
      BY <1>5, <2>3, SameTrans, Zenon
    <3>2. Same(fp, a.fp)
      BY <2>4, <3>1, SameTrans, Zenon
    <3>3. Con(a.fp, a.file) = Overlay(Con(fp, file), at, bs) /\ Pos(a.fp, a.file) = at + n(o) /\ Psh(a.fp) = -1
      BY <1>5, <2>3, <2>4, Zenon DEF SameFile
    <3>4. a.fp.open
      BY <2>4, Zenon DEF Right
    <3> QED BY <2>5, <3>2, <3>3, <3>4, Zenon
  <2>8. /\ \/ /\ RestOf(call') = rest(o) /\ RestOf(call') # <<>>
              /\ DoneOf(call') = DoneOf(call) + n(o) /\ ret' = ret
           \/ /\ RestOf(call') = <<>> /\ DoneOf(call') = 0 /\ ret'.op = "fwrite"
              /\ ret'.val \in {DoneOf(call), DoneOf(call) + n(o)}
        /\ call'.op = "fwrite" => call'.rest # <<>>
    <3>1. ASSUME NEW v, ReturnsFrom("fwrite", 0, v, a)
          PROVE  /\ RestOf(call') = <<>> /\ DoneOf(call') = 0 /\ ret'.op = "fwrite" /\ ret'.val = v
                 /\ call'.op # "fwrite"
      <4>1. call' = Idle /\ ret' = [op |-> "fwrite", arg |-> 0, val |-> v]
        BY <3>1 DEF ReturnsFrom
      <4>2. call'.op = "idle" /\ ret'.op = "fwrite" /\ ret'.val = v
        BY <4>1, ZenonT(40) DEF Idle
      <4> QED BY <4>2 DEF DoneOf, RestOf
    <3>2. CASE Fails(a)
      BY <1>3, <3>1, <3>2, ZenonT(40)
    <3>3. CASE Ends(o, a)
      BY <1>3, <3>1, <3>3
    <3>4. CASE Goes(o, a)
      <4>1. call' = [call EXCEPT !.rest = rest(o), !.put = call.put + n(o)] /\ rest(o) # <<>> /\ ret' = ret
        BY <3>4
      <4>2. call'.op = "fwrite" /\ call'.rest = rest(o) /\ call'.put = call.put + n(o)
        BY <1>2, <4>1
      <4>3. RestOf(call') = rest(o) /\ DoneOf(call') = call.put + n(o)
        BY <4>2, ZenonT(40) DEF RestOf, DoneOf
      <4> QED BY <1>3, <4>1, <4>2, <4>3
    <3> QED BY <2>1, <3>2, <3>3, <3>4, ZenonT(40)
  <2>9. More'
    BY <2>4, <2>5, <2>8, ZenonT(40) DEF More, Right
  <2>10. /\ n(o) \in 1 .. Len(RestOf(call)) /\ at >= 0
         /\ bs = SubSeq(RestOf(call), 1, n(o))
         /\ rest(o) = SubSeq(RestOf(call), n(o) + 1, Len(RestOf(call)))
    BY <1>3, <2>3 DEF rest
  <2> HIDE DEF bs
  <2>11. Plain!Next
    <3>1. /\ Con(fp', file') = Overlay(Con(fp, file), at, SubSeq(RestOf(call), 1, n(o)))
          /\ \/ /\ RestOf(call') = SubSeq(RestOf(call), n(o) + 1, Len(RestOf(call))) /\ RestOf(call') # <<>>
                /\ DoneOf(call') = DoneOf(call) + n(o) /\ ret' = ret
             \/ /\ RestOf(call') = <<>> /\ DoneOf(call') = 0 /\ ret'.op = "fwrite"
                /\ ret'.val \in {DoneOf(call), DoneOf(call) + n(o)}
      BY <2>7, <2>8, <2>10, Zenon
    <3> QED BY <1>1, <1>2, <2>6, <2>7, <2>10, <3>1, PutStep, Zenon
  <2> QED BY <2>9, <2>11
<1> QED BY <1>6, <1>7


-----------------------------------------------------------------------------
\* A stream that has just been opened is a plain file at its start.
LEMMA InitView == Init => More /\ Plain!Init
<1> SUFFICES ASSUME Init PROVE More /\ Plain!Init
  OBVIOUS
<1>1. PICK m \in Modes : /\ fp = Opened(m)
                         /\ file = [data |-> IF OpenMode(m).trunc THEN <<>> ELSE Data0, off |-> 0]
  BY DEF Init
<1>2. call.op = "idle" /\ ret.op = "fopen" /\ seen = <<>>
  BY DEF Init, Idle
<1>3. /\ ~Has(fp, "DIRTY") /\ ~Has(fp, "UNREAD") /\ ~Has(fp, "PUSHBACK") /\ fp.pb = NL /\ file.off = 0
      /\ fp.buf = <<>> /\ fp.start = 0
  BY <1>1, ZenonT(40) DEF Opened, Has
<1>4. Position = 0
  <2>1. Unread(fp) = 0
    BY <1>3 DEF Unread
  <2> QED BY <1>3, <2>1 DEF Position
<1>5. More
  BY <1>2, <1>3, ZenonT(40) DEF More, InputRight
<1> QED BY <1>2, <1>3, <1>4, <1>5 DEF Plain!Init

\* Every step of the stream is a step of a plain file.
LEMMA StepView ==
  IInv /\ More /\ [Next]_vars => More' /\ [Plain!Next]_(Plain!bvars)
<1> SUFFICES ASSUME IInv, More, [Next]_vars PROVE More' /\ [Plain!Next]_(Plain!bvars)
  OBVIOUS
<1>1. CASE UNCHANGED vars
  <2>1. More'
    BY <1>1 DEF More, InputRight, Has, vars
  <2>2. UNCHANGED Plain!bvars
    BY <1>1 DEF vars, Plain!bvars, Contents, Position, IsOpen, Has, Unread
  <2> QED BY <2>1, <2>2, ZenonT(40)
<1>2. CASE \E m \in Modes \ StdStreams : Fopen(m)
  BY <1>2, FopenStep
<1>3. CASE Fclose
  BY <1>3, FcloseStep
<1>4. CASE \E bs \in Inputs : Fwrite(bs)
  BY <1>4, FwriteBegins
<1>5. CASE FwriteStep
  BY <1>5, FwriteStepView
<1>6. CASE \E want \in 1 .. MaxLen : Fread(want)
  BY <1>6, FreadBegins, ZenonT(40)
<1>7. CASE FreadStep
  BY <1>7, FreadStepView
<1>8. CASE Fgetc
  BY <1>8, FgetcStep
<1>9. CASE \E ch \in {NL} : Ungetc(ch)
  BY <1>9, UngetcStep
<1>10. CASE \E offset \in Offsets, whence \in {"SEEK_SET", "SEEK_CUR", "SEEK_END"} : Fseek(offset, whence)
  BY <1>10, FseekStep, LengthAssumption
<1>11. CASE Ftell
  BY <1>11, FtellStep
<1>12. CASE Fflush
  BY <1>12, FflushStep
<1>13. CASE \E mode \in {"_IOFBF", "_IOLBF", "_IONBF"}, n \in Sizes : Setvbuf(mode, n)
  BY <1>13, SetvbufStep
<1>14. CASE Clearerr
  BY <1>14, ClearerrStep
<1> QED BY <1>1, <1>2, <1>3, <1>4, <1>5, <1>6, <1>7, <1>8, <1>9, <1>10, <1>11, <1>12, <1>13, <1>14, ZenonT(40) DEF Next

\* The calls of a FILE (stdio.c 822-1233) behave as those of a plain file: whatever
\* the buffer's size and mode, the way the file was opened and the writes and reads
\* the kernel cuts short or refuses, no byte is lost, repeated or moved, and the
\* client's position is the one ftell tells.
THEOREM ActsAsPlainFile == Spec => BehavesAsPlainFile
<1>1. Init => IInv /\ More /\ Plain!Init
  BY InitInv, InitView
<1>2. IInv /\ More /\ [Next]_vars => IInv' /\ More' /\ [Plain!Next]_(Plain!bvars)
  BY StepInv, StepView
<1> QED BY <1>1, <1>2, PTL DEF Spec, BehavesAsPlainFile, Plain!Spec


-----------------------------------------------------------------------------
\* An empty buffer has no element.
LEMMA EmptyDomain == DOMAIN <<>> = {}
OBVIOUS

\* No newline in either part, none in both together.
LEMMA NoLineInBoth ==
  ASSUME NEW s \in Seq(Int), NEW t \in Seq(Int), NEW x,
         ~\E i \in DOMAIN s : s[i] = x, ~\E i \in DOMAIN t : t[i] = x
  PROVE  ~\E i \in DOMAIN (s \o t) : (s \o t)[i] = x
<1> SUFFICES ASSUME NEW i \in DOMAIN (s \o t) PROVE (s \o t)[i] # x
  OBVIOUS
<1>1. Len(s) \in Nat /\ Len(t) \in Nat /\ DOMAIN s = 1 .. Len(s) /\ DOMAIN t = 1 .. Len(t)
  BY SeqLength
<1>2. /\ i \in 1 .. Len(s) + Len(t)
      /\ (s \o t)[i] = IF i <= Len(s) THEN s[i] ELSE t[i - Len(s)]
  BY SeqConcat, SeqLength
<1>3. CASE i <= Len(s)
  BY <1>1, <1>2, <1>3
<1>4. CASE ~(i <= Len(s))
  <2>1. i - Len(s) \in 1 .. Len(t)
    BY <1>1, <1>2, <1>4
  <2> QED BY <1>1, <1>2, <1>4, <2>1, ZenonT(40)
<1> QED BY <1>3, <1>4

\* The last bytes of two joined sequences are the second one.
LEMMA EndOfJoin ==
  ASSUME NEW s \in Seq(Int), NEW t \in Seq(Int)
  PROVE  SubSeq(s \o t, Len(s \o t) - Len(t) + 1, Len(s \o t)) = t
<1> DEFINE st == s \o t
           u == SubSeq(st, Len(s) + 1, Len(s) + Len(t))
<1>1. /\ Len(s) \in Nat /\ Len(t) \in Nat /\ st \in Seq(Int) /\ Len(st) = Len(s) + Len(t)
      /\ \A i \in 1 .. Len(s) + Len(t) : st[i] = IF i <= Len(s) THEN s[i] ELSE t[i - Len(s)]
  BY SeqConcat, SeqLength
<1> HIDE DEF st
<1>2. Len(st) - Len(t) + 1 = Len(s) + 1
  BY <1>1
<1>3. /\ u \in Seq(Int) /\ Len(u) = Len(t)
      /\ \A i \in 1 .. Len(t) : u[i] = st[Len(s) + i]
  <2>1. Len(s) + Len(t) <= Len(st)
    BY <1>1
  <2> QED BY <1>1, <2>1, PartFrom
<1> HIDE DEF u
<1>4. \A i \in 1 .. Len(t) : u[i] = t[i]
  <2> SUFFICES ASSUME NEW i \in 1 .. Len(t) PROVE u[i] = t[i]
    OBVIOUS
  <2> DEFINE j == Len(s) + i
  <2>1. j \in 1 .. Len(s) + Len(t) /\ ~(j <= Len(s)) /\ j - Len(s) = i
    BY <1>1
  <2>2. u[i] = st[j]
    BY <1>3
  <2> HIDE DEF j
  <2>3. st[j] = t[j - Len(s)]
    BY <1>1, <2>1, Zenon
  <2> QED BY <2>1, <2>2, <2>3
<1>5. u = t
  <2>1. \A i \in 1 .. Len(u) : u[i] = t[i]
    BY <1>3, <1>4
  <2> QED BY <1>3, <2>1, SeqSame, Zenon
<1>6. SubSeq(st, Len(st) - Len(t) + 1, Len(st)) = t
  BY <1>1, <1>2, <1>5, ZenonT(40) DEF u
<1> QED BY <1>6 DEF st

\* The turn of fwrite that reports every byte has sent what it promised.
LEMMA PromptStep ==
  ASSUME IInv, More, FwriteStep, call' = Idle, ret'.val = call.put + Len(call.rest)
  PROVE  /\ Has(fp, "UNBUF") => fp'.buf = <<>>
         /\ Has(fp, "LINE_BUF") =>
               ((\E i \in DOMAIN fp'.buf : fp'.buf[i] = NL) => (\E i \in DOMAIN fp.buf : fp.buf[i] = NL))
<1>1. call.op = "fwrite"
  BY Zenon DEF FwriteStep
<1>2. call \in [op : {"fwrite"}, rest : Seq(Int), put : Nat]
  <2>1. CallTyped
    BY Zenon DEF IInv
  <2> QED BY ONLY <1>1, <2>1 DEF CallTyped, Idle
<1>3. call.rest \in Seq(Int) /\ call.put \in Nat /\ Len(call.rest) \in Nat /\ Len(call.rest) >= 1
  <2>1. call.rest \in Seq(Int) /\ call.rest # <<>> /\ call.put \in Nat
    BY <1>1, <1>2 DEF More
  <2>2. Len(call.rest) \in Nat /\ Len(call.rest) # 0
    BY <2>1, SeqEmpty, SeqLength
  <2> QED BY <2>1, <2>2
<1>4. ASSUME NEW o, ReturnsFrom("fwrite", 0, call.put, o) PROVE FALSE
  <2>1. ret'.val = call.put
    BY <1>4 DEF ReturnsFrom
  <2> QED BY <1>3, <2>1
<1>5. PICK o \in BeforeCopy(fp, file) :
         /\ o.ok
         /\ \E a \in AfterCopy(Copied(o.fp), o.file, Take(o.fp)) :
               \/ a.ok /\ fp' = a.fp
               \/ call' = [call EXCEPT !.rest = SubSeq(call.rest, Take(o.fp) + 1, Len(call.rest)),
                                       !.put = call.put + Take(o.fp)]
  <2>1. PICK o \in BeforeCopy(fp, file) :
          /\ o.ok
          /\ \E a \in AfterCopy(Copied(o.fp), o.file, Take(o.fp)) :
               \/ a.ok /\ ReturnsFrom("fwrite", 0, call.put + Take(o.fp), a)
               \/ call' = [call EXCEPT !.rest = SubSeq(call.rest, Take(o.fp) + 1, Len(call.rest)),
                                       !.put = call.put + Take(o.fp)]
    BY <1>4, FwriteTurn, Zenon
  <2> QED BY <2>1, Zenon DEF ReturnsFrom
<1>6. PICK a \in AfterCopy(Copied(o.fp), o.file, Take(o.fp)) : a.ok /\ fp' = a.fp
  <2>1. ASSUME call' = [call EXCEPT !.rest = SubSeq(call.rest, Take(o.fp) + 1, Len(call.rest)),
                                    !.put = call.put + Take(o.fp)]
        PROVE  FALSE
    <3>1. call'.op = "fwrite"
      BY <1>2, <2>1
    <3> QED BY <3>1 DEF Idle
  <2> QED BY <1>5, <2>1
<1>7. /\ Right(o.fp, o.file) /\ Same(fp, o.fp) /\ ~Has(o.fp, "UNREAD")
      /\ Has(o.fp, "UNBUF") <=> Has(fp, "UNBUF")
      /\ Has(o.fp, "LINE_BUF") <=> Has(fp, "LINE_BUF")
      /\ Len(o.fp.buf) < o.fp.size
      /\ o.fp.buf = fp.buf \/ o.fp.buf = <<>>
  BY <1>1, <1>5, BeforeCopyView
<1> DEFINE g == Copied(o.fp)
           n == Take(o.fp)
           bs == SubSeq(call.rest, 1, n)
<1>8. /\ bs \in Seq(Int) /\ Len(bs) = n
      /\ Right(g, o.file) /\ ~Has(g, "UNREAD") /\ g.buf = o.fp.buf \o bs
      /\ Has(g, "UNBUF") <=> Has(o.fp, "UNBUF")
      /\ Has(g, "LINE_BUF") <=> Has(o.fp, "LINE_BUF")
  BY <1>1, <1>7, CopiedView, Zenon
<1>9. \/ a.fp.buf = <<>>
      \/ /\ a.fp.buf = g.buf /\ ~Has(g, "UNBUF")
         /\ Has(g, "LINE_BUF") => NoNewLine(g.buf, n)
  <2>1. a \in AfterCopy(g, o.file, n) /\ a.ok
    BY <1>6, ZenonT(40)
  <2>2. Right(g, o.file) /\ ~Has(g, "UNREAD")
    BY <1>8, ZenonT(40)
  <2> HIDE DEF g, n
  <2> QED BY ONLY <2>1, <2>2, AfterCopyView, Zenon
<1>10. o.fp.buf \in Seq(Int) /\ fp.buf \in Seq(Int)
  BY <1>7, ZenonT(40) DEF Right, Good, FpSet, IInv
<1>11. SubSeq(g.buf, Len(g.buf) - n + 1, Len(g.buf)) = bs
  BY <1>8, <1>10, EndOfJoin, Zenon
<1> HIDE DEF g, n, bs
<1>12. CASE a.fp.buf = <<>>
  <2>1. fp'.buf = <<>>
    BY <1>6, <1>12, Zenon
  <2>2. ~\E i \in DOMAIN fp'.buf : fp'.buf[i] = NL
    BY <2>1, EmptyDomain, Zenon
  <2> QED BY ONLY <2>1, <2>2, Zenon
<1>13. CASE /\ a.fp.buf = g.buf /\ ~Has(g, "UNBUF")
            /\ Has(g, "LINE_BUF") => NoNewLine(g.buf, n)
  <2>1. ~Has(fp, "UNBUF")
    BY <1>7, <1>8, <1>13, Zenon
  <2>2. ASSUME Has(fp, "LINE_BUF"), ~\E i \in DOMAIN fp.buf : fp.buf[i] = NL
        PROVE  ~\E i \in DOMAIN fp'.buf : fp'.buf[i] = NL
    <3>1. ~\E i \in DOMAIN bs : bs[i] = NL
      BY <1>7, <1>8, <1>11, <1>13, <2>2, Zenon DEF NoNewLine
    <3>2. ~\E i \in DOMAIN o.fp.buf : o.fp.buf[i] = NL
      <4>1. CASE o.fp.buf = fp.buf
        BY <2>2, <4>1, Zenon
      <4>2. CASE o.fp.buf = <<>>
        BY <4>2, EmptyDomain, Zenon
      <4> QED BY <1>7, <4>1, <4>2, ZenonT(40)
    <3>3. ~\E i \in DOMAIN (o.fp.buf \o bs) : (o.fp.buf \o bs)[i] = NL
      BY <1>8, <1>10, <3>1, <3>2, NoLineInBoth, Zenon
    <3>4. fp'.buf = o.fp.buf \o bs
      BY <1>6, <1>8, <1>13, Zenon
    <3> QED BY <3>3, <3>4, Zenon
  <2> QED BY <2>1, <2>2, Zenon
<1> QED BY <1>9, <1>12, <1>13, ZenonT(40)

\* What fwrite's report promises (stdio.c 998-1034): once it reports every byte, an
\* unbuffered stream holds none of them, and a line-buffered one no new newline.
THEOREM OutputIsPrompt == Spec => PromptDelivery
<1> DEFINE Promise ==
      (call.op = "fwrite" /\ call' = Idle /\ ret'.val = call.put + Len(call.rest)) =>
         /\ Has(fp, "UNBUF") => fp'.buf = <<>>
         /\ Has(fp, "LINE_BUF") =>
               ((\E i \in DOMAIN fp'.buf : fp'.buf[i] = NL) => (\E i \in DOMAIN fp.buf : fp.buf[i] = NL))
<1>1. Init => IInv /\ More
  BY InitInv, InitView
<1>2. IInv /\ More /\ [Next]_vars => IInv' /\ More'
  BY StepInv, StepView
<1>3. IInv /\ More /\ [Next]_vars => [Promise]_vars
  <2> SUFFICES ASSUME IInv, More, Next, call.op = "fwrite", call' = Idle,
                      ret'.val = call.put + Len(call.rest)
               PROVE  FwriteStep
    BY PromptStep
  <2>1. call # Idle /\ call.op # "fread"
    <3>1. call.op = "fwrite"
      OBVIOUS
    <3> QED BY ONLY <3>1 DEF Idle
  <2>2. \A m : ~Fopen(m)
    BY <2>1, Zenon DEF Fopen
  <2>3. ~Fclose /\ ~Fgetc /\ ~Ftell /\ ~Fflush /\ ~Clearerr
    BY <2>1, Zenon DEF Fclose, Fgetc, Ftell, Fflush, Clearerr
  <2>4. (\A bs : ~Fwrite(bs)) /\ (\A want : ~Fread(want)) /\ ~FreadStep
    BY <2>1, Zenon DEF Fwrite, Fread, FreadStep
  <2>5. (\A ch : ~Ungetc(ch)) /\ (\A x, y : ~Fseek(x, y)) /\ (\A x, y : ~Setvbuf(x, y))
    BY <2>1, Zenon DEF Ungetc, Fseek, Setvbuf
  <2> QED BY <2>2, <2>3, <2>4, <2>5, Zenon DEF Next
<1> QED BY <1>1, <1>2, <1>3, PTL DEF Spec, PromptDelivery
=============================================================================
