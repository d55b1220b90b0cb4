---------------------------- MODULE StreamProofs ----------------------------
(***************************************************************************)
(* Proofs about Stream, 1: for every buffer size, file, mode and sequence   *)
(* of calls, with short and failed writes and reads anywhere, the buffer    *)
(* keeps to its size and its roles, and the end-of-file flag is set only at *)
(* the end.  The helpers come first, then the calls, then the theorems.     *)
(* The last section begins what StreamCallProofs goes on with: a flush, and *)
(* giving up input, keep the file that a FILE and the kernel's file stand   *)
(* for together, whatever the system calls do.                              *)
(***************************************************************************)
EXTENDS Stream, TLAPS

\* The time the provers are given for a leaf that names none.
USE SMTT(20), ZenonT(20)

Flags == {"DIRTY", "UNREAD", "PUSHBACK", "EOF", "ERR", "LINE_BUF", "UNBUF"}
ModeSet == [rd : BOOLEAN, wr : BOOLEAN, app : BOOLEAN, trunc : BOOLEAN]
FpSet == [open : BOOLEAN, mode : ModeSet, flags : SUBSET Flags, buf : Seq(Int),
          start : Nat, size : Nat, pb : Int]
FileSet == [data : Seq(Int), off : Nat]
Outcomes == [ok : BOOLEAN, fp : FpSet, file : FileSet]

\* The bytes in use lie in the buffer.
Fits(f) ==
    /\ f.start <= Len(f.buf)
    /\ Len(f.buf) <= f.size
    /\ f.open => f.size >= 1

\* BufferRoles without the call in progress, and where an idle buffer starts.
Roles(f) ==
    /\ Has(f, "DIRTY") => ~Has(f, "UNREAD") /\ f.mode.wr
    /\ Has(f, "UNREAD") => f.mode.rd
    /\ Has(f, "PUSHBACK") => Has(f, "UNREAD")
    /\ f.buf # <<>> => Has(f, "DIRTY") \/ Has(f, "UNREAD")
    /\ ~Has(f, "UNREAD") => f.start = 0

\* The kernel is at the end of the file, or beyond, when the flag is set.
AtEnd(f, ker) ==
    Has(f, "EOF") => /\ ker.off >= Len(ker.data)
                     /\ Has(f, "DIRTY") \/ Unread(f) = 0

Good(f, ker) == f \in FpSet /\ ker \in FileSet /\ Fits(f) /\ Roles(f) /\ AtEnd(f, ker)

-----------------------------------------------------------------------------
(* Facts about sequences.                                                  *)

\* What a sequence holds.
LEMMA SeqElement ==
  \A S : \A q \in Seq(S) : \A n \in 1..Len(q) : q[n] \in S
OBVIOUS

\* The empty sequence.
LEMMA SeqEmpty ==
  \A S : <<>> \in Seq(S) /\ Len(<<>>) = 0 /\ \A q \in Seq(S) : q # <<>> => Len(q) > 0
OBVIOUS

\* A sequence as a function.
LEMMA SeqLength ==
  \A S : \A q \in Seq(S) : Len(q) \in Nat /\ q \in [1..Len(q) -> S] /\ DOMAIN q = 1..Len(q)
OBVIOUS

\* Sequences with the same elements are equal.
LEMMA SeqSame ==
  \A S : \A q, r \in Seq(S) :
     Len(q) = Len(r) /\ (\A i \in 1..Len(q) : q[i] = r[i]) => q = r
OBVIOUS

\* A concatenation: its type, length and elements.
LEMMA SeqConcat ==
  ASSUME NEW S, NEW q \in Seq(S), NEW r \in Seq(S)
  PROVE  /\ q \o r \in Seq(S)
         /\ Len(q \o r) = Len(q) + Len(r)
         /\ \A i \in 1..Len(q) + Len(r) :
               (q \o r)[i] = IF i <= Len(q) THEN q[i] ELSE r[i - Len(q)]
OBVIOUS

\* A part of a sequence: its type, length and elements.
LEMMA SeqPart ==
  ASSUME NEW S, NEW q, NEW m \in Int, NEW n \in Int, \A i \in m..n : q[i] \in S
  PROVE  /\ SubSeq(q, m, n) \in Seq(S)
         /\ Len(SubSeq(q, m, n)) = IF m <= n THEN n - m + 1 ELSE 0
         /\ \A i \in 1..n - m + 1 : SubSeq(q, m, n)[i] = q[m + i - 1]
OBVIOUS

\* A part that is empty.
LEMMA SeqPartNone ==
  ASSUME NEW q, NEW m \in Int, NEW n \in Int, n < m
  PROVE  SubSeq(q, m, n) = <<>>
OBVIOUS

\* The whole as a part.
LEMMA SeqWhole ==
  \A S : \A q \in Seq(S) : SubSeq(q, 1, Len(q)) = q
OBVIOUS

\* Two parts that meet.
LEMMA SeqParts ==
  ASSUME NEW S, NEW q \in Seq(S), NEW m \in 1..Len(q) + 1,
         NEW k \in m - 1..Len(q), NEW n \in k..Len(q)
  PROVE  SubSeq(q, m, k) \o SubSeq(q, k + 1, n) = SubSeq(q, m, n)
OBVIOUS

-----------------------------------------------------------------------------
\* A part of a sequence: its type and its length.
LEMMA PartOf ==
  ASSUME NEW s \in Seq(Int), NEW m \in 1 .. Len(s) + 1, NEW n \in 0 .. Len(s)
  PROVE  /\ SubSeq(s, m, n) \in Seq(Int)
         /\ Len(SubSeq(s, m, n)) = IF m <= n THEN n - m + 1 ELSE 0
<1>1. \A i \in m .. n : s[i] \in Int
  BY SeqElement
<1>2. m \in Int /\ n \in Int
  BY SeqLength
<1> QED BY <1>1, <1>2, SeqPart

\* The bounds of n places after the first a.
LEMMA Inside ==
  ASSUME NEW a \in Nat, NEW n \in Nat, NEW c \in Nat, n >= 1, a + n <= c
  PROVE  a + 1 \in 1 .. c + 1 /\ a + n \in 0 .. c
  OBVIOUS

\* Bytes laid over a sequence, from any place on.
LEMMA OverlayLength ==
  ASSUME NEW d \in Seq(Int), NEW at \in Nat, NEW bs \in Seq(Int)
  PROVE  /\ Overlay(d, at, bs) \in Seq(Int)
         /\ Len(Overlay(d, at, bs)) =
               IF bs # <<>> /\ at + Len(bs) > Len(d) THEN at + Len(bs) ELSE Len(d)
<1>1. CASE bs = <<>>
  BY <1>1 DEF Overlay
<1>2. CASE bs # <<>>
  <2> DEFINE end == IF at + Len(bs) > Len(d) THEN at + Len(bs) ELSE Len(d)
             elt(i) == IF at < i /\ i <= at + Len(bs) THEN bs[i - at] ELSE IF i <= Len(d) THEN d[i] ELSE 0
  <2>1. Len(d) \in Nat /\ Len(bs) \in Nat
    BY SeqLength
  <2>2. end \in Nat
    BY <2>1
  <2>3. \A i \in 1 .. end : elt(i) \in Int
    <3> SUFFICES ASSUME NEW i \in 1 .. end PROVE elt(i) \in Int
      OBVIOUS
    <3>1. CASE at < i /\ i <= at + Len(bs)
      <4>1. i - at \in 1 .. Len(bs)
        BY <2>1, <2>2, <3>1
      <4> QED BY <3>1, <4>1, SeqElement
    <3>2. CASE ~(at < i /\ i <= at + Len(bs)) /\ i <= Len(d)
      <4>1. i \in 1 .. Len(d)
        BY <2>1, <2>2, <3>2
      <4> QED BY <3>2, <4>1, SeqElement
    <3>3. CASE ~(at < i /\ i <= at + Len(bs)) /\ ~(i <= Len(d))
      BY <3>3
    <3> QED BY <3>1, <3>2, <3>3
  <2>4. Overlay(d, at, bs) = [i \in 1 .. end |-> elt(i)]
    BY <1>2 DEF Overlay
  <2> HIDE DEF end, elt
  <2>5. [i \in 1 .. end |-> elt(i)] \in Seq(Int) /\ Len([i \in 1 .. end |-> elt(i)]) = end
    BY <2>2, <2>3
  <2> QED BY <1>2, <2>4, <2>5 DEF end
<1> QED BY <1>1, <1>2

\* A write: the file keeps its type and grows by what lies beyond its end, and the
\* offset is after the bytes written.
LEMMA WriteGrows ==
  ASSUME NEW ker \in FileSet, NEW app \in BOOLEAN, NEW bs \in Seq(Int)
  PROVE  LET at == IF app THEN Len(ker.data) ELSE ker.off
             w == KWrite(ker, app, bs)
         IN  /\ w \in FileSet /\ w.off = at + Len(bs)
             /\ Len(w.data) = IF bs # <<>> /\ at + Len(bs) > Len(ker.data) THEN at + Len(bs) ELSE Len(ker.data)
<1> DEFINE at == IF app THEN Len(ker.data) ELSE ker.off
           o == Overlay(ker.data, at, bs)
<1>1. ker.data \in Seq(Int) /\ ker.off \in Nat /\ Len(ker.data) \in Nat /\ Len(bs) \in Nat
  BY SeqLength DEF FileSet
<1>2. at \in Nat
  BY <1>1
<1>3. KWrite(ker, app, bs) = [data |-> o, off |-> at + Len(bs)]
  BY DEF KWrite
<1> HIDE DEF at
<1>4. o \in Seq(Int) /\ Len(o) = IF bs # <<>> /\ at + Len(bs) > Len(ker.data) THEN at + Len(bs) ELSE Len(ker.data)
  BY <1>1, <1>2, OverlayLength
<1> HIDE DEF o
<1>5. at + Len(bs) \in Nat
  BY <1>1, <1>2
<1> QED BY <1>3, <1>4, <1>5 DEF FileSet, at

-----------------------------------------------------------------------------
\* The fields of a changed FILE.
LEMMA SetFields ==
  ASSUME NEW f \in FpSet, NEW x \in Flags
  PROVE  LET g == Set(f, x)
         IN  /\ g \in FpSet /\ g.flags = f.flags \cup {x} /\ g.open = f.open /\ g.mode = f.mode
             /\ g.buf = f.buf /\ g.start = f.start /\ g.size = f.size /\ g.pb = f.pb
  BY SMTT(30), ZenonT(40) DEF Set, FpSet

\* What clearing flags leaves alone.
LEMMA ClearFields ==
  ASSUME NEW f \in FpSet, NEW S
  PROVE  LET g == Clear(f, S)
         IN  /\ g \in FpSet /\ g.flags = f.flags \ S /\ g.open = f.open /\ g.mode = f.mode
             /\ g.buf = f.buf /\ g.start = f.start /\ g.size = f.size /\ g.pb = f.pb
  BY DEF Clear, FpSet

\* What a new buffer leaves alone.
LEMMA BufFields ==
  ASSUME NEW f \in FpSet, NEW b \in Seq(Int)
  PROVE  LET g == [f EXCEPT !.buf = b]
         IN  /\ g \in FpSet /\ g.flags = f.flags /\ g.open = f.open /\ g.mode = f.mode
             /\ g.buf = b /\ g.start = f.start /\ g.size = f.size /\ g.pb = f.pb
  BY Zenon DEF FpSet

\* What moving the start leaves alone.
LEMMA StartFields ==
  ASSUME NEW f \in FpSet, NEW n \in Nat
  PROVE  LET g == [f EXCEPT !.start = n]
         IN  /\ g \in FpSet /\ g.flags = f.flags /\ g.open = f.open /\ g.mode = f.mode
             /\ g.buf = f.buf /\ g.start = n /\ g.size = f.size /\ g.pb = f.pb
  BY Zenon DEF FpSet

\* What refilling the buffer leaves alone.
LEMMA RefillFields ==
  ASSUME NEW f \in FpSet, NEW b \in Seq(Int)
  PROVE  LET g == [f EXCEPT !.buf = b, !.start = 0]
         IN  /\ g \in FpSet /\ g.flags = f.flags /\ g.open = f.open /\ g.mode = f.mode
             /\ g.buf = b /\ g.start = 0 /\ g.size = f.size /\ g.pb = f.pb
  BY Zenon DEF FpSet

\* What no call but fopen, fclose and setvbuf changes of a FILE.
Same(f, g) == g.open = f.open /\ g.mode = f.mode /\ g.size = f.size

\* An error changes only the error flag.
LEMMA ErrKeeps ==
  ASSUME NEW f, NEW ker, Good(f, ker)
  PROVE  Good(Set(f, "ERR"), ker) /\ Same(f, Set(f, "ERR"))
<1>1. f \in FpSet /\ "ERR" \in Flags
  BY DEF Good, Flags
<1> DEFINE g == Set(f, "ERR")
<1>2. /\ g \in FpSet /\ g.flags = f.flags \cup {"ERR"} /\ g.open = f.open /\ g.mode = f.mode
      /\ g.buf = f.buf /\ g.start = f.start /\ g.size = f.size
  BY <1>1, SetFields
<1> HIDE DEF g
<1>3. \A x \in Flags : x # "ERR" => (Has(g, x) <=> Has(f, x))
  BY <1>2 DEF Has
<1>4. Unread(g) = Unread(f)
  BY <1>2, <1>3 DEF Unread, Flags
<1>5. Fits(g) /\ Roles(g) /\ AtEnd(g, ker)
  BY <1>2, <1>3, <1>4 DEF Good, Fits, Roles, AtEnd, Flags
<1> QED BY <1>2, <1>5 DEF Good, Same, g

\* A flush keeps the invariant whatever it sends; one that succeeds leaves no writes.
LEMMA FlushKeeps ==
  ASSUME NEW f, NEW ker, Good(f, ker), NEW o \in Flushes(f, ker)
  PROVE  /\ o \in Outcomes /\ Good(o.fp, o.file) /\ Same(f, o.fp)
         /\ o.ok => ~Has(o.fp, "DIRTY")
         /\ Has(o.fp, "UNREAD") <=> Has(f, "UNREAD")
<1>1. /\ f \in FpSet /\ ker \in FileSet /\ f.buf \in Seq(Int) /\ Len(f.buf) \in Nat /\ f.mode.app \in BOOLEAN
      /\ Len(ker.data) \in Nat /\ ker.off \in Nat /\ f.start \in Nat /\ f.size \in Nat
  BY SeqLength DEF Good, FpSet, FileSet, ModeSet, AtEnd
<1>2. CASE ~Has(f, "DIRTY")
  <2>1. o = [ok |-> TRUE, fp |-> f, file |-> ker]
    BY <1>2 DEF Flushes
  <2> QED BY <1>1, <1>2, <2>1 DEF Same, Outcomes
<1>3. CASE Has(f, "DIRTY")
  <2> DEFINE sent(k) == SubSeq(f.buf, 1, k)
             out(k) == KWrite(ker, f.mode.app, sent(k))
             rest(k) == SubSeq(f.buf, k + 1, Len(f.buf))
             clean == Clear([f EXCEPT !.buf = <<>>], {"DIRTY"})
             late(k) == Set([f EXCEPT !.buf = rest(k)], "ERR")
  <2>1. PICK k \in 0 .. Len(f.buf) :
           o = IF k = Len(f.buf) THEN [ok |-> TRUE, fp |-> clean, file |-> out(k)]
               ELSE [ok |-> FALSE, fp |-> late(k), file |-> IF k = 0 THEN ker ELSE out(k)]
    BY <1>3, Zenon DEF Flushes
  <2>2. k \in Nat /\ sent(k) \in Seq(Int) /\ Len(sent(k)) = k
    BY <1>1, PartOf
  <2>3. rest(k) \in Seq(Int) /\ Len(rest(k)) = Len(f.buf) - k
    <3>1. k + 1 \in 1 .. Len(f.buf) + 1 /\ Len(f.buf) \in 0 .. Len(f.buf)
      BY <1>1
    <3>2. rest(k) \in Seq(Int) /\ Len(rest(k)) = IF k + 1 <= Len(f.buf) THEN Len(f.buf) - (k + 1) + 1 ELSE 0
      BY <1>1, <3>1, PartOf
    <3> HIDE DEF rest
    <3> QED BY <1>1, <2>2, <3>2
  <2>4. /\ clean \in FpSet /\ clean.flags = f.flags \ {"DIRTY"} /\ clean.open = f.open /\ clean.mode = f.mode
        /\ clean.buf = <<>> /\ clean.start = f.start /\ clean.size = f.size
    <3> DEFINE e == [f EXCEPT !.buf = <<>>]
    <3>1. <<>> \in Seq(Int)
      OBVIOUS
    <3>2. /\ e \in FpSet /\ e.flags = f.flags /\ e.open = f.open /\ e.mode = f.mode
          /\ e.buf = <<>> /\ e.start = f.start /\ e.size = f.size
      BY <1>1, <3>1, BufFields, Zenon
    <3> HIDE DEF e
    <3>3. clean = Clear(e, {"DIRTY"})
      BY DEF e
    <3> HIDE DEF clean
    <3> QED BY <3>2, <3>3, ClearFields
  <2>5. /\ late(k) \in FpSet /\ late(k).flags = f.flags \cup {"ERR"} /\ late(k).open = f.open
        /\ late(k).mode = f.mode /\ late(k).buf = rest(k) /\ late(k).start = f.start /\ late(k).size = f.size
    <3> HIDE DEF rest
    <3> DEFINE e == [f EXCEPT !.buf = rest(k)]
    <3>1. "ERR" \in Flags
      BY DEF Flags
    <3>2. /\ e \in FpSet /\ e.flags = f.flags /\ e.open = f.open /\ e.mode = f.mode
          /\ e.buf = rest(k) /\ e.start = f.start /\ e.size = f.size
      BY <1>1, <2>3, BufFields
    <3> HIDE DEF e
    <3>3. late(k) = Set(e, "ERR")
      BY DEF e
    <3> HIDE DEF late
    <3> QED BY <3>1, <3>2, <3>3, SetFields
  <2> DEFINE at == IF f.mode.app THEN Len(ker.data) ELSE ker.off
  <2>6. /\ out(k) \in FileSet /\ out(k).off = at + k
        /\ Len(out(k).data) = IF k # 0 /\ at + k > Len(ker.data) THEN at + k ELSE Len(ker.data)
    <3>0. sent(k) # <<>> <=> k # 0
      <4>1. sent(k) \in Seq(Int) /\ Len(sent(k)) = k
        BY <2>2
      <4> HIDE DEF sent
      <4> QED BY <2>2, <4>1, SeqEmpty
    <3> HIDE DEF sent
    <3>1. /\ out(k) \in FileSet /\ out(k).off = at + Len(sent(k))
          /\ Len(out(k).data) = IF sent(k) # <<>> /\ at + Len(sent(k)) > Len(ker.data) THEN at + Len(sent(k))
                                 ELSE Len(ker.data)
      BY <1>1, <2>2, WriteGrows, Zenon
    <3> HIDE DEF out, at
    <3> QED BY <2>2, <3>0, <3>1
  <2>7. at \in Nat
    BY <1>1
  <2>8. Has(f, "EOF") => at >= Len(ker.data)
    BY <1>1 DEF Good, AtEnd
  <2>9. f.start = 0 /\ ~Has(f, "UNREAD") /\ ~Has(f, "PUSHBACK") /\ f.mode.wr
    BY <1>3 DEF Good, Roles
  <2> HIDE DEF sent, out, rest, clean, late, at
  <2>11. Has(f, "EOF") => out(k).off >= Len(out(k).data)
    BY <1>1, <2>2, <2>6, <2>7, <2>8, SMTT(30), ZenonT(40)
  <2>12. CASE k = Len(f.buf)
    <3>1. o = [ok |-> TRUE, fp |-> clean, file |-> out(k)]
      BY <2>1, <2>12
    <3>2. /\ ~Has(clean, "DIRTY")
          /\ \A x \in Flags : x # "DIRTY" => (Has(clean, x) <=> Has(f, x))
      BY <2>4 DEF Has
    <3>3. ~Has(clean, "UNREAD") /\ ~Has(clean, "PUSHBACK") /\ (Has(clean, "EOF") => Has(f, "EOF"))
      BY <2>9, <3>2 DEF Flags
    <3>4. Len(clean.buf) = 0 /\ Unread(clean) = 0
      BY <2>4, <2>9, <3>3 DEF Unread
    <3>5. Fits(clean)
      BY <1>1, <2>4, <2>9, <3>4 DEF Fits, Good
    <3>6. Roles(clean)
      BY <2>4, <2>9, <3>2, <3>3 DEF Roles
    <3>7. AtEnd(clean, out(k))
      BY <2>11, <3>3, <3>4 DEF AtEnd
    <3> QED BY <2>4, <2>6, <2>9, <3>1, <3>2, <3>3, <3>5, <3>6, <3>7 DEF Good, Same, Outcomes
  <2>13. CASE k # Len(f.buf)
    <3> DEFINE ker2 == IF k = 0 THEN ker ELSE out(k)
    <3>1. o = [ok |-> FALSE, fp |-> late(k), file |-> ker2]
      BY <2>1, <2>13
    <3>2. \A x \in Flags : x # "ERR" => (Has(late(k), x) <=> Has(f, x))
      BY <2>5 DEF Has
    <3>3. /\ Has(late(k), "DIRTY") /\ ~Has(late(k), "UNREAD") /\ ~Has(late(k), "PUSHBACK")
          /\ Has(late(k), "EOF") => Has(f, "EOF")
      BY <1>3, <2>9, <3>2 DEF Flags
    <3>4. Fits(late(k))
      BY <1>1, <2>2, <2>3, <2>5, <2>9 DEF Fits, Good
    <3>5. Roles(late(k))
      BY <2>5, <2>9, <3>3 DEF Roles
    <3>6. ker2 \in FileSet /\ AtEnd(late(k), ker2)
      BY <1>1, <2>6, <2>11, <3>3 DEF AtEnd, Good
    <3> HIDE DEF ker2
    <3> QED BY <2>5, <2>9, <3>1, <3>3, <3>4, <3>5, <3>6 DEF Good, Same, Outcomes
  <2> QED BY <2>12, <2>13
<1> QED BY <1>2, <1>3

\* Giving input back keeps the invariant; if it succeeds the stream is not reading.
LEMMA DiscardKeeps ==
  ASSUME NEW f, NEW ker, Good(f, ker)
  PROVE  LET o == Discard(f, ker)
         IN  /\ o \in Outcomes /\ Good(o.fp, o.file) /\ Same(f, o.fp)
             /\ o.ok => ~Has(o.fp, "UNREAD")
             /\ ~Has(f, "DIRTY") => ~Has(o.fp, "DIRTY")
<1> DEFINE e == [f EXCEPT !.buf = <<>>, !.start = 0]
           empty == Clear(e, {"UNREAD", "PUSHBACK"})
           target == KSeek(ker.off - Unread(f))
           moved == [ker EXCEPT !.off = target]
           o == Discard(f, ker)
<1>1. /\ f \in FpSet /\ ker \in FileSet /\ Len(f.buf) \in Nat /\ f.start \in Nat /\ f.size \in Nat
      /\ Len(ker.data) \in Nat /\ ker.off \in Nat /\ f.start <= Len(f.buf)
  BY SeqLength DEF Good, FpSet, FileSet, Fits
<1>2. o = IF ~Has(f, "UNREAD") THEN [ok |-> TRUE, fp |-> f, file |-> ker]
          ELSE IF Unread(f) = 0 THEN [ok |-> TRUE, fp |-> empty, file |-> ker]
          ELSE IF target = -1 THEN [ok |-> FALSE, fp |-> Set(f, "ERR"), file |-> ker]
          ELSE [ok |-> TRUE, fp |-> empty, file |-> moved]
  BY DEF Discard
<1>3. Unread(f) \in Nat
  BY <1>1 DEF Unread
<1>4. /\ empty \in FpSet /\ empty.flags = f.flags \ {"UNREAD", "PUSHBACK"} /\ empty.open = f.open
      /\ empty.mode = f.mode /\ empty.buf = <<>> /\ empty.start = 0 /\ empty.size = f.size
  <2>1. <<>> \in Seq(Int)
    OBVIOUS
  <2>2. /\ e \in FpSet /\ e.flags = f.flags /\ e.open = f.open /\ e.mode = f.mode
        /\ e.buf = <<>> /\ e.start = 0 /\ e.size = f.size
    BY <1>1, <2>1, RefillFields, Zenon
  <2> HIDE DEF e
  <2> QED BY <2>2, ClearFields
<1> HIDE DEF o, empty, e, target, moved
<1>5. CASE ~Has(f, "UNREAD")
  <2>1. o = [ok |-> TRUE, fp |-> f, file |-> ker]
    BY <1>2, <1>5
  <2> QED BY <1>1, <1>5, <2>1 DEF Same, Outcomes, o
<1>6. CASE Has(f, "UNREAD") /\ target = -1 /\ Unread(f) # 0
  <2>1. o = [ok |-> FALSE, fp |-> Set(f, "ERR"), file |-> ker]
    BY <1>2, <1>6
  <2>2. Has(Set(f, "ERR"), "DIRTY") <=> Has(f, "DIRTY")
    <3>1. "ERR" \in Flags
      BY DEF Flags
    <3>2. Set(f, "ERR").flags = f.flags \cup {"ERR"}
      BY <1>1, <3>1, SetFields
    <3> QED BY <3>2 DEF Has
  <2> QED BY <2>1, <2>2, ErrKeeps DEF Outcomes, Good, o
<1>7. CASE Has(f, "UNREAD") /\ (Unread(f) = 0 \/ target # -1)
  <2> DEFINE ker2 == IF Unread(f) = 0 THEN ker ELSE moved
  <2>1. o = [ok |-> TRUE, fp |-> empty, file |-> ker2]
    BY <1>2, <1>7, Zenon
  <2>2. ~Has(f, "DIRTY")
    BY <1>7 DEF Good, Roles
  <2>3. /\ ~Has(empty, "UNREAD") /\ ~Has(empty, "PUSHBACK") /\ ~Has(empty, "DIRTY")
        /\ Has(empty, "EOF") => Has(f, "EOF")
    BY <1>4, <2>2 DEF Has
  <2>4. Len(empty.buf) = 0 /\ Unread(empty) = 0
    BY <1>4, <2>3 DEF Unread
  <2>5. Fits(empty)
    BY <1>1, <1>4, <2>4 DEF Fits, Good
  <2>6. Roles(empty)
    BY <1>4, <2>3 DEF Roles
  <2>7. ker2 \in FileSet
    <3>1. CASE Unread(f) = 0
      BY <1>1, <3>1
    <3>2. CASE Unread(f) # 0
      <4>1. target \in Nat
        BY <1>1, <1>3, <1>7, <3>2 DEF target, KSeek
      <4>2. moved \in FileSet /\ moved.off = target /\ moved.data = ker.data
        BY <1>1, <4>1, SMTT(30), ZenonT(40) DEF moved, FileSet
      <4> QED BY <3>2, <4>1, <4>2
    <3> QED BY <3>1, <3>2
  <2>8. Has(f, "EOF") => ker2.off >= Len(ker2.data)
    BY <2>2 DEF Good, AtEnd
  <2> HIDE DEF ker2
  <2>9. AtEnd(empty, ker2)
    BY <2>3, <2>4, <2>8 DEF AtEnd
  <2> QED BY <1>4, <2>1, <2>3, <2>5, <2>6, <2>7, <2>9 DEF Good, Same, Outcomes, o
<1> QED BY <1>5, <1>6, <1>7

\* The start of a read keeps the invariant; if it succeeds the stream is reading.
LEMMA PrepareReadKeeps ==
  ASSUME NEW f, NEW ker, Good(f, ker), NEW o \in PrepareRead(f, ker)
  PROVE  /\ o \in Outcomes /\ Good(o.fp, o.file) /\ Same(f, o.fp)
         /\ o.ok => Has(o.fp, "UNREAD") /\ ~Has(o.fp, "DIRTY")
<1>1. CASE ~f.mode.rd
  <2>1. o = [ok |-> FALSE, fp |-> Set(f, "ERR"), file |-> ker]
    BY <1>1 DEF PrepareRead
  <2> QED BY <2>1, ErrKeeps DEF Outcomes, Good
<1>2. CASE f.mode.rd
  <2>1. PICK p \in Flushes(f, ker) : o = IF p.ok THEN [p EXCEPT !.fp = Set(@, "UNREAD")] ELSE p
    BY <1>2 DEF PrepareRead
  <2>2. /\ p \in Outcomes /\ Good(p.fp, p.file) /\ Same(f, p.fp)
        /\ p.ok => ~Has(p.fp, "DIRTY")
    BY FlushKeeps
  <2>3. CASE ~p.ok
    BY <2>1, <2>2, <2>3
  <2>4. CASE p.ok
    <3> DEFINE g == Set(p.fp, "UNREAD")
    <3>1. o = [ok |-> p.ok, fp |-> g, file |-> p.file]
      BY <2>1, <2>2, <2>4, Zenon DEF Outcomes
    <3>2. p.fp \in FpSet /\ p.file \in FileSet /\ "UNREAD" \in Flags
      BY <2>2 DEF Good, Flags
    <3>3. /\ g \in FpSet /\ g.flags = p.fp.flags \cup {"UNREAD"} /\ g.open = p.fp.open /\ g.mode = p.fp.mode
          /\ g.buf = p.fp.buf /\ g.start = p.fp.start /\ g.size = p.fp.size
      BY <3>2, SetFields
    <3> HIDE DEF g
    <3>4. Has(g, "UNREAD") /\ \A x \in Flags : x # "UNREAD" => (Has(g, x) <=> Has(p.fp, x))
      BY <3>3 DEF Has
    <3>5. /\ ~Has(g, "DIRTY") /\ (Has(g, "PUSHBACK") <=> Has(p.fp, "PUSHBACK"))
          /\ (Has(g, "EOF") <=> Has(p.fp, "EOF")) /\ g.mode.rd
      BY <1>2, <2>2, <2>4, <3>3, <3>4 DEF Flags, Same
    <3>6. Unread(g) = Unread(p.fp)
      BY <3>3, <3>5 DEF Unread
    <3>7. Fits(g)
      BY <2>2, <3>3 DEF Fits, Good
    <3>8. Roles(g)
      BY <3>3, <3>4, <3>5 DEF Roles
    <3>9. AtEnd(g, p.file)
      BY <2>2, <2>4, <3>5, <3>6 DEF AtEnd, Good
    <3> QED BY <2>2, <2>4, <3>1, <3>2, <3>3, <3>4, <3>5, <3>7, <3>8, <3>9 DEF Good, Same, Outcomes
  <2> QED BY <2>2, <2>3, <2>4
<1> QED BY <1>1, <1>2

\* prepare_write leaves a stream without input.
LEMMA PrepareWriteKeeps ==
  ASSUME NEW f, NEW ker, Good(f, ker)
  PROVE  LET o == PrepareWrite(f, ker)
         IN  /\ o \in Outcomes /\ Good(o.fp, o.file) /\ Same(f, o.fp)
             /\ o.ok => ~Has(o.fp, "UNREAD") /\ o.fp.mode.wr
<1>1. CASE ~f.mode.wr
  <2>1. PrepareWrite(f, ker) = [ok |-> FALSE, fp |-> Set(f, "ERR"), file |-> ker]
    BY <1>1 DEF PrepareWrite
  <2> QED BY <2>1, ErrKeeps DEF Outcomes, Good
<1>2. CASE f.mode.wr
  <2>1. PrepareWrite(f, ker) = Discard(f, ker)
    BY <1>2 DEF PrepareWrite
  <2> QED BY <1>2, <2>1, DiscardKeeps DEF Same
<1> QED BY <1>1, <1>2

\* Filling the buffer of a stream that reads and has used its input up keeps the
\* invariant; if it succeeds there is input again.
LEMMA FillKeeps ==
  ASSUME NEW f, NEW ker, Good(f, ker), f.open, Has(f, "UNREAD"), ~Has(f, "PUSHBACK"),
         f.start >= Len(f.buf), NEW o \in Fills(f, ker)
  PROVE  /\ o \in Outcomes /\ Good(o.fp, o.file) /\ Same(f, o.fp)
         /\ Has(o.fp, "UNREAD") /\ ~Has(o.fp, "PUSHBACK")
         /\ o.ok => o.fp.start < Len(o.fp.buf) /\ ~Has(o.fp, "EOF")
<1> DEFINE left == Len(ker.data) - ker.off
           most == Least(IF Has(f, "UNBUF") THEN 1 ELSE f.size, left)
           part(n) == SubSeq(ker.data, ker.off + 1, ker.off + n)
           filled(n) == [f EXCEPT !.buf = part(n), !.start = 0]
           read(n) == [ker EXCEPT !.off = @ + n]
<1>1. /\ f \in FpSet /\ ker \in FileSet /\ f.buf \in Seq(Int) /\ Len(f.buf) \in Nat /\ f.start \in Nat
      /\ f.size \in Nat /\ f.size >= 1 /\ f.start <= Len(f.buf)
      /\ ker.data \in Seq(Int) /\ Len(ker.data) \in Nat /\ ker.off \in Nat
  BY SeqLength DEF Good, FpSet, FileSet, Fits
<1>2. Unread(f) = 0 /\ ~Has(f, "DIRTY") /\ f.mode.rd
  BY <1>1 DEF Unread, Good, Roles
<1>3. \/ o = [ok |-> FALSE, fp |-> f, file |-> ker]
      \/ o = [ok |-> FALSE, fp |-> Set(f, "ERR"), file |-> ker]
      \/ left <= 0 /\ o = [ok |-> FALSE, fp |-> Set(f, "EOF"), file |-> ker]
      \/ /\ ~Has(f, "EOF")
         /\ \E n \in 1 .. most : o = [ok |-> TRUE, fp |-> filled(n), file |-> read(n)]
  BY Zenon DEF Fills
<1> DEFINE len == Len(ker.data)
<1>m. most \in Int /\ most <= f.size /\ most <= len - ker.off
  BY <1>1 DEF Least
<1>4. CASE o = [ok |-> FALSE, fp |-> f, file |-> ker]
  BY <1>1, <1>4, Zenon DEF Outcomes, Same
<1>5. CASE o = [ok |-> FALSE, fp |-> Set(f, "ERR"), file |-> ker]
  <2>1. "ERR" \in Flags
    BY DEF Flags
  <2>2. Set(f, "ERR").flags = f.flags \cup {"ERR"}
    BY <1>1, <2>1, SetFields
  <2>3. Has(Set(f, "ERR"), "UNREAD") /\ ~Has(Set(f, "ERR"), "PUSHBACK")
    BY <2>2 DEF Has
  <2> QED BY <1>5, <2>3, ErrKeeps DEF Outcomes, Good
<1>6. CASE left <= 0 /\ o = [ok |-> FALSE, fp |-> Set(f, "EOF"), file |-> ker]
  <2> DEFINE g == Set(f, "EOF")
  <2>1. "EOF" \in Flags
    BY DEF Flags
  <2>2. /\ g \in FpSet /\ g.flags = f.flags \cup {"EOF"} /\ g.open = f.open /\ g.mode = f.mode
        /\ g.buf = f.buf /\ g.start = f.start /\ g.size = f.size
    BY <1>1, <2>1, SetFields, Zenon
  <2> HIDE DEF g
  <2>3. Has(g, "UNREAD") /\ ~Has(g, "PUSHBACK") /\ ~Has(g, "DIRTY")
    BY <1>2, <2>2 DEF Has
  <2>4. Unread(g) = 0
    BY <1>2, <2>2, <2>3 DEF Unread
  <2>5. Fits(g)
    BY <2>2 DEF Fits, Good
  <2>6. Roles(g)
    BY <1>2, <2>2, <2>3 DEF Roles
  <2>7. AtEnd(g, ker)
    BY <1>1, <1>6, <2>4 DEF AtEnd
  <2>8. o = [ok |-> FALSE, fp |-> g, file |-> ker]
    BY <1>6 DEF g
  <2> QED BY <1>1, <2>2, <2>3, <2>5, <2>6, <2>7, <2>8, Zenon DEF Outcomes, Good, Same
<1>7. ASSUME ~Has(f, "EOF"), NEW n \in 1 .. most,
             o = [ok |-> TRUE, fp |-> filled(n), file |-> read(n)]
      PROVE  /\ o \in Outcomes /\ Good(o.fp, o.file) /\ Same(f, o.fp)
             /\ Has(o.fp, "UNREAD") /\ ~Has(o.fp, "PUSHBACK")
             /\ o.ok => o.fp.start < Len(o.fp.buf) /\ ~Has(o.fp, "EOF")
  <2>1. n \in Nat /\ n >= 1 /\ n <= f.size /\ ker.off + n <= Len(ker.data)
    <3>1. len \in Nat
      BY <1>1
    <3> HIDE DEF most, len
    <3>2. n \in Nat /\ n >= 1 /\ n <= f.size /\ ker.off + n <= len
      BY <1>1, <1>m, <3>1
    <3> QED BY <3>2 DEF len
  <2>2. part(n) \in Seq(Int) /\ Len(part(n)) = n
    <3>1. ker.off + 1 \in 1 .. Len(ker.data) + 1 /\ ker.off + n \in 0 .. Len(ker.data)
      <4>1. len \in Nat /\ ker.off + n <= len
        BY <1>1, <2>1
      <4> HIDE DEF most, len, part, filled, read, left
      <4>2. ker.off + 1 \in 1 .. len + 1 /\ ker.off + n \in 0 .. len
        BY <1>1, <2>1, <4>1, Inside, Zenon
      <4> QED BY <4>2 DEF len
    <3>2. /\ part(n) \in Seq(Int)
          /\ Len(part(n)) = IF ker.off + 1 <= ker.off + n THEN (ker.off + n) - (ker.off + 1) + 1 ELSE 0
      BY <1>1, <3>1, PartOf
    <3> HIDE DEF part
    <3> QED BY <1>1, <2>1, <3>2
  <2> DEFINE g == filled(n)
             k == read(n)
  <2>3. k \in FileSet /\ k.data = ker.data /\ k.off = ker.off + n
    <3>1. ker.off + n \in Nat
      BY <1>1, <2>1, SMTT(30), ZenonT(40)
    <3> QED BY <1>1, <3>1, Zenon DEF FileSet
  <2> HIDE DEF part, most, left, len
  <2>4. /\ g \in FpSet /\ g.flags = f.flags /\ g.open = f.open /\ g.mode = f.mode
        /\ g.buf = part(n) /\ g.start = 0 /\ g.size = f.size
    BY <1>1, <2>2, RefillFields, Zenon
  <2> HIDE DEF g, k, filled, read
  <2>5. /\ Has(g, "UNREAD") /\ ~Has(g, "PUSHBACK") /\ ~Has(g, "DIRTY") /\ ~Has(g, "EOF") /\ g.mode.rd
    BY <1>2, <1>7, <2>4 DEF Has
  <2>6. Fits(g)
    BY <1>1, <2>1, <2>2, <2>4 DEF Fits
  <2>7. Roles(g)
    BY <2>5 DEF Roles
  <2>8. AtEnd(g, k)
    BY <1>1, <2>1, <2>3, <2>5 DEF AtEnd
  <2>9. o = [ok |-> TRUE, fp |-> g, file |-> k]
    BY <1>7 DEF g, k
  <2>10. Good(g, k) /\ Same(f, g) /\ g.start < Len(g.buf)
    BY <2>1, <2>2, <2>3, <2>4, <2>6, <2>7, <2>8 DEF Good, Same
  <2> QED BY <2>3, <2>4, <2>5, <2>9, <2>10 DEF Outcomes
<1> HIDE DEF left, most, part, filled, read, len
<1> QED BY <1>3, <1>4, <1>5, <1>6, <1>7

-----------------------------------------------------------------------------
(* Bytes laid over bytes.                                                  *)

\* The n elements after the first a.
LEMMA PartFrom ==
  ASSUME NEW s \in Seq(Int), NEW a \in Nat, NEW n \in Nat, a + n <= Len(s)
  PROVE  /\ SubSeq(s, a + 1, a + n) \in Seq(Int) /\ Len(SubSeq(s, a + 1, a + n)) = n
         /\ \A i \in 1 .. n : SubSeq(s, a + 1, a + n)[i] = s[a + i]
<1>1. \A i \in a + 1 .. a + n : s[i] \in Int
  OBVIOUS
<1> QED BY <1>1

\* The n elements after a of s are those after b of t.
Agree(s, a, t, b, n) == \A i \in 1 .. n : s[a + i] = t[b + i]

\* Parts of two sequences that agree element by element.
LEMMA SameParts ==
  ASSUME NEW s \in Seq(Int), NEW t \in Seq(Int), NEW a \in Nat, NEW b \in Nat, NEW n \in Nat,
         a + n <= Len(s), b + n <= Len(t), Agree(s, a, t, b, n)
  PROVE  SubSeq(s, a + 1, a + n) = SubSeq(t, b + 1, b + n)
<1> DEFINE x == SubSeq(s, a + 1, a + n)
           y == SubSeq(t, b + 1, b + n)
<1>1. x \in Seq(Int) /\ Len(x) = n /\ \A i \in 1 .. n : x[i] = s[a + i]
  BY PartFrom, SMTT(60), ZenonT(40)
<1>2. y \in Seq(Int) /\ Len(y) = n /\ \A i \in 1 .. n : y[i] = t[b + i]
  BY PartFrom, SMTT(60), ZenonT(40)
<1> HIDE DEF x, y
<1>3. x = y
  BY <1>1, <1>2, SeqSame, ZenonT(40) DEF Agree
<1> QED BY <1>3 DEF x, y

\* Where a reader of a buffer is in the file: len bytes end at off, and start of
\* them are used.
LEMMA Behind ==
  ASSUME NEW off \in Nat, NEW len \in Nat, NEW start \in Nat, NEW n \in Nat, NEW total \in Nat,
         start + n <= len, len <= off, off <= total
  PROVE  /\ off - (len - start) \in Nat
         /\ off - (len - start) + n <= total
         /\ off - (len - (start + n)) = off - (len - start) + n
         /\ \A i \in 1 .. n : start + i \in 1 .. len /\ off - len + (start + i) = off - (len - start) + i
  OBVIOUS

\* The elements of an overlay.
LEMMA OverlayAt ==
  ASSUME NEW d \in Seq(Int), NEW at \in Nat, NEW bs \in Seq(Int),
         NEW i \in 1 .. Len(Overlay(d, at, bs))
  PROVE  Overlay(d, at, bs)[i] =
           IF at < i /\ i <= at + Len(bs) THEN bs[i - at] ELSE IF i <= Len(d) THEN d[i] ELSE 0
<1> DEFINE end == IF at + Len(bs) > Len(d) THEN at + Len(bs) ELSE Len(d)
           elt(j) == IF at < j /\ j <= at + Len(bs) THEN bs[j - at] ELSE IF j <= Len(d) THEN d[j] ELSE 0
<1>1. Len(d) \in Nat /\ Len(bs) \in Nat /\ end \in Nat
  BY SeqLength
<1>2. CASE bs = <<>>
  <2>1. Overlay(d, at, bs) = d /\ Len(bs) = 0
    BY <1>2 DEF Overlay
  <2>2. i \in 1 .. Len(d)
    BY <2>1
  <2> HIDE DEF end
  <2>3. ~(at < i /\ i <= at + Len(bs)) /\ i <= Len(d)
    BY <1>1, <2>1, <2>2
  <2> QED BY <2>1, <2>3
<1>3. CASE bs # <<>>
  <2>1. Overlay(d, at, bs) = [j \in 1 .. end |-> elt(j)]
    BY <1>3 DEF Overlay
  <2>2. Len(Overlay(d, at, bs)) = end
    BY <1>3, OverlayLength
  <2> HIDE DEF end, elt
  <2>3. i \in 1 .. end
    BY <2>2
  <2>4. Overlay(d, at, bs)[i] = elt(i)
    BY <2>1, <2>3
  <2> QED BY <2>4 DEF elt
<1> QED BY <1>2, <1>3

\* How far two writes in a row reach.
LEMMA ReachTwice ==
  ASSUME NEW a \in Nat, NEW b \in Nat, NEW c \in Nat, NEW d \in Nat, NEW m, NEW n, NEW w,
         m = IF a + b > d THEN a + b ELSE d,
         n = IF a + b + c > m THEN a + b + c ELSE m,
         w = IF a + (b + c) > d THEN a + (b + c) ELSE d
  PROVE  n = w
<1>1. m \in Nat /\ n \in Nat /\ w \in Nat
  OBVIOUS
<1>2. CASE a + b > d
  BY <1>1, <1>2
<1>3. CASE ~(a + b > d)
  BY <1>1, <1>3
<1> QED BY <1>2, <1>3

\* A second write right behind the first is one longer write.
LEMMA OverlayTwice ==
  ASSUME NEW d \in Seq(Int), NEW at \in Nat, NEW b \in Seq(Int), NEW c \in Seq(Int)
  PROVE  Overlay(Overlay(d, at, b), at + Len(b), c) = Overlay(d, at, b \o c)
<1> DEFINE one == Overlay(d, at, b)
           two == Overlay(one, at + Len(b), c)
           bc == b \o c
           all == Overlay(d, at, bc)
<1>1. Len(d) \in Nat /\ Len(b) \in Nat /\ Len(c) \in Nat /\ at \in Nat /\ at + Len(b) \in Nat
  BY SeqLength
<1>2. one \in Seq(Int) /\ Len(one) = IF b # <<>> /\ at + Len(b) > Len(d) THEN at + Len(b) ELSE Len(d)
  BY OverlayLength
<1>3. \A i \in 1 .. Len(one) : one[i] =
         IF at < i /\ i <= at + Len(b) THEN b[i - at] ELSE IF i <= Len(d) THEN d[i] ELSE 0
  BY OverlayAt
<1>4. /\ bc \in Seq(Int) /\ Len(bc) = Len(b) + Len(c)
      /\ \A i \in 1 .. Len(b) + Len(c) : bc[i] = IF i <= Len(b) THEN b[i] ELSE c[i - Len(b)]
  BY SeqConcat
<1>5. CASE b = <<>>
  <2>1. one = d /\ bc = c /\ at + Len(b) = at
    BY <1>5 DEF Overlay
  <2> HIDE DEF one, bc
  <2> QED BY <2>1 DEF one, bc
<1>6. CASE c = <<>>
  <2>1. two = one /\ bc = b
    BY <1>6 DEF Overlay
  <2> HIDE DEF bc, two
  <2> QED BY <2>1 DEF bc, two
<1>7. CASE b # <<>> /\ c # <<>>
  <2> HIDE DEF one, bc
  <2>0. Len(b) # 0 /\ Len(c) # 0 /\ bc # <<>>
    BY <1>1, <1>4, <1>7, SeqEmpty
  <2>1. /\ two \in Seq(Int)
        /\ Len(two) = IF at + Len(b) + Len(c) > Len(one) THEN at + Len(b) + Len(c) ELSE Len(one)
    BY <1>1, <1>2, <1>7, OverlayLength, Zenon
  <2>2. \A i \in 1 .. Len(two) : two[i] =
           IF at + Len(b) < i /\ i <= at + Len(b) + Len(c) THEN c[i - (at + Len(b))]
           ELSE IF i <= Len(one) THEN one[i] ELSE 0
    BY <1>1, <1>2, OverlayAt, Zenon
  <2>3. all \in Seq(Int) /\ Len(all) = IF at + Len(bc) > Len(d) THEN at + Len(bc) ELSE Len(d)
    BY <1>4, <2>0, OverlayLength, Zenon
  <2>4. \A i \in 1 .. Len(all) : all[i] =
           IF at < i /\ i <= at + Len(bc) THEN bc[i - at] ELSE IF i <= Len(d) THEN d[i] ELSE 0
    BY <1>4, OverlayAt, Zenon
  <2> HIDE DEF two, all
  <2>5. Len(two) = Len(all)
    <3> DEFINE lb == Len(b)
               lc == Len(c)
               ld == Len(d)
               m == Len(one)
               n == Len(two)
               w == Len(all)
    <3>1. lb \in Nat /\ lc \in Nat /\ ld \in Nat
      BY <1>1
    <3>2. /\ m = IF at + lb > ld THEN at + lb ELSE ld
          /\ n = IF at + lb + lc > m THEN at + lb + lc ELSE m
          /\ w = IF at + (lb + lc) > ld THEN at + (lb + lc) ELSE ld
      BY <1>2, <1>4, <1>7, <2>1, <2>3, Zenon
    <3> HIDE DEF lb, lc, ld, m, n, w
    <3>3. n = w
      BY <3>1, <3>2, ReachTwice
    <3> QED BY <3>3 DEF n, w
  <2>6. Len(one) = IF at + Len(b) > Len(d) THEN at + Len(b) ELSE Len(d)
    BY <1>2, <1>7, Zenon
  <2>7. ASSUME NEW i \in 1 .. Len(two) PROVE two[i] = all[i]
    <3>1. i \in Nat /\ 1 <= i /\ i \in 1 .. Len(all)
      BY <2>1, <2>5
    <3>2. CASE i <= at
      <4>1. ~(at + Len(b) < i) /\ ~(at < i) /\ (i <= Len(d) => i \in 1 .. Len(one) /\ i <= Len(one))
        BY <1>1, <2>6, <3>1, <3>2
      <4>2. at + Len(b) <= Len(one) /\ Len(one) \in Nat
        BY <1>1, <2>6
      <4>3. i \in 1 .. Len(one) /\ i <= Len(one)
        BY <1>1, <3>1, <3>2, <4>2
      <4> QED BY <1>3, <2>2, <2>4, <3>1, <4>1, <4>3, Zenon
    <3>3. CASE at < i /\ i <= at + Len(b)
      <4>1. /\ i \in 1 .. Len(one) /\ i <= Len(one) /\ ~(at + Len(b) < i) /\ i <= at + Len(bc)
            /\ i - at \in 1 .. Len(b) + Len(c) /\ i - at <= Len(b)
        BY <1>1, <1>4, <2>6, <3>1, <3>3
      <4>2. two[i] = b[i - at]
        BY <1>3, <2>2, <3>3, <4>1, Zenon
      <4>3. all[i] = bc[i - at] /\ bc[i - at] = b[i - at]
        BY <1>4, <2>4, <3>1, <3>3, <4>1, Zenon
      <4> QED BY <4>2, <4>3
    <3>4. CASE at + Len(b) < i /\ i <= at + Len(b) + Len(c)
      <4>1. /\ at < i /\ i <= at + Len(bc) /\ i - at \in 1 .. Len(b) + Len(c)
            /\ ~(i - at <= Len(b)) /\ i - (at + Len(b)) = (i - at) - Len(b)
        BY <1>1, <1>4, <3>1, <3>4
      <4>2. two[i] = c[i - (at + Len(b))]
        BY <2>2, <3>4, Zenon
      <4>3. all[i] = bc[i - at] /\ bc[i - at] = c[(i - at) - Len(b)]
        BY <1>4, <2>4, <3>1, <4>1, Zenon
      <4> QED BY <4>1, <4>2, <4>3, ZenonT(40)
    <3>5. CASE at + Len(b) + Len(c) < i
      <4>1. /\ ~(i <= at + Len(b) + Len(c)) /\ ~(i <= at + Len(bc)) /\ ~(i <= at + Len(b))
            /\ i <= Len(d) /\ i \in 1 .. Len(one) /\ i <= Len(one)
        <5>1. i <= Len(two) /\ Len(one) \in Nat
          BY <1>1, <2>1, <2>6, <3>1
        <5>2. Len(two) = Len(one)
          BY <1>1, <2>1, <3>1, <3>5, <5>1
        <5>3. Len(one) = Len(d)
          BY <1>1, <2>6, <3>1, <3>5, <5>1, <5>2
        <5> QED BY <1>1, <1>4, <3>1, <3>5, <5>1, <5>2, <5>3
      <4> QED BY <1>3, <2>2, <2>4, <3>1, <4>1, Zenon
    <3> QED BY <1>1, <3>1, <3>2, <3>3, <3>4, <3>5
  <2> QED BY <2>1, <2>3, <2>5, <2>7, SeqSame, Zenon DEF two, all, one, bc
<1> QED BY <1>5, <1>6, <1>7

\* Writing nothing changes nothing.
LEMMA OverlayNone ==
  ASSUME NEW d \in Seq(Int), NEW at \in Nat
  PROVE  Overlay(d, at, <<>>) = d
  BY DEF Overlay

-----------------------------------------------------------------------------
(* The calls.                                                              *)

CallTyped ==
    \/ call = Idle
    \/ call \in [op : {"fwrite"}, rest : Seq(Int), put : Nat]
    \/ call \in [op : {"fread"}, want : Nat, got : Nat]

\* The inductive invariant.
IInv ==
    /\ Good(fp, file)
    /\ CallTyped
    /\ call.op = "fwrite" => fp.open /\ fp.mode.wr /\ ~Has(fp, "UNREAD")
    /\ call.op = "fread" => fp.open /\ Has(fp, "UNREAD") /\ call.got < call.want

-----------------------------------------------------------------------------
\* A call that returns leaves the invariant to what it left of the FILE.
LEMMA ReturnsKeep ==
  ASSUME NEW op, NEW arg, NEW val, NEW o, ReturnsFrom(op, arg, val, o), Good(o.fp, o.file)
  PROVE  IInv'
<1>1. fp' = o.fp /\ file' = o.file /\ call' = Idle
  BY DEF ReturnsFrom
<1>2. call'.op = "idle"
  BY <1>1 DEF Idle
<1> QED BY <1>1, <1>2 DEF IInv, CallTyped

\* A FILE that was just opened.
LEMMA OpenedGood ==
  ASSUME NEW m, NEW d \in Seq(Int)
  PROVE  Good(Opened(m), [data |-> d, off |-> 0])
<1> DEFINE g == Opened(m)
           k == [data |-> d, off |-> 0]
<1>1. OpenMode(m) \in ModeSet
  BY DEF OpenMode, ModeSet
<1>2. g.flags \in SUBSET {"LINE_BUF", "UNBUF"}
  BY DEF Opened
<1>3. /\ g \in FpSet /\ g.open = TRUE /\ g.buf = <<>> /\ g.start = 0 /\ g.size = FILE_BUF_SIZE
  BY <1>1, <1>2, BufferAssumption, BytesAssumption DEF Opened, FpSet, Flags
<1>4. k \in FileSet /\ k.off = 0 /\ Len(k.data) \in Nat
  BY SeqLength DEF FileSet
<1> HIDE DEF g, k
<1>5. ~Has(g, "DIRTY") /\ ~Has(g, "UNREAD") /\ ~Has(g, "PUSHBACK") /\ ~Has(g, "EOF")
  BY <1>2 DEF Has
<1>6. Len(g.buf) = 0
  BY <1>3
<1>7. Fits(g)
  BY <1>3, <1>6, BufferAssumption DEF Fits
<1>8. Roles(g)
  BY <1>3, <1>5 DEF Roles
<1>9. AtEnd(g, k)
  BY <1>4, <1>5 DEF AtEnd
<1> QED BY <1>3, <1>4, <1>7, <1>8, <1>9 DEF Good, g, k

\* A FILE that was just closed.
LEMMA ClosedGood ==
  ASSUME NEW f, NEW ker, Good(f, ker)
  PROVE  Good(Closed(f), ker)
<1> DEFINE g == Closed(f)
<1>1. OpenMode("none") \in ModeSet /\ f \in FpSet
  BY DEF OpenMode, ModeSet, Good
<1>2. g \in FpSet /\ g.open = FALSE /\ g.flags = {} /\ g.buf = <<>> /\ g.start = 0 /\ g.size = 0
  <2>1. f.pb \in Int /\ <<>> \in Seq(Int)
    BY <1>1 DEF FpSet
  <2> QED BY <1>1, <2>1 DEF Closed, FpSet
<1> HIDE DEF g
<1>3. ~Has(g, "DIRTY") /\ ~Has(g, "UNREAD") /\ ~Has(g, "PUSHBACK") /\ ~Has(g, "EOF") /\ Len(g.buf) = 0
  BY <1>2 DEF Has
<1>4. Fits(g) /\ Roles(g) /\ AtEnd(g, ker)
  BY <1>2, <1>3 DEF Fits, Roles, AtEnd, Good
<1> QED BY <1>2, <1>4 DEF Good, g

\* The invariant holds at the start.
LEMMA InitInv == Init => IInv
<1> SUFFICES ASSUME Init PROVE IInv
  OBVIOUS
<1>1. PICK m \in Modes :
        fp = Opened(m) /\ file = [data |-> IF OpenMode(m).trunc THEN <<>> ELSE Data0, off |-> 0]
  BY DEF Init
<1>2. (IF OpenMode(m).trunc THEN <<>> ELSE Data0) \in Seq(Int)
  BY BytesAssumption
<1>3. Good(fp, file)
  BY <1>1, <1>2, OpenedGood, Zenon
<1>4. call = Idle /\ call.op = "idle"
  BY DEF Init, Idle
<1> QED BY <1>3, <1>4 DEF IInv, CallTyped

-----------------------------------------------------------------------------
(* One lemma per action.                                                    *)

\* fopen keeps the invariant.
LEMMA FopenInv == ASSUME IInv, NEW m \in Modes, Fopen(m) PROVE IInv'
<1> DEFINE d == IF OpenMode(m).trunc THEN <<>> ELSE file.data
           o == [fp |-> Opened(m), file |-> [data |-> d, off |-> 0]]
<1>1. ReturnsFrom("fopen", 0, 0, o)
  BY DEF Fopen, Returns
<1>2. d \in Seq(Int)
  BY DEF IInv, Good, FileSet
<1> HIDE DEF d
<1>3. Good(o.fp, o.file)
  BY <1>2, OpenedGood
<1> HIDE DEF o
<1> QED BY <1>1, <1>3, ReturnsKeep

\* fclose keeps the invariant.
LEMMA FcloseInv == ASSUME IInv, Fclose PROVE IInv'
<1>1. PICK o \in Flushes(fp, file), closes \in BOOLEAN :
         ReturnsFrom("fclose", 0, IF o.ok /\ closes THEN 0 ELSE EOF, [fp |-> Closed(o.fp), file |-> o.file])
  BY DEF Fclose, Returns
<1>2. Good(fp, file)
  BY DEF IInv
<1>3. Good(Closed(o.fp), o.file)
  BY <1>2, FlushKeeps, ClosedGood
<1> QED BY <1>1, <1>3, ReturnsKeep

\* fflush keeps the invariant.
LEMMA FflushInv == ASSUME IInv, Fflush PROVE IInv'
<1>1. PICK o \in FlushAndDiscard(fp, file) : ReturnsFrom("fflush", 0, IF o.ok THEN 0 ELSE EOF, o)
  BY DEF Fflush, Returns
<1>2. Good(fp, file)
  BY DEF IInv
<1>3. PICK p \in Flushes(fp, file) : o = IF p.ok THEN Discard(p.fp, p.file) ELSE p
  BY DEF FlushAndDiscard
<1>4. Good(o.fp, o.file)
  BY <1>2, <1>3, FlushKeeps, DiscardKeeps
<1> QED BY <1>1, <1>4, ReturnsKeep

\* fwrite keeps the invariant.
LEMMA FwriteInv == ASSUME IInv, NEW bs \in Inputs, Fwrite(bs) PROVE IInv'
<1> DEFINE o == PrepareWrite(fp, file)
<1>1. Good(fp, file) /\ fp.open /\ bs \in Seq(Int)
  BY BytesAssumption DEF IInv, Fwrite, IsOpen
<1>2. /\ o \in Outcomes /\ Good(o.fp, o.file) /\ Same(fp, o.fp)
      /\ o.ok => ~Has(o.fp, "UNREAD") /\ o.fp.mode.wr
  BY <1>1, PrepareWriteKeeps
<1>3. IF ~o.ok THEN ReturnsFrom("fwrite", 0, 0, o)
      ELSE call' = [op |-> "fwrite", rest |-> bs, put |-> 0] /\ fp' = o.fp /\ file' = o.file
  BY DEF Fwrite, Returns
<1> HIDE DEF o
<1>4. CASE ~o.ok
  BY <1>2, <1>3, <1>4, ReturnsKeep
<1>5. CASE o.ok
  <2>1. call' \in [op : {"fwrite"}, rest : Seq(Int), put : Nat] /\ call'.op = "fwrite"
    BY <1>1, <1>3, <1>5
  <2>2. fp' = o.fp /\ file' = o.file /\ o.fp.open
    BY <1>1, <1>2, <1>3, <1>5 DEF Same
  <2> QED BY <1>2, <1>5, <2>1, <2>2 DEF IInv, CallTyped
<1> QED BY <1>4, <1>5

\* fread keeps the invariant.
LEMMA FreadInv == ASSUME IInv, NEW want \in 1 .. MaxLen, Fread(want) PROVE IInv'
<1>1. Good(fp, file) /\ fp.open /\ want \in Nat /\ 0 < want
  BY LengthAssumption DEF IInv, Fread, IsOpen
<1>2. PICK o \in PrepareRead(fp, file) :
        IF ~o.ok THEN ReturnsFrom("fread", 0, 0, o)
        ELSE call' = [op |-> "fread", want |-> want, got |-> 0] /\ fp' = o.fp /\ file' = o.file
  BY DEF Fread, Returns
<1>3. /\ o \in Outcomes /\ Good(o.fp, o.file) /\ Same(fp, o.fp)
      /\ o.ok => Has(o.fp, "UNREAD") /\ ~Has(o.fp, "DIRTY")
  BY <1>1, PrepareReadKeeps
<1>4. CASE ~o.ok
  BY <1>2, <1>3, <1>4, ReturnsKeep
<1>5. CASE o.ok
  <2>1. /\ call' \in [op : {"fread"}, want : Nat, got : Nat] /\ call'.op = "fread"
        /\ call'.got < call'.want
    BY <1>1, <1>2, <1>5
  <2>2. fp' = o.fp /\ file' = o.file /\ o.fp.open
    BY <1>1, <1>2, <1>3, <1>5 DEF Same
  <2> QED BY <1>3, <1>5, <2>1, <2>2 DEF IInv, CallTyped
<1> QED BY <1>4, <1>5

\* clearerr keeps the invariant.
LEMMA ClearerrInv == ASSUME IInv, Clearerr PROVE IInv'
<1> DEFINE g == Clear(fp, {"EOF", "ERR"})
           o == [fp |-> g, file |-> file]
<1>1. ReturnsFrom("clearerr", 0, 0, o)
  BY DEF Clearerr, Returns
<1>2. Good(fp, file) /\ fp \in FpSet
  BY DEF IInv, Good
<1>3. /\ g \in FpSet /\ g.flags = fp.flags \ {"EOF", "ERR"} /\ g.open = fp.open /\ g.mode = fp.mode
      /\ g.buf = fp.buf /\ g.start = fp.start /\ g.size = fp.size
  BY <1>2, ClearFields
<1> HIDE DEF g
<1>4. /\ \A x \in {"DIRTY", "UNREAD", "PUSHBACK"} : Has(g, x) <=> Has(fp, x)
      /\ ~Has(g, "EOF")
  BY <1>3 DEF Has
<1>5. Fits(g) /\ Roles(g) /\ AtEnd(g, file)
  BY <1>2, <1>3, <1>4 DEF Good, Fits, Roles, AtEnd
<1>6. Good(o.fp, o.file)
  BY <1>2, <1>3, <1>5 DEF Good
<1> HIDE DEF o
<1> QED BY <1>1, <1>6, ReturnsKeep

\* The copy of a turn of fwrite's loop: bytes in a buffer with room for them.
LEMMA CopyKeeps ==
  ASSUME IInv, call.op = "fwrite", NEW f, NEW ker, Good(f, ker), f.open, f.mode.wr, ~Has(f, "UNREAD")
  PROVE  Good(Copied(f), ker) /\ Same(f, Copied(f)) /\ ~Has(Copied(f), "UNREAD") /\ Take(f) \in 0 .. Len(call.rest)
<1> DEFINE part == SubSeq(call.rest, 1, Take(f))
           longer == f.buf \o part
           e == [f EXCEPT !.buf = longer]
           g == Copied(f)
           have == Len(f.buf)
           more == Len(call.rest)
<1>1. /\ f \in FpSet /\ ker \in FileSet /\ f.buf \in Seq(Int) /\ have \in Nat /\ f.size \in Nat
      /\ have <= f.size /\ f.start \in Nat /\ f.start <= have
  BY SeqLength DEF Good, FpSet, Fits
<1>2. call.rest \in Seq(Int) /\ more \in Nat
  <2>1. call \in [op : {"fwrite"}, rest : Seq(Int), put : Nat]
    BY DEF IInv, CallTyped, Idle
  <2> QED BY <2>1, SeqLength
<1>3. Take(f) = Least(f.size - have, more)
  BY DEF Take
<1>4. e.buf = longer /\ g = Set(e, "DIRTY")
  BY <1>1, Zenon DEF Copied, FpSet
<1> HIDE DEF have, more
<1>5. Take(f) \in 0 .. more /\ have + Take(f) <= f.size
  BY <1>1, <1>2, <1>3 DEF Least
<1>6. part \in Seq(Int) /\ Len(part) = Take(f)
  <2>1. Take(f) \in 0 .. Len(call.rest) /\ 1 \in 1 .. Len(call.rest) + 1
    BY <1>2, <1>5 DEF more
  <2>2. part \in Seq(Int) /\ Len(part) = IF 1 <= Take(f) THEN Take(f) - 1 + 1 ELSE 0
    BY <1>2, <2>1, PartOf
  <2> HIDE DEF part
  <2> QED BY <1>2, <1>5, <2>2
<1> HIDE DEF part
<1>7. longer \in Seq(Int) /\ Len(longer) = have + Take(f)
  <2>0. f.buf \in Seq(Int) /\ part \in Seq(Int)
    BY <1>1, <1>6, ZenonT(40)
  <2>1. longer \in Seq(Int) /\ Len(longer) = Len(f.buf) + Len(part)
    BY ONLY <2>0, SeqConcat, ZenonT(40)
  <2> HIDE DEF longer
  <2> QED BY <1>6, <2>1 DEF have
<1> HIDE DEF longer
<1>8. /\ e \in FpSet /\ e.flags = f.flags /\ e.open = f.open /\ e.mode = f.mode
      /\ e.buf = longer /\ e.start = f.start /\ e.size = f.size
  BY <1>1, <1>7, BufFields, Zenon
<1> HIDE DEF e, g
<1>9. "DIRTY" \in Flags
  BY DEF Flags
<1>10. /\ g \in FpSet /\ g.flags = f.flags \cup {"DIRTY"} /\ g.open = f.open /\ g.mode = f.mode
       /\ g.buf = longer /\ g.start = f.start /\ g.size = f.size
  BY <1>4, <1>8, <1>9, SetFields, Zenon
<1>11. Has(g, "DIRTY") /\ ~Has(g, "UNREAD") /\ (Has(g, "PUSHBACK") <=> Has(f, "PUSHBACK"))
       /\ (Has(g, "EOF") <=> Has(f, "EOF"))
  BY <1>10 DEF Has
<1>12. Fits(g)
  BY <1>1, <1>2, <1>5, <1>7, <1>10 DEF Fits, Good
<1>13. Roles(g)
  BY <1>10, <1>11 DEF Roles, Good
<1>14. AtEnd(g, ker)
  BY <1>11 DEF AtEnd, Good
<1> QED BY <1>1, <1>5, <1>10, <1>11, <1>12, <1>13, <1>14, ZenonT(40) DEF Good, Same, g, more

\* A turn of fwrite's loop keeps the invariant.
LEMMA FwriteStepInv == ASSUME IInv, FwriteStep PROVE IInv'
<1>1. /\ call.op = "fwrite" /\ Good(fp, file) /\ fp.open /\ fp.mode.wr /\ ~Has(fp, "UNREAD")
  BY DEF IInv, FwriteStep
<1>2. call \in [op : {"fwrite"}, rest : Seq(Int), put : Nat]
  BY <1>1 DEF IInv, CallTyped, Idle
<1> DEFINE take(o) == Take(o.fp)
           put(o) == call.put + take(o)
           rest(o) == SubSeq(call.rest, take(o) + 1, Len(call.rest))
<1>3. PICK o \in BeforeCopy(fp, file) :
        IF ~o.ok THEN ReturnsFrom("fwrite", 0, call.put, o)
        ELSE \E a \in AfterCopy(Copied(o.fp), o.file, take(o)) :
                IF ~a.ok THEN ReturnsFrom("fwrite", 0, call.put, a)
                ELSE IF rest(o) = <<>> THEN ReturnsFrom("fwrite", 0, put(o), a)
                ELSE /\ call' = [call EXCEPT !.rest = rest(o), !.put = put(o)]
                     /\ fp' = a.fp /\ file' = a.file
  BY Zenon DEF FwriteStep, Returns
<1>4. /\ Good(o.fp, o.file) /\ Same(fp, o.fp) /\ ~Has(o.fp, "UNREAD")
  <2>1. CASE o \in Flushes(fp, file)
    BY <1>1, <2>1, FlushKeeps
  <2>2. CASE o = [ok |-> TRUE, fp |-> fp, file |-> file]
    BY <1>1, <2>2, Zenon DEF Same
  <2> QED BY <2>1, <2>2 DEF BeforeCopy
<1>5. CASE ~o.ok
  BY <1>3, <1>4, <1>5, ReturnsKeep
<1>6. CASE o.ok
  <2>1. PICK a \in AfterCopy(Copied(o.fp), o.file, take(o)) :
          IF ~a.ok THEN ReturnsFrom("fwrite", 0, call.put, a)
          ELSE IF rest(o) = <<>> THEN ReturnsFrom("fwrite", 0, put(o), a)
          ELSE /\ call' = [call EXCEPT !.rest = rest(o), !.put = put(o)]
               /\ fp' = a.fp /\ file' = a.file
    BY <1>3, <1>6
  <2>2. o.fp.open /\ o.fp.mode.wr
    BY <1>1, <1>4 DEF Same
  <2> DEFINE c == Copied(o.fp)
  <2>3. Good(c, o.file) /\ Same(o.fp, c) /\ ~Has(c, "UNREAD") /\ take(o) \in 0 .. Len(call.rest)
    BY <1>1, <1>4, <2>2, CopyKeeps
  <2>4. a \in Flushes(c, o.file) \/ a = [ok |-> TRUE, fp |-> c, file |-> o.file]
    BY DEF AfterCopy
  <2> HIDE DEF c
  <2>5. Good(a.fp, a.file) /\ Same(c, a.fp) /\ ~Has(a.fp, "UNREAD")
    <3>1. CASE a \in Flushes(c, o.file)
      BY <2>3, <3>1, FlushKeeps
    <3>2. CASE a = [ok |-> TRUE, fp |-> c, file |-> o.file]
      BY <2>3, <3>2 DEF Same
    <3> QED BY <2>4, <3>1, <3>2
  <2> HIDE DEF take
  <2>6. CASE ~a.ok
    BY <2>1, <2>5, <2>6, ReturnsKeep
  <2>7. CASE a.ok /\ rest(o) = <<>>
    BY <2>1, <2>5, <2>7, ReturnsKeep
  <2>8. CASE a.ok /\ rest(o) # <<>>
    <3>1. call' = [call EXCEPT !.rest = rest(o), !.put = put(o)] /\ fp' = a.fp /\ file' = a.file
      BY <2>1, <2>8
    <3>2. call.rest \in Seq(Int) /\ Len(call.rest) \in Nat /\ call.put \in Nat
      BY <1>2, SeqLength
    <3>3. put(o) \in Nat
      BY <2>3, <3>2
    <3>4. rest(o) \in Seq(Int)
      <4>1. take(o) + 1 \in 1 .. Len(call.rest) + 1 /\ Len(call.rest) \in 0 .. Len(call.rest)
        BY <2>3, <3>2
      <4> QED BY <3>2, <4>1, PartOf
    <3> HIDE DEF put, rest
    <3>5. call' \in [op : {"fwrite"}, rest : Seq(Int), put : Nat] /\ call'.op = "fwrite"
      BY <1>2, <3>1, <3>3, <3>4, Zenon
    <3>6. a.fp.open /\ a.fp.mode.wr
      BY <2>2, <2>3, <2>5 DEF Same
    <3> QED BY <2>5, <3>1, <3>5, <3>6 DEF IInv, CallTyped
  <2> QED BY <2>6, <2>7, <2>8
<1> QED BY <1>5, <1>6

\* Handing n unread bytes of the buffer to the client.
LEMMA UseKeeps ==
  ASSUME NEW f, NEW ker, Good(f, ker), Has(f, "UNREAD"), NEW n \in Nat, f.start + n <= Len(f.buf),
         n = 0 \/ ~Has(f, "EOF")
  PROVE  LET g == [f EXCEPT !.start = @ + n]
         IN  Good(g, ker) /\ Same(f, g) /\ Has(g, "UNREAD")
<1> DEFINE to == f.start + n
           g == [f EXCEPT !.start = to]
<1>1. f \in FpSet /\ ker \in FileSet /\ f.start \in Nat /\ to \in Nat /\ Len(f.buf) \in Nat
  BY SeqLength DEF Good, FpSet
<1>2. /\ g \in FpSet /\ g.flags = f.flags /\ g.open = f.open /\ g.mode = f.mode
      /\ g.buf = f.buf /\ g.start = to /\ g.size = f.size
  BY <1>1, StartFields
<1>3. [f EXCEPT !.start = @ + n] = g
  BY <1>1 DEF FpSet
<1>4. n = 0 => to = f.start
  BY <1>1
<1> HIDE DEF g, to
<1>5. \A x : Has(g, x) <=> Has(f, x)
  BY <1>2 DEF Has
<1>6. Fits(g)
  BY <1>2 DEF Fits, Good, to
<1>7. Roles(g)
  BY <1>2, <1>5 DEF Roles, Good
<1>8. AtEnd(g, ker)
  <2>1. n = 0 => Unread(g) = Unread(f)
    BY <1>2, <1>4, <1>5, ZenonT(40) DEF Unread
  <2> QED BY <1>5, <2>1 DEF AtEnd, Good
<1> QED BY <1>1, <1>2, <1>3, <1>5, <1>6, <1>7, <1>8 DEF Good, Same

\* Handing the pushed-back byte to the client.
LEMMA PopKeeps ==
  ASSUME NEW f, NEW ker, Good(f, ker), Has(f, "PUSHBACK")
  PROVE  LET g == Clear(f, {"PUSHBACK"})
         IN  Good(g, ker) /\ Same(f, g) /\ Has(g, "UNREAD")
<1> DEFINE g == Clear(f, {"PUSHBACK"})
<1>1. f \in FpSet /\ ker \in FileSet /\ f.start \in Nat /\ f.start <= Len(f.buf) /\ Len(f.buf) \in Nat
  BY SeqLength DEF Good, FpSet, Fits
<1>2. /\ g \in FpSet /\ g.flags = f.flags \ {"PUSHBACK"} /\ g.open = f.open /\ g.mode = f.mode
      /\ g.buf = f.buf /\ g.start = f.start /\ g.size = f.size
  BY <1>1, ClearFields
<1> HIDE DEF g
<1>3. Has(f, "UNREAD") /\ ~Has(f, "DIRTY")
  BY DEF Good, Roles
<1>4. ~Has(f, "EOF")
  <2>1. Unread(f) # 0
    BY <1>1 DEF Unread
  <2> QED BY <1>3, <2>1 DEF Good, AtEnd
<1>5. Has(g, "UNREAD") /\ ~Has(g, "DIRTY") /\ ~Has(g, "PUSHBACK") /\ ~Has(g, "EOF")
  BY <1>2, <1>3, <1>4 DEF Has
<1>6. Fits(g) /\ Roles(g) /\ AtEnd(g, ker)
  BY <1>2, <1>3, <1>5 DEF Fits, Roles, AtEnd, Good
<1> QED BY <1>1, <1>2, <1>5, <1>6, ZenonT(40) DEF Good, Same, g

\* Input before the end of the buffer: not at the end of the file.
LEMMA InputLeft ==
  ASSUME NEW f, NEW ker, Good(f, ker), Has(f, "UNREAD"), f.start < Len(f.buf)
  PROVE  ~Has(f, "EOF")
<1>1. f.start \in Nat /\ Len(f.buf) \in Nat /\ ~Has(f, "DIRTY")
  BY SeqLength DEF Good, FpSet, Roles
<1>2. Unread(f) # 0
  BY <1>1 DEF Unread
<1> QED BY <1>1, <1>2 DEF Good, AtEnd

\* fread after some bytes: it returns or goes round.
LEMMA GoesOnKeeps ==
  ASSUME IInv, call.op = "fread", NEW f, NEW ker, Good(f, ker), f.open, Has(f, "UNREAD"),
         NEW n \in Nat, n <= call.want - call.got, FreadGoesOn(f, ker, n)
  PROVE  IInv'
<1>1. call \in [op : {"fread"}, want : Nat, got : Nat]
  BY DEF IInv, CallTyped, Idle
<1> DEFINE got == call.got + n
<1>2. call.want \in Nat /\ call.got \in Nat /\ got \in Nat /\ got <= call.want
  BY <1>1
<1>3. IF got = call.want THEN ReturnsFrom("fread", 0, got, [fp |-> f, file |-> ker])
      ELSE call' = [call EXCEPT !.got = got] /\ fp' = f /\ file' = ker
  BY DEF FreadGoesOn, Returns
<1> HIDE DEF got
<1>4. CASE got = call.want
  BY <1>3, <1>4, ReturnsKeep
<1>5. CASE got # call.want
  <2>1. call' = [call EXCEPT !.got = got] /\ fp' = f /\ file' = ker
    BY <1>3, <1>5
  <2>2. call' \in [op : {"fread"}, want : Nat, got : Nat] /\ call'.op = "fread" /\ call'.got < call'.want
    BY <1>1, <1>2, <1>5, <2>1
  <2> QED BY <2>1, <2>2 DEF IInv, CallTyped
<1> QED BY <1>4, <1>5

\* The part of a request that the buffer can serve.
LEMMA LeastOf ==
  ASSUME NEW s \in Nat, NEW l \in Nat, s < l, NEW a \in Nat, NEW b \in Nat, a < b
  PROVE  LET t == Least(l - s, b - a) IN t \in Nat /\ t >= 1 /\ s + t <= l /\ t <= b - a
  BY DEF Least

\* A turn of fread's loop keeps the invariant.
LEMMA FreadStepInv == ASSUME IInv, FreadStep PROVE IInv'
<1>1. /\ call.op = "fread" /\ Good(fp, file) /\ fp.open /\ Has(fp, "UNREAD") /\ call.got < call.want
  BY DEF IInv, FreadStep
<1>2. call \in [op : {"fread"}, want : Nat, got : Nat]
  BY <1>1 DEF IInv, CallTyped, Idle
<1>3. CASE Has(fp, "PUSHBACK")
  <2>1. FreadGoesOn(Clear(fp, {"PUSHBACK"}), file, 1)
    BY <1>3 DEF FreadStep
  <2>2. /\ Good(Clear(fp, {"PUSHBACK"}), file) /\ Has(Clear(fp, {"PUSHBACK"}), "UNREAD")
        /\ Clear(fp, {"PUSHBACK"}).open
    BY <1>1, <1>3, PopKeeps DEF Same
  <2>3. 1 <= call.want - call.got
    BY <1>1, <1>2
  <2> QED BY <1>1, <2>1, <2>2, <2>3, GoesOnKeeps
<1>4. CASE ~Has(fp, "PUSHBACK")
  <2> DEFINE take(o) == Least(Len(o.fp.buf) - o.fp.start, call.want - call.got)
             used(o) == [o.fp EXCEPT !.start = @ + take(o)]
  <2>1. PICK o \in (IF fp.start >= Len(fp.buf) THEN Fills(fp, file)
                    ELSE {[ok |-> TRUE, fp |-> fp, file |-> file]}) :
          IF ~o.ok THEN ReturnsFrom("fread", 0, call.got, o)
          ELSE FreadGoesOn(used(o), o.file, take(o))
    BY <1>4 DEF FreadStep, Returns
  <2>2. /\ Good(o.fp, o.file) /\ Same(fp, o.fp) /\ Has(o.fp, "UNREAD")
        /\ o.ok => o.fp.start < Len(o.fp.buf)
    <3>1. CASE fp.start >= Len(fp.buf)
      BY <1>1, <1>4, <3>1, FillKeeps
    <3>2. CASE ~(fp.start >= Len(fp.buf))
      <4>1. o = [ok |-> TRUE, fp |-> fp, file |-> file]
        BY <3>2
      <4>2. fp.start \in Nat /\ Len(fp.buf) \in Nat
        BY <1>1, SeqLength DEF Good, FpSet
      <4>3. fp.start < Len(fp.buf)
        BY <3>2, <4>2
      <4> QED BY <1>1, <4>1, <4>3, Zenon DEF Same
    <3> QED BY <3>1, <3>2
  <2>3. CASE ~o.ok
    BY <2>1, <2>2, <2>3, ReturnsKeep
  <2>4. CASE o.ok
    <3>1. ~Has(o.fp, "EOF")
      BY <2>2, <2>4, InputLeft
    <3>2. o.fp.start \in Nat /\ Len(o.fp.buf) \in Nat
      BY <2>2, SeqLength DEF Good, FpSet
    <3>3. take(o) \in Nat /\ o.fp.start + take(o) <= Len(o.fp.buf) /\ take(o) <= call.want - call.got
      <4>1. call.got \in Nat /\ call.want \in Nat
        BY <1>2
      <4> QED BY <1>1, <2>2, <2>4, <3>2, <4>1, LeastOf, Zenon
    <3>4. FreadGoesOn(used(o), o.file, take(o))
      BY <2>1, <2>4
    <3> HIDE DEF take
    <3>5. Good(used(o), o.file) /\ Same(o.fp, used(o)) /\ Has(used(o), "UNREAD")
      BY <2>2, <3>1, <3>3, UseKeeps
    <3> HIDE DEF used
    <3>6. used(o).open
      BY <1>1, <2>2, <3>5 DEF Same
    <3> QED BY <1>1, <3>3, <3>4, <3>5, <3>6, GoesOnKeeps
  <2> QED BY <2>3, <2>4
<1> QED BY <1>3, <1>4

\* An outcome with another FILE in it.
LEMMA OtherFp ==
  ASSUME NEW o \in Outcomes, NEW g \in FpSet
  PROVE  LET r == [o EXCEPT !.fp = g] IN r.fp = g /\ r.file = o.file
  BY DEF Outcomes

\* fgetc keeps the invariant.
LEMMA FgetcInv == ASSUME IInv, Fgetc PROVE IInv'
<1>1. Good(fp, file) /\ fp.open
  BY DEF IInv, Fgetc, IsOpen
<1>2. PICK p \in PrepareRead(fp, file) :
        IF ~p.ok THEN ReturnsFrom("fgetc", 0, EOF, p)
        ELSE IF Has(p.fp, "PUSHBACK")
        THEN ReturnsFrom("fgetc", 0, 0, [p EXCEPT !.fp = Clear(@, {"PUSHBACK"})])
        ELSE \E o \in (IF p.fp.start >= Len(p.fp.buf) THEN Fills(p.fp, p.file) ELSE {p}) :
                IF ~o.ok THEN ReturnsFrom("fgetc", 0, EOF, o)
                ELSE ReturnsFrom("fgetc", 0, 0, [o EXCEPT !.fp.start = @ + 1])
  BY Zenon DEF Fgetc, Returns
<1>3. /\ p \in Outcomes /\ Good(p.fp, p.file) /\ Same(fp, p.fp)
      /\ p.ok => Has(p.fp, "UNREAD") /\ ~Has(p.fp, "DIRTY")
  BY <1>1, PrepareReadKeeps
<1>4. CASE ~p.ok
  BY <1>2, <1>3, <1>4, ReturnsKeep
<1>5. CASE p.ok /\ Has(p.fp, "PUSHBACK")
  <2> DEFINE g == Clear(p.fp, {"PUSHBACK"})
             r == [p EXCEPT !.fp = g]
  <2>1. ReturnsFrom("fgetc", 0, 0, r)
    BY <1>2, <1>5
  <2>2. Good(g, p.file) /\ g \in FpSet
    BY <1>3, <1>5, PopKeeps DEF Good
  <2> HIDE DEF g
  <2>3. r.fp = g /\ r.file = p.file
    BY <1>3, <2>2, OtherFp
  <2> HIDE DEF r
  <2> QED BY <2>1, <2>2, <2>3, ReturnsKeep
<1>6. CASE p.ok /\ ~Has(p.fp, "PUSHBACK")
  <2>1. PICK o \in (IF p.fp.start >= Len(p.fp.buf) THEN Fills(p.fp, p.file) ELSE {p}) :
          IF ~o.ok THEN ReturnsFrom("fgetc", 0, EOF, o)
          ELSE ReturnsFrom("fgetc", 0, 0, [o EXCEPT !.fp.start = @ + 1])
    BY <1>2, <1>6, Zenon
  <2>2. /\ o \in Outcomes /\ Good(o.fp, o.file) /\ Has(o.fp, "UNREAD")
        /\ o.ok => o.fp.start < Len(o.fp.buf)
    <3>1. CASE p.fp.start >= Len(p.fp.buf)
      <4>1. p.fp.open
        BY <1>1, <1>3 DEF Same
      <4> QED BY <1>3, <1>6, <3>1, <4>1, FillKeeps
    <3>2. CASE ~(p.fp.start >= Len(p.fp.buf))
      <4>1. p.fp.start \in Nat /\ Len(p.fp.buf) \in Nat
        BY <1>3, SeqLength DEF Good, FpSet
      <4>2. p.fp.start < Len(p.fp.buf)
        BY <3>2, <4>1
      <4> QED BY <1>3, <1>6, <3>2, <4>2
    <3> QED BY <3>1, <3>2
  <2>3. CASE ~o.ok
    BY <2>1, <2>2, <2>3, ReturnsKeep
  <2>4. CASE o.ok
    <3> DEFINE g == [o.fp EXCEPT !.start = @ + 1]
               r == [o EXCEPT !.fp = g]
    <3>1. ~Has(o.fp, "EOF")
      BY <2>2, <2>4, InputLeft
    <3>2. o.fp.start \in Nat /\ Len(o.fp.buf) \in Nat
      BY <2>2, SeqLength DEF Good, FpSet
    <3>3. o.fp.start + 1 <= Len(o.fp.buf)
      BY <2>2, <2>4, <3>2
    <3>4. Good(g, o.file) /\ g \in FpSet
      BY <2>2, <3>1, <3>3, UseKeeps, Zenon DEF Good
    <3>5. [o EXCEPT !.fp.start = @ + 1] = r
      BY <2>2 DEF Outcomes, FpSet
    <3>6. ReturnsFrom("fgetc", 0, 0, r)
      BY <2>1, <2>4, <3>5
    <3> HIDE DEF g
    <3>7. r.fp = g /\ r.file = o.file
      BY <2>2, <3>4, OtherFp
    <3> HIDE DEF r
    <3> QED BY <3>4, <3>6, <3>7, ReturnsKeep
  <2> QED BY <2>3, <2>4
<1> QED BY <1>4, <1>5, <1>6

\* A byte pushed back onto input: the stream is not at the end any more.
LEMMA PushKeeps ==
  ASSUME NEW f, NEW ker, Good(f, ker), Has(f, "UNREAD"), NEW ch \in Int
  PROVE  Good(Clear(Set([f EXCEPT !.pb = ch], "PUSHBACK"), {"EOF"}), ker)
<1> DEFINE a == [f EXCEPT !.pb = ch]
           b == Set(a, "PUSHBACK")
           g == Clear(b, {"EOF"})
<1>1. f \in FpSet /\ "PUSHBACK" \in Flags
  BY DEF Good, Flags
<1>2. /\ a \in FpSet /\ a.flags = f.flags /\ a.open = f.open /\ a.mode = f.mode
      /\ a.buf = f.buf /\ a.start = f.start /\ a.size = f.size
  BY <1>1 DEF FpSet
<1> HIDE DEF a
<1>3. /\ b \in FpSet /\ b.flags = f.flags \cup {"PUSHBACK"} /\ b.open = f.open /\ b.mode = f.mode
      /\ b.buf = f.buf /\ b.start = f.start /\ b.size = f.size
  BY <1>1, <1>2, SetFields
<1> HIDE DEF b
<1>4. /\ g \in FpSet /\ g.flags = (f.flags \cup {"PUSHBACK"}) \ {"EOF"} /\ g.open = f.open /\ g.mode = f.mode
      /\ g.buf = f.buf /\ g.start = f.start /\ g.size = f.size
  BY <1>3, ClearFields
<1> HIDE DEF g
<1>5. ~Has(f, "DIRTY") /\ f.mode.rd
  BY DEF Good, Roles
<1>6. Has(g, "UNREAD") /\ Has(g, "PUSHBACK") /\ ~Has(g, "DIRTY") /\ ~Has(g, "EOF")
  BY <1>4, <1>5 DEF Has
<1>7. Fits(g) /\ Roles(g) /\ AtEnd(g, ker)
  BY <1>4, <1>5, <1>6 DEF Fits, Roles, AtEnd, Good
<1> QED BY <1>4, <1>7 DEF Good, g, b, a

\* ungetc keeps the invariant.
LEMMA UngetcInv == ASSUME IInv, NEW ch \in {NL}, Ungetc(ch) PROVE IInv'
<1>1. Good(fp, file) /\ ch \in Int
  BY BytesAssumption DEF IInv
<1> DEFINE g(o) == Clear(Set([o.fp EXCEPT !.pb = ch], "PUSHBACK"), {"EOF"})
<1>2. PICK o \in PrepareRead(fp, file) :
        IF ~o.ok \/ Has(o.fp, "PUSHBACK") THEN ReturnsFrom("ungetc", 0, EOF, o)
        ELSE ReturnsFrom("ungetc", 0, 0, [o EXCEPT !.fp = Clear(Set([@ EXCEPT !.pb = ch], "PUSHBACK"), {"EOF"})])
  BY Zenon DEF Ungetc, Returns
<1>3. /\ o \in Outcomes /\ Good(o.fp, o.file)
      /\ o.ok => Has(o.fp, "UNREAD") /\ ~Has(o.fp, "DIRTY")
  BY <1>1, PrepareReadKeeps
<1>4. CASE ~o.ok \/ Has(o.fp, "PUSHBACK")
  BY <1>2, <1>3, <1>4, ReturnsKeep
<1>5. CASE o.ok /\ ~Has(o.fp, "PUSHBACK")
  <2> DEFINE r == [o EXCEPT !.fp = g(o)]
  <2>1. ReturnsFrom("ungetc", 0, 0, r)
    BY <1>2, <1>5
  <2>2. Good(g(o), o.file) /\ g(o) \in FpSet
    BY <1>1, <1>3, <1>5, PushKeeps DEF Good
  <2> HIDE DEF g
  <2>3. r.fp = g(o) /\ r.file = o.file
    BY <1>3, <2>2, OtherFp
  <2> HIDE DEF r
  <2> QED BY <2>1, <2>2, <2>3, ReturnsKeep
<1> QED BY <1>4, <1>5

\* The buffer never holds more than its size and is never read past what it
\* holds: no call writes or reads outside the array (file_fill_locked, fwrite).
BufferFits == fp.start <= Len(fp.buf) /\ Len(fp.buf) <= fp.size

-----------------------------------------------------------------------------
\* ftell keeps the invariant.
LEMMA FtellInv == ASSUME IInv, Ftell PROVE IInv'
<1> DEFINE end == IF fp.mode.app /\ Has(fp, "DIRTY") THEN Len(file.data) ELSE file.off
           physical == KSeek(end)
           moved == [file EXCEPT !.off = physical]
<1>1. Good(fp, file)
  BY DEF IInv
<1>2. /\ fp \in FpSet /\ file \in FileSet /\ file.off \in Nat /\ Len(file.data) \in Nat
  BY <1>1, SeqLength DEF Good, FileSet
<1>3. \/ \E val : ReturnsFrom("ftell", 0, val, [fp |-> fp, file |-> file])
      \/ physical # -1 /\ \E val : ReturnsFrom("ftell", 0, val, [fp |-> fp, file |-> moved])
  BY Zenon DEF Ftell, Returns
<1>4. end \in Nat /\ (Has(fp, "EOF") => end >= Len(file.data))
  BY <1>1, <1>2 DEF Good, AtEnd
<1>5. physical # -1 => physical = end
  BY DEF KSeek
<1> HIDE DEF end, physical
<1>6. CASE physical # -1
  <2>1. moved \in FileSet /\ moved.off = end /\ moved.data = file.data
    BY <1>2, <1>4, <1>5, <1>6, SMTT(30) DEF FileSet
  <2> HIDE DEF moved
  <2>2. AtEnd(fp, moved)
    BY <1>1, <1>4, <2>1 DEF AtEnd, Good
  <2>3. Good(fp, moved)
    BY <1>1, <2>1, <2>2 DEF Good
  <2> QED BY <1>1, <1>3, <2>3, ReturnsKeep
<1>7. CASE physical = -1
  BY <1>1, <1>3, <1>7, ReturnsKeep
<1> QED BY <1>6, <1>7

\* A seek empties the buffer and leaves the end.
LEMMA SeekKeeps ==
  ASSUME NEW f, NEW ker, Good(f, ker), ~Has(f, "DIRTY"), NEW to \in Nat
  PROVE  Good(Clear([f EXCEPT !.buf = <<>>, !.start = 0], {"EOF", "UNREAD", "PUSHBACK"}),
              [ker EXCEPT !.off = to])
<1> DEFINE e == [f EXCEPT !.buf = <<>>, !.start = 0]
           g == Clear(e, {"EOF", "UNREAD", "PUSHBACK"})
           k == [ker EXCEPT !.off = to]
<1>1. f \in FpSet /\ ker \in FileSet /\ <<>> \in Seq(Int) /\ f.size \in Nat
  BY DEF Good, FpSet
<1>2. k \in FileSet /\ k.off = to /\ k.data = ker.data
  BY <1>1 DEF FileSet
<1>3. /\ e \in FpSet /\ e.flags = f.flags /\ e.open = f.open /\ e.mode = f.mode
      /\ e.buf = <<>> /\ e.start = 0 /\ e.size = f.size
  BY <1>1, RefillFields, Zenon
<1> HIDE DEF e, k
<1>4. /\ g \in FpSet /\ g.flags = f.flags \ {"EOF", "UNREAD", "PUSHBACK"} /\ g.open = f.open
      /\ g.mode = f.mode /\ g.buf = <<>> /\ g.start = 0 /\ g.size = f.size
  BY <1>3, ClearFields
<1> HIDE DEF g
<1>5. ~Has(g, "UNREAD") /\ ~Has(g, "PUSHBACK") /\ ~Has(g, "DIRTY") /\ ~Has(g, "EOF") /\ Len(g.buf) = 0
  BY <1>4 DEF Has
<1>6. Fits(g)
  BY <1>1, <1>4, <1>5 DEF Fits, Good
<1>7. Roles(g) /\ AtEnd(g, k)
  BY <1>2, <1>4, <1>5 DEF Roles, AtEnd
<1> QED BY <1>2, <1>4, <1>6, <1>7 DEF Good, g, e, k

\* fseek keeps the invariant.
LEMMA FseekInv == ASSUME IInv, NEW offset \in Int,
                         NEW whence \in {"SEEK_SET", "SEEK_CUR", "SEEK_END"}, Fseek(offset, whence)
                  PROVE  IInv'
<1> DEFINE base(o) == CASE whence = "SEEK_SET" -> 0
                        [] whence = "SEEK_END" -> Len(o.file.data)
                        [] whence = "SEEK_CUR" ->
                              o.file.off - (IF Has(o.fp, "UNREAD") THEN Unread(o.fp) ELSE 0)
           target(o) == KSeek(base(o) + offset)
           g(o) == Clear([o.fp EXCEPT !.buf = <<>>, !.start = 0], {"EOF", "UNREAD", "PUSHBACK"})
           k(o) == [o.file EXCEPT !.off = target(o)]
<1>1. PICK o \in Flushes(fp, file) :
           IF ~o.ok \/ target(o) = -1 THEN ReturnsFrom(whence, offset, EOF, o)
           ELSE ReturnsFrom(whence, offset, 0, [fp |-> g(o), file |-> k(o)])
  BY Zenon DEF Fseek
<1>2. Good(o.fp, o.file) /\ (o.ok => ~Has(o.fp, "DIRTY"))
  BY FlushKeeps DEF IInv
<1> DEFINE sum == base(o) + offset
<1>3. target(o) = IF Seekable /\ sum >= 0 THEN sum ELSE -1
  BY DEF KSeek
<1> HIDE DEF base, target
<1>5. CASE ~o.ok \/ target(o) = -1
  BY <1>1, <1>2, <1>5, ReturnsKeep
<1>6. CASE o.ok /\ target(o) # -1
  <2>1. base(o) \in Int /\ Len(o.file.data) \in Nat
    <3>1. /\ o.file.off \in Nat /\ Len(o.file.data) \in Nat /\ Len(o.fp.buf) \in Nat /\ o.fp.start \in Nat
      BY <1>2, SeqLength, SMTT(30) DEF Good, FileSet, FpSet
    <3>2. Unread(o.fp) \in Int
      BY <3>1 DEF Unread
    <3> QED BY <3>1, <3>2 DEF base
  <2>2. sum \in Int
    BY <2>1
  <2> HIDE DEF sum
  <2>3. target(o) \in Nat
    BY <1>3, <1>6, <2>1, <2>2
  <2>4. Good(g(o), k(o))
    BY <1>2, <1>6, <2>3, SeekKeeps, Zenon
  <2>5. ReturnsFrom(whence, offset, 0, [fp |-> g(o), file |-> k(o)])
    BY <1>1, <1>6, ZenonT(40)
  <2> HIDE DEF g, k
  <2> QED BY <2>4, <2>5, ReturnsKeep
<1> QED BY <1>5, <1>6

\* A new buffer for a FILE that holds no bytes.
LEMMA RebufferKeeps ==
  ASSUME NEW f, NEW ker, Good(f, ker), ~Has(f, "DIRTY"), ~Has(f, "UNREAD"),
         NEW mode \in {"_IOFBF", "_IOLBF", "_IONBF"}, NEW n \in Sizes
  PROVE  Good(Rebuffered(f, mode, n), ker)
<1> DEFINE g == Rebuffered(f, mode, n)
           new == (f.flags \ {"LINE_BUF", "UNBUF"}) \cup Buffering(mode)
           cap == IF mode = "_IONBF" THEN 1 ELSE n
<1>1. f \in FpSet /\ <<>> \in Seq(Int)
  BY DEF Good, FpSet
<1>2. cap \in Nat /\ cap >= 1
  BY BufferAssumption
<1>3. Buffering(mode) \in SUBSET {"LINE_BUF", "UNBUF"}
  BY DEF Buffering
<1>4. f.open \in BOOLEAN /\ f.mode \in ModeSet /\ f.flags \in SUBSET Flags /\ f.pb \in Int
  BY <1>1 DEF FpSet
<1>5. new \in SUBSET Flags
  BY <1>3, <1>4 DEF Flags
<1>6. g = [open |-> f.open, mode |-> f.mode, pb |-> f.pb, buf |-> <<>>, start |-> 0, flags |-> new, size |-> cap]
  BY DEF Rebuffered
<1>7. \A x \in {"DIRTY", "UNREAD", "PUSHBACK", "EOF"} : x \in new <=> x \in f.flags
  BY <1>3
<1> HIDE DEF g, new, cap
<1>8. g \in FpSet /\ g.flags = new /\ g.buf = <<>> /\ g.start = 0 /\ g.size = cap
  BY <1>1, <1>2, <1>4, <1>5, <1>6 DEF FpSet
<1>9. /\ ~Has(g, "DIRTY") /\ ~Has(g, "UNREAD") /\ ~Has(g, "PUSHBACK") /\ (Has(g, "EOF") => Has(f, "EOF"))
      /\ Len(g.buf) = 0
  BY <1>7, <1>8 DEF Has, Good, Roles
<1>10. Unread(g) = 0
  BY <1>8, <1>9 DEF Unread
<1>11. Fits(g)
  BY <1>2, <1>8, <1>9 DEF Fits
<1>12. Roles(g)
  BY <1>8, <1>9 DEF Roles
<1>13. AtEnd(g, ker)
  BY <1>9, <1>10 DEF AtEnd, Good
<1> QED BY <1>8, <1>11, <1>12, <1>13, ZenonT(40) DEF Good, g

\* setvbuf keeps the invariant.
LEMMA SetvbufInv ==
  ASSUME IInv, NEW mode \in {"_IOFBF", "_IOLBF", "_IONBF"}, NEW n \in Sizes, Setvbuf(mode, n)
  PROVE  IInv'
<1>1. Good(fp, file)
  BY DEF IInv
<1>2. PICK o \in FlushAndDiscard(fp, file) :
        IF ~o.ok THEN ReturnsFrom("setvbuf", 0, EOF, o)
        ELSE ReturnsFrom("setvbuf", 0, 0, [o EXCEPT !.fp = Rebuffered(@, mode, n)])
  BY DEF Setvbuf, Returns
<1>3. PICK p \in Flushes(fp, file) : o = IF p.ok THEN Discard(p.fp, p.file) ELSE p
  BY DEF FlushAndDiscard
<1>4. /\ p \in Outcomes /\ Good(p.fp, p.file) /\ (p.ok => ~Has(p.fp, "DIRTY"))
  BY <1>1, FlushKeeps
<1>5. /\ o \in Outcomes /\ Good(o.fp, o.file)
      /\ o.ok => ~Has(o.fp, "DIRTY") /\ ~Has(o.fp, "UNREAD")
  <2>1. CASE p.ok
    BY <1>3, <1>4, <2>1, DiscardKeeps
  <2>2. CASE ~p.ok
    BY <1>3, <1>4, <2>2
  <2> QED BY <2>1, <2>2
<1>6. CASE ~o.ok
  BY <1>2, <1>5, <1>6, ReturnsKeep
<1>7. CASE o.ok
  <2> DEFINE g == Rebuffered(o.fp, mode, n)
             r == [o EXCEPT !.fp = g]
  <2>1. ReturnsFrom("setvbuf", 0, 0, r)
    BY <1>2, <1>7
  <2>2. Good(g, o.file) /\ g \in FpSet
    BY <1>5, <1>7, RebufferKeeps DEF Good
  <2> HIDE DEF g
  <2>3. r.fp = g /\ r.file = o.file
    BY <1>5, <2>2, OtherFp
  <2> HIDE DEF r
  <2> QED BY <2>1, <2>2, <2>3, ReturnsKeep
<1> QED BY <1>6, <1>7

-----------------------------------------------------------------------------
\* Every step keeps the invariant.
LEMMA StepInv == IInv /\ [Next]_vars => IInv'
<1> SUFFICES ASSUME IInv, [Next]_vars PROVE IInv'
  BY Zenon
<1>1. CASE UNCHANGED vars
  BY <1>1, Zenon DEF IInv, CallTyped, vars
<1>2. CASE \E m \in Modes \ StdStreams : Fopen(m)
  BY <1>2, FopenInv
<1>3. CASE Fclose
  BY <1>3, FcloseInv
<1>4. CASE \E bs \in Inputs : Fwrite(bs)
  BY <1>4, FwriteInv
<1>5. CASE FwriteStep
  BY <1>5, FwriteStepInv
<1>6. CASE \E want \in 1 .. MaxLen : Fread(want)
  BY <1>6, FreadInv
<1>7. CASE FreadStep
  BY <1>7, FreadStepInv
<1>8. CASE Fgetc
  BY <1>8, FgetcInv
<1>9. CASE \E ch \in {NL} : Ungetc(ch)
  BY <1>9, UngetcInv
<1>10. CASE \E offset \in Offsets, whence \in {"SEEK_SET", "SEEK_CUR", "SEEK_END"} : Fseek(offset, whence)
  BY <1>10, FseekInv, LengthAssumption
<1>11. CASE Ftell
  BY <1>11, FtellInv
<1>12. CASE Fflush
  BY <1>12, FflushInv
<1>13. CASE \E mode \in {"_IOFBF", "_IOLBF", "_IONBF"}, n \in Sizes : Setvbuf(mode, n)
  BY <1>13, SetvbufInv
<1>14. CASE Clearerr
  BY <1>14, ClearerrInv
<1> QED BY <1>1, <1>2, <1>3, <1>4, <1>5, <1>6, <1>7, <1>8, <1>9, <1>10, <1>11, <1>12, <1>13, <1>14, SMTT(30), ZenonT(40) DEF Next

\* The flag and the buffered writes agree about the end.
LEMMA EndOfContents == IInv => EofMeansEnd
<1> SUFFICES ASSUME IInv, IsOpen, Has(fp, "EOF") PROVE Position >= Len(Contents)
  BY ZenonT(40) DEF EofMeansEnd
<1>1. /\ fp \in FpSet /\ file \in FileSet /\ fp.buf \in Seq(Int) /\ fp.mode.app \in BOOLEAN
      /\ Len(file.data) \in Nat /\ file.off \in Nat /\ file.off >= Len(file.data) /\ Len(fp.buf) \in Nat
      /\ Has(fp, "DIRTY") \/ Unread(fp) = 0
  BY SeqLength DEF IInv, Good, AtEnd, FpSet, FileSet, ModeSet
<1>2. CASE Has(fp, "DIRTY")
  <2> DEFINE at == IF fp.mode.app THEN Len(file.data) ELSE file.off
             w == KWrite(file, fp.mode.app, fp.buf)
  <2>1. /\ w.off = at + Len(fp.buf)
        /\ Len(w.data) = IF fp.buf # <<>> /\ at + Len(fp.buf) > Len(file.data) THEN at + Len(fp.buf)
                         ELSE Len(file.data)
    BY <1>1, WriteGrows, Zenon
  <2>2. at >= Len(file.data) /\ at \in Nat
    BY <1>1
  <2>3. Position = w.off /\ Contents = w.data
    BY <1>2 DEF Position, Contents
  <2> HIDE DEF at, w
  <2>4. w.off >= Len(w.data)
    BY <1>1, <2>1, <2>2
  <2> QED BY <2>3, <2>4
<1>3. CASE ~Has(fp, "DIRTY")
  BY <1>1, <1>3 DEF Position, Contents
<1> QED BY <1>2, <1>3

\* The inductive invariant holds in every reachable state.
LEMMA InvHolds == Spec => []IInv
<1>1. Init => IInv
  BY InitInv
<1>2. IInv /\ [Next]_vars => IInv'
  BY StepInv
<1> QED BY <1>1, <1>2, PTL DEF Spec

\* For every buffer size, file, mode and sequence of calls, with short and failed
\* writes and reads anywhere, the buffer of a FILE holds writes or input and never
\* both (file_flush_locked, prepare_read, discard_input).
THEOREM RolesKept == Spec => []BufferRoles
<1>1. IInv => BufferRoles
  BY DEF IInv, Good, Roles, BufferRoles
<1> QED BY <1>1, InvHolds, PTL

\* For every buffer size, file, mode and sequence of calls, a stream whose
\* end-of-file flag is set has no byte left to read: it is at the end of the file or
\* was sought beyond it (file_fill_locked, fseek).
THEOREM EofSound == Spec => []EofMeansEnd
<1>1. IInv => EofMeansEnd
  BY EndOfContents
<1> QED BY <1>1, InvHolds, PTL

\* For every buffer size, file, mode and sequence of calls, no byte is stored or
\* read outside the array of a FILE (file_fill_locked, fwrite, fread).
THEOREM InsideBuffer == Spec => []BufferFits
<1>1. IInv => BufferFits
  BY ZenonT(40) DEF IInv, Good, Fits, BufferFits
<1> QED BY <1>1, InvHolds, PTL

-----------------------------------------------------------------------------
(* The file that a FILE and the kernel's file stand for together.          *)

Con(f, ker) == IF f.open /\ Has(f, "DIRTY") THEN KWrite(ker, f.mode.app, f.buf).data ELSE ker.data
Pos(f, ker) == IF Has(f, "DIRTY") THEN KWrite(ker, f.mode.app, f.buf).off ELSE ker.off - Unread(f)
Psh(f) == IF f.open /\ Has(f, "PUSHBACK") THEN f.pb ELSE -1

\* The input in the buffer is what the file holds before the kernel's offset.
InputRight(f, ker) ==
    Has(f, "UNREAD") =>
      /\ Len(f.buf) <= ker.off
      /\ f.buf # <<>> => ker.off <= Len(ker.data)
      /\ \A i \in 1 .. Len(f.buf) : f.buf[i] = ker.data[ker.off - Len(f.buf) + i]

Right(f, ker) == Good(f, ker) /\ f.open /\ InputRight(f, ker) /\ f.pb = NL

SameFile(f, ker, g, k) ==
    Con(g, k) = Con(f, ker) /\ Pos(g, k) = Pos(f, ker) /\ g.open = f.open /\ g.mode = f.mode

\* The types and bounds of a FILE and its file.
LEMMA RightFacts ==
  ASSUME NEW f, NEW ker, Right(f, ker)
  PROVE  /\ Good(f, ker) /\ f.open /\ f \in FpSet /\ ker \in FileSet /\ f.pb = NL
         /\ f.buf \in Seq(Int) /\ Len(f.buf) \in Nat /\ f.start \in Nat /\ f.size \in Nat /\ f.start <= Len(f.buf)
         /\ ker.data \in Seq(Int) /\ Len(ker.data) \in Nat /\ ker.off \in Nat
BY SeqLength DEF Right, Good, FpSet, FileSet, Fits

\* Flags other than those of the buffer's role do not matter.
LEMMA FlagView ==
  ASSUME NEW f, NEW ker, NEW g, Right(f, ker), Good(g, ker), Same(f, g),
         g.buf = f.buf, g.start = f.start, g.pb = f.pb,
         Has(g, "DIRTY") <=> Has(f, "DIRTY"), Has(g, "PUSHBACK") <=> Has(f, "PUSHBACK"),
         Has(g, "UNREAD") => Has(f, "UNREAD") \/ f.buf = <<>>
  PROVE  Right(g, ker) /\ SameFile(f, ker, g, ker) /\ Psh(g) = Psh(f)
<1>1. Unread(g) = Unread(f)
  BY DEF Unread
<1>2. Con(g, ker) = Con(f, ker) /\ Pos(g, ker) = Pos(f, ker) /\ Psh(g) = Psh(f)
  BY <1>1, Zenon DEF Con, Pos, Psh, Same
<1>3. InputRight(g, ker)
  <2>1. CASE Has(f, "UNREAD")
    BY <2>1 DEF InputRight, Right
  <2>2. CASE f.buf = <<>>
    BY <2>2 DEF InputRight, Good, FileSet
  <2> QED BY <2>1, <2>2 DEF InputRight
<1> QED BY <1>2, <1>3, ZenonT(40) DEF Right, SameFile, Same

\* A FILE that neither reads nor has writes waiting stands for the kernel's file.
LEMMA EmptyView ==
  ASSUME NEW g, NEW k, Good(g, k), ~Has(g, "DIRTY"), ~Has(g, "UNREAD")
  PROVE  Con(g, k) = k.data /\ Pos(g, k) = k.off /\ Psh(g) = -1 /\ InputRight(g, k) /\ g.buf = <<>>
<1>1. g.buf = <<>> /\ g.start = 0 /\ ~Has(g, "PUSHBACK") /\ k.off \in Nat
  BY DEF Good, Roles, FileSet
<1>2. Unread(g) = 0
  BY <1>1 DEF Unread
<1> QED BY <1>1, <1>2 DEF Con, Pos, Psh, InputRight

\* The outcome o of a flush that sends k of the waiting bytes.
Sends(f, ker, o, k) ==
    /\ o.ok <=> k = Len(f.buf)
    /\ o.fp.buf = SubSeq(f.buf, k + 1, Len(f.buf))
    /\ o.fp.flags = (IF o.ok THEN f.flags \ {"DIRTY"} ELSE f.flags \cup {"ERR"})
    /\ o.fp.pb = f.pb
    /\ o.file = IF k = 0 /\ ~o.ok THEN ker ELSE KWrite(ker, f.mode.app, SubSeq(f.buf, 1, k))

\* What a flush of waiting writes sends and leaves.
LEMMA FlushOutcome ==
  ASSUME NEW f, NEW ker, Good(f, ker), Has(f, "DIRTY"), NEW o \in Flushes(f, ker)
  PROVE  \E k \in 0 .. Len(f.buf) : Sends(f, ker, o, k)
<1> DEFINE out(k) == KWrite(ker, f.mode.app, SubSeq(f.buf, 1, k))
           rest(k) == SubSeq(f.buf, k + 1, Len(f.buf))
           e == [f EXCEPT !.buf = <<>>]
           clean == Clear(e, {"DIRTY"})
           h(k) == [f EXCEPT !.buf = rest(k)]
           late(k) == Set(h(k), "ERR")
<1>1. f \in FpSet /\ f.buf \in Seq(Int) /\ Len(f.buf) \in Nat /\ <<>> \in Seq(Int) /\ "ERR" \in Flags
  BY SeqLength DEF Good, FpSet, Flags
<1>2. PICK k \in 0 .. Len(f.buf) :
         o = IF k = Len(f.buf) THEN [ok |-> TRUE, fp |-> clean, file |-> out(k)]
             ELSE [ok |-> FALSE, fp |-> late(k), file |-> IF k = 0 THEN ker ELSE out(k)]
  BY Zenon DEF Flushes
<1>3. rest(k) \in Seq(Int) /\ (k = Len(f.buf) => rest(k) = <<>>)
  <2>1. k + 1 \in 1 .. Len(f.buf) + 1 /\ Len(f.buf) \in 0 .. Len(f.buf) /\ k \in Nat
    BY <1>1
  <2>2. rest(k) \in Seq(Int)
    BY <1>1, <2>1, PartOf
  <2>3. ASSUME k = Len(f.buf) PROVE rest(k) = <<>>
    <3>1. k + 1 \in Int /\ Len(f.buf) \in Int /\ Len(f.buf) < k + 1
      BY <1>1, <2>1, <2>3
    <3> QED BY <3>1, SeqPartNone
  <2> QED BY <2>2, <2>3
<1>4. clean.flags = f.flags \ {"DIRTY"} /\ clean.buf = <<>> /\ clean.pb = f.pb
  <2>1. e \in FpSet /\ e.flags = f.flags /\ e.buf = <<>> /\ e.pb = f.pb
    BY <1>1, BufFields, Zenon
  <2> HIDE DEF e
  <2> QED BY <2>1, ClearFields
<1>5. late(k).flags = f.flags \cup {"ERR"} /\ late(k).buf = rest(k) /\ late(k).pb = f.pb
  <2> HIDE DEF rest
  <2>1. h(k) \in FpSet /\ h(k).flags = f.flags /\ h(k).buf = rest(k) /\ h(k).pb = f.pb
    BY <1>1, <1>3, BufFields, Zenon
  <2> HIDE DEF h
  <2> QED BY <1>1, <2>1, SetFields
<1> HIDE DEF clean, late, out, rest
<1>6. CASE k = Len(f.buf)
  <2>1. o = [ok |-> TRUE, fp |-> clean, file |-> out(k)]
    BY <1>2, <1>6
  <2> QED BY <1>3, <1>4, <1>6, <2>1, Zenon DEF Sends, rest, out
<1>7. CASE k # Len(f.buf)
  <2>1. o = [ok |-> FALSE, fp |-> late(k), file |-> IF k = 0 THEN ker ELSE out(k)]
    BY <1>2, <1>7
  <2> QED BY <1>5, <1>7, <2>1 DEF Sends, rest, out
<1> QED BY <1>6, <1>7

\* Where the next write of the kernel goes.
Base(f, ker) == IF f.mode.app THEN Len(ker.data) ELSE ker.off

\* A FILE with writes waiting stands for the file with them in place.
LEMMA DirtyView ==
  ASSUME NEW f, NEW ker, Good(f, ker), f.open, Has(f, "DIRTY")
  PROVE  /\ Base(f, ker) \in Nat
         /\ Con(f, ker) = Overlay(ker.data, Base(f, ker), f.buf)
         /\ Pos(f, ker) = Base(f, ker) + Len(f.buf)
<1>1. ker.off \in Nat /\ Len(ker.data) \in Nat
  BY SeqLength DEF Good, FileSet
<1>2. Base(f, ker) \in Nat
  BY <1>1 DEF Base
<1> QED BY <1>2 DEF Con, Pos, KWrite, Base

\* A flush, whatever it sends, leaves the client's file as it was.
LEMMA FlushView ==
  ASSUME NEW f, NEW ker, Right(f, ker), NEW o \in Flushes(f, ker)
  PROVE  /\ Right(o.fp, o.file) /\ SameFile(f, ker, o.fp, o.file) /\ Psh(o.fp) = Psh(f)
         /\ Has(o.fp, "UNBUF") <=> Has(f, "UNBUF")
         /\ Has(o.fp, "LINE_BUF") <=> Has(f, "LINE_BUF")
<1>1. /\ Good(f, ker) /\ f.open /\ f \in FpSet /\ ker \in FileSet /\ f.buf \in Seq(Int) /\ Len(f.buf) \in Nat
      /\ ker.data \in Seq(Int) /\ f.mode.app \in BOOLEAN
  BY SeqLength, ZenonT(40) DEF Right, Good, FpSet, FileSet, ModeSet
<1>2. /\ Good(o.fp, o.file) /\ Same(f, o.fp) /\ o \in Outcomes
      /\ o.ok => ~Has(o.fp, "DIRTY")
      /\ Has(o.fp, "UNREAD") <=> Has(f, "UNREAD")
  BY <1>1, FlushKeeps
<1>3. CASE ~Has(f, "DIRTY")
  <2>1. o = [ok |-> TRUE, fp |-> f, file |-> ker]
    BY <1>3 DEF Flushes
  <2> QED BY <2>1, Zenon DEF SameFile, Same
<1>4. CASE Has(f, "DIRTY")
  <2>1. ~Has(f, "UNREAD") /\ ~Has(f, "PUSHBACK") /\ ~Has(o.fp, "UNREAD")
    BY <1>1, <1>2, <1>4 DEF Good, Roles
  <2>0. PICK k \in 0 .. Len(f.buf) : Sends(f, ker, o, k)
    BY <1>1, <1>4, FlushOutcome, Zenon
  <2>2. /\ o.ok <=> k = Len(f.buf)
        /\ o.fp.buf = SubSeq(f.buf, k + 1, Len(f.buf))
        /\ o.fp.flags = (IF o.ok THEN f.flags \ {"DIRTY"} ELSE f.flags \cup {"ERR"})
        /\ o.fp.pb = f.pb
        /\ o.file = IF k = 0 /\ ~o.ok THEN ker ELSE KWrite(ker, f.mode.app, SubSeq(f.buf, 1, k))
    BY <2>0 DEF Sends
  <2>3. \A x \in Flags : x \notin {"DIRTY", "ERR"} => (Has(o.fp, x) <=> Has(f, x))
    BY <2>2 DEF Has
  <2>4. /\ Has(o.fp, "UNBUF") <=> Has(f, "UNBUF")
        /\ Has(o.fp, "LINE_BUF") <=> Has(f, "LINE_BUF")
        /\ ~Has(o.fp, "PUSHBACK")
    BY <2>1, <2>3 DEF Flags
  <2>5. Right(o.fp, o.file) /\ Psh(o.fp) = Psh(f)
    BY <1>1, <1>2, <2>1, <2>2, <2>4, Zenon DEF Right, InputRight, Psh, Same
  <2> DEFINE a == Base(f, ker)
             b1 == SubSeq(f.buf, 1, k)
             b2 == o.fp.buf
  <2>6. /\ a \in Nat /\ Con(f, ker) = Overlay(ker.data, a, f.buf)
        /\ Pos(f, ker) = a + Len(f.buf)
    BY <1>1, <1>4, DirtyView
  <2>7. k \in Nat /\ b1 \in Seq(Int) /\ Len(b1) = k
    BY <1>1, PartOf
  <2>8. CASE o.ok
    <3>1. Con(o.fp, o.file) = o.file.data /\ Pos(o.fp, o.file) = o.file.off
      BY <1>2, <2>1, <2>8, EmptyView, ZenonT(40)
    <3>2. b1 = f.buf
      BY <1>1, <2>2, <2>8, SeqWhole
    <3>3. o.file = KWrite(ker, f.mode.app, f.buf)
      BY <2>2, <2>8, <3>2, Zenon
    <3>4. Con(f, ker) = o.file.data /\ Pos(f, ker) = o.file.off
      BY <1>1, <1>4, <3>3 DEF Con, Pos
    <3> QED BY <1>2, <2>4, <2>5, <3>1, <3>4, ZenonT(40) DEF SameFile, Same
  <2>9. CASE ~o.ok /\ k = 0
    <3>1. o.file = ker /\ b2 = SubSeq(f.buf, 1, Len(f.buf))
      BY <2>2, <2>9
    <3>2. b2 = f.buf
      BY <1>1, <3>1, SeqWhole
    <3>3. Has(o.fp, "DIRTY")
      BY <1>4, <2>2, <2>9 DEF Has
    <3> QED BY <1>2, <1>4, <2>4, <2>5, <3>1, <3>2, <3>3, Zenon DEF SameFile, Same, Con, Pos
  <2>10. CASE ~o.ok /\ k # 0
    <3>1. o.file = KWrite(ker, f.mode.app, b1)
      BY <2>2, <2>10, ZenonT(40)
    <3>2. Has(o.fp, "DIRTY") /\ o.fp.open /\ o.fp.mode = f.mode
      BY <1>1, <1>2, <1>4, <2>2, <2>10 DEF Has, Same
    <3>3. b2 \in Seq(Int) /\ b1 \o b2 = f.buf
      <4>1. b2 \in Seq(Int)
        BY <1>2, ZenonT(40) DEF Good, FpSet
      <4>2. 1 \in 1 .. Len(f.buf) + 1 /\ k \in 1 - 1 .. Len(f.buf) /\ Len(f.buf) \in k .. Len(f.buf)
        BY <1>1
      <4>3. SubSeq(f.buf, 1, k) \o SubSeq(f.buf, k + 1, Len(f.buf)) = SubSeq(f.buf, 1, Len(f.buf))
        BY <1>1, <4>2, SeqParts, Zenon
      <4> QED BY <1>1, <2>2, <4>1, <4>3, SeqWhole, Zenon
    <3>4. /\ o.file.data = Overlay(ker.data, a, b1) /\ o.file.off = a + k
          /\ Len(o.file.data) = IF a + k > Len(ker.data) THEN a + k ELSE Len(ker.data)
      <4>0. b1 # <<>>
        BY <2>7, <2>10, SeqEmpty
      <4>1. o.file.data = Overlay(ker.data, a, b1) /\ o.file.off = a + Len(b1)
        BY <3>1 DEF KWrite, Base
      <4> HIDE DEF a, b1
      <4>2. Len(Overlay(ker.data, a, b1)) = IF a + Len(b1) > Len(ker.data) THEN a + Len(b1) ELSE Len(ker.data)
        BY <1>1, <2>6, <2>7, <4>0, OverlayLength, Zenon
      <4> QED BY <2>7, <4>1, <4>2, Zenon
    <3>5. Base(o.fp, o.file) = a + k
      <4>1. CASE f.mode.app
        <5>1. a = Len(ker.data) /\ a \in Nat
          BY <1>1, <4>1, SeqLength DEF Base
        <5>2. Len(o.file.data) = a + k
          <6> HIDE DEF a
          <6> QED BY <2>7, <3>4, <5>1
        <5> QED BY <3>2, <4>1, <5>2 DEF Base
      <4>2. CASE ~f.mode.app
        BY <3>2, <3>4, <4>2 DEF Base
      <4> QED BY <4>1, <4>2
    <3>6. /\ Con(o.fp, o.file) = Overlay(o.file.data, a + k, b2)
          /\ Pos(o.fp, o.file) = a + k + Len(b2)
      BY <1>2, <3>2, <3>5, DirtyView, ZenonT(40)
    <3> HIDE DEF a, b1, b2
    <3>7. Con(o.fp, o.file) = Con(f, ker)
      <4>1. Overlay(Overlay(ker.data, a, b1), a + Len(b1), b2) = Overlay(ker.data, a, b1 \o b2)
        <5>1. ker.data \in Seq(Int) /\ a \in Nat /\ b1 \in Seq(Int) /\ b2 \in Seq(Int)
          BY <1>1, <2>6, <2>7, <3>3, Zenon
        <5> QED BY ONLY <5>1, OverlayTwice, Zenon
      <4> QED BY <2>6, <2>7, <3>3, <3>4, <3>6, <4>1
    <3>8. Pos(o.fp, o.file) = Pos(f, ker)
      <4>1. Len(f.buf) = k + Len(b2) /\ Len(b2) \in Nat
        BY <2>7, <3>3, SeqConcat, SeqLength, Zenon
      <4>2. a \in Nat
        BY <2>6
      <4> QED BY <2>6, <2>7, <3>6, <4>1, <4>2
    <3> QED BY <1>2, <2>4, <2>5, <3>7, <3>8, ZenonT(40) DEF SameFile, Same
  <2> QED BY <2>8, <2>9, <2>10, ZenonT(40)
<1> QED BY <1>3, <1>4, ZenonT(40)

\* The error flag does not change the client's file.
LEMMA ErrView ==
  ASSUME NEW f, NEW ker, Right(f, ker)
  PROVE  LET g == Set(f, "ERR")
         IN  Right(g, ker) /\ SameFile(f, ker, g, ker) /\ Psh(g) = Psh(f)
<1> DEFINE g == Set(f, "ERR")
<1>1. f \in FpSet /\ "ERR" \in Flags /\ Good(f, ker)
  BY DEF Right, Good, Flags
<1>2. g.flags = f.flags \cup {"ERR"} /\ g.buf = f.buf /\ g.start = f.start /\ g.pb = f.pb
  BY <1>1, SetFields
<1>3. Good(g, ker) /\ Same(f, g)
  BY <1>1, ErrKeeps
<1> HIDE DEF g
<1>4. \A x : x # "ERR" => (Has(g, x) <=> Has(f, x))
  BY <1>2 DEF Has
<1> QED BY <1>2, <1>3, <1>4, FlagView DEF g

\* Giving input back leaves the client's file as it was, and may forget the
\* pushed-back byte.
LEMMA DiscardView ==
  ASSUME NEW f, NEW ker, Right(f, ker)
  PROVE  LET o == Discard(f, ker)
         IN  /\ Right(o.fp, o.file) /\ SameFile(f, ker, o.fp, o.file)
             /\ Psh(o.fp) = Psh(f) \/ Psh(o.fp) = -1
<1> DEFINE o == Discard(f, ker)
           e == [f EXCEPT !.buf = <<>>, !.start = 0]
           empty == Clear(e, {"UNREAD", "PUSHBACK"})
           to == ker.off - Unread(f)
           moved == [ker EXCEPT !.off = KSeek(to)]
<1>1. /\ Good(f, ker) /\ f.open /\ f \in FpSet /\ ker \in FileSet /\ <<>> \in Seq(Int) /\ f.pb = NL
      /\ Len(f.buf) \in Nat /\ f.start \in Nat /\ ker.off \in Nat
  BY SeqLength DEF Right, Good, FpSet, FileSet
<1>2. o \in Outcomes /\ Good(o.fp, o.file) /\ Same(f, o.fp) /\ (o.ok => ~Has(o.fp, "UNREAD"))
      /\ (~Has(f, "DIRTY") => ~Has(o.fp, "DIRTY"))
  BY <1>1, DiscardKeeps
<1>3. o = IF ~Has(f, "UNREAD") THEN [ok |-> TRUE, fp |-> f, file |-> ker]
          ELSE IF Unread(f) = 0 THEN [ok |-> TRUE, fp |-> empty, file |-> ker]
          ELSE IF KSeek(to) = -1 THEN [ok |-> FALSE, fp |-> Set(f, "ERR"), file |-> ker]
          ELSE [ok |-> TRUE, fp |-> empty, file |-> moved]
  BY Zenon DEF Discard
<1>4. empty.pb = f.pb
  <2>1. e \in FpSet /\ e.pb = f.pb
    BY <1>1, RefillFields, Zenon
  <2> HIDE DEF e
  <2> QED BY <2>1, ClearFields
<1>5. Unread(f) \in Int /\ to \in Int
  BY <1>1 DEF Unread
<1> HIDE DEF empty, o, to
<1>6. CASE ~Has(f, "UNREAD")
  <2>1. o = [ok |-> TRUE, fp |-> f, file |-> ker]
    BY <1>3, <1>6
  <2>2. o.fp = f /\ o.file = ker
    BY <2>1
  <2>3. Right(o.fp, o.file) /\ SameFile(f, ker, o.fp, o.file) /\ Psh(o.fp) = Psh(f)
    BY <2>2, Zenon DEF SameFile, Same
  <2> QED BY <2>3 DEF o
<1>7. CASE Has(f, "UNREAD") /\ Unread(f) # 0 /\ KSeek(to) = -1
  <2>1. o = [ok |-> FALSE, fp |-> Set(f, "ERR"), file |-> ker]
    BY <1>3, <1>7, ZenonT(40)
  <2> QED BY <2>1, ErrView DEF o
<1>8. CASE Has(f, "UNREAD") /\ (Unread(f) = 0 \/ KSeek(to) # -1)
  <2>1. ~Has(f, "DIRTY")
    BY <1>1, <1>8, ZenonT(40) DEF Good, Roles
  <2>2. o.ok /\ o.fp = empty /\ o.file.data = ker.data /\ o.file.off = to
    <3>1. CASE Unread(f) = 0
      <4>1. o = [ok |-> TRUE, fp |-> empty, file |-> ker]
        BY <1>3, <1>8, <3>1
      <4> QED BY <1>1, <3>1, <4>1 DEF to
    <3>2. CASE Unread(f) # 0
      <4>1. o = [ok |-> TRUE, fp |-> empty, file |-> moved]
        BY <1>3, <1>8, <3>2
      <4>2. KSeek(to) = to
        BY <1>8, <3>2 DEF KSeek
      <4>3. moved.data = ker.data /\ moved.off = to
        BY <1>1, <4>2, ZenonT(40) DEF FileSet
      <4> HIDE DEF moved
      <4> QED BY <4>1, <4>3
    <3> QED BY <3>1, <3>2
  <2>3. /\ Con(o.fp, o.file) = ker.data /\ Pos(o.fp, o.file) = to /\ Psh(o.fp) = -1
        /\ InputRight(o.fp, o.file)
    BY <1>2, <2>1, <2>2, EmptyView
  <2>4. Con(f, ker) = ker.data /\ Pos(f, ker) = to
    BY <2>1 DEF Con, Pos, to
  <2>5. Right(o.fp, o.file)
    BY <1>1, <1>2, <1>4, <2>2, <2>3, ZenonT(40) DEF Right, Same
  <2> QED BY <1>2, <2>3, <2>4, <2>5, ZenonT(40) DEF SameFile, o, Same
<1> QED BY <1>6, <1>7, <1>8, ZenonT(40)

\* The start of a read leaves the client's file as it was.
LEMMA PrepareReadView ==
  ASSUME NEW f, NEW ker, Right(f, ker), NEW o \in PrepareRead(f, ker)
  PROVE  Right(o.fp, o.file) /\ SameFile(f, ker, o.fp, o.file) /\ Psh(o.fp) = Psh(f)
<1>1. CASE ~f.mode.rd
  <2>1. o = [ok |-> FALSE, fp |-> Set(f, "ERR"), file |-> ker]
    BY <1>1 DEF PrepareRead
  <2> QED BY <2>1, ErrView
<1>2. CASE f.mode.rd
  <2>1. PICK p \in Flushes(f, ker) : o = IF p.ok THEN [p EXCEPT !.fp = Set(@, "UNREAD")] ELSE p
    BY <1>2 DEF PrepareRead
  <2>2. Right(p.fp, p.file) /\ SameFile(f, ker, p.fp, p.file) /\ Psh(p.fp) = Psh(f)
    BY FlushView, ZenonT(40)
  <2>3. p \in Outcomes /\ (p.ok => ~Has(p.fp, "DIRTY"))
    BY FlushKeeps DEF Right
  <2>4. CASE ~p.ok
    BY <2>1, <2>2, <2>4, ZenonT(40)
  <2>5. CASE p.ok
    <3> DEFINE g == Set(p.fp, "UNREAD")
    <3>1. o = [ok |-> p.ok, fp |-> g, file |-> p.file]
      BY <2>1, <2>3, <2>5, Zenon DEF Outcomes
    <3>2. p.fp \in FpSet /\ "UNREAD" \in Flags /\ Good(p.fp, p.file)
      BY <2>2, ZenonT(40) DEF Right, Good, Flags
    <3>3. /\ g.flags = p.fp.flags \cup {"UNREAD"} /\ g.open = p.fp.open /\ g.mode = p.fp.mode
          /\ g.buf = p.fp.buf /\ g.start = p.fp.start /\ g.size = p.fp.size /\ g.pb = p.fp.pb
      BY <3>2, SetFields, ZenonT(40)
    <3>4. Good(o.fp, o.file)
      BY PrepareReadKeeps, ZenonT(40) DEF Right
    <3> HIDE DEF g
    <3>5. Good(g, p.file) /\ Same(p.fp, g)
      BY <3>1, <3>3, <3>4, ZenonT(40) DEF Same
    <3>6. \A x : x # "UNREAD" => (Has(g, x) <=> Has(p.fp, x))
      BY <3>3, ZenonT(40) DEF Has
    <3>7. Has(p.fp, "UNREAD") \/ p.fp.buf = <<>>
      BY <2>3, <2>5, <3>2 DEF Good, Roles
    <3>8. Right(g, p.file) /\ SameFile(p.fp, p.file, g, p.file) /\ Psh(g) = Psh(p.fp)
      BY <2>2, <3>3, <3>5, <3>6, <3>7, FlagView, Zenon
    <3> QED BY <2>2, <3>1, <3>8 DEF SameFile, Same
  <2> QED BY <2>4, <2>5
<1> QED BY <1>1, <1>2
=============================================================================
