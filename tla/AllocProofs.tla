---------------------------- MODULE AllocProofs ----------------------------
(***************************************************************************)
(* Proofs about Alloc, 1: what merging, splitting, marking, freeing,       *)
(* taking and appending a block do to the block list; then that every     *)
(* step keeps the inductive invariant IInv, and what follows from it.      *)
(***************************************************************************)
EXTENDS Alloc, TLAPS

\* The time the provers are given for a leaf that names none.
USE SMTT(20), ZenonT(20)

-----------------------------------------------------------------------------
(* The block list.                                                         *)


\* A well-formed block list.
WF(h) == Typed(h) /\ Linked(h) /\ Separate(h)

\* The headers after merge_next absorbed n, field by field.
LEMMA MergeNextFields ==
  ASSUME NEW h, WF(h), NEW b \in DOMAIN h.blk, Merges(h, b),
         NEW n, n = h.blk[b].next, NEW nn, nn = h.blk[n].next,
         NEW m, m = MergeNext(h, b)
  PROVE  /\ n \in DOMAIN h.blk /\ b < n /\ h.blk[n].prev = b /\ n # NULL
         /\ h.blk[n].avail = 1
         /\ b + HDR + h.blk[b].size = n
         /\ DOMAIN m.blk = DOMAIN h.blk \ {n}
         /\ b \in DOMAIN m.blk
         /\ m.blk[b].size = h.blk[b].size + HDR + h.blk[n].size
         /\ m.blk[b].next = nn
         /\ nn \in DOMAIN m.blk => m.blk[nn].prev = b
         /\ \A x \in DOMAIN m.blk : m.blk[x].avail = h.blk[x].avail
         /\ \A x \in DOMAIN m.blk : x # b => m.blk[x].size = h.blk[x].size
         /\ \A x \in DOMAIN m.blk : x # b => m.blk[x].next = h.blk[x].next
         /\ \A x \in DOMAIN m.blk : x # nn => m.blk[x].prev = h.blk[x].prev
         /\ m.first = h.first
         /\ nn = NULL => m.last = b
         /\ nn # NULL => m.last = h.last
<1>1. /\ DOMAIN m.blk = DOMAIN h.blk \ {n}
      /\ \A x \in DOMAIN m.blk :
             /\ m.blk[x].size = IF x = b THEN h.blk[b].size + HDR + h.blk[n].size
                                         ELSE h.blk[x].size
             /\ m.blk[x].next = IF x = b THEN nn ELSE h.blk[x].next
             /\ m.blk[x].prev = IF x = nn THEN b ELSE h.blk[x].prev
             /\ m.blk[x].avail = h.blk[x].avail
      /\ m.first = h.first
      /\ m.last = IF nn = NULL THEN b ELSE h.last
  BY Zenon DEF MergeNext
<1>2. n # NULL /\ h.blk[n].avail = 1 /\ b + HDR + h.blk[b].size = n
  BY Zenon DEF Merges, End
<1>3. n \in DOMAIN h.blk /\ b < n /\ h.blk[n].prev = b
  BY <1>2, Zenon DEF WF, Linked, NextRight
<1>4. b # n
  BY <1>3 DEF WF, Typed
<1> QED BY <1>1, <1>2, <1>3, <1>4, Zenon

\* merge_next keeps the list well-formed.
LEMMA MergeNextWF ==
  ASSUME NEW h, NEW b \in DOMAIN h.blk, WF(h)
  PROVE  WF(MergeNext(h, b))
<1>1. CASE ~Merges(h, b)
  BY <1>1, Zenon DEF MergeNext
<1>2. CASE Merges(h, b)
  <2> DEFINE n == h.blk[b].next
             nn == h.blk[n].next
             m == MergeNext(h, b)
  <2>1. n = h.blk[b].next /\ nn = h.blk[n].next
    BY Zenon
  <2>m. m = MergeNext(h, b)
    BY Zenon
  <2> HIDE DEF m, n, nn
  <2>2. /\ n \in DOMAIN h.blk /\ b < n /\ h.blk[n].prev = b /\ n # NULL
        /\ b + HDR + h.blk[b].size = n
        /\ DOMAIN m.blk = DOMAIN h.blk \ {n}
        /\ b \in DOMAIN m.blk
        /\ m.blk[b].size = h.blk[b].size + HDR + h.blk[n].size
        /\ m.blk[b].next = nn
        /\ nn \in DOMAIN m.blk => m.blk[nn].prev = b
        /\ \A x \in DOMAIN m.blk : m.blk[x].avail = h.blk[x].avail
        /\ \A x \in DOMAIN m.blk : x # b => m.blk[x].size = h.blk[x].size
        /\ \A x \in DOMAIN m.blk : x # b => m.blk[x].next = h.blk[x].next
        /\ \A x \in DOMAIN m.blk : x # nn => m.blk[x].prev = h.blk[x].prev
        /\ m.first = h.first
        /\ nn = NULL => m.last = b
        /\ nn # NULL => m.last = h.last
    BY <1>2, <2>1, <2>m, MergeNextFields
  <2>n. /\ n \in DOMAIN h.blk /\ b < n /\ n # NULL
        /\ b + HDR + h.blk[b].size = n
    BY <2>2, Zenon
  <2>d. DOMAIN m.blk = DOMAIN h.blk \ {n} /\ b \in DOMAIN m.blk
    BY <2>2, Zenon
  <2>4. /\ DOMAIN h.blk \subseteq Nat \ {0}
        /\ NULL \notin DOMAIN h.blk
        /\ HDR \in Nat
    BY AlignAssumption, Zenon DEF WF, Typed, NULL
  <2>5. \A x \in DOMAIN h.blk : x <= b \/ n <= x
    BY <2>1, <2>n, Zenon DEF WF, Linked, NextRight
  <2>6. \A x \in DOMAIN m.blk : x # b => h.blk[x].next # n
    BY <2>1, <2>2, <2>4, Zenon DEF WF, Linked, NextRight
  <2>7. \A x \in DOMAIN m.blk : x # nn => h.blk[x].prev # n
    BY <2>1, <2>2, <2>4, Zenon DEF WF, Linked, PrevRight
  <2>8. nn = NULL => n = h.last /\ \A x \in DOMAIN m.blk : x <= b
    <3>1. nn = NULL => n = h.last
      BY <2>1, <2>2, Zenon DEF WF, Linked, NextRight
    <3>2. \A x \in DOMAIN h.blk : x <= h.last
      BY Zenon DEF WF, Linked, EndsRight
    <3>3. ASSUME nn = NULL, NEW x \in DOMAIN m.blk
          PROVE  x <= b
      <4>1. x <= n /\ x # n /\ (x <= b \/ n <= x)
        BY <3>1, <3>2, <3>3, <2>d, <2>5, Zenon
      <4>2. x \in Nat /\ n \in Nat
        BY <2>d, <2>n, <2>4, Zenon
      <4> QED BY <4>1, <4>2
    <3> QED BY <3>1, <3>3, Zenon
  <2>9. nn # NULL => /\ nn \in DOMAIN m.blk /\ b < nn /\ n < nn
                     /\ h.blk[nn].prev = n
                     /\ \A x \in DOMAIN h.blk : x <= n \/ nn <= x
    <3>1. nn # NULL => /\ nn \in DOMAIN h.blk /\ n < nn /\ h.blk[nn].prev = n
                       /\ \A x \in DOMAIN h.blk : x <= n \/ nn <= x
      BY <2>1, <2>n, Zenon DEF WF, Linked, NextRight
    <3>2. nn \in DOMAIN h.blk /\ n < nn => b < nn /\ nn # n
      BY <2>n, <2>4
    <3> QED BY <3>1, <3>2, <2>2, Zenon
  <2>10. EndsRight(m)
    <3>1. /\ h.first \in DOMAIN h.blk /\ h.last \in DOMAIN h.blk
          /\ \A x \in DOMAIN h.blk : h.first <= x /\ x <= h.last
      BY <2>1, <2>2, Zenon DEF WF, Linked, EndsRight
    <3>2. h.first # n
      BY <3>1, <2>n, <2>d, <2>4
    <3>3. nn # NULL => h.last # n
      BY <3>1, <2>n, <2>d, <2>4, <2>9
    <3>4. \E x \in DOMAIN m.blk : TRUE
      BY <2>d, Zenon
    <3>5. m.first \in DOMAIN m.blk /\ \A x \in DOMAIN m.blk : m.first <= x
      BY <3>1, <3>2, <2>2, Zenon
    <3>6. CASE nn = NULL
      BY <3>5, <3>6, <2>2, <2>8, <2>4, Zenon DEF EndsRight
    <3>7. CASE nn # NULL
      BY <3>1, <3>3, <3>5, <3>7, <2>2, <2>4, Zenon DEF EndsRight
    <3> QED BY <3>6, <3>7, Zenon
  <2>11. NextRight(m)
    <3> SUFFICES ASSUME NEW x \in DOMAIN m.blk
                 PROVE  IF m.blk[x].next = NULL
                        THEN x = m.last
                        ELSE /\ m.blk[x].next \in DOMAIN m.blk
                             /\ x < m.blk[x].next
                             /\ m.blk[m.blk[x].next].prev = x
                             /\ \A y \in DOMAIN m.blk : y <= x \/ m.blk[x].next <= y
      BY Zenon DEF NextRight
    <3>1. CASE x = b
      <4>1. nn # NULL => \A y \in DOMAIN m.blk : y <= b \/ nn <= y
        <5> SUFFICES ASSUME nn # NULL, NEW y \in DOMAIN m.blk
                     PROVE  y <= b \/ nn <= y
          BY Zenon
        <5>1. (y <= b \/ n <= y) /\ (y <= n \/ nn <= y) /\ y # n
          BY <2>2, <2>5, <2>9, Zenon
        <5>2. y \in Nat /\ n \in Nat
          BY <2>1, <2>2, <2>4, Zenon
        <5> QED BY <5>1, <5>2
      <4> QED BY <3>1, <4>1, <2>2, <2>9, Zenon
    <3>2. CASE x # b /\ h.blk[x].next = NULL
      <4>1. x = h.last
        BY <3>2, <2>2, Zenon DEF WF, Linked, NextRight
      <4> QED BY <3>2, <4>1, <2>2, <2>8, Zenon
    <3>3. CASE x # b /\ h.blk[x].next # NULL
      <4>1. /\ h.blk[x].next \in DOMAIN m.blk
            /\ x < h.blk[x].next
            /\ h.blk[h.blk[x].next].prev = x
            /\ \A y \in DOMAIN m.blk : y <= x \/ h.blk[x].next <= y
        BY <3>3, <2>2, <2>6, Zenon DEF WF, Linked, NextRight
      <4>2. h.blk[x].next # nn
        BY <4>1, <2>2, <2>4, <2>9
      <4> QED BY <3>3, <4>1, <4>2, <2>2, Zenon
    <3> QED BY <3>1, <3>2, <3>3, Zenon
  <2>12. PrevRight(m)
    <3> SUFFICES ASSUME NEW x \in DOMAIN m.blk
                 PROVE  IF m.blk[x].prev = NULL
                        THEN x = m.first
                        ELSE /\ m.blk[x].prev \in DOMAIN m.blk
                             /\ m.blk[m.blk[x].prev].next = x
      BY Zenon DEF PrevRight
    <3>1. CASE x = nn
      BY <3>1, <2>2, <2>4
    <3>2. CASE x # nn /\ h.blk[x].prev = NULL
      BY <3>2, <2>2, Zenon DEF WF, Linked, PrevRight
    <3>3. CASE x # nn /\ h.blk[x].prev # NULL
      <4>1. h.blk[x].prev \in DOMAIN m.blk /\ h.blk[h.blk[x].prev].next = x
        BY <3>3, <2>2, <2>7, Zenon DEF WF, Linked, PrevRight
      <4>2. h.blk[x].prev # b
        BY <4>1, <2>1, <2>2, Zenon
      <4> QED BY <3>3, <4>1, <4>2, <2>2
    <3> QED BY <3>1, <3>2, <3>3, Zenon
  <2>13. Separate(m)
    <3> SUFFICES ASSUME NEW x \in DOMAIN m.blk, NEW y \in DOMAIN m.blk, x < y
                 PROVE  x + HDR + m.blk[x].size <= y
      BY Zenon DEF Separate, End
    <3>1. CASE x = b
      <4>1. n < y
        BY <3>1, <2>n, <2>d, <2>4, <2>5
      <4>2. n + HDR + h.blk[n].size <= y
        BY <4>1, <2>1, <2>2, Zenon DEF WF, Separate, End
      <4>3. h.blk[b].size \in Nat /\ h.blk[n].size \in Nat
        BY <2>1, <2>2, Zenon DEF WF, Typed
      <4>4. b \in Nat /\ y \in Nat /\ m.blk[x].size = h.blk[b].size + HDR + h.blk[n].size
        BY <3>1, <2>2, <2>4, Zenon
      <4>5. b \in Nat /\ HDR \in Nat /\ b + HDR + h.blk[b].size = n
        BY <4>4, <2>n, <2>4, Zenon
      <4> QED BY <3>1, <4>2, <4>3, <4>4, <4>5
    <3>2. CASE x # b
      BY <3>2, <2>1, <2>2, Zenon DEF WF, Separate, End
    <3> QED BY <3>1, <3>2, Zenon
  <2>14. Typed(m)
    <3>1. h.blk[b].size + HDR + h.blk[n].size \in Nat
      <4>1. h.blk[b].size \in Nat /\ h.blk[n].size \in Nat
        BY <2>n, Zenon DEF WF, Typed
      <4> QED BY <4>1, <2>4
    <3>2. nn \in Nat /\ b \in Nat
      BY <2>1, <2>n, Zenon DEF WF, Typed
    <3>3. /\ h.first \in Nat /\ h.last \in Nat
          /\ \A x \in DOMAIN m.blk :
                /\ x \in Nat \ {0}
                /\ h.blk[x].size \in Nat /\ h.blk[x].next \in Nat
                /\ h.blk[x].prev \in Nat /\ h.blk[x].avail \in {0, 1}
      BY <2>d, Zenon DEF WF, Typed
    <3>4. m.first \in Nat /\ m.last \in Nat
      BY <2>2, <3>2, <3>3, Zenon
    <3>5. ASSUME NEW x \in DOMAIN m.blk
          PROVE  m.blk[x].size \in Nat /\ m.blk[x].next \in Nat
                 /\ m.blk[x].prev \in Nat /\ m.blk[x].avail \in {0, 1}
      <4>1. m.blk[x].size \in Nat
        BY <2>2, <3>1, <3>3, ZenonT(40)
      <4>2. m.blk[x].next \in Nat
        BY <2>2, <3>2, <3>3, Zenon
      <4>3. m.blk[x].prev \in Nat
        BY <2>2, <3>2, <3>3, Zenon
      <4> QED BY <4>1, <4>2, <4>3, <2>2, <3>3, Zenon
    <3> QED BY <3>3, <3>4, <3>5, Zenon DEF Typed
  <2> QED BY <2>14, <2>10, <2>11, <2>12, <2>13, Zenon DEF WF, Linked, m
<1> QED BY <1>1, <1>2, Zenon

\* The end of a block is a number.
LEMMA EndTyped ==
  ASSUME NEW h, WF(h) PROVE \A x \in DOMAIN h.blk : End(h, x) \in Nat
BY AlignAssumption DEF WF, Typed, End

\* What merge_next at b makes of the list h.
Merged(h, b, m) ==
    /\ b \in DOMAIN m.blk /\ DOMAIN m.blk \subseteq DOMAIN h.blk
    /\ \A x \in DOMAIN m.blk : m.blk[x].avail = h.blk[x].avail
    /\ \A x \in DOMAIN m.blk : x # b => m.blk[x].size = h.blk[x].size
    /\ \A x \in DOMAIN m.blk : x # b => m.blk[x].next = h.blk[x].next
    /\ h.blk[b].size <= m.blk[b].size
    /\ \A x \in DOMAIN h.blk \ DOMAIN m.blk : h.blk[x].avail = 1
    /\ \A x \in DOMAIN m.blk : \E y \in DOMAIN h.blk : End(m, x) = End(h, y)

\* What merge_next does to the blocks other than b, and to the bytes covered.
LEMMA MergeNextEffect ==
  ASSUME NEW h, WF(h), NEW b \in DOMAIN h.blk,
         NEW m, m = MergeNext(h, b)
  PROVE  Merged(h, b, m)
<1> USE DEF Merged
<1>1. CASE ~Merges(h, b)
  BY <1>1 DEF MergeNext, WF, Typed
<1>2. CASE Merges(h, b)
  <2> DEFINE n == h.blk[b].next
             nn == h.blk[n].next
  <2>1. n = h.blk[b].next /\ nn = h.blk[n].next
    BY Zenon
  <2> HIDE DEF n, nn
  <2>2. /\ n \in DOMAIN h.blk /\ b < n /\ h.blk[n].avail = 1
        /\ b + HDR + h.blk[b].size = n
        /\ DOMAIN m.blk = DOMAIN h.blk \ {n}
        /\ b \in DOMAIN m.blk
        /\ m.blk[b].size = h.blk[b].size + HDR + h.blk[n].size
        /\ \A x \in DOMAIN m.blk : m.blk[x].avail = h.blk[x].avail
        /\ \A x \in DOMAIN m.blk : x # b => m.blk[x].size = h.blk[x].size
        /\ \A x \in DOMAIN m.blk : x # b => m.blk[x].next = h.blk[x].next
    BY <1>2, <2>1, MergeNextFields
  <2>3. b \in Nat /\ n \in Nat /\ h.blk[b].size \in Nat /\ h.blk[n].size \in Nat
    BY <2>2, Zenon DEF WF, Typed
  <2>4. HDR \in Nat
    BY AlignAssumption, Zenon
  <2>5. End(m, b) = End(h, n)
    BY <2>2, <2>3, <2>4 DEF End
  <2>6. \A x \in DOMAIN m.blk : x # b => End(m, x) = End(h, x)
    BY <2>2, Zenon DEF End
  <2>7. h.blk[b].size <= m.blk[b].size
    BY <2>2, <2>3, <2>4
  <2> QED BY <2>2, <2>5, <2>6, <2>7, Zenon
<1> QED BY <1>1, <1>2, Zenon

\* merge_next introduces no pair of touching available blocks, and removes the
\* one at b.
LEMMA MergeNextApart ==
  ASSUME NEW h, WF(h), NEW b \in DOMAIN h.blk,
         h.blk[b].next # NULL => Apart(h, h.blk[b].next),
         NEW m, m = MergeNext(h, b)
  PROVE  /\ Apart(m, b)
         /\ \A x \in DOMAIN m.blk : x # b /\ Apart(h, x) => Apart(m, x)
<1>1. CASE ~Merges(h, b)
  BY <1>1, Zenon DEF MergeNext, Apart
<1>2. CASE Merges(h, b)
  <2> DEFINE n == h.blk[b].next
             nn == h.blk[n].next
  <2>1. n = h.blk[b].next /\ nn = h.blk[n].next
    BY Zenon
  <2> HIDE DEF n, nn
  <2>2. /\ n \in DOMAIN h.blk /\ b < n /\ h.blk[n].avail = 1 /\ n # NULL
        /\ b + HDR + h.blk[b].size = n
        /\ DOMAIN m.blk = DOMAIN h.blk \ {n}
        /\ b \in DOMAIN m.blk
        /\ m.blk[b].size = h.blk[b].size + HDR + h.blk[n].size
        /\ m.blk[b].next = nn
        /\ \A x \in DOMAIN m.blk : m.blk[x].avail = h.blk[x].avail
        /\ \A x \in DOMAIN m.blk : x # b => m.blk[x].size = h.blk[x].size
        /\ \A x \in DOMAIN m.blk : x # b => m.blk[x].next = h.blk[x].next
    BY <1>2, <2>1, MergeNextFields
  <2>3. b \in Nat /\ n \in Nat /\ h.blk[b].size \in Nat /\ h.blk[n].size \in Nat
    BY <2>2, Zenon DEF WF, Typed
  <2>4. HDR \in Nat
    BY AlignAssumption, Zenon
  <2>5. End(m, b) = End(h, n)
    <3>1. /\ m.blk[b].size = h.blk[b].size + HDR + h.blk[n].size
          /\ b + HDR + h.blk[b].size = n
      BY <2>2, Zenon
    <3> QED BY <3>1, <2>3, <2>4 DEF End
  <2>6. ~Merges(h, n)
    <3>1. n \in DOMAIN h.blk /\ h.blk[n].avail = 1 /\ n # NULL
      BY <2>2, Zenon
    <3> QED BY <3>1, <2>1 DEF Apart
  <2>7. nn # NULL => nn \in DOMAIN m.blk
    <3>1. nn # NULL => nn \in DOMAIN h.blk /\ n < nn
      <4>1. n \in DOMAIN h.blk
        BY <2>2, Zenon
      <4> QED BY <4>1, <2>1 DEF WF, Linked, NextRight
    <3>2. nn \in DOMAIN h.blk => nn \in Nat
      BY Zenon DEF WF, Typed
    <3> QED BY <3>1, <3>2, <2>2, <2>3
  <2>8. ~Merges(m, b)
    BY <2>1, <2>2, <2>5, <2>6, <2>7, ZenonT(60) DEF Merges
  <2>9. ASSUME NEW x \in DOMAIN m.blk, x # b, Apart(h, x)
        PROVE  Apart(m, x)
    <3>1. h.blk[x].next = NULL \/ h.blk[x].next \in DOMAIN m.blk
      <4>1. h.blk[x].next # NULL =>
               h.blk[x].next \in DOMAIN h.blk /\ h.blk[h.blk[x].next].prev = x
        BY <2>2, Zenon DEF WF, Linked, NextRight
      <4>2. h.blk[n].prev = b
        BY <2>1, <2>2, Zenon DEF WF, Linked, NextRight
      <4> QED BY <4>1, <4>2, <2>2, <2>9, Zenon
    <3>2. End(m, x) = End(h, x)
      BY <2>2, <2>9, Zenon DEF End
    <3>3. Merges(m, x) => Merges(h, x)
      BY <3>1, <3>2, <2>2, <2>9 DEF Merges
    <3> QED BY <3>3, <2>2, <2>9, Zenon DEF Apart
  <2> QED BY <2>8, <2>9, Zenon DEF Apart
<1> QED BY <1>1, <1>2, Zenon

\* The headers after split_block cut b at n bytes, field by field.
LEMMA CutBlockFields ==
  ASSUME NEW h, WF(h), NEW b \in DOMAIN h.blk, NEW n \in Nat, Splits(h, b, n),
         NEW nx, nx = h.blk[b].next, NEW rest, rest = b + HDR + n,
         NEW c, c = CutBlock(h, b, n)
  PROVE  /\ rest \in Nat \ {0} /\ b < rest /\ rest \notin DOMAIN h.blk
         /\ rest # NULL /\ nx # rest /\ nx # b
         /\ \A x \in DOMAIN h.blk : b < x => rest < x
         /\ DOMAIN c.blk = DOMAIN h.blk \cup {rest}
         /\ c.blk[rest].size = h.blk[b].size - n - HDR
         /\ c.blk[rest].size \in Nat
         /\ c.blk[rest].next = nx /\ c.blk[rest].prev = b /\ c.blk[rest].avail = 1
         /\ c.blk[b].size = n /\ c.blk[b].next = rest
         /\ nx \in DOMAIN h.blk => c.blk[nx].prev = rest
         /\ \A x \in DOMAIN h.blk : c.blk[x].avail = h.blk[x].avail
         /\ \A x \in DOMAIN h.blk : x # b => c.blk[x].size = h.blk[x].size
         /\ \A x \in DOMAIN h.blk : x # b => c.blk[x].next = h.blk[x].next
         /\ \A x \in DOMAIN h.blk : x # nx => c.blk[x].prev = h.blk[x].prev
         /\ c.first = h.first
         /\ nx = NULL => c.last = rest
         /\ nx # NULL => c.last = h.last
<1>1. /\ DOMAIN c.blk = DOMAIN h.blk \cup {rest}
      /\ c.blk[rest].size = h.blk[b].size - n - HDR
      /\ c.blk[rest].next = nx /\ c.blk[rest].prev = b /\ c.blk[rest].avail = 1
      /\ \A x \in DOMAIN h.blk : x # rest =>
             /\ c.blk[x].size = IF x = b THEN n ELSE h.blk[x].size
             /\ c.blk[x].next = IF x = b THEN rest ELSE h.blk[x].next
             /\ c.blk[x].prev = IF x = nx THEN rest ELSE h.blk[x].prev
             /\ c.blk[x].avail = h.blk[x].avail
      /\ c.first = h.first
      /\ c.last = IF nx = NULL THEN rest ELSE h.last
  BY Zenon DEF CutBlock
<1>2. /\ b \in Nat \ {0} /\ h.blk[b].size \in Nat
      /\ HDR \in Nat \ {0} /\ ALIGN \in Nat \ {0}
      /\ h.blk[b].size - n >= HDR + ALIGN
  BY AlignAssumption, Zenon DEF WF, Typed, Splits
<1>3. rest \in Nat \ {0} /\ b < rest /\ rest < b + HDR + h.blk[b].size
      /\ h.blk[b].size - n - HDR \in Nat
  BY <1>2
<1>4. ASSUME NEW x \in DOMAIN h.blk, b < x
      PROVE  rest < x
  <2>1. b + HDR + h.blk[b].size <= x
    BY <1>4, Zenon DEF WF, Separate, End
  <2>2. x \in Nat
    BY Zenon DEF WF, Typed
  <2> QED BY <2>1, <2>2, <1>2, <1>3
<1>5. rest \notin DOMAIN h.blk
  BY <1>3, <1>4
<1>6. nx # NULL => nx \in DOMAIN h.blk /\ b < nx
  BY Zenon DEF WF, Linked, NextRight
<1>7. nx # rest /\ nx # b /\ rest # NULL
  BY <1>2, <1>3, <1>5, <1>6 DEF NULL
<1> QED BY <1>1, <1>3, <1>4, <1>5, <1>7

\* split_block keeps the list well-formed.
LEMMA CutBlockWF ==
  ASSUME NEW h, WF(h), NEW b \in DOMAIN h.blk, NEW n \in Nat, Splits(h, b, n)
  PROVE  WF(CutBlock(h, b, n))
<1> DEFINE nx == h.blk[b].next
           rest == b + HDR + n
           c == CutBlock(h, b, n)
<1>1. nx = h.blk[b].next /\ rest = b + HDR + n /\ c = CutBlock(h, b, n)
  BY Zenon
<1> HIDE DEF nx, rest, c
<1>2. /\ rest \in Nat \ {0} /\ b < rest /\ rest \notin DOMAIN h.blk
      /\ rest # NULL /\ nx # rest /\ nx # b
      /\ \A x \in DOMAIN h.blk : b < x => rest < x
  BY <1>1, CutBlockFields
<1>3. /\ DOMAIN c.blk = DOMAIN h.blk \cup {rest}
      /\ c.blk[rest].size = h.blk[b].size - n - HDR
      /\ c.blk[rest].size \in Nat
      /\ c.blk[rest].next = nx /\ c.blk[rest].prev = b /\ c.blk[rest].avail = 1
      /\ c.blk[b].size = n /\ c.blk[b].next = rest
      /\ nx \in DOMAIN h.blk => c.blk[nx].prev = rest
      /\ \A x \in DOMAIN h.blk : c.blk[x].avail = h.blk[x].avail
      /\ \A x \in DOMAIN h.blk : x # b => c.blk[x].size = h.blk[x].size
      /\ \A x \in DOMAIN h.blk : x # b => c.blk[x].next = h.blk[x].next
      /\ \A x \in DOMAIN h.blk : x # nx => c.blk[x].prev = h.blk[x].prev
      /\ c.first = h.first
      /\ nx = NULL => c.last = rest
      /\ nx # NULL => c.last = h.last
  BY <1>1, CutBlockFields
<1>4. DOMAIN h.blk \subseteq Nat \ {0} /\ NULL \notin DOMAIN h.blk
  BY Zenon DEF WF, Typed, NULL
<1>5. Typed(c)
  <2>1. h.first \in Nat /\ h.last \in Nat /\ nx \in Nat
    BY <1>1, Zenon DEF WF, Typed
  <2>2. ASSUME NEW x \in DOMAIN h.blk
        PROVE  /\ x \in Nat \ {0} /\ c.blk[x].size \in Nat /\ c.blk[x].next \in Nat
               /\ c.blk[x].prev \in Nat /\ c.blk[x].avail \in {0, 1}
    BY <1>2, <1>3 DEF WF, Typed
  <2>3. /\ c.blk[rest].prev \in Nat /\ c.blk[rest].avail \in {0, 1}
    BY <1>3, <1>4, Zenon
  <2> QED BY <2>1, <2>2, <2>3, <1>2, <1>3, Zenon DEF Typed
<1>6. nx # NULL => /\ nx \in DOMAIN h.blk /\ rest < nx
                   /\ h.blk[nx].prev = b
                   /\ \A x \in DOMAIN h.blk : x <= b \/ nx <= x
  <2>1. nx # NULL => /\ nx \in DOMAIN h.blk /\ b < nx
                     /\ h.blk[nx].prev = b
                     /\ \A x \in DOMAIN h.blk : x <= b \/ nx <= x
    BY <1>1, Zenon DEF WF, Linked, NextRight
  <2> QED BY <2>1, <1>2, Zenon
<1>7. nx = NULL => b = h.last /\ \A x \in DOMAIN h.blk : x <= b
  <2>1. nx = NULL => b = h.last
    BY <1>1, Zenon DEF WF, Linked, NextRight
  <2>2. \A x \in DOMAIN h.blk : x <= h.last
    BY Zenon DEF WF, Linked, EndsRight
  <2> QED BY <2>1, <2>2, Zenon
<1>8. EndsRight(c)
  <2>1. /\ h.first \in DOMAIN h.blk /\ h.last \in DOMAIN h.blk
        /\ \A x \in DOMAIN h.blk : h.first <= x /\ x <= h.last
    BY Zenon DEF WF, Linked, EndsRight
  <2>2. h.first <= rest
    BY <2>1, <1>2, <1>4
  <2>3. nx # NULL => rest <= h.last
    BY <2>1, <1>2, <1>4, <1>6
  <2>4. nx = NULL => \A x \in DOMAIN h.blk : x <= rest
    BY <1>2, <1>4, <1>7
  <2> QED BY <2>1, <2>2, <2>3, <2>4, <1>2, <1>3, <1>4 DEF EndsRight
<1>9. NextRight(c)
  <2> SUFFICES ASSUME NEW x \in DOMAIN c.blk
               PROVE  IF c.blk[x].next = NULL
                      THEN x = c.last
                      ELSE /\ c.blk[x].next \in DOMAIN c.blk
                           /\ x < c.blk[x].next
                           /\ c.blk[c.blk[x].next].prev = x
                           /\ \A y \in DOMAIN c.blk : y <= x \/ c.blk[x].next <= y
    BY Zenon DEF NextRight
  <2>1. CASE x = rest
    <3>1. nx # NULL => \A y \in DOMAIN c.blk : y <= rest \/ nx <= y
      BY <1>2, <1>3, <1>4, <1>6
    <3> QED BY <2>1, <3>1, <1>3, <1>6, Zenon
  <2>2. CASE x = b
    <3>1. \A y \in DOMAIN c.blk : y <= b \/ rest <= y
      BY <1>2, <1>3, <1>4
    <3> QED BY <2>2, <3>1, <1>2, <1>3, Zenon
  <2>3. CASE x # b /\ x # rest
    <3>0. x \in DOMAIN h.blk /\ c.blk[x].next = h.blk[x].next
      BY <2>3, <1>3, Zenon
    <3>1. CASE h.blk[x].next = NULL
      <4>1. x = h.last
        BY <3>0, <3>1, Zenon DEF WF, Linked, NextRight
      <4> QED BY <2>3, <3>0, <3>1, <4>1, <1>3, <1>7, Zenon
    <3>2. CASE h.blk[x].next # NULL
      <4>1. /\ h.blk[x].next \in DOMAIN h.blk
            /\ x < h.blk[x].next
            /\ h.blk[h.blk[x].next].prev = x
            /\ \A y \in DOMAIN h.blk : y <= x \/ h.blk[x].next <= y
        BY <3>0, <3>2, Zenon DEF WF, Linked, NextRight
      <4>2. h.blk[x].next # nx
        BY <2>3, <4>1, <1>4, <1>6, Zenon
      <4>3. rest <= x \/ h.blk[x].next <= rest
        BY <2>3, <3>0, <4>1, <1>2, <1>4
      <4> QED BY <3>0, <3>2, <4>1, <4>2, <4>3, <1>3
    <3> QED BY <3>1, <3>2, Zenon
  <2> QED BY <2>1, <2>2, <2>3, Zenon
<1>10. PrevRight(c)
  <2> SUFFICES ASSUME NEW x \in DOMAIN c.blk
               PROVE  IF c.blk[x].prev = NULL
                      THEN x = c.first
                      ELSE /\ c.blk[x].prev \in DOMAIN c.blk
                           /\ c.blk[c.blk[x].prev].next = x
    BY Zenon DEF PrevRight
  <2>1. CASE x = rest
    BY <2>1, <1>3, <1>4, Zenon
  <2>2. CASE x = nx /\ x # rest
    BY <2>2, <1>2, <1>3, Zenon
  <2>3. CASE x # nx /\ x # rest
    <3>0. x \in DOMAIN h.blk /\ c.blk[x].prev = h.blk[x].prev
      BY <2>3, <1>3, Zenon
    <3>1. CASE h.blk[x].prev = NULL
      BY <3>0, <3>1, <1>3, Zenon DEF WF, Linked, PrevRight
    <3>2. CASE h.blk[x].prev # NULL
      <4>1. h.blk[x].prev \in DOMAIN h.blk /\ h.blk[h.blk[x].prev].next = x
        BY <3>0, <3>2, Zenon DEF WF, Linked, PrevRight
      <4>2. h.blk[x].prev # b
        BY <2>3, <4>1, <1>1, Zenon
      <4> QED BY <3>0, <3>2, <4>1, <4>2, <1>3, Zenon
    <3> QED BY <3>1, <3>2, Zenon
  <2> QED BY <2>1, <2>2, <2>3, Zenon
<1>11. Separate(c)
  <2> SUFFICES ASSUME NEW x \in DOMAIN c.blk, NEW y \in DOMAIN c.blk, x < y
               PROVE  x + HDR + c.blk[x].size <= y
    BY Zenon DEF Separate, End
  <2>0. /\ b \in Nat /\ h.blk[b].size \in Nat /\ HDR \in Nat
        /\ x \in Nat /\ y \in Nat
        /\ b + HDR + c.blk[b].size = rest
        /\ rest + HDR + c.blk[rest].size = b + HDR + h.blk[b].size
    BY <1>1, <1>2, <1>3, <1>4, AlignAssumption DEF WF, Typed
  <2>1. \A v \in DOMAIN h.blk : \A w \in DOMAIN h.blk : v < w => v + HDR + h.blk[v].size <= w
    BY Zenon DEF WF, Separate, End
  <2>2. CASE x = rest
    <3>1. y \in DOMAIN h.blk /\ b < y
      BY <2>2, <2>0, <1>2, <1>3
    <3> QED BY <2>2, <3>1, <2>0, <2>1, Zenon
  <2>3. CASE x = b
    <3>1. y = rest \/ (y \in DOMAIN h.blk /\ rest < y)
      BY <2>3, <1>2, <1>3, Zenon
    <3> QED BY <2>3, <3>1, <2>0, <1>2
  <2>4. CASE x # b /\ x # rest /\ y # rest
    BY <2>4, <2>1, <1>3, Zenon
  <2>5. CASE x # b /\ x # rest /\ y = rest
    <3>1. x < b
      BY <2>5, <2>0, <1>2, <1>3
    <3>2. x + HDR + h.blk[x].size <= b /\ h.blk[x].size \in Nat
      BY <2>5, <3>1, <2>1, <1>3, Zenon DEF WF, Typed
    <3> QED BY <2>5, <3>2, <2>0, <1>2, <1>3
  <2> QED BY <2>2, <2>3, <2>4, <2>5, Zenon
<1> QED BY <1>1, <1>5, <1>8, <1>9, <1>10, <1>11, Zenon DEF WF, Linked

\* Cutting b leaves the pairs elsewhere apart.
LEMMA CutBlockApart ==
  ASSUME NEW h, WF(h), NEW b \in DOMAIN h.blk, NEW n \in Nat, Splits(h, b, n),
         NEW c, c = CutBlock(h, b, n), NEW x \in DOMAIN h.blk, x # b, Apart(h, x)
  PROVE  Apart(c, x)
<1> DEFINE nx == h.blk[b].next
           rest == b + HDR + n
<1>1. nx = h.blk[b].next /\ rest = b + HDR + n
  BY Zenon
<1> HIDE DEF nx, rest
<1>2. /\ \A y \in DOMAIN h.blk : c.blk[y].avail = h.blk[y].avail
      /\ c.blk[x].size = h.blk[x].size
      /\ c.blk[x].next = h.blk[x].next
  BY <1>1, CutBlockFields
<1>3. h.blk[x].next = NULL \/ h.blk[x].next \in DOMAIN h.blk
  BY Zenon DEF WF, Linked, NextRight
<1>4. End(c, x) = End(h, x)
  BY <1>2, Zenon DEF End
<1>5. Merges(c, x) => Merges(h, x)
  BY <1>2, <1>3, <1>4, Zenon DEF Merges
<1> QED BY <1>2, <1>5, Zenon DEF Apart

\* What split_block at b makes of the list h.
SplitFrom(h, b, n, s) ==
    /\ WF(s)
    /\ b \in DOMAIN s.blk /\ n <= s.blk[b].size
    /\ \A x \in DOMAIN s.blk : x \in DOMAIN h.blk => s.blk[x].avail = h.blk[x].avail
    /\ \A x \in DOMAIN s.blk : x \notin DOMAIN h.blk => s.blk[x].avail = 1
    /\ \A x \in DOMAIN s.blk : x \in DOMAIN h.blk /\ x # b =>
          s.blk[x].size = h.blk[x].size /\ s.blk[x].next = h.blk[x].next
    /\ \A x \in DOMAIN h.blk \ DOMAIN s.blk : h.blk[x].avail = 1
    /\ \A x \in DOMAIN s.blk : \E y \in DOMAIN h.blk : End(s, x) <= End(h, y)
    /\ (h.blk[b].next # NULL => Apart(h, h.blk[b].next)) =>
          \A x \in DOMAIN s.blk :
              x # b /\ (x \in DOMAIN h.blk => Apart(h, x)) => Apart(s, x)

\* What split_block does: b keeps at least n bytes, what it gives up is available
\* and merged with what follows, and nothing else moves.
LEMMA SplitBlockEffect ==
  ASSUME NEW h, WF(h), NEW b \in DOMAIN h.blk, NEW n \in Nat, n <= h.blk[b].size,
         NEW s, s = SplitBlock(h, b, n)
  PROVE  SplitFrom(h, b, n, s)
<1> USE DEF SplitFrom
<1>1. CASE ~Splits(h, b, n)
  <2>1. s = h
    BY <1>1, Zenon DEF SplitBlock
  <2>2. \A x \in DOMAIN h.blk : End(h, x) \in Nat
    BY AlignAssumption DEF WF, Typed, End
  <2> QED BY <2>1, <2>2
<1>2. CASE Splits(h, b, n)
  <2> DEFINE nx == h.blk[b].next
             rest == b + HDR + n
             c == CutBlock(h, b, n)
  <2>1. nx = h.blk[b].next /\ rest = b + HDR + n /\ c = CutBlock(h, b, n)
        /\ s = MergeNext(c, rest)
    BY <1>2, Zenon DEF SplitBlock
  <2> HIDE DEF nx, rest, c
  <2>2. /\ rest \in Nat \ {0} /\ b < rest /\ rest \notin DOMAIN h.blk
        /\ nx # rest /\ nx # b
        /\ DOMAIN c.blk = DOMAIN h.blk \cup {rest}
        /\ c.blk[rest].size = h.blk[b].size - n - HDR
        /\ c.blk[rest].next = nx /\ c.blk[rest].avail = 1
        /\ c.blk[b].size = n
        /\ \A x \in DOMAIN h.blk : c.blk[x].avail = h.blk[x].avail
        /\ \A x \in DOMAIN h.blk : x # b => c.blk[x].size = h.blk[x].size
        /\ \A x \in DOMAIN h.blk : x # b => c.blk[x].next = h.blk[x].next
    BY <1>2, <2>1, CutBlockFields
  <2>3. WF(c)
    BY <1>2, <2>1, CutBlockWF, Zenon
  <2>4. WF(s)
    BY <2>1, <2>2, <2>3, MergeNextWF
  <2>5. /\ rest \in DOMAIN s.blk /\ DOMAIN s.blk \subseteq DOMAIN c.blk
        /\ \A x \in DOMAIN s.blk : s.blk[x].avail = c.blk[x].avail
        /\ \A x \in DOMAIN s.blk : x # rest => s.blk[x].size = c.blk[x].size
        /\ \A x \in DOMAIN s.blk : x # rest => s.blk[x].next = c.blk[x].next
        /\ \A x \in DOMAIN c.blk \ DOMAIN s.blk : c.blk[x].avail = 1
        /\ \A x \in DOMAIN s.blk : \E y \in DOMAIN c.blk : End(s, x) = End(c, y)
    <3>e. Merged(c, rest, s)
      BY <2>1, <2>2, <2>3, MergeNextEffect, Zenon
    <3> QED BY <3>e, Zenon DEF Merged
  <2>6. b \in DOMAIN s.blk
    <3>1. CASE ~Merges(c, rest)
      BY <3>1, <2>1, <2>2, Zenon DEF MergeNext
    <3>2. CASE Merges(c, rest)
      <4>1. DOMAIN s.blk = DOMAIN c.blk \ {nx}
        BY <3>2, <2>1, <2>2, <2>3, MergeNextFields
      <4> QED BY <4>1, <2>2, Zenon
    <3> QED BY <3>1, <3>2, Zenon
  <2>7. s.blk[b].size = n
    <3>1. b # rest
      BY <2>2, Zenon
    <3> QED BY <3>1, <2>2, <2>5, <2>6, Zenon
  <2>8. \A x \in DOMAIN s.blk : \E y \in DOMAIN h.blk : End(s, x) <= End(h, y)
    <3>0. /\ b \in Nat /\ h.blk[b].size \in Nat /\ HDR \in Nat /\ n \in Nat
          /\ \A y \in DOMAIN h.blk : y \in Nat /\ h.blk[y].size \in Nat
      BY AlignAssumption, Zenon DEF WF, Typed
    <3>1. ASSUME NEW y \in DOMAIN c.blk
          PROVE  \E z \in DOMAIN h.blk : End(c, y) <= End(h, z)
      <4>1. CASE y = rest
        <5>1. End(c, y) = End(h, b) /\ End(h, b) \in Nat
          BY <4>1, <3>0, <2>1, <2>2 DEF End
        <5> QED BY <5>1
      <4>2. CASE y = b
        <5>1. End(c, y) <= End(h, b)
          BY <4>2, <3>0, <2>2 DEF End
        <5> QED BY <5>1, Zenon
      <4>3. CASE y # b /\ y # rest
        <5>1. y \in DOMAIN h.blk /\ End(c, y) <= End(h, y)
          BY <4>3, <3>0, <2>2 DEF End
        <5> QED BY <5>1, Zenon
      <4> QED BY <4>1, <4>2, <4>3, Zenon
    <3> QED BY <3>1, <2>5, Zenon
  <2>9. ASSUME nx # NULL => Apart(h, nx),
               NEW x \in DOMAIN s.blk, x # b, x \in DOMAIN h.blk => Apart(h, x)
        PROVE  Apart(s, x)
    <3>1. nx # NULL => nx \in DOMAIN h.blk
      BY <2>1, Zenon DEF WF, Linked, NextRight
    <3>2. nx # NULL => Apart(c, nx)
      BY <3>1, <2>9, <1>2, <2>1, <2>2, CutBlockApart, Zenon
    <3>3. /\ Apart(s, rest)
          /\ \A y \in DOMAIN s.blk : y # rest /\ Apart(c, y) => Apart(s, y)
      BY <3>2, <2>1, <2>2, <2>3, MergeNextApart
    <3>4. x # rest => x \in DOMAIN h.blk
      BY <2>2, <2>5, Zenon
    <3>5. x # rest => Apart(c, x)
      BY <3>4, <2>9, <1>2, <2>1, CutBlockApart, Zenon
    <3> QED BY <3>3, <3>5, Zenon
  <2>10. \A x \in DOMAIN s.blk : x \in DOMAIN h.blk => s.blk[x].avail = h.blk[x].avail
    BY <2>2, <2>5
  <2>11. \A x \in DOMAIN s.blk : x \notin DOMAIN h.blk => s.blk[x].avail = 1
    BY <2>2, <2>5
  <2>12. \A x \in DOMAIN s.blk : x \in DOMAIN h.blk /\ x # b =>
               s.blk[x].size = h.blk[x].size /\ s.blk[x].next = h.blk[x].next
    BY <2>2, <2>5
  <2>13. \A x \in DOMAIN h.blk \ DOMAIN s.blk : h.blk[x].avail = 1
    BY <2>2, <2>5
  <2> QED BY <2>1, <2>4, <2>6, <2>7, <2>8, <2>9, <2>10, <2>11, <2>12, <2>13
<1> QED BY <1>1, <1>2, Zenon

\* Setting the flag of b leaves the links and the sizes alone.
LEMMA SetAvailEffect ==
  ASSUME NEW h, WF(h), NEW b \in DOMAIN h.blk, NEW v \in {0, 1},
         NEW m, m = SetAvail(h, b, v)
  PROVE  /\ WF(m)
         /\ DOMAIN m.blk = DOMAIN h.blk
         /\ m.blk[b].avail = v
         /\ \A x \in DOMAIN h.blk : x # b => m.blk[x].avail = h.blk[x].avail
         /\ \A x \in DOMAIN h.blk : m.blk[x].size = h.blk[x].size
         /\ \A x \in DOMAIN h.blk : m.blk[x].next = h.blk[x].next
         /\ \A x \in DOMAIN h.blk : m.blk[x].prev = h.blk[x].prev
         /\ \A x \in DOMAIN h.blk : End(m, x) = End(h, x)
         /\ \A x \in DOMAIN h.blk : x # b /\ h.blk[x].next # b =>
               (Apart(m, x) <=> Apart(h, x))
<1>1. /\ DOMAIN m.blk = DOMAIN h.blk
      /\ \A x \in DOMAIN h.blk :
            /\ m.blk[x].size = h.blk[x].size /\ m.blk[x].next = h.blk[x].next
            /\ m.blk[x].prev = h.blk[x].prev
            /\ m.blk[x].avail = IF x = b THEN v ELSE h.blk[x].avail
      /\ m.first = h.first /\ m.last = h.last
  BY Zenon DEF SetAvail
<1>2. \A x \in DOMAIN h.blk : End(m, x) = End(h, x)
  BY <1>1, Zenon DEF End
<1>3. Typed(m)
  BY <1>1, Zenon DEF WF, Typed
<1>4. EndsRight(m)
  BY <1>1, Zenon DEF WF, Linked, EndsRight
<1>5. NextRight(m)
  BY <1>1 DEF WF, Linked, NextRight
<1>6. PrevRight(m)
  BY <1>1 DEF WF, Linked, PrevRight
<1>7. Separate(m)
  BY <1>1, <1>2, Zenon DEF WF, Separate
<1>8. ASSUME NEW x \in DOMAIN h.blk, x # b, h.blk[x].next # b
      PROVE  Apart(m, x) <=> Apart(h, x)
  <2>1. h.blk[x].next = NULL \/ h.blk[x].next \in DOMAIN h.blk
    BY Zenon DEF WF, Linked, NextRight
  <2> QED BY <2>1, <1>1, <1>2, <1>8 DEF Apart, Merges
<1> QED BY <1>1, <1>2, <1>3, <1>4, <1>5, <1>6, <1>7, <1>8, Zenon DEF WF, Linked

\* malloc's new extent, above all blocks, joins the end of the list.
LEMMA AppendExtentEffect ==
  ASSUME NEW h, WF(h), NEW b \in Nat \ {0}, NEW extent \in Nat, HDR <= extent,
         \A x \in DOMAIN h.blk : End(h, x) <= b,
         NEW m, m = AppendExtent(h, b, extent)
  PROVE  /\ WF(m)
         /\ DOMAIN m.blk = DOMAIN h.blk \cup {b} /\ b \notin DOMAIN h.blk
         /\ m.blk[b].size = extent - HDR /\ m.blk[b].next = NULL
         /\ m.blk[b].avail = 1
         /\ \A x \in DOMAIN h.blk : m.blk[x].avail = h.blk[x].avail
         /\ \A x \in DOMAIN h.blk : m.blk[x].size = h.blk[x].size
         /\ \A x \in DOMAIN h.blk : m.blk[x].next # b /\ Apart(h, x) => Apart(m, x)
<1>0. /\ HDR \in Nat \ {0}
      /\ \A x \in DOMAIN h.blk : x \in Nat /\ x # NULL /\ h.blk[x].size \in Nat
      /\ b # NULL
  BY AlignAssumption, Zenon DEF WF, Typed, NULL
<1>1. \A x \in DOMAIN h.blk : x < b
  BY <1>0 DEF End
<1>2. b \notin DOMAIN h.blk
  BY <1>1
<1>3. /\ DOMAIN m.blk = DOMAIN h.blk \cup {b}
      /\ m.blk[b].size = extent - HDR /\ m.blk[b].next = NULL
      /\ m.blk[b].prev = h.last /\ m.blk[b].avail = 1
      /\ \A x \in DOMAIN h.blk :
            /\ m.blk[x].size = h.blk[x].size /\ m.blk[x].prev = h.blk[x].prev
            /\ m.blk[x].avail = h.blk[x].avail
            /\ m.blk[x].next = IF x = h.last THEN b ELSE h.blk[x].next
      /\ m.first = IF h.last = NULL THEN b ELSE h.first
      /\ m.last = b
  BY <1>2, Zenon DEF AppendExtent
<1>4. Typed(m)
  <2>1. extent - HDR \in Nat /\ h.last \in Nat /\ h.first \in Nat /\ NULL \in Nat
    BY <1>0 DEF WF, Typed, NULL
  <2> QED BY <1>3, <2>1 DEF WF, Typed
<1>5. EndsRight(m)
  <2>1. h.last = NULL => DOMAIN h.blk = {}
    BY Zenon DEF WF, Linked, EndsRight
  <2>2. h.last # NULL => /\ h.first \in DOMAIN h.blk
                         /\ \A x \in DOMAIN h.blk : h.first <= x
    BY Zenon DEF WF, Linked, EndsRight
  <2> QED BY <2>1, <2>2, <1>0, <1>1, <1>3 DEF EndsRight
<1>6. NextRight(m)
  <2> SUFFICES ASSUME NEW x \in DOMAIN h.blk
               PROVE  IF m.blk[x].next = NULL
                      THEN x = m.last
                      ELSE /\ m.blk[x].next \in DOMAIN m.blk
                           /\ x < m.blk[x].next
                           /\ m.blk[m.blk[x].next].prev = x
                           /\ \A y \in DOMAIN m.blk : y <= x \/ m.blk[x].next <= y
    BY <1>3, Zenon DEF NextRight
  <2>1. CASE x = h.last
    <3>1. \A y \in DOMAIN h.blk : y <= x
      BY <2>1, Zenon DEF WF, Linked, EndsRight
    <3> QED BY <2>1, <3>1, <1>0, <1>1, <1>3
  <2>2. CASE x # h.last
    <3>1. /\ h.blk[x].next # NULL /\ h.blk[x].next \in DOMAIN h.blk
          /\ x < h.blk[x].next /\ h.blk[h.blk[x].next].prev = x
          /\ \A y \in DOMAIN h.blk : y <= x \/ h.blk[x].next <= y
      BY <2>2, Zenon DEF WF, Linked, NextRight
    <3>2. h.blk[x].next <= b
      BY <3>1, <1>0, <1>1
    <3> QED BY <2>2, <3>1, <3>2, <1>3
  <2> QED BY <2>1, <2>2, Zenon
<1>7. PrevRight(m)
  <2>1. h.last = NULL \/ h.last \in DOMAIN h.blk
    BY Zenon DEF WF, Linked, EndsRight
  <2>2. ASSUME NEW x \in DOMAIN h.blk
        PROVE  IF m.blk[x].prev = NULL
               THEN x = m.first
               ELSE /\ m.blk[x].prev \in DOMAIN m.blk
                    /\ m.blk[m.blk[x].prev].next = x
    <3>1. CASE h.blk[x].prev = NULL
      <4>1. x = h.first /\ h.last # NULL
        BY <3>1, Zenon DEF WF, Linked, PrevRight, EndsRight
      <4> QED BY <3>1, <4>1, <1>3, Zenon
    <3>2. CASE h.blk[x].prev # NULL
      <4>1. h.blk[x].prev \in DOMAIN h.blk /\ h.blk[h.blk[x].prev].next = x
        BY <3>2, Zenon DEF WF, Linked, PrevRight
      <4>2. h.blk[x].prev # h.last
        <5>1. h.blk[x].prev < x
          BY <4>1, <1>0 DEF WF, Linked, NextRight
        <5>2. x <= h.last
          BY Zenon DEF WF, Linked, EndsRight
        <5> QED BY <5>1, <5>2, <4>1, <1>0
      <4> QED BY <3>2, <4>1, <4>2, <1>3
    <3> QED BY <3>1, <3>2, Zenon
  <2> QED BY <2>1, <2>2, <1>3 DEF PrevRight
<1>8. Separate(m)
  <2>1. \A x \in DOMAIN h.blk : End(m, x) = End(h, x)
    BY <1>3, Zenon DEF End
  <2> QED BY <2>1, <1>0, <1>1, <1>3 DEF WF, Separate
<1>9. ASSUME NEW x \in DOMAIN h.blk, m.blk[x].next # b, Apart(h, x)
      PROVE  Apart(m, x)
  <2>1. h.blk[x].next = NULL \/ h.blk[x].next \in DOMAIN h.blk
    BY Zenon DEF WF, Linked, NextRight
  <2>2. m.blk[x].next = h.blk[x].next
    BY <1>3, <1>9, Zenon
  <2>3. End(m, x) = End(h, x)
    BY <1>3, Zenon DEF End
  <2> QED BY <2>1, <2>2, <2>3, <1>3, <1>9 DEF Apart, Merges
<1> QED BY <1>2, <1>3, <1>4, <1>5, <1>6, <1>7, <1>8, <1>9, Zenon DEF WF, Linked

\* What free_block at b makes of the list h.
Freed(h, b, f) ==
    /\ WF(f) /\ Coalesced(f)
    /\ DOMAIN f.blk \subseteq DOMAIN h.blk
    /\ b \in DOMAIN f.blk => f.blk[b].avail = 1
    /\ \A x \in DOMAIN f.blk : x # b => f.blk[x].avail = h.blk[x].avail
    /\ \A x \in DOMAIN h.blk : x # b /\ h.blk[x].avail = 0 =>
          x \in DOMAIN f.blk /\ f.blk[x].size = h.blk[x].size
    /\ \A x \in DOMAIN f.blk : \E y \in DOMAIN h.blk : End(f, x) = End(h, y)

\* free keeps the list well-formed and fully coalesced; only available blocks and
\* the freed one change.
LEMMA FreeBlockEffect ==
  ASSUME NEW h, WF(h), Coalesced(h), NEW b \in DOMAIN h.blk,
         NEW f, f = FreeBlock(h, b)
  PROVE  Freed(h, b, f)
<1> USE DEF Freed
<1> DEFINE h1 == SetAvail(h, b, 1)
           h2 == MergeNext(h1, b)
           p == h2.blk[b].prev
<1>1. h1 = SetAvail(h, b, 1) /\ h2 = MergeNext(h1, b) /\ p = h2.blk[b].prev
      /\ f = IF p # NULL /\ h2.blk[p].avail = 1 THEN MergeNext(h2, p) ELSE h2
  BY Zenon DEF FreeBlock
<1> HIDE DEF h1, h2, p
<1>2. /\ WF(h1) /\ DOMAIN h1.blk = DOMAIN h.blk /\ h1.blk[b].avail = 1
      /\ \A x \in DOMAIN h.blk : x # b => h1.blk[x].avail = h.blk[x].avail
      /\ \A x \in DOMAIN h.blk : h1.blk[x].size = h.blk[x].size
      /\ \A x \in DOMAIN h.blk : h1.blk[x].next = h.blk[x].next
      /\ \A x \in DOMAIN h.blk : End(h1, x) = End(h, x)
      /\ \A x \in DOMAIN h.blk : x # b /\ h.blk[x].next # b =>
            (Apart(h1, x) <=> Apart(h, x))
  BY <1>1, SetAvailEffect
<1>3. WF(h2)
  BY <1>1, <1>2, MergeNextWF, Zenon
<1>4. /\ b \in DOMAIN h2.blk /\ DOMAIN h2.blk \subseteq DOMAIN h1.blk
      /\ \A x \in DOMAIN h2.blk : h2.blk[x].avail = h1.blk[x].avail
      /\ \A x \in DOMAIN h2.blk : x # b => h2.blk[x].size = h1.blk[x].size
      /\ \A x \in DOMAIN h2.blk : x # b => h2.blk[x].next = h1.blk[x].next
      /\ \A x \in DOMAIN h1.blk \ DOMAIN h2.blk : h1.blk[x].avail = 1
      /\ \A x \in DOMAIN h2.blk : \E y \in DOMAIN h1.blk : End(h2, x) = End(h1, y)
  <2>e. Merged(h1, b, h2)
    BY <1>1, <1>2, MergeNextEffect, Zenon
  <2> QED BY <2>e, Zenon DEF Merged
<1>5. /\ Apart(h2, b)
      /\ \A x \in DOMAIN h2.blk : x # b /\ h.blk[x].next # b => Apart(h2, x)
  <2> DEFINE n == h.blk[b].next
  <2>1. n # NULL => n \in DOMAIN h.blk /\ b < n
    BY Zenon DEF WF, Linked, NextRight
  <2>2. n # NULL => n # b /\ h.blk[n].next # b
    <3>1. b \in Nat /\ b # NULL /\ (n # NULL => n \in Nat)
      BY <2>1, Zenon DEF WF, Typed, NULL
    <3>2. n # NULL /\ h.blk[n].next # NULL => n < h.blk[n].next
      BY <2>1, Zenon DEF WF, Linked, NextRight
    <3> QED BY <2>1, <3>1, <3>2
  <2>3. h1.blk[b].next # NULL => Apart(h1, h1.blk[b].next)
    BY <2>1, <2>2, <1>2, Zenon DEF Coalesced
  <2>4. /\ Apart(h2, b)
        /\ \A x \in DOMAIN h2.blk : x # b /\ Apart(h1, x) => Apart(h2, x)
    <3>1. WF(h1) /\ b \in DOMAIN h1.blk /\ h2 = MergeNext(h1, b)
      BY <1>1, <1>2, Zenon
    <3> QED BY <2>3, <3>1, MergeNextApart
  <2> QED BY <2>4, <1>2, <1>4, Zenon DEF Coalesced
<1>6. \A x \in DOMAIN h2.blk : x # b /\ h.blk[x].next = b => x = p
  <2> SUFFICES ASSUME NEW x \in DOMAIN h2.blk, x # b, h.blk[x].next = b PROVE x = p
    OBVIOUS
  <2>1. x \in DOMAIN h1.blk /\ h2.blk[x].next = h1.blk[x].next
    BY <1>4, Zenon
  <2>2. h2.blk[x].next = b
    BY <1>2, <2>1, Zenon
  <2>3. b # NULL
    BY <1>3, <1>4, Zenon DEF WF, Typed, NULL
  <2>4. h2.blk[h2.blk[x].next].prev = x
    BY <1>3, <2>2, <2>3, Zenon DEF WF, Linked, NextRight
  <2> QED BY <1>1, <2>2, <2>4, Zenon
<1>7. p # NULL => p \in DOMAIN h2.blk /\ h2.blk[p].next = b /\ p # b
  <2>1. p # NULL => p \in DOMAIN h2.blk /\ h2.blk[p].next = b
    BY <1>1, <1>3, <1>4, Zenon DEF WF, Linked, PrevRight
  <2>2. p # NULL => p < b
    BY <2>1, <1>3, <1>4 DEF WF, Linked, NextRight, Typed, NULL
  <2> QED BY <2>1, <2>2 DEF WF, Typed
<1>8. CASE ~(p # NULL /\ h2.blk[p].avail = 1)
  <2>1. f = h2
    BY <1>1, <1>8, Zenon
  <2>2. p # NULL => Apart(h2, p)
    BY <1>3, <1>7, <1>8, Zenon DEF Apart, WF, Typed
  <2>3. NULL \notin DOMAIN h2.blk
    BY <1>3, Zenon DEF WF, Typed, NULL
  <2>4. Coalesced(h2)
    BY <2>2, <2>3, <1>5, <1>6, Zenon DEF Coalesced
  <2> QED BY <2>1, <2>4, <1>2, <1>3, <1>4
<1>9. CASE p # NULL /\ h2.blk[p].avail = 1
  <2>1. f = MergeNext(h2, p) /\ p \in DOMAIN h2.blk /\ h2.blk[p].next = b
        /\ p # b /\ h2.blk[p].avail = 1
    BY <1>1, <1>7, <1>9, Zenon
  <2>2. WF(f)
    BY <2>1, <1>3, MergeNextWF, Zenon
  <2>3. /\ DOMAIN f.blk \subseteq DOMAIN h2.blk
        /\ \A x \in DOMAIN f.blk : f.blk[x].avail = h2.blk[x].avail
        /\ \A x \in DOMAIN f.blk : x # p => f.blk[x].size = h2.blk[x].size
        /\ \A x \in DOMAIN h2.blk \ DOMAIN f.blk : h2.blk[x].avail = 1
        /\ \A x \in DOMAIN f.blk : \E y \in DOMAIN h2.blk : End(f, x) = End(h2, y)
    <3>e. Merged(h2, p, f)
      BY <2>1, <1>3, MergeNextEffect, Zenon
    <3> QED BY <3>e, Zenon DEF Merged
  <2>4. /\ Apart(f, p)
        /\ \A x \in DOMAIN f.blk : x # p /\ Apart(h2, x) => Apart(f, x)
    BY <2>1, <1>3, <1>5, MergeNextApart, Zenon
  <2>5. Coalesced(f)
    BY <2>3, <2>4, <1>5, <1>6, Zenon DEF Coalesced
  <2>6. \A x \in DOMAIN h.blk : x # b /\ h.blk[x].avail = 0 =>
               x \in DOMAIN f.blk /\ f.blk[x].size = h.blk[x].size
    BY <2>1, <2>3, <1>2, <1>4
  <2>7. \A x \in DOMAIN f.blk : \E y \in DOMAIN h.blk : End(f, x) = End(h, y)
    BY <2>3, <1>2, <1>4
  <2> QED BY <2>2, <2>3, <2>5, <2>6, <2>7, <1>2, <1>4
<1> QED BY <1>8, <1>9, Zenon

\* What taking b for size bytes makes of the list h.
Took(h, b, size, t) ==
    /\ WF(t) /\ Coalesced(t)
    /\ b \in DOMAIN t.blk /\ size <= t.blk[b].size /\ t.blk[b].avail = 0
    /\ \A x \in DOMAIN t.blk : x # b /\ t.blk[x].avail = 0 =>
          x \in DOMAIN h.blk /\ h.blk[x].avail = 0
    /\ \A x \in DOMAIN h.blk : h.blk[x].avail = 0 =>
          x \in DOMAIN t.blk /\ t.blk[x].avail = 0 /\ t.blk[x].size = h.blk[x].size
    /\ \A x \in DOMAIN t.blk : \E y \in DOMAIN h.blk : End(t, x) <= End(h, y)

\* malloc takes the available block b: the list stays well-formed, becomes fully
\* coalesced again, and no block in use changes.
LEMMA TakeBlockEffect ==
  ASSUME NEW h, WF(h), NEW b \in DOMAIN h.blk, h.blk[b].avail = 1,
         NEW size \in Nat, size <= h.blk[b].size,
         \A x \in DOMAIN h.blk : x # b /\ h.blk[x].next # b => Apart(h, x),
         NEW t, t = TakeBlock(h, b, size)
  PROVE  Took(h, b, size, t)
<1> USE DEF Took
<1> DEFINE s == SplitBlock(h, b, size)
<1>1. s = SplitBlock(h, b, size) /\ t = SetAvail(s, b, 0)
  BY Zenon DEF TakeBlock
<1> HIDE DEF s
<1>2. h.blk[b].next # NULL => Apart(h, h.blk[b].next)
  <2> DEFINE n == h.blk[b].next
  <2>1. n # NULL => n \in DOMAIN h.blk /\ b < n
    BY Zenon DEF WF, Linked, NextRight
  <2>2. n # NULL => n # b /\ h.blk[n].next # b
    <3>1. b \in Nat /\ b # NULL /\ (n # NULL => n \in Nat)
      BY <2>1, Zenon DEF WF, Typed, NULL
    <3>2. n # NULL /\ h.blk[n].next # NULL => n < h.blk[n].next
      BY <2>1, Zenon DEF WF, Linked, NextRight
    <3> QED BY <2>1, <3>1, <3>2
  <2> QED BY <2>1, <2>2, Zenon
<1>3. /\ WF(s)
      /\ b \in DOMAIN s.blk /\ size <= s.blk[b].size
      /\ \A x \in DOMAIN s.blk : x \in DOMAIN h.blk => s.blk[x].avail = h.blk[x].avail
      /\ \A x \in DOMAIN s.blk : x \notin DOMAIN h.blk => s.blk[x].avail = 1
      /\ \A x \in DOMAIN s.blk : x \in DOMAIN h.blk /\ x # b =>
            s.blk[x].size = h.blk[x].size /\ s.blk[x].next = h.blk[x].next
      /\ \A x \in DOMAIN h.blk \ DOMAIN s.blk : h.blk[x].avail = 1
      /\ \A x \in DOMAIN s.blk : \E y \in DOMAIN h.blk : End(s, x) <= End(h, y)
  <2>e. SplitFrom(h, b, size, s)
    BY <1>1, SplitBlockEffect, Zenon
  <2> QED BY <2>e, Zenon DEF SplitFrom
<1>4. \A x \in DOMAIN s.blk : x # b /\ (x \in DOMAIN h.blk => Apart(h, x)) => Apart(s, x)
  <2>e. SplitFrom(h, b, size, s)
    BY <1>1, <1>2, SplitBlockEffect, Zenon
  <2> QED BY <2>e, <1>2, Zenon DEF SplitFrom
<1>5. /\ WF(t) /\ DOMAIN t.blk = DOMAIN s.blk /\ t.blk[b].avail = 0
      /\ \A x \in DOMAIN s.blk : x # b => t.blk[x].avail = s.blk[x].avail
      /\ \A x \in DOMAIN s.blk : t.blk[x].size = s.blk[x].size
      /\ \A x \in DOMAIN s.blk : t.blk[x].next = s.blk[x].next
      /\ \A x \in DOMAIN s.blk : End(t, x) = End(s, x)
      /\ \A x \in DOMAIN s.blk : x # b /\ s.blk[x].next # b =>
            (Apart(t, x) <=> Apart(s, x))
  BY <1>1, <1>3, SetAvailEffect
<1>6. Coalesced(t)
  <2> SUFFICES ASSUME NEW x \in DOMAIN t.blk PROVE Apart(t, x)
    BY Zenon DEF Coalesced
  <2>1. CASE x = b
    BY <2>1, <1>5, Zenon DEF Apart
  <2>2. CASE x # b /\ s.blk[x].next = b
    BY <2>2, <1>5 DEF Apart, Merges
  <2>3. CASE x # b /\ s.blk[x].next # b
    BY <2>3, <1>3, <1>4, <1>5, Zenon
  <2> QED BY <2>1, <2>2, <2>3, Zenon
<1>7. \A x \in DOMAIN h.blk : h.blk[x].avail = 0 =>
         x \in DOMAIN t.blk /\ t.blk[x].avail = 0 /\ t.blk[x].size = h.blk[x].size
  BY <1>3, <1>5
<1>8. \A x \in DOMAIN t.blk : x # b /\ t.blk[x].avail = 0 =>
               x \in DOMAIN h.blk /\ h.blk[x].avail = 0
  BY <1>3, <1>5
<1> QED BY <1>3, <1>5, <1>6, <1>7, <1>8

\* Rounding up never loses a byte and adds less than one unit.
LEMMA RoundUpBounds ==
  ASSUME NEW n \in Nat, NEW unit \in Nat \ {0}
  PROVE  RoundUp(n, unit) \in Nat /\ n <= RoundUp(n, unit) /\ RoundUp(n, unit) < n + unit
<1> DEFINE q == (n + unit - 1) \div unit
<1>1. q \in Int /\ q * unit <= n + unit - 1 /\ n + unit - 1 < q * unit + unit
  OBVIOUS
<1> HIDE DEF q
<1>2. q * unit \in Int
  BY <1>1
<1>3. RoundUp(n, unit) = q * unit
  BY Zenon DEF RoundUp, q
<1> QED BY <1>1, <1>2, <1>3

\* What malloc rounds a request to.
LEMMA RoundedBounds ==
  ASSUME NEW n \in Nat
  PROVE  Rounded(n) \in Nat /\ n <= Rounded(n)
<1>1. CASE n = 0
  <2>1. Rounded(n) = RoundUp(1, ALIGN)
    BY <1>1, Zenon DEF Rounded
  <2> QED BY <1>1, <2>1, RoundUpBounds, AlignAssumption
<1>2. CASE n # 0
  <2>1. Rounded(n) = RoundUp(n, ALIGN)
    BY <1>2, Zenon DEF Rounded
  <2> QED BY <2>1, RoundUpBounds, AlignAssumption, Zenon
<1> QED BY <1>1, <1>2, Zenon

\* The extent malloc asks for holds the request and its header.
LEMMA ExtentBounds ==
  ASSUME NEW size \in Nat
  PROVE  ExtentFor(size) \in Nat /\ size + HDR <= ExtentFor(size)
<1>1. size + HDR \in Nat
  BY AlignAssumption
<1>2. RoundUp(size + HDR, GRANULE) \in Nat /\ size + HDR <= RoundUp(size + HDR, GRANULE)
  BY <1>1, RoundUpBounds, ExtentAssumption, Zenon
<1> QED BY <1>1, <1>2, ExtentAssumption DEF ExtentFor

\* Multiples of a unit, as % and as a product.
LEMMA ModDiv ==
  ASSUME NEW A \in Nat \ {0}, NEW a \in Int
  PROVE  a % A = 0 <=> \E k \in Int : a = A * k
<1>1. a = A * (a \div A) + (a % A) /\ (a \div A) \in Int
  OBVIOUS
<1>2. ASSUME NEW k \in Int, a = A * k PROVE a % A = 0
  <2> DEFINE q == k - (a \div A)
  <2>1. a % A \in 0 .. A - 1
    OBVIOUS
  <2>2. q \in Int /\ a % A = A * q
    BY <1>1, <1>2
  <2> HIDE DEF q
  <2>3. q >= 1 => A * q >= A
    BY <2>2
  <2>4. q <= -1 => A * q <= -A
    BY <2>2
  <2>5. q = 0
    BY <2>1, <2>2, <2>3, <2>4
  <2> QED BY <2>2, <2>5
<1>3. a % A = 0 => a = A * (a \div A)
  BY <1>1
<1> QED BY <1>1, <1>2, <1>3, Zenon

\* Sums, differences and products of multiples are multiples.
LEMMA ModSum ==
  ASSUME NEW A \in Nat \ {0}, NEW a \in Int, NEW b \in Int, a % A = 0, b % A = 0
  PROVE  (a + b) % A = 0 /\ (a - b) % A = 0
<1>1. PICK i \in Int : a = A * i
  BY ModDiv, Zenon
<1>2. PICK j \in Int : b = A * j
  BY ModDiv, Zenon
<1>3. a + b = A * (i + j) /\ a - b = A * (i - j)
  BY <1>1, <1>2
<1>4. i + j \in Int /\ i - j \in Int /\ a + b \in Int /\ a - b \in Int
  OBVIOUS
<1>5. (a + b) % A = 0
  BY <1>3, <1>4, ModDiv, Zenon
<1>6. (a - b) % A = 0
  BY <1>3, <1>4, ModDiv, Zenon
<1> QED BY <1>5, <1>6

\* A multiple of a multiple of A is one.
LEMMA ModTimes ==
  ASSUME NEW A \in Nat \ {0}, NEW a \in Int, NEW q \in Int, a % A = 0
  PROVE  (q * a) % A = 0
<1>1. PICK i \in Int : a = A * i
  BY ModDiv
<1>2. q * a = A * (q * i) /\ q * i \in Int /\ q * a \in Int
  BY <1>1
<1> QED BY <1>2, ModDiv, Zenon

\* Rounding to a unit that ALIGN divides gives a multiple of ALIGN.
LEMMA RoundUpAligned ==
  ASSUME NEW n \in Nat, NEW unit \in Nat \ {0}, unit % ALIGN = 0
  PROVE  RoundUp(n, unit) % ALIGN = 0
<1>1. (n + unit - 1) \div unit \in Int /\ unit \in Int
  OBVIOUS
<1> QED BY <1>1, ModTimes, AlignAssumption, Zenon DEF RoundUp

\* The size malloc searches for is a multiple of ALIGN.
LEMMA RoundedAligned ==
  ASSUME NEW n \in Nat
  PROVE  Rounded(n) % ALIGN = 0
<1>1. ALIGN \in Nat \ {0} /\ ALIGN % ALIGN = 0 /\ 1 \in Nat
  BY AlignAssumption
<1>2. RoundUp(1, ALIGN) % ALIGN = 0 /\ RoundUp(n, ALIGN) % ALIGN = 0
  BY <1>1, RoundUpAligned, Zenon
<1>3. CASE n = 0
  BY <1>2, <1>3, Zenon DEF Rounded
<1>4. CASE n # 0
  BY <1>2, <1>4, Zenon DEF Rounded
<1> QED BY <1>3, <1>4, Zenon

\* A smaller rounded size is of a smaller size.
LEMMA RoundUpOrder ==
  ASSUME NEW m \in Nat, NEW n \in Nat, NEW unit \in Nat \ {0},
         RoundUp(m, unit) < RoundUp(n, unit)
  PROVE  m < n
<1> DEFINE p == (m + unit - 1) \div unit
           q == (n + unit - 1) \div unit
<1>1. /\ p \in Int /\ q \in Int
      /\ p * unit <= m + unit - 1 /\ m + unit - 1 < p * unit + unit
      /\ q * unit <= n + unit - 1 /\ n + unit - 1 < q * unit + unit
  OBVIOUS
<1>2. p * unit < q * unit
  BY Zenon DEF RoundUp
<1> HIDE DEF p, q
<1>3. p < q
  BY <1>1, <1>2
<1>4. p * unit + unit <= q * unit
  <2>1. (p + 1) * unit <= q * unit
    BY <1>1, <1>3
  <2> QED BY <1>1, <2>1
<1>5. p * unit \in Int /\ q * unit \in Int
  BY <1>1
<1> QED BY <1>1, <1>4, <1>5

\* An interval cut in two.
LEMMA CutInterval ==
  ASSUME NEW a \in Int, NEW m \in Int, NEW e \in Int, a <= m, m <= e
  PROVE  a .. (e - 1) = (a .. (m - 1)) \cup (m .. (e - 1))
<1>1. ASSUME NEW u PROVE u \in a .. (e - 1) <=> u \in a .. (m - 1) \/ u \in m .. (e - 1)
  OBVIOUS
<1> QED BY <1>1, Zenon

\* Addresses and sizes of a list are multiples of ALIGN.
AlignedList(h) == \A b \in DOMAIN h.blk : b % ALIGN = 0 /\ h.blk[b].size % ALIGN = 0

\* A list whose blocks end where those of another do tiles the same bytes.
LEMMA SameTiles ==
  ASSUME NEW h, NEW m, DOMAIN m.blk = DOMAIN h.blk,
         \A x \in DOMAIN h.blk : m.blk[x].size = h.blk[x].size
  PROVE  Tiles(m) = Tiles(h) /\ (AlignedList(h) => AlignedList(m))
<1>1. \A x \in DOMAIN h.blk : End(m, x) = End(h, x)
  BY Zenon DEF End
<1>2. Tiles(m) = Tiles(h)
  <2>1. \A u : u \in Tiles(m) <=> u \in Tiles(h)
    BY <1>1, Zenon DEF Tiles
  <2> QED BY <2>1, Zenon
<1> QED BY <1>2, Zenon DEF AlignedList

\* merge_next: the merged block covers both.
LEMMA MergeNextTiling ==
  ASSUME NEW h, WF(h), NEW b \in DOMAIN h.blk, NEW m, m = MergeNext(h, b)
  PROVE  Tiles(m) = Tiles(h) /\ (AlignedList(h) => AlignedList(m))
<1>1. CASE ~Merges(h, b)
  BY <1>1, Zenon DEF MergeNext
<1>2. CASE Merges(h, b)
  <2> DEFINE n == h.blk[b].next
  <2>1. /\ n \in DOMAIN h.blk /\ b < n
        /\ b + HDR + h.blk[b].size = n
        /\ DOMAIN m.blk = DOMAIN h.blk \ {n}
        /\ m.blk[b].size = h.blk[b].size + HDR + h.blk[n].size
        /\ \A x \in DOMAIN m.blk : x # b => m.blk[x].size = h.blk[x].size
    BY <1>2, MergeNextFields
  <2> HIDE DEF n
  <2>2. /\ b \in Nat /\ n \in Nat /\ h.blk[b].size \in Nat /\ h.blk[n].size \in Nat
        /\ HDR \in Nat \ {0} /\ ALIGN \in Nat \ {0}
    BY <2>1, AlignAssumption, Zenon DEF WF, Typed
  <2>3. /\ End(m, b) = End(h, n) /\ End(h, b) = n /\ n < End(h, n)
        /\ End(h, n) \in Nat
        /\ \A x \in DOMAIN m.blk : x # b => End(m, x) = End(h, x)
    BY <2>1, <2>2 DEF End
  <2>4. b .. (End(m, b) - 1) = (b .. (End(h, b) - 1)) \cup (n .. (End(h, n) - 1))
    <3>1. b \in Int /\ n \in Int /\ End(h, n) \in Int /\ b <= n /\ n <= End(h, n)
      BY <2>1, <2>2, <2>3
    <3> QED BY <3>1, <2>3, CutInterval
  <2>5. Tiles(m) = Tiles(h)
    <3>1. ASSUME NEW u \in Tiles(m) PROVE u \in Tiles(h)
      <4>1. PICK x \in DOMAIN m.blk : u \in x .. (End(m, x) - 1)
        BY <3>1, Zenon DEF Tiles
      <4>2. CASE x = b
        BY <4>1, <4>2, <2>1, <2>4, Zenon DEF Tiles
      <4>3. CASE x # b
        BY <4>1, <4>3, <2>1, <2>3, ZenonT(40) DEF Tiles
      <4> QED BY <4>2, <4>3, Zenon
    <3>2. ASSUME NEW u \in Tiles(h) PROVE u \in Tiles(m)
      <4>1. PICK x \in DOMAIN h.blk : u \in x .. (End(h, x) - 1)
        BY <3>2, Zenon DEF Tiles
      <4>2. CASE x = b \/ x = n
        <5>1. b # n
          BY <2>1, <2>2
        <5>2. b \in DOMAIN m.blk
          BY <2>1, <5>1, Zenon
        <5>3. u \in b .. (End(m, b) - 1)
          BY <4>1, <4>2, <2>4, Zenon
        <5> QED BY <5>2, <5>3, Zenon DEF Tiles
      <4>3. CASE x # b /\ x # n
        BY <4>1, <4>3, <2>1, <2>3, ZenonT(40) DEF Tiles
      <4> QED BY <4>2, <4>3, Zenon
    <3> QED BY <3>1, <3>2, Zenon
  <2>6. ASSUME AlignedList(h) PROVE AlignedList(m)
    <3>1. h.blk[b].size % ALIGN = 0 /\ h.blk[n].size % ALIGN = 0 /\ HDR % ALIGN = 0
      BY <2>1, <2>6, DivisorAssumption, Zenon DEF AlignedList
    <3>2. h.blk[b].size \in Int /\ h.blk[n].size \in Int /\ HDR \in Int
          /\ h.blk[b].size + HDR \in Int
      BY <2>2
    <3>3. (h.blk[b].size + HDR) % ALIGN = 0
      BY <2>2, <3>1, <3>2, ModSum, Zenon
    <3>4. (h.blk[b].size + HDR + h.blk[n].size) % ALIGN = 0
      BY <2>2, <3>1, <3>2, <3>3, ModSum, Zenon
    <3> QED BY <2>1, <2>6, <3>4 DEF AlignedList
  <2> QED BY <2>5, <2>6, Zenon
<1> QED BY <1>1, <1>2, Zenon

\* split_block: the two blocks cover what the one did, and the bytes of the rest
\* are those that SplitTakes names.
LEMMA CutBlockTiling ==
  ASSUME NEW h, WF(h), NEW b \in DOMAIN h.blk, NEW n \in Nat, Splits(h, b, n),
         NEW c, c = CutBlock(h, b, n)
  PROVE  Tiles(c) = Tiles(h) /\ (AlignedList(h) /\ n % ALIGN = 0 => AlignedList(c))
<1> DEFINE rest == b + HDR + n
           nx == h.blk[b].next
<1>1. /\ rest \in Nat \ {0} /\ b < rest /\ rest \notin DOMAIN h.blk
      /\ DOMAIN c.blk = DOMAIN h.blk \cup {rest}
      /\ c.blk[rest].size = h.blk[b].size - n - HDR
      /\ c.blk[rest].size \in Nat
      /\ c.blk[b].size = n
      /\ \A x \in DOMAIN h.blk : x # b => c.blk[x].size = h.blk[x].size
  BY CutBlockFields
<1>0. rest = b + HDR + n
  OBVIOUS
<1> HIDE DEF rest, nx
<1>2. b \in Nat /\ h.blk[b].size \in Nat /\ HDR \in Nat \ {0} /\ ALIGN \in Nat \ {0}
  BY AlignAssumption, Zenon DEF WF, Typed
<1>3. /\ End(c, b) = rest /\ End(c, rest) = End(h, b) /\ rest < End(h, b)
      /\ End(h, b) \in Nat
      /\ \A x \in DOMAIN h.blk : x # b => End(c, x) = End(h, x)
  BY <1>0, <1>1, <1>2 DEF End
<1>4. b .. (End(h, b) - 1) = (b .. (End(c, b) - 1)) \cup (rest .. (End(c, rest) - 1))
  <2>1. b \in Int /\ rest \in Int /\ End(h, b) \in Int /\ b <= rest /\ rest <= End(h, b)
    BY <1>1, <1>2, <1>3
  <2> QED BY <2>1, <1>3, CutInterval
<1>5. Tiles(c) = Tiles(h)
  <2>1. ASSUME NEW u \in Tiles(c) PROVE u \in Tiles(h)
    <3>1. PICK x \in DOMAIN c.blk : u \in x .. (End(c, x) - 1)
      BY <2>1, Zenon DEF Tiles
    <3>2. CASE x = b \/ x = rest
      <4>1. u \in b .. (End(h, b) - 1)
        BY <3>1, <3>2, <1>4, Zenon
      <4> QED BY <4>1, Zenon DEF Tiles
    <3>3. CASE x # b /\ x # rest
      BY <3>1, <3>3, <1>1, <1>3 DEF Tiles
    <3> QED BY <3>2, <3>3, Zenon
  <2>2. ASSUME NEW u \in Tiles(h) PROVE u \in Tiles(c)
    <3>1. PICK x \in DOMAIN h.blk : u \in x .. (End(h, x) - 1)
      BY <2>2, Zenon DEF Tiles
    <3>2. CASE x = b
      <4>1. b \in DOMAIN c.blk /\ rest \in DOMAIN c.blk
        BY <1>1, Zenon
      <4>2. u \in b .. (End(c, b) - 1) \/ u \in rest .. (End(c, rest) - 1)
        BY <3>1, <3>2, <1>4, Zenon
      <4> QED BY <4>1, <4>2, Zenon DEF Tiles
    <3>3. CASE x # b
      BY <3>1, <3>3, <1>1, <1>3, ZenonT(40) DEF Tiles
    <3> QED BY <3>2, <3>3, Zenon
  <2> QED BY <2>1, <2>2, Zenon
<1>6. ASSUME AlignedList(h), n % ALIGN = 0 PROVE AlignedList(c)
  <2>1. b % ALIGN = 0 /\ h.blk[b].size % ALIGN = 0 /\ HDR % ALIGN = 0 /\ n % ALIGN = 0
    BY <1>6, DivisorAssumption, Zenon DEF AlignedList
  <2>2. h.blk[b].size \in Int /\ n \in Int /\ HDR \in Int /\ b \in Int
        /\ b + HDR \in Int /\ h.blk[b].size - n \in Int
    BY <1>2
  <2>3. (b + HDR) % ALIGN = 0 /\ (h.blk[b].size - n) % ALIGN = 0
    BY <1>2, <2>1, <2>2, ModSum, Zenon
  <2>4. (b + HDR + n) % ALIGN = 0 /\ (h.blk[b].size - n - HDR) % ALIGN = 0
    BY <1>2, <2>1, <2>2, <2>3, ModSum, Zenon
  <2> QED BY <1>0, <1>1, <1>6, <2>4 DEF AlignedList
<1> QED BY <1>5, <1>6, Zenon

\* split_block: the two parts cover the block.
LEMMA SplitBlockTiling ==
  ASSUME NEW h, WF(h), NEW b \in DOMAIN h.blk, NEW n \in Nat, n <= h.blk[b].size,
         NEW s, s = SplitBlock(h, b, n)
  PROVE  Tiles(s) = Tiles(h) /\ (AlignedList(h) /\ n % ALIGN = 0 => AlignedList(s))
<1>1. CASE ~Splits(h, b, n)
  BY <1>1, Zenon DEF SplitBlock
<1>2. CASE Splits(h, b, n)
  <2> DEFINE c == CutBlock(h, b, n)
             rest == b + HDR + n
  <2>1. s = MergeNext(c, rest)
    BY <1>2, Zenon DEF SplitBlock
  <2>2. WF(c) /\ rest \in DOMAIN c.blk
    BY <1>2, CutBlockWF, CutBlockFields
  <2>3. Tiles(c) = Tiles(h) /\ (AlignedList(h) /\ n % ALIGN = 0 => AlignedList(c))
    BY <1>2, CutBlockTiling, Zenon
  <2> HIDE DEF c, rest
  <2>4. Tiles(s) = Tiles(c) /\ (AlignedList(c) => AlignedList(s))
    BY <2>1, <2>2, MergeNextTiling, Zenon
  <2> QED BY <2>3, <2>4, Zenon
<1> QED BY <1>1, <1>2, Zenon

\* Taking a block out of the list, and giving it back.
LEMMA TakeBlockTiling ==
  ASSUME NEW h, WF(h), NEW b \in DOMAIN h.blk, NEW size \in Nat, size <= h.blk[b].size,
         NEW t, t = TakeBlock(h, b, size)
  PROVE  Tiles(t) = Tiles(h) /\ (AlignedList(h) /\ size % ALIGN = 0 => AlignedList(t))
<1> DEFINE s == SplitBlock(h, b, size)
<1>1. Tiles(s) = Tiles(h) /\ (AlignedList(h) /\ size % ALIGN = 0 => AlignedList(s))
  BY SplitBlockTiling, Zenon
<1>2. WF(s) /\ b \in DOMAIN s.blk
  BY SplitBlockEffect, Zenon DEF SplitFrom
<1>3. t = SetAvail(s, b, 0)
  BY Zenon DEF TakeBlock
<1> HIDE DEF s
<1>4. DOMAIN t.blk = DOMAIN s.blk /\ \A x \in DOMAIN s.blk : t.blk[x].size = s.blk[x].size
  BY <1>2, <1>3, SetAvailEffect
<1> QED BY <1>1, <1>4, SameTiles, Zenon

\* Freeing a block covers the same bytes.
LEMMA FreeBlockTiling ==
  ASSUME NEW h, WF(h), NEW b \in DOMAIN h.blk, NEW f, f = FreeBlock(h, b)
  PROVE  Tiles(f) = Tiles(h) /\ (AlignedList(h) => AlignedList(f))
<1> DEFINE a == SetAvail(h, b, 1)
           g == MergeNext(a, b)
           p == g.blk[b].prev
<1>1. f = IF p # NULL /\ g.blk[p].avail = 1 THEN MergeNext(g, p) ELSE g
  BY Zenon DEF FreeBlock
<1>2. WF(a) /\ DOMAIN a.blk = DOMAIN h.blk /\ \A x \in DOMAIN h.blk : a.blk[x].size = h.blk[x].size
  BY SetAvailEffect
<1>3. Tiles(a) = Tiles(h) /\ (AlignedList(h) => AlignedList(a))
  BY <1>2, SameTiles, Zenon
<1>4. WF(g) /\ b \in DOMAIN g.blk
  <2>1. WF(g) /\ Merged(a, b, g)
    BY <1>2, MergeNextWF, MergeNextEffect, Zenon
  <2> QED BY <2>1, Zenon DEF Merged
<1>5. Tiles(g) = Tiles(a) /\ (AlignedList(a) => AlignedList(g))
  BY <1>2, MergeNextTiling, ZenonT(40)
<1>6. p # NULL => p \in DOMAIN g.blk
  BY <1>4, Zenon DEF WF, Linked, PrevRight
<1> HIDE DEF a, g, p
<1>7. p # NULL => Tiles(MergeNext(g, p)) = Tiles(g) /\ (AlignedList(g) => AlignedList(MergeNext(g, p)))
  BY <1>4, <1>6, MergeNextTiling, Zenon
<1> QED BY <1>1, <1>3, <1>5, <1>7, Zenon

\* A new extent adds its bytes, all of them.
LEMMA AppendExtentTiling ==
  ASSUME NEW h, WF(h), NEW b \in Nat \ {0}, NEW extent \in Nat, HDR <= extent,
         \A x \in DOMAIN h.blk : End(h, x) <= b,
         NEW m, m = AppendExtent(h, b, extent)
  PROVE  /\ Tiles(m) = Tiles(h) \cup b .. (b + extent - 1)
         /\ AlignedList(h) /\ b % ALIGN = 0 /\ extent % ALIGN = 0 => AlignedList(m)
<1>1. /\ DOMAIN m.blk = DOMAIN h.blk \cup {b} /\ b \notin DOMAIN h.blk
      /\ m.blk[b].size = extent - HDR
      /\ \A x \in DOMAIN h.blk : m.blk[x].size = h.blk[x].size
  BY AppendExtentEffect
<1>2. HDR \in Nat \ {0} /\ ALIGN \in Nat \ {0} /\ HDR \in Int /\ extent \in Int
  BY AlignAssumption
<1>3. End(m, b) = b + extent /\ \A x \in DOMAIN h.blk : End(m, x) = End(h, x)
  BY <1>1, <1>2 DEF End
<1>4. ASSUME NEW u PROVE u \in Tiles(m) <=> u \in Tiles(h) \/ u \in b .. (b + extent - 1)
  <2>1. u \in Tiles(m) <=> \E x \in DOMAIN h.blk \cup {b} : u \in x .. (End(m, x) - 1)
    BY <1>1, Zenon DEF Tiles
  <2>2. u \in Tiles(h) <=> \E x \in DOMAIN h.blk : u \in x .. (End(m, x) - 1)
    BY <1>3, Zenon DEF Tiles
  <2>3. b .. (End(m, b) - 1) = b .. (b + extent - 1)
    BY <1>3
  <2> QED BY <2>1, <2>2, <2>3, Zenon
<1>5. ASSUME AlignedList(h), b % ALIGN = 0, extent % ALIGN = 0 PROVE AlignedList(m)
  <2>1. (extent - HDR) % ALIGN = 0
    BY <1>2, <1>5, DivisorAssumption, ModSum, Zenon
  <2> QED BY <2>1, <1>1, <1>5, Zenon DEF AlignedList
<1> QED BY <1>4, <1>5, Zenon

-----------------------------------------------------------------------------
(* The steps.                                                              *)


\* The initial state satisfies the invariant.
LEMMA InitIInv == Init => IInv
<1> SUFFICES ASSUME Init PROVE IInv
  BY Zenon
<1>1. DOMAIN heap.blk = {} /\ heap.first = NULL /\ heap.last = NULL
  BY Zenon DEF Init
<1>2. \A s \in Slots : live[s] = Nothing /\ live[s].ptr = NULL
  BY Zenon DEF Init, Nothing
<1>3. TypeOK
  BY <1>1, BreakAssumption, Zenon DEF Init, TypeOK, Typed, Nothing, NULL
<1>4. HeapIntact
  BY <1>1, Zenon DEF HeapIntact, Linked, EndsRight, NextRight, PrevRight, Separate
<1>5. FullyCoalesced /\ Ownership /\ CallRight
  BY <1>1, <1>2, Zenon DEF Init, FullyCoalesced, Coalesced, Ownership, CallRight
<1>6. BelowBreak
  BY <1>1, BreakAssumption DEF Init, BelowBreak
<1> QED BY <1>3, <1>4, <1>5, <1>6, Zenon DEF IInv

Tags == Slots \cup {Zero, Garbage}
DataTyped(d) == DOMAIN d \subseteq Nat /\ \A u \in DOMAIN d : d[u] \in Tags

\* The three ways data changes keep its type.
LEMMA DataOps ==
  ASSUME NEW d, DataTyped(d)
  PROVE  /\ \A S : DataTyped(Erase(d, S))
         /\ \A S, v : S \subseteq Nat /\ v \in Tags => DataTyped(Store(d, S, v))
         /\ \A from, to, n : Payload(to, n) \subseteq Nat
               => DataTyped(CopyPayload(d, from, to, n))
<1>1. ASSUME NEW S PROVE DataTyped(Erase(d, S))
  BY Zenon DEF DataTyped, Erase
<1>2. ASSUME NEW S, NEW v, S \subseteq Nat, v \in Tags PROVE DataTyped(Store(d, S, v))
  BY <1>2, Zenon DEF DataTyped, Store
<1>3. ASSUME NEW from, NEW to, NEW n, Payload(to, n) \subseteq Nat
      PROVE  DataTyped(CopyPayload(d, from, to, n))
  BY <1>3, Zenon DEF DataTyped, CopyPayload, Tags
<1> QED BY <1>1, <1>2, <1>3, Zenon

\* malloc may take the block b of the list h: the list is the heap, perhaps with a
\* new extent, and b is free and large enough.
Placeable(h, b) ==
  /\ WF(h) /\ b \in DOMAIN h.blk /\ h.blk[b].avail = 1
  /\ Rounded(op.n) <= h.blk[b].size
  /\ \A x \in DOMAIN h.blk : x # b /\ h.blk[x].next # b => Apart(h, x)
  /\ \A x \in DOMAIN h.blk : h.blk[x].avail = 0 => x \in DOMAIN heap.blk
  /\ \A x \in DOMAIN heap.blk : x \in DOMAIN h.blk /\ h.blk[x].size = heap.blk[x].size
  /\ \A x \in DOMAIN heap.blk : h.blk[x].avail = heap.blk[x].avail

\* malloc's last part, with its return into calloc or realloc, keeps the invariant.
LEMMA PlaceIInv ==
  ASSUME IInv, op # Idle, NEW h, NEW b, Placeable(h, b),
         NEW d, DataTyped(d), Place(h, b, d),
         brk' \in Nat, brk' >= 1, mapped' \subseteq Nat,
         \A x \in DOMAIN h.blk : End(h, x) <= brk'
  PROVE  IInv'
<1>0. /\ WF(h) /\ b \in DOMAIN h.blk /\ h.blk[b].avail = 1
      /\ Rounded(op.n) <= h.blk[b].size
      /\ \A x \in DOMAIN h.blk : x # b /\ h.blk[x].next # b => Apart(h, x)
      /\ \A x \in DOMAIN h.blk : h.blk[x].avail = 0 => x \in DOMAIN heap.blk
      /\ \A x \in DOMAIN heap.blk : x \in DOMAIN h.blk /\ h.blk[x].size = heap.blk[x].size
      /\ \A x \in DOMAIN heap.blk : h.blk[x].avail = heap.blk[x].avail
  BY Zenon DEF Placeable
<1> USE <1>0
<1> DEFINE size == Rounded(op.n)
           t == TakeBlock(h, b, size)
           s == op.slot
           old == live[s].ptr - HDR
           d2 == Erase(d, SplitTakes(h, b, size))
<1>1. /\ op.kind \in {"malloc", "calloc", "realloc"} /\ s \in Slots
      /\ op.n \in Nat /\ op.cur \in Nat /\ op.old \in Nat
  BY Zenon DEF IInv, TypeOK, Idle
<1>2. size \in Nat /\ op.n <= size
  BY <1>1, RoundedBounds, Zenon
<1>3. /\ WF(t) /\ Coalesced(t)
      /\ b \in DOMAIN t.blk /\ size <= t.blk[b].size /\ t.blk[b].avail = 0
      /\ \A x \in DOMAIN t.blk : x # b /\ t.blk[x].avail = 0 =>
               x \in DOMAIN h.blk /\ h.blk[x].avail = 0
      /\ \A x \in DOMAIN h.blk : h.blk[x].avail = 0 =>
               x \in DOMAIN t.blk /\ t.blk[x].avail = 0 /\ t.blk[x].size = h.blk[x].size
      /\ \A x \in DOMAIN t.blk : \E y \in DOMAIN h.blk : End(t, x) <= End(h, y)
  <2>e. Took(h, b, size, t)
    BY <1>2, TakeBlockEffect, Zenon
  <2> QED BY <2>e, Zenon DEF Took
<1>4. DataTyped(d2)
  BY DataOps, Zenon
<1>5. b \in Nat \ {0} /\ HDR \in Nat \ {0} /\ b + HDR \in Nat
  BY AlignAssumption DEF WF, Typed
<1>6. op' = Idle /\ ret' = "ok"
  BY Zenon DEF Place
<1> DEFINE new == [ptr |-> b + HDR, req |-> op.n,
                   valid |-> live'[s].valid, val |-> live'[s].val]
<1>7. /\ live' = [live EXCEPT ![s] = new]
      /\ live'[s].valid \in Nat /\ live'[s].val \in Tags
  <2>1. live \in [Slots -> [ptr : Nat, req : Nat, valid : Nat, val : Tags]]
    BY Zenon DEF IInv, TypeOK, Tags
  <2>2. CASE op.kind = "malloc"
    <3>1. live' = [live EXCEPT ![s] = [ptr |-> b + HDR, req |-> op.n,
                                        valid |-> 0, val |-> Garbage]]
      BY <2>2, Zenon DEF Place
    <3> QED BY <2>1, <3>1, <1>1, Zenon DEF Tags
  <2>3. CASE op.kind = "calloc"
    <3>1. live' = [live EXCEPT ![s] = [ptr |-> b + HDR, req |-> op.n,
                                        valid |-> op.n, val |-> Zero]]
      BY <2>3, Zenon DEF Place
    <3> QED BY <2>1, <3>1, <1>1, Zenon DEF Tags
  <2>4. CASE op.kind = "realloc"
    <3>1. live' = [live EXCEPT ![s] = [ptr |-> b + HDR, req |-> op.n,
                                        valid |-> live[s].valid, val |-> live[s].val]]
      BY <2>4, Zenon DEF Place
    <3> QED BY <2>1, <3>1, <1>1, Zenon DEF Tags
  <2> QED BY <2>2, <2>3, <2>4, <1>1, Zenon
<1> HIDE DEF new
<1>8. live' \in [Slots -> [ptr : Nat, req : Nat, valid : Nat, val : Tags]]
  BY <1>1, <1>5, <1>7 DEF IInv, TypeOK, Tags, new
<1>9. /\ live'[s].ptr = b + HDR /\ live'[s].req = op.n
      /\ \A r \in Slots : r # s => live'[r] = live[r]
  <2>1. DOMAIN live = Slots
    BY Zenon DEF IInv, TypeOK
  <2>2. live'[s] = new /\ \A r \in Slots : r # s => live'[r] = live[r]
    BY <2>1, <1>1, <1>7, Zenon
  <2>3. new.ptr = b + HDR /\ new.req = op.n
    BY Zenon DEF new
  <2> QED BY <2>2, <2>3, Zenon
<1>10. SUFFICES /\ WF(heap') /\ Coalesced(heap') /\ DataTyped(data')
                /\ Ownership'
                /\ \A x \in DOMAIN heap'.blk : End(heap', x) <= brk'
  <2>1. CallRight'
    BY <1>6, Zenon DEF CallRight
  <2>2. TypeOK'
    BY <1>10, <1>6, <1>8, Zenon DEF TypeOK, WF, DataTyped, Tags
  <2> QED BY <1>10, <2>1, <2>2, Zenon
          DEF IInv, HeapIntact, FullyCoalesced, BelowBreak, WF
<1>11. /\ \A r \in Slots : live[r].ptr # NULL =>
             /\ live[r].ptr - HDR \in DOMAIN heap.blk
             /\ heap.blk[live[r].ptr - HDR].avail = 0
             /\ live[r].req <= heap.blk[live[r].ptr - HDR].size
       /\ \A x \in DOMAIN heap.blk : heap.blk[x].avail = 0 =>
             \E r \in Slots : live[r].ptr = x + HDR
       /\ \A r, q \in Slots : live[r].ptr # NULL /\ live[r].ptr = live[q].ptr => r = q
       /\ \A r \in Slots : live[r].ptr \in Nat
  BY Zenon DEF IInv, TypeOK, Ownership, Block
<1>12. \A r \in Slots : live[r].ptr # NULL =>
             /\ live[r].ptr - HDR \in DOMAIN t.blk
             /\ live[r].ptr - HDR # b
             /\ t.blk[live[r].ptr - HDR].avail = 0
             /\ live[r].req <= t.blk[live[r].ptr - HDR].size
  <2> SUFFICES ASSUME NEW r \in Slots, live[r].ptr # NULL, NEW x, x = live[r].ptr - HDR
               PROVE  x \in DOMAIN t.blk /\ x # b /\ t.blk[x].avail = 0 /\ live[r].req <= t.blk[x].size
    BY Zenon
  <2>1. x \in DOMAIN heap.blk /\ heap.blk[x].avail = 0 /\ live[r].req <= heap.blk[x].size
    BY <1>11, Zenon
  <2>2. x \in DOMAIN h.blk /\ h.blk[x].avail = 0 /\ h.blk[x].size = heap.blk[x].size
    BY <2>1, Zenon
  <2>3. x # b
    BY ONLY <1>0, <2>2
  <2> QED BY <2>1, <2>2, <2>3, <1>3, Zenon
<1>13. \A x \in DOMAIN t.blk : x # b /\ t.blk[x].avail = 0 =>
             \E r \in Slots : live[r].ptr = x + HDR
  BY <1>3, <1>11, Zenon
<1>14. \A x \in DOMAIN t.blk : End(t, x) \in Nat
  BY <1>3, EndTyped, Zenon
<1>15. \A x \in DOMAIN h.blk : End(h, x) \in Nat
  BY EndTyped, Zenon
<1>16. \A x \in DOMAIN t.blk : End(t, x) <= brk'
  <2> SUFFICES ASSUME NEW x \in DOMAIN t.blk PROVE End(t, x) <= brk'
    BY Zenon
  <2>1. PICK y \in DOMAIN h.blk : End(t, x) <= End(h, y)
    BY <1>3, Zenon
  <2>2. End(t, x) \in Nat /\ End(h, y) \in Nat /\ End(h, y) <= brk' /\ brk' \in Nat
    BY <1>14, <1>15, Zenon
  <2> QED BY ONLY <2>1, <2>2
<1>17. \A x \in DOMAIN t.blk : x \in Nat /\ x # NULL
  BY <1>3, Zenon DEF WF, Typed, NULL
<1>18. b + HDR - HDR = b /\ b + HDR # NULL /\ \A x \in DOMAIN t.blk : x + HDR = b + HDR => x = b
  BY <1>5, <1>17 DEF NULL
<1>19. Payload(b, op.n) \subseteq Nat /\ Payload(b, op.old) \subseteq Nat
  BY <1>1, <1>5 DEF Payload
<1> HIDE DEF size, t, old
<1>20. CASE op.kind # "realloc"
  <2>1. heap' = t
    BY <1>20, <1>1, Zenon DEF Place, t, size, Idle
  <2>2. data' = d2 \/ data' = Store(d2, Payload(b, op.n), Zero)
    BY <1>20, <1>1, Zenon DEF Place, t, size
  <2>3. DataTyped(data')
    <3>1. Zero \in Tags
      BY Zenon DEF Tags
    <3> QED BY ONLY <2>2, <3>1, <1>4, <1>19, DataOps, Zenon
  <2>4. live[s].ptr = NULL
    BY <1>20, Zenon DEF IInv, CallRight
  <2>5. Ownership'
    <3>1. ASSUME NEW r \in Slots, live'[r].ptr # NULL
          PROVE  /\ live'[r].ptr - HDR \in DOMAIN t.blk
                 /\ t.blk[live'[r].ptr - HDR].avail = 0
                 /\ live'[r].req <= t.blk[live'[r].ptr - HDR].size
      <4>1. CASE r = s
        <5>1. t.blk[b].size \in Nat
          BY <1>3, Zenon DEF WF, Typed
        <5>2. live'[r].ptr - HDR = b /\ live'[r].req = op.n
          BY <4>1, <1>5, <1>9
        <5>3. op.n <= t.blk[b].size
          BY <5>1, <1>1, <1>2, <1>3
        <5> QED BY <5>2, <5>3, <1>3, Zenon
      <4>2. CASE r # s
        BY <3>1, <4>2, <1>9, <1>12, Zenon
      <4> QED BY <4>1, <4>2, Zenon
    <3>2. ASSUME NEW x \in DOMAIN t.blk, t.blk[x].avail = 0
          PROVE  \E r \in Slots : live'[r].ptr = x + HDR
      <4>1. CASE x = b
        BY <4>1, <1>1, <1>9, Zenon
      <4>2. CASE x # b
        <5>1. PICK r \in Slots : live[r].ptr = x + HDR
          BY <3>2, <4>2, <1>13, Zenon
        <5>2. r # s
          BY <5>1, <2>4, <1>5, <1>17 DEF NULL
        <5> QED BY <5>1, <5>2, <1>9, Zenon
      <4> QED BY <4>1, <4>2, Zenon
    <3>3. ASSUME NEW r \in Slots, NEW q \in Slots, live'[r].ptr # NULL,
                 live'[r].ptr = live'[q].ptr
          PROVE  r = q
      <4>1. \A z \in Slots : z # s /\ live[z].ptr # NULL => live[z].ptr # b + HDR
        BY ONLY <1>5, <1>12
      <4>2. CASE r = s \/ q = s
        BY <3>3, <4>1, <4>2, <1>1, <1>9, Zenon
      <4>3. CASE r # s /\ q # s
        <5>1. live'[r] = live[r] /\ live'[q] = live[q]
          BY <4>3, <1>9, Zenon
        <5> QED BY ONLY <5>1, <3>3, <1>11, Zenon
      <4> QED BY <4>2, <4>3, Zenon
    <3> QED BY <2>1, <3>1, <3>2, <3>3, Zenon DEF Ownership, Block
  <2> QED BY <2>1, <2>3, <2>5, <1>3, <1>16, Zenon
<1>21. CASE op.kind = "realloc"
  <2>1. /\ heap' = FreeBlock(t, old)
        /\ \E S : data' = Erase(CopyPayload(d2, old, b, op.old), S)
    BY <1>21, Zenon DEF Place, t, size, old, Block
  <2>2. DataTyped(data')
    <3>1. DataTyped(CopyPayload(d2, old, b, op.old))
      BY <1>4, <1>19, DataOps, Zenon
    <3> QED BY ONLY <2>1, <3>1, DataOps, Zenon
  <2>3. live[s].ptr # NULL
    BY <1>21, Zenon DEF IInv, CallRight
  <2>4. old \in DOMAIN t.blk /\ old # b
    BY <2>3, <1>1, <1>12, Zenon DEF old
  <2>5. /\ WF(heap') /\ Coalesced(heap')
        /\ DOMAIN heap'.blk \subseteq DOMAIN t.blk
        /\ old \in DOMAIN heap'.blk => heap'.blk[old].avail = 1
        /\ \A x \in DOMAIN heap'.blk : x # old => heap'.blk[x].avail = t.blk[x].avail
        /\ \A x \in DOMAIN t.blk : x # old /\ t.blk[x].avail = 0 =>
              x \in DOMAIN heap'.blk /\ heap'.blk[x].size = t.blk[x].size
        /\ \A x \in DOMAIN heap'.blk : \E y \in DOMAIN t.blk : End(heap', x) = End(t, y)
    <3>e. Freed(t, old, heap')
      BY <2>1, <2>4, <1>3, FreeBlockEffect, Zenon
    <3> QED BY <3>e, Zenon DEF Freed
  <2>6. \A x \in DOMAIN heap'.blk : End(heap', x) <= brk'
    BY <2>5, <1>16, Zenon
  <2>7. Ownership'
    <3>0. \A r \in Slots : r # s /\ live[r].ptr # NULL => live[r].ptr - HDR # old
      BY <2>3, <1>1, <1>5, <1>11 DEF old
    <3>1. ASSUME NEW r \in Slots, live'[r].ptr # NULL
          PROVE  /\ live'[r].ptr - HDR \in DOMAIN heap'.blk
                 /\ heap'.blk[live'[r].ptr - HDR].avail = 0
                 /\ live'[r].req <= heap'.blk[live'[r].ptr - HDR].size
      <4>1. CASE r = s
        <5>1. t.blk[b].size \in Nat
          BY <1>3, Zenon DEF WF, Typed
        <5>2. live'[r].ptr - HDR = b /\ live'[r].req = op.n
          BY <4>1, <1>5, <1>9
        <5>3. op.n <= t.blk[b].size
          BY <5>1, <1>1, <1>2, <1>3
        <5> QED BY <5>2, <5>3, <2>4, <2>5, <1>3, Zenon
      <4>2. CASE r # s
        <5> SUFFICES ASSUME NEW x, x = live'[r].ptr - HDR
                     PROVE  x \in DOMAIN heap'.blk /\ heap'.blk[x].avail = 0 /\ live'[r].req <= heap'.blk[x].size
          BY Zenon
        <5>1. live'[r] = live[r]
          BY <4>2, <1>9, Zenon
        <5>2. x \in DOMAIN t.blk /\ x # old /\ t.blk[x].avail = 0 /\ live'[r].req <= t.blk[x].size
          BY <5>1, <3>0, <3>1, <4>2, <1>12, Zenon
        <5>3. x \in DOMAIN heap'.blk /\ heap'.blk[x].size = t.blk[x].size /\ heap'.blk[x].avail = t.blk[x].avail
          BY <5>2, <2>5, Zenon
        <5> QED BY <5>2, <5>3, Zenon
      <4> QED BY <4>1, <4>2, Zenon
    <3>2. ASSUME NEW x \in DOMAIN heap'.blk, heap'.blk[x].avail = 0
          PROVE  \E r \in Slots : live'[r].ptr = x + HDR
      <4>1. CASE x = b
        BY <4>1, <1>1, <1>9, Zenon
      <4>2. CASE x # b
        <5>1. x # old /\ x \in DOMAIN t.blk /\ t.blk[x].avail = 0
          <6>1. x = old => heap'.blk[x].avail = 1
            BY <2>5, Zenon
          <6>2. x # old
            BY ONLY <3>2, <6>1
          <6> QED BY <3>2, <6>2, <2>5, Zenon
        <5>2. PICK r \in Slots : live[r].ptr = x + HDR
          BY <4>2, <5>1, <1>13, Zenon
        <5>3. r # s
          BY <5>1, <5>2, <1>5, <1>17 DEF old
        <5> QED BY <5>2, <5>3, <1>9, Zenon
      <4> QED BY <4>1, <4>2, Zenon
    <3>3. ASSUME NEW r \in Slots, NEW q \in Slots, live'[r].ptr # NULL,
                 live'[r].ptr = live'[q].ptr
          PROVE  r = q
      <4>1. \A z \in Slots : z # s /\ live[z].ptr # NULL => live[z].ptr # b + HDR
        BY ONLY <1>5, <1>12
      <4>2. CASE r = s \/ q = s
        BY <3>3, <4>1, <4>2, <1>1, <1>9, Zenon
      <4>3. CASE r # s /\ q # s
        <5>1. live'[r] = live[r] /\ live'[q] = live[q]
          BY <4>3, <1>9, Zenon
        <5> QED BY ONLY <5>1, <3>3, <1>11, Zenon
      <4> QED BY <4>2, <4>3, Zenon
    <3> QED BY <3>1, <3>2, <3>3, Zenon DEF Ownership, Block
  <2> QED BY <2>2, <2>5, <2>6, <2>7, Zenon
<1> QED BY <1>20, <1>21, Zenon

\* A call that enters the search loop, or fails, keeps the invariant.
LEMMA StartIInv ==
  ASSUME IInv, op = Idle,
         NEW kind \in {"malloc", "calloc", "realloc"}, NEW s \in Slots, NEW n \in Nat,
         NEW old \in Nat, (live[s].ptr # NULL) <=> (kind = "realloc"),
         StartSearch(kind, s, n, old), UNCHANGED <<heap, brk, mapped, data, live>>
  PROVE  IInv'
<1>1. op' = [kind |-> kind, slot |-> s, n |-> n, cur |-> heap.first, old |-> old]
      /\ ret' = "busy"
  BY Zenon DEF StartSearch
<1>2. heap.first = NULL \/ heap.first \in DOMAIN heap.blk
  BY Zenon DEF IInv, HeapIntact, Linked, EndsRight
<1>3. heap.first \in Nat
  BY Zenon DEF IInv, TypeOK, Typed
<1>4. TypeOK'
  BY <1>1, <1>3, Zenon DEF IInv, TypeOK, Typed
<1>5. HeapIntact' /\ FullyCoalesced' /\ BelowBreak' /\ Ownership'
  BY Zenon DEF IInv, HeapIntact, FullyCoalesced, BelowBreak, Ownership, Block
<1>6. CallRight'
  BY <1>1, <1>2, Zenon DEF CallRight, Idle
<1> QED BY <1>4, <1>5, <1>6, Zenon DEF IInv

\* A call that fails keeps the invariant: it only sets errno.
LEMMA FailIInv == IInv /\ Fail => IInv'
<1> SUFFICES ASSUME IInv, Fail PROVE IInv'
  BY Zenon
<1>1. TypeOK'
  BY Zenon DEF Fail, IInv, TypeOK, Typed
<1>2. HeapIntact' /\ FullyCoalesced' /\ BelowBreak' /\ Ownership' /\ CallRight'
  BY Zenon DEF Fail, IInv, HeapIntact, FullyCoalesced, BelowBreak, Ownership, Block, CallRight
<1> QED BY <1>1, <1>2, Zenon DEF IInv

\* malloc's entry keeps the invariant.
LEMMA MallocIInv ==
  ASSUME IInv, NEW s \in Slots, NEW n \in Sizes, Malloc(s, n)
  PROVE  IInv'
<1>1. CASE Fail
  BY <1>1, FailIInv, Zenon
<1>2. CASE StartSearch("malloc", s, n, 0) /\ UNCHANGED <<heap, brk, mapped, data, live>>
  <2>1. n \in Nat /\ 0 \in Nat /\ op = Idle /\ live[s].ptr = NULL
    BY RequestAssumption, Zenon DEF Malloc
  <2> QED BY <1>2, <2>1, StartIInv, Zenon
<1> QED BY <1>1, <1>2, Zenon DEF Malloc

\* calloc's entry, with its overflow test, keeps the invariant.
LEMMA CallocIInv ==
  ASSUME IInv, NEW s \in Slots, NEW count \in Sizes, NEW n \in Sizes, Calloc(s, count, n)
  PROVE  IInv'
<1>1. CASE Fail
  BY <1>1, FailIInv, Zenon
<1>2. CASE StartSearch("calloc", s, count * n, 0)
           /\ UNCHANGED <<heap, brk, mapped, data, live>>
  <2>1. count \in Nat /\ n \in Nat /\ op = Idle /\ live[s].ptr = NULL
    BY RequestAssumption, Zenon DEF Calloc
  <2>2. count * n \in Nat /\ 0 \in Nat
    BY <2>1
  <2> QED BY <1>2, <2>1, <2>2, StartIInv, Zenon
<1> QED BY <1>1, <1>2, Zenon DEF Calloc

\* The facts of Ownership in terms of addresses.
LEMMA OwnershipFacts ==
  ASSUME IInv
  PROVE  /\ \A r \in Slots : live[r].ptr # NULL =>
             /\ live[r].ptr - HDR \in DOMAIN heap.blk
             /\ heap.blk[live[r].ptr - HDR].avail = 0
             /\ live[r].req <= heap.blk[live[r].ptr - HDR].size
         /\ \A x \in DOMAIN heap.blk : heap.blk[x].avail = 0 =>
             \E r \in Slots : live[r].ptr = x + HDR
         /\ \A r, q \in Slots : live[r].ptr # NULL /\ live[r].ptr = live[q].ptr => r = q
         /\ \A r \in Slots : live[r].ptr \in Nat /\ live[r].req \in Nat
                             /\ live[r].valid \in Nat
         /\ \A x \in DOMAIN heap.blk : x \in Nat \ {0} /\ heap.blk[x].size \in Nat
         /\ HDR \in Nat \ {0}
         /\ WF(heap) /\ Coalesced(heap) /\ DataTyped(data)
BY AlignAssumption, Zenon DEF IInv, TypeOK, Typed, Ownership, Block, HeapIntact,
   FullyCoalesced, WF, DataTyped, Tags

\* free keeps the invariant: the block leaves the client and merges both ways.
LEMMA FreeIInv ==
  ASSUME IInv, NEW s \in Slots, Free(s)
  PROVE  IInv'
<1> DEFINE b == live[s].ptr - HDR
<1>1. /\ op = Idle /\ op' = Idle /\ ret' = "ok" /\ live[s].ptr # NULL
      /\ heap' = FreeBlock(heap, b)
      /\ \E S : data' = Erase(data, S)
      /\ live' = [live EXCEPT ![s] = Nothing]
      /\ brk' = brk /\ mapped' = mapped
  BY Zenon DEF Free, Block
<1>2. b \in DOMAIN heap.blk
  BY <1>1, OwnershipFacts, Zenon
<1>3. WF(heap) /\ Coalesced(heap) /\ DataTyped(data) /\ HDR \in Nat \ {0}
  BY OwnershipFacts, Zenon
<1> HIDE DEF b
<1>4. /\ WF(heap') /\ Coalesced(heap')
      /\ DOMAIN heap'.blk \subseteq DOMAIN heap.blk
      /\ b \in DOMAIN heap'.blk => heap'.blk[b].avail = 1
      /\ \A x \in DOMAIN heap'.blk : x # b => heap'.blk[x].avail = heap.blk[x].avail
      /\ \A x \in DOMAIN heap.blk : x # b /\ heap.blk[x].avail = 0 =>
            x \in DOMAIN heap'.blk /\ heap'.blk[x].size = heap.blk[x].size
      /\ \A x \in DOMAIN heap'.blk : \E y \in DOMAIN heap.blk : End(heap', x) = End(heap, y)
  <2>e. Freed(heap, b, heap')
    BY <1>1, <1>2, <1>3, FreeBlockEffect, Zenon
  <2> QED BY <2>e, Zenon DEF Freed
<1>5. DataTyped(data')
  BY <1>1, <1>3, DataOps, Zenon
<1>6. /\ live'[s].ptr = NULL
      /\ \A r \in Slots : r # s => live'[r] = live[r]
      /\ live' \in [Slots -> [ptr : Nat, req : Nat, valid : Nat, val : Tags]]
  BY <1>1, Zenon DEF IInv, TypeOK, Nothing, NULL, Tags
<1>7. TypeOK'
  BY <1>1, <1>4, <1>5, <1>6, Zenon DEF IInv, TypeOK, WF, DataTyped, Tags
<1>8. HeapIntact' /\ FullyCoalesced'
  BY <1>4, Zenon DEF HeapIntact, FullyCoalesced, WF
<1>9. BelowBreak'
  BY <1>1, <1>4, Zenon DEF IInv, BelowBreak
<1>10. CallRight'
  BY <1>1, Zenon DEF CallRight
<1>11. Ownership'
  <2>1. ASSUME NEW r \in Slots, live'[r].ptr # NULL
        PROVE  /\ live'[r].ptr - HDR \in DOMAIN heap'.blk
               /\ heap'.blk[live'[r].ptr - HDR].avail = 0
               /\ live'[r].req <= heap'.blk[live'[r].ptr - HDR].size
    <3>1. r # s /\ live'[r] = live[r] /\ live[r].ptr # NULL
      BY <2>1, <1>6, Zenon
    <3>2. /\ live[r].ptr - HDR \in DOMAIN heap.blk
          /\ heap.blk[live[r].ptr - HDR].avail = 0
          /\ live[r].req <= heap.blk[live[r].ptr - HDR].size
      BY <3>1, OwnershipFacts, Zenon
    <3>3. live[r].ptr - HDR # b
      BY <3>1, <1>1, OwnershipFacts DEF b
    <3> QED BY <3>1, <3>2, <3>3, <1>4, Zenon
  <2>2. ASSUME NEW x \in DOMAIN heap'.blk, heap'.blk[x].avail = 0
        PROVE  \E r \in Slots : live'[r].ptr = x + HDR
    <3>1. x # b /\ x \in DOMAIN heap.blk /\ heap.blk[x].avail = 0
      BY <2>2, <1>4
    <3>2. PICK r \in Slots : live[r].ptr = x + HDR
      BY <3>1, OwnershipFacts, Zenon
    <3>3. r # s
      BY <3>1, <3>2, OwnershipFacts DEF b
    <3> QED BY <3>2, <3>3, <1>6, Zenon
  <2>3. ASSUME NEW r \in Slots, NEW q \in Slots, live'[r].ptr # NULL,
               live'[r].ptr = live'[q].ptr
        PROVE  r = q
    BY <2>3, <1>6, OwnershipFacts
  <2> QED BY <2>1, <2>2, <2>3, Zenon DEF Ownership, Block
<1> QED BY <1>7, <1>8, <1>9, <1>10, <1>11, Zenon DEF IInv

\* Ownership survives a change of the heap that keeps every block in use, when
\* the pointers stay and the block of s is still large enough.
LEMMA KeepOwnership ==
  ASSUME IInv, NEW s \in Slots, live[s].ptr # NULL,
         NEW b, b = live[s].ptr - HDR,
         \A x \in DOMAIN heap.blk : heap.blk[x].avail = 0 =>
            /\ x \in DOMAIN heap'.blk /\ heap'.blk[x].avail = 0
            /\ x # b => heap'.blk[x].size = heap.blk[x].size,
         \A x \in DOMAIN heap'.blk : heap'.blk[x].avail = 0 =>
            x \in DOMAIN heap.blk /\ heap.blk[x].avail = 0,
         \A r \in Slots : live'[r].ptr = live[r].ptr,
         \A r \in Slots : r # s => live'[r].req = live[r].req,
         live'[s].req <= heap'.blk[b].size
  PROVE  Ownership'
<1>1. ASSUME NEW r \in Slots, live'[r].ptr # NULL
      PROVE  /\ live'[r].ptr - HDR \in DOMAIN heap'.blk
             /\ heap'.blk[live'[r].ptr - HDR].avail = 0
             /\ live'[r].req <= heap'.blk[live'[r].ptr - HDR].size
  <2>1. /\ live[r].ptr - HDR \in DOMAIN heap.blk
        /\ heap.blk[live[r].ptr - HDR].avail = 0
        /\ live[r].req <= heap.blk[live[r].ptr - HDR].size
    BY <1>1, OwnershipFacts, Zenon
  <2>2. CASE r = s
    BY <2>1, <2>2, Zenon
  <2>3. CASE r # s
    <3>1. live[r].ptr - HDR # b
      BY <1>1, <2>3, OwnershipFacts
    <3> QED BY <2>1, <2>3, <3>1, ZenonT(40)
  <2> QED BY <2>2, <2>3, Zenon
<1>2. ASSUME NEW x \in DOMAIN heap'.blk, heap'.blk[x].avail = 0
      PROVE  \E r \in Slots : live'[r].ptr = x + HDR
  <2>1. PICK r \in Slots : live[r].ptr = x + HDR
    BY <1>2, OwnershipFacts, Zenon
  <2> QED BY <2>1, Zenon
<1>3. ASSUME NEW r \in Slots, NEW q \in Slots, live'[r].ptr # NULL,
             live'[r].ptr = live'[q].ptr
      PROVE  r = q
  BY <1>3, OwnershipFacts
<1> QED BY <1>1, <1>2, <1>3, Zenon DEF Ownership, Block

\* realloc up to its return in place, or to the malloc it calls, keeps the invariant.
LEMMA ReallocIInv ==
  ASSUME IInv, NEW s \in Slots, NEW n \in Sizes, Realloc(s, n)
  PROVE  IInv'
<1> DEFINE b == live[s].ptr - HDR
           h == MergeNext(heap, b)
           rounded == RoundUp(n, ALIGN)
<1>0. b = live[s].ptr - HDR /\ h = MergeNext(heap, b) /\ rounded = RoundUp(n, ALIGN)
  BY Zenon
<1>1. op = Idle /\ live[s].ptr # NULL /\ n # 0
  BY Zenon DEF Realloc
<1>2. n \in Nat /\ rounded \in Nat /\ n <= rounded
  BY RequestAssumption, AlignAssumption, RoundUpBounds, Zenon
<1>3. \/ Fail
      \/ /\ h.blk[b].size >= rounded
         /\ heap' = SplitBlock(h, b, rounded)
         /\ \E S : data' = Erase(data, S)
         /\ live' = [live EXCEPT ![s] =
                [ptr |-> @.ptr, req |-> n,
                 valid |-> IF @.valid > n THEN n ELSE @.valid, val |-> @.val]]
         /\ ret' = "ok"
         /\ UNCHANGED <<brk, mapped, op>>
      \/ /\ heap' = h
         /\ StartSearch("realloc", s, n, heap.blk[b].size)
         /\ UNCHANGED <<brk, mapped, data, live>>
  BY Zenon DEF Realloc, Block
<1> HIDE DEF b, h, rounded
<1>4. /\ b \in DOMAIN heap.blk /\ heap.blk[b].avail = 0
      /\ live[s].req <= heap.blk[b].size
      /\ heap.blk[b].size \in Nat /\ live[s].req \in Nat
      /\ WF(heap) /\ Coalesced(heap) /\ DataTyped(data) /\ HDR \in Nat \ {0}
  BY <1>0, <1>1, OwnershipFacts, Zenon
<1>5. WF(h)
  BY <1>0, <1>4, MergeNextWF, Zenon
<1>6. /\ b \in DOMAIN h.blk /\ DOMAIN h.blk \subseteq DOMAIN heap.blk
      /\ \A x \in DOMAIN h.blk : h.blk[x].avail = heap.blk[x].avail
      /\ \A x \in DOMAIN h.blk : x # b => h.blk[x].size = heap.blk[x].size
      /\ heap.blk[b].size <= h.blk[b].size
      /\ \A x \in DOMAIN heap.blk \ DOMAIN h.blk : heap.blk[x].avail = 1
      /\ \A x \in DOMAIN h.blk : \E y \in DOMAIN heap.blk : End(h, x) = End(heap, y)
  <2>e. Merged(heap, b, h)
    BY <1>0, <1>4, MergeNextEffect, Zenon
  <2> QED BY <2>e, Zenon DEF Merged
<1>7. Coalesced(h)
  <2>1. heap.blk[b].next # NULL => heap.blk[b].next \in DOMAIN heap.blk
    BY <1>4, Zenon DEF WF, Linked, NextRight
  <2>2. /\ Apart(h, b)
        /\ \A x \in DOMAIN h.blk : x # b /\ Apart(heap, x) => Apart(h, x)
    <3>1. heap.blk[b].next # NULL => Apart(heap, heap.blk[b].next)
      BY <2>1, <1>4, Zenon DEF Coalesced
    <3>2. WF(heap) /\ b \in DOMAIN heap.blk /\ h = MergeNext(heap, b)
      BY <1>0, <1>4, Zenon
    <3> QED BY ONLY <3>1, <3>2, MergeNextApart
  <2> QED BY <2>2, <1>4, <1>6, Zenon DEF Coalesced
<1>8. CASE Fail
  BY <1>8, FailIInv, Zenon
<1>9. CASE /\ h.blk[b].size >= rounded
           /\ heap' = SplitBlock(h, b, rounded)
           /\ \E S : data' = Erase(data, S)
           /\ live' = [live EXCEPT ![s] =
                [ptr |-> @.ptr, req |-> n,
                 valid |-> IF @.valid > n THEN n ELSE @.valid, val |-> @.val]]
           /\ ret' = "ok"
           /\ UNCHANGED <<brk, mapped, op>>
  <2>0. h.blk[b].size \in Nat /\ rounded <= h.blk[b].size
    BY <1>2, <1>5, <1>6, <1>9, Zenon DEF WF, Typed
  <2>1. /\ WF(heap')
        /\ b \in DOMAIN heap'.blk /\ rounded <= heap'.blk[b].size
        /\ \A x \in DOMAIN heap'.blk : x \in DOMAIN h.blk => heap'.blk[x].avail = h.blk[x].avail
        /\ \A x \in DOMAIN heap'.blk : x \notin DOMAIN h.blk => heap'.blk[x].avail = 1
        /\ \A x \in DOMAIN heap'.blk : x \in DOMAIN h.blk /\ x # b =>
              heap'.blk[x].size = h.blk[x].size
        /\ \A x \in DOMAIN h.blk \ DOMAIN heap'.blk : h.blk[x].avail = 1
        /\ \A x \in DOMAIN heap'.blk : \E y \in DOMAIN h.blk : End(heap', x) <= End(h, y)
    <3>e. SplitFrom(h, b, rounded, heap')
      BY <2>0, <1>2, <1>5, <1>6, <1>9, SplitBlockEffect, Zenon
    <3> QED BY <3>e, Zenon DEF SplitFrom
  <2>2. Coalesced(heap')
    <3>1. h.blk[b].next # NULL => Apart(h, h.blk[b].next)
      BY <1>5, <1>6, <1>7, Zenon DEF Coalesced, WF, Linked, NextRight
    <3>2. \A x \in DOMAIN heap'.blk :
             x # b /\ (x \in DOMAIN h.blk => Apart(h, x)) => Apart(heap', x)
      <4>e. SplitFrom(h, b, rounded, heap')
        BY <3>1, <2>0, <1>2, <1>5, <1>6, <1>9, SplitBlockEffect, Zenon
      <4> QED BY <4>e, <3>1, Zenon DEF SplitFrom
    <3>3. Apart(heap', b)
      BY <2>1, <1>4, <1>6, Zenon DEF Apart
    <3> QED BY <3>2, <3>3, <1>7, Zenon DEF Coalesced
  <2>3. /\ live' \in [Slots -> [ptr : Nat, req : Nat, valid : Nat, val : Tags]]
        /\ \A r \in Slots : live'[r].ptr = live[r].ptr
        /\ \A r \in Slots : r # s => live'[r].req = live[r].req
        /\ live'[s].req = n
    <3> DEFINE v == IF live[s].valid > n THEN n ELSE live[s].valid
    <3>1. live \in [Slots -> [ptr : Nat, req : Nat, valid : Nat, val : Tags]]
      BY Zenon DEF IInv, TypeOK, Tags
    <3>2. v \in Nat
      BY <3>1, <1>2, Zenon
    <3>3. live' = [live EXCEPT ![s] = [ptr |-> live[s].ptr, req |-> n, valid |-> v,
                                       val |-> live[s].val]]
      BY <1>9, Zenon
    <3> HIDE DEF v
    <3> QED BY <3>1, <3>2, <3>3, <1>2, Zenon
  <2>4. DataTyped(data')
    BY <1>4, <1>9, DataOps, Zenon
  <2>5. TypeOK'
    BY <2>1, <2>3, <2>4, <1>9, Zenon DEF IInv, TypeOK, WF, DataTyped, Tags
  <2>6. BelowBreak'
    <3>1. \A x \in DOMAIN h.blk : End(h, x) \in Nat /\ End(h, x) <= brk
      BY <1>4, <1>5, <1>6 DEF IInv, BelowBreak, WF, Typed, End
    <3>2. \A x \in DOMAIN heap'.blk : End(heap', x) \in Nat
      BY <2>1, <1>4 DEF WF, Typed, End
    <3>3. brk \in Nat /\ brk' = brk /\ brk >= 1
      BY <1>9, Zenon DEF IInv, TypeOK, BelowBreak
    <3> QED BY <3>1, <3>2, <3>3, <2>1 DEF BelowBreak
  <2>7. live'[s].req <= heap'.blk[b].size
    <3>1. heap'.blk[b].size \in Nat
      BY <2>1, Zenon DEF WF, Typed
    <3> QED BY <3>1, <2>1, <2>3, <1>2
  <2>8. /\ \A x \in DOMAIN heap.blk : heap.blk[x].avail = 0 =>
            /\ x \in DOMAIN heap'.blk /\ heap'.blk[x].avail = 0
            /\ x # b => heap'.blk[x].size = heap.blk[x].size
        /\ \A x \in DOMAIN heap'.blk : heap'.blk[x].avail = 0 =>
            x \in DOMAIN heap.blk /\ heap.blk[x].avail = 0
    BY <2>1, <1>6
  <2>9. Ownership'
    BY <2>3, <2>7, <2>8, <1>0, <1>1, KeepOwnership, ZenonT(40)
  <2>10. CallRight'
    BY <1>1, <1>9, Zenon DEF CallRight
  <2> QED BY <2>1, <2>2, <2>5, <2>6, <2>9, <2>10, Zenon DEF IInv, HeapIntact, FullyCoalesced, WF
<1>10. CASE /\ heap' = h
            /\ StartSearch("realloc", s, n, heap.blk[b].size)
            /\ UNCHANGED <<brk, mapped, data, live>>
  <2>1. op' = [kind |-> "realloc", slot |-> s, n |-> n, cur |-> heap.first,
               old |-> heap.blk[b].size] /\ ret' = "busy"
    BY <1>10, Zenon DEF StartSearch
  <2>2. heap'.first = heap.first
    BY <1>0, <1>10, Zenon DEF MergeNext
  <2>3. heap'.first \in Nat /\ (heap'.first = NULL \/ heap'.first \in DOMAIN heap'.blk)
    BY <1>5, <1>10, Zenon DEF WF, Typed, Linked, EndsRight
  <2>4. TypeOK'
    BY <2>1, <2>2, <2>3, <1>2, <1>4, <1>5, <1>10, Zenon DEF IInv, TypeOK, WF
  <2>5. BelowBreak'
    BY <1>6, <1>10, Zenon DEF IInv, BelowBreak
  <2>6. CallRight'
    BY <2>1, <2>2, <2>3, <1>1, <1>10, ZenonT(40) DEF CallRight
  <2>7. live'[s].req <= heap'.blk[b].size
    <3>1. h.blk[b].size \in Nat
      BY <1>5, <1>6, Zenon DEF WF, Typed
    <3>2. live'[s].req = live[s].req /\ heap'.blk[b].size = h.blk[b].size
      BY <1>10, Zenon
    <3>3. /\ live[s].req \in Nat /\ heap.blk[b].size \in Nat
          /\ live[s].req <= heap.blk[b].size /\ heap.blk[b].size <= h.blk[b].size
      BY <1>4, <1>6, Zenon
    <3> QED BY ONLY <3>1, <3>2, <3>3, SMT
  <2>8. /\ \A x \in DOMAIN heap.blk : heap.blk[x].avail = 0 =>
            /\ x \in DOMAIN heap'.blk /\ heap'.blk[x].avail = 0
            /\ x # b => heap'.blk[x].size = heap.blk[x].size
        /\ \A x \in DOMAIN heap'.blk : heap'.blk[x].avail = 0 =>
            x \in DOMAIN heap.blk /\ heap.blk[x].avail = 0
    <3>1. heap' = h
      BY <1>10, Zenon
    <3>2. \A x \in DOMAIN heap.blk : heap.blk[x].avail = 0 =>
              /\ x \in DOMAIN h.blk /\ h.blk[x].avail = 0
              /\ x # b => h.blk[x].size = heap.blk[x].size
      BY ONLY <1>6, SMT
    <3>3. \A x \in DOMAIN h.blk : h.blk[x].avail = 0 => x \in DOMAIN heap.blk /\ heap.blk[x].avail = 0
      BY ONLY <1>6, Zenon
    <3> QED BY ONLY <3>1, <3>2, <3>3, Zenon
  <2>o. /\ \A r \in Slots : live'[r].ptr = live[r].ptr
        /\ \A r \in Slots : r # s => live'[r].req = live[r].req
    BY <1>10, Zenon
  <2>9. Ownership'
    BY <2>7, <2>8, <2>o, <1>0, <1>1, KeepOwnership, ZenonT(60)
  <2> QED BY <2>4, <2>5, <2>6, <2>9, <1>5, <1>7, <1>10, Zenon DEF IInv, HeapIntact, FullyCoalesced, WF
<1> QED BY <1>3, <1>8, <1>9, <1>10, Zenon

\* One turn of malloc's search keeps the invariant.
LEMMA SearchNextIInv ==
  ASSUME IInv, SearchNext
  PROVE  IInv'
<1> DEFINE nx == heap.blk[op.cur].next
<1>1. /\ op # Idle /\ op.cur # NULL /\ op' = [op EXCEPT !.cur = nx]
      /\ UNCHANGED <<heap, brk, mapped, data, live, ret>>
  BY Zenon DEF SearchNext
<1>2. op.cur \in DOMAIN heap.blk
  BY <1>1, Zenon DEF IInv, CallRight
<1>3. nx \in Nat /\ (nx = NULL \/ nx \in DOMAIN heap.blk)
  BY <1>2, Zenon DEF IInv, TypeOK, Typed, HeapIntact, Linked, NextRight
<1> HIDE DEF nx
<1>4. op \in [kind : {"malloc", "calloc", "realloc"}, slot : Slots,
              n : Nat, cur : Nat, old : Nat]
  BY <1>1, Zenon DEF IInv, TypeOK
<1>5. /\ op' \in [kind : {"malloc", "calloc", "realloc"}, slot : Slots,
                  n : Nat, cur : Nat, old : Nat]
      /\ op'.cur = nx /\ op'.slot = op.slot /\ op'.kind = op.kind
  BY <1>1, <1>3, <1>4, Zenon
<1>6. TypeOK'
  BY <1>1, <1>5, Zenon DEF IInv, TypeOK, Typed
<1>7. CallRight'
  BY <1>1, <1>3, <1>5, Zenon DEF IInv, CallRight
<1>8. HeapIntact' /\ FullyCoalesced' /\ BelowBreak' /\ Ownership'
  BY <1>1, Zenon DEF IInv, HeapIntact, FullyCoalesced, BelowBreak, Ownership, Block
<1> QED BY <1>6, <1>7, <1>8, Zenon DEF IInv

\* The block found is one malloc may take.
LEMMA FoundPlaceable ==
  ASSUME IInv, SearchFound
  PROVE  /\ Placeable(heap, op.cur) /\ Place(heap, op.cur, data) /\ op # Idle
         /\ brk' = brk /\ mapped' = mapped
<1>1. /\ op # Idle /\ op.cur # NULL
      /\ heap.blk[op.cur].avail = 1 /\ heap.blk[op.cur].size >= Rounded(op.n)
      /\ Place(heap, op.cur, data) /\ brk' = brk /\ mapped' = mapped
  BY Zenon DEF SearchFound, Fits
<1>2. op.cur \in DOMAIN heap.blk
  BY <1>1, Zenon DEF IInv, CallRight
<1>3. WF(heap) /\ Coalesced(heap) /\ heap.blk[op.cur].size \in Nat
  BY <1>2, OwnershipFacts, Zenon
<1>4. op.n \in Nat
  BY <1>1, Zenon DEF IInv, TypeOK, Idle
<1>5. Rounded(op.n) <= heap.blk[op.cur].size
  BY <1>1, <1>3, <1>4, RoundedBounds, Zenon
<1> QED BY <1>1, <1>2, <1>3, <1>5, Zenon DEF Placeable, Coalesced

\* Taking the block found keeps the invariant.
LEMMA SearchFoundIInv ==
  ASSUME IInv, SearchFound
  PROVE  IInv'
<1>1. /\ Placeable(heap, op.cur) /\ Place(heap, op.cur, data) /\ op # Idle
      /\ brk' = brk /\ mapped' = mapped
  BY FoundPlaceable, Zenon
<1>2. brk' \in Nat /\ brk' >= 1 /\ mapped' \subseteq Nat /\ \A x \in DOMAIN heap.blk : End(heap, x) <= brk'
  BY <1>1, Zenon DEF IInv, TypeOK, BelowBreak
<1> QED BY <1>1, <1>2, OwnershipFacts, PlaceIInv, Zenon

\* The new extent lies above all blocks and is a block malloc may take.
LEMMA GrowPlaceable ==
  ASSUME IInv, Grow,
         NEW extent, extent = ExtentFor(Rounded(op.n)), NEW b, b = RoundUp(brk, ALIGN),
         NEW h, h = AppendExtent(heap, b, extent)
  PROVE  /\ Placeable(h, b) /\ Place(h, b, Erase(data, b .. (b + HDR - 1))) /\ op # Idle
         /\ mapped' = mapped \cup b .. (b + extent - 1)
         /\ brk' \in Nat /\ brk' >= 1 /\ \A x \in DOMAIN h.blk : End(h, x) <= brk'
         /\ b \in Nat \ {0} /\ extent \in Nat /\ HDR <= extent
         /\ \A x \in DOMAIN heap.blk : End(heap, x) \in Nat /\ End(heap, x) <= b
<1>1. /\ op # Idle /\ brk' = brk + extent + ALIGN - 1
      /\ mapped' = mapped \cup b .. (b + extent - 1)
      /\ Place(h, b, Erase(data, b .. (b + HDR - 1)))
  BY Zenon DEF Grow
<1>2. op.n \in Nat /\ brk \in Nat /\ mapped \subseteq Nat
  BY <1>1, Zenon DEF IInv, TypeOK, Idle
<1>3. Rounded(op.n) \in Nat
  BY <1>2, RoundedBounds, Zenon
<1>4. extent \in Nat /\ Rounded(op.n) + HDR <= extent
  BY <1>3, ExtentBounds, Zenon
<1>5. b \in Nat /\ brk <= b /\ b < brk + ALIGN
  BY <1>2, AlignAssumption, RoundUpBounds, Zenon
<1>8. WF(heap) /\ Coalesced(heap) /\ HDR \in Nat \ {0} /\ ALIGN \in Nat \ {0}
  BY OwnershipFacts, AlignAssumption, ZenonT(40)
<1>9. \A x \in DOMAIN heap.blk : End(heap, x) \in Nat
  BY <1>8, EndTyped, Zenon
<1>10. \A x \in DOMAIN heap.blk : End(heap, x) <= b
  BY <1>2, <1>5, <1>9 DEF IInv, BelowBreak
<1>11. b \in Nat \ {0}
  <2>1. brk # 0
    <3>1. brk >= 1
      BY Zenon DEF IInv, BelowBreak
    <3> QED BY <3>1, <1>2
  <2> QED BY <2>1, <1>2, <1>5
<1>12. HDR <= extent
  BY <1>3, <1>4, <1>8
<1>13. /\ WF(h)
       /\ DOMAIN h.blk = DOMAIN heap.blk \cup {b} /\ b \notin DOMAIN heap.blk
       /\ h.blk[b].size = extent - HDR
       /\ h.blk[b].avail = 1
       /\ \A x \in DOMAIN heap.blk : h.blk[x].avail = heap.blk[x].avail
       /\ \A x \in DOMAIN heap.blk : h.blk[x].size = heap.blk[x].size
       /\ \A x \in DOMAIN heap.blk : h.blk[x].next # b /\ Apart(heap, x) => Apart(h, x)
  BY <1>4, <1>8, <1>10, <1>11, <1>12, AppendExtentEffect
<1>14. \A x \in DOMAIN h.blk : x # b /\ h.blk[x].next # b => Apart(h, x)
  BY <1>8, <1>13, Zenon DEF Coalesced
<1>15. brk' \in Nat /\ brk' >= 1
  <2>1. brk \in Nat /\ brk >= 1 /\ brk' = brk + extent + ALIGN - 1
    BY <1>1, <1>2, Zenon DEF IInv, BelowBreak
  <2>2. extent \in Nat /\ ALIGN \in Nat \ {0}
    BY <1>4, <1>8, Zenon
  <2> QED BY <2>1, <2>2
<1>16. \A x \in DOMAIN h.blk : End(h, x) <= brk'
  <2>1. End(h, b) = b + extent /\ b + extent <= brk'
    <3>1. brk \in Nat /\ brk' = brk + extent + ALIGN - 1
      BY <1>1, <1>2, Zenon
    <3>2. End(h, b) = b + HDR + (extent - HDR)
      BY <1>13, Zenon DEF End
    <3>3. b \in Nat /\ extent \in Nat /\ b < brk + ALIGN /\ HDR \in Nat /\ ALIGN \in Nat
      BY <1>4, <1>5, <1>8
    <3> QED BY <3>1, <3>2, <3>3
  <2>2. \A x \in DOMAIN heap.blk : End(h, x) = End(heap, x)
    BY <1>13, Zenon DEF End
  <2>3. b <= brk'
    BY <2>1, <1>4, <1>5, <1>15
  <2> QED BY <2>1, <2>2, <2>3, <1>5, <1>9, <1>10, <1>13, <1>15
<1>17. Rounded(op.n) <= h.blk[b].size
  <2>1. h.blk[b].size = extent - HDR /\ HDR \in Nat
    BY <1>8, <1>13, Zenon
  <2> QED BY ONLY <2>1, <1>3, <1>4
<1>18. Placeable(h, b)
  <2>1. ASSUME NEW x \in DOMAIN h.blk, h.blk[x].avail = 0 PROVE x \in DOMAIN heap.blk
    <3>1. x # b
      BY ONLY <2>1, <1>13
    <3> QED BY <3>1, <1>13, Zenon
  <2> QED BY <2>1, <1>13, <1>14, <1>17, Zenon DEF Placeable
<1> QED BY <1>1, <1>4, <1>9, <1>10, <1>11, <1>12, <1>15, <1>16, <1>18, Zenon

\* Taking a block from a new sbrk extent keeps the invariant.
LEMMA GrowIInv ==
  ASSUME IInv, Grow
  PROVE  IInv'
<1> DEFINE extent == ExtentFor(Rounded(op.n))
           b == RoundUp(brk, ALIGN)
           h == AppendExtent(heap, b, extent)
<1>1. /\ Placeable(h, b) /\ Place(h, b, Erase(data, b .. (b + HDR - 1))) /\ op # Idle
      /\ mapped' = mapped \cup b .. (b + extent - 1)
      /\ brk' \in Nat /\ brk' >= 1 /\ \A x \in DOMAIN h.blk : End(h, x) <= brk'
      /\ b \in Nat \ {0} /\ extent \in Nat
  BY GrowPlaceable, Zenon
<1> HIDE DEF extent, b, h
<1>2. mapped' \subseteq Nat
  <2>1. mapped \subseteq Nat
    BY Zenon DEF IInv, TypeOK
  <2> QED BY <1>1, <2>1
<1>3. DataTyped(Erase(data, b .. (b + HDR - 1)))
  BY OwnershipFacts, DataOps, Zenon
<1> QED BY <1>1, <1>2, <1>3, PlaceIInv, Zenon

\* A client write within its request keeps the invariant.
LEMMA WriteIInv ==
  ASSUME IInv, NEW s \in Slots, Write(s)
  PROVE  IInv'
<1>1. /\ op = Idle /\ op' = Idle /\ ret' = "ok" /\ live[s].ptr # NULL
      /\ data' = Store(data, Payload(live[s].ptr - HDR, live[s].req), s)
      /\ live' = [live EXCEPT ![s] = [ptr |-> live[s].ptr, req |-> live[s].req,
                                      valid |-> live[s].req, val |-> s]]
      /\ UNCHANGED <<heap, brk, mapped>>
  BY Zenon DEF Write, Block
<1>2. /\ live' \in [Slots -> [ptr : Nat, req : Nat, valid : Nat, val : Tags]]
      /\ \A r \in Slots : live'[r].ptr = live[r].ptr /\ live'[r].req = live[r].req
  BY <1>1, Zenon DEF IInv, TypeOK, Tags
<1>3. Payload(live[s].ptr - HDR, live[s].req) \subseteq Nat
  BY OwnershipFacts DEF Payload
<1>4. DataTyped(data')
  <2>1. s \in Tags
    BY Zenon DEF Tags
  <2> QED BY <2>1, <1>1, <1>3, OwnershipFacts, DataOps, Zenon
<1>5. TypeOK'
  BY <1>1, <1>2, <1>4, Zenon DEF IInv, TypeOK, Typed, DataTyped, Tags
<1>6. HeapIntact' /\ FullyCoalesced' /\ BelowBreak' /\ CallRight'
  BY <1>1, Zenon DEF IInv, HeapIntact, FullyCoalesced, BelowBreak, CallRight
<1>7. Ownership'
  BY <1>1, <1>2, ZenonT(40) DEF IInv, Ownership, Block
<1> QED BY <1>5, <1>6, <1>7, Zenon DEF IInv

\* Every step keeps the invariant.
LEMMA NextIInv == IInv /\ [Next]_vars => IInv'
<1> SUFFICES ASSUME IInv, [Next]_vars PROVE IInv'
  BY Zenon
<1>1. ASSUME NEW s \in Slots, NEW n \in Sizes, Malloc(s, n) PROVE IInv'
  BY <1>1, MallocIInv, Zenon
<1>2. ASSUME NEW s \in Slots, NEW n \in Sizes, Realloc(s, n) PROVE IInv'
  BY <1>2, ReallocIInv, Zenon
<1>3. ASSUME NEW s \in Slots, NEW count \in Sizes, NEW n \in Sizes, Calloc(s, count, n)
      PROVE  IInv'
  BY <1>3, CallocIInv, Zenon
<1>4. ASSUME NEW s \in Slots, Free(s) PROVE IInv'
  BY <1>4, FreeIInv, Zenon
<1>5. ASSUME NEW s \in Slots, Write(s) PROVE IInv'
  BY <1>5, WriteIInv, Zenon
<1>6. CASE SearchNext
  BY <1>6, SearchNextIInv, Zenon
<1>7. CASE SearchFound
  BY <1>7, SearchFoundIInv, Zenon
<1>8. CASE Grow
  BY <1>8, GrowIInv, Zenon
<1>9. CASE GrowFails
  BY <1>9, FailIInv, Zenon DEF GrowFails
<1>10. CASE UNCHANGED vars
  BY <1>10, Zenon DEF vars, IInv, TypeOK, Typed, HeapIntact, FullyCoalesced, Ownership,
     Block, BelowBreak, CallRight
<1> QED BY <1>1, <1>2, <1>3, <1>4, <1>5, <1>6, <1>7, <1>8, <1>9, <1>10, Zenon DEF Next

\* The inductive invariant holds for every alignment, header size, extent size,
\* request size and number of client pointers.
THEOREM InvariantHolds == Spec => []IInv
<1>1. Init => IInv
  BY InitIInv, Zenon
<1>2. IInv /\ [Next]_vars => IInv'
  BY NextIInv, Zenon
<1> QED BY <1>1, <1>2, PTL DEF Spec

\* malloc, calloc, realloc and free never write a value of the wrong type.
THEOREM TypeCorrect == Spec => []TypeOK
<1>1. IInv => TypeOK
  BY Zenon DEF IInv
<1> QED BY <1>1, InvariantHolds, PTL

\* The block list stays sorted, doubly linked and free of overlaps.
THEOREM ListIntact == Spec => []HeapIntact
<1>1. IInv => HeapIntact
  BY Zenon DEF IInv
<1> QED BY <1>1, InvariantHolds, PTL

\* No two touching blocks are both available between steps.
THEOREM AlwaysCoalesced == Spec => []FullyCoalesced
<1>1. IInv => FullyCoalesced
  BY Zenon DEF IInv
<1> QED BY <1>1, InvariantHolds, PTL

\* A block is in use exactly when one client pointer holds it, and it is large
\* enough for the request.
THEOREM OwnershipHolds == Spec => []Ownership
<1>1. IInv => Ownership
  BY Zenon DEF IInv
<1> QED BY <1>1, InvariantHolds, PTL

\* The list after malloc's last part: the block is taken, and for realloc the old
\* block, still in the list, is freed.
LEMMA PlaceHeap ==
  ASSUME IInv, op # Idle, NEW h, NEW b, Placeable(h, b), NEW d, Place(h, b, d),
         NEW t, t = TakeBlock(h, b, Rounded(op.n))
  PROVE  /\ op.slot \in Slots /\ op.n \in Nat /\ op.old \in Nat /\ op.kind \in {"malloc", "calloc", "realloc"}
         /\ Rounded(op.n) \in Nat /\ op.n <= Rounded(op.n)
         /\ WF(t) /\ Coalesced(t) /\ b \in DOMAIN t.blk /\ t.blk[b].avail = 0 /\ Rounded(op.n) <= t.blk[b].size
         /\ \A r \in Slots : live[r].ptr # NULL =>
               /\ live[r].ptr - HDR \in DOMAIN t.blk /\ live[r].ptr - HDR # b
               /\ t.blk[live[r].ptr - HDR].avail = 0
               /\ t.blk[live[r].ptr - HDR].size = heap.blk[live[r].ptr - HDR].size
         /\ op.kind # "realloc" => heap' = t /\ live[op.slot].ptr = NULL
         /\ op.kind = "realloc" => heap' = FreeBlock(t, live[op.slot].ptr - HDR) /\ live[op.slot].ptr # NULL
<1>1. /\ op.kind \in {"malloc", "calloc", "realloc"} /\ op.slot \in Slots
      /\ op.n \in Nat /\ op.old \in Nat
  BY Zenon DEF IInv, TypeOK, Idle
<1>2. Rounded(op.n) \in Nat /\ op.n <= Rounded(op.n)
  BY <1>1, RoundedBounds, Zenon
<1>3. /\ WF(h) /\ b \in DOMAIN h.blk /\ h.blk[b].avail = 1
      /\ Rounded(op.n) <= h.blk[b].size
      /\ \A x \in DOMAIN h.blk : x # b /\ h.blk[x].next # b => Apart(h, x)
      /\ \A x \in DOMAIN heap.blk : x \in DOMAIN h.blk /\ h.blk[x].size = heap.blk[x].size
      /\ \A x \in DOMAIN heap.blk : h.blk[x].avail = heap.blk[x].avail
  BY Zenon DEF Placeable
<1>4. /\ WF(t) /\ Coalesced(t)
      /\ b \in DOMAIN t.blk /\ Rounded(op.n) <= t.blk[b].size /\ t.blk[b].avail = 0
      /\ \A x \in DOMAIN h.blk : h.blk[x].avail = 0 =>
            x \in DOMAIN t.blk /\ t.blk[x].avail = 0 /\ t.blk[x].size = h.blk[x].size
  <2>e. Took(h, b, Rounded(op.n), t)
    BY <1>2, <1>3, TakeBlockEffect, Zenon
  <2> QED BY <2>e, Zenon DEF Took
<1>5. ASSUME NEW r \in Slots, live[r].ptr # NULL
      PROVE  /\ live[r].ptr - HDR \in DOMAIN t.blk /\ live[r].ptr - HDR # b
             /\ t.blk[live[r].ptr - HDR].avail = 0
             /\ t.blk[live[r].ptr - HDR].size = heap.blk[live[r].ptr - HDR].size
  <2>1. live[r].ptr - HDR \in DOMAIN heap.blk /\ heap.blk[live[r].ptr - HDR].avail = 0
    BY <1>5, OwnershipFacts, Zenon
  <2>2. PICK x : x = live[r].ptr - HDR
    BY Zenon
  <2>3. x \in DOMAIN h.blk /\ h.blk[x].avail = 0 /\ h.blk[x].size = heap.blk[x].size
    BY <2>1, <2>2, <1>3, Zenon
  <2>4. x # b
    <3>1. h.blk[b].avail = 1
      BY <1>3, Zenon
    <3> QED BY ONLY <2>3, <3>1
  <2>5. x \in DOMAIN t.blk /\ t.blk[x].avail = 0 /\ t.blk[x].size = h.blk[x].size
    BY <2>3, <1>4, Zenon
  <2> QED BY <2>2, <2>3, <2>4, <2>5, Zenon
<1>6. /\ op.kind # "realloc" => heap' = t /\ live[op.slot].ptr = NULL
      /\ op.kind = "realloc" => heap' = FreeBlock(t, live[op.slot].ptr - HDR) /\ live[op.slot].ptr # NULL
  BY <1>1, Zenon DEF Place, Block, IInv, CallRight
<1> QED BY <1>1, <1>2, <1>4, <1>5, <1>6, Zenon

\* malloc's last part tiles the same bytes, and keeps alignment.
LEMMA PlaceTiling ==
  ASSUME IInv, op # Idle, NEW h, NEW b, Placeable(h, b), NEW d, Place(h, b, d)
  PROVE  Tiles(heap') = Tiles(h) /\ (AlignedList(h) => AlignedList(heap'))
<1> DEFINE size == Rounded(op.n)
           t == TakeBlock(h, b, size)
           old == live[op.slot].ptr - HDR
<1>1. /\ op.slot \in Slots /\ op.n \in Nat /\ size \in Nat /\ WF(t)
      /\ \A r \in Slots : live[r].ptr # NULL => live[r].ptr - HDR \in DOMAIN t.blk
      /\ op.kind # "realloc" => heap' = t
      /\ op.kind = "realloc" => heap' = FreeBlock(t, old) /\ live[op.slot].ptr # NULL
  BY PlaceHeap, ZenonT(40)
<1>2. size % ALIGN = 0
  BY <1>1, RoundedAligned, Zenon
<1>3. Tiles(t) = Tiles(h) /\ (AlignedList(h) => AlignedList(t))
  <2>1. WF(h) /\ b \in DOMAIN h.blk /\ size <= h.blk[b].size
    BY Zenon DEF Placeable
  <2>2. t = TakeBlock(h, b, size) /\ size \in Nat
    BY <1>1, Zenon
  <2> HIDE DEF t, size
  <2> QED BY ONLY <2>1, <2>2, <1>2, TakeBlockTiling
<1> HIDE DEF size, t
<1>4. CASE op.kind # "realloc"
  BY <1>1, <1>3, <1>4, Zenon
<1>5. CASE op.kind = "realloc"
  <2>1. old \in DOMAIN t.blk
    BY <1>1, <1>5, Zenon
  <2> HIDE DEF old
  <2>2. Tiles(heap') = Tiles(t) /\ (AlignedList(t) => AlignedList(heap'))
    BY <1>1, <1>5, <2>1, FreeBlockTiling, Zenon
  <2> QED BY <1>3, <2>2, Zenon
<1> QED BY <1>4, <1>5, Zenon

\* Every step keeps the blocks tiling what sbrk gave, and all of them aligned.
LEMMA NextTiling ==
  ASSUME IInv, NoByteLost, Aligned, [Next]_vars
  PROVE  NoByteLost' /\ Aligned'
<1>0. mapped = Tiles(heap) /\ AlignedList(heap)
  BY Zenon DEF NoByteLost, Aligned, AlignedList
<1>s. SUFFICES mapped' = Tiles(heap') /\ AlignedList(heap')
  BY Zenon DEF NoByteLost, Aligned, AlignedList
<1>w. WF(heap) /\ \A r \in Slots : live[r].ptr # NULL => live[r].ptr - HDR \in DOMAIN heap.blk
  BY OwnershipFacts, Zenon
<1>1. ASSUME heap' = heap, mapped' = mapped PROVE mapped' = Tiles(heap') /\ AlignedList(heap')
  BY <1>0, <1>1, Zenon
<1>2. ASSUME NEW s \in Slots, NEW n \in Sizes, Realloc(s, n)
      PROVE  mapped' = Tiles(heap') /\ AlignedList(heap')
  <2> DEFINE b == live[s].ptr - HDR
             h == MergeNext(heap, b)
             rounded == RoundUp(n, ALIGN)
  <2>1. b \in DOMAIN heap.blk
    BY <1>2, <1>w, Zenon DEF Realloc
  <2>2. WF(h) /\ b \in DOMAIN h.blk /\ Tiles(h) = Tiles(heap) /\ AlignedList(h)
    <3>1. WF(h) /\ Tiles(h) = Tiles(heap) /\ AlignedList(h)
      BY <2>1, <1>0, <1>w, MergeNextWF, MergeNextTiling, ZenonT(40)
    <3>2. b \in DOMAIN h.blk
      <4>e. Merged(heap, b, h)
        BY <2>1, <1>w, MergeNextEffect, Zenon
      <4> QED BY <4>e, Zenon DEF Merged
    <3> QED BY <3>1, <3>2, Zenon
  <2>3. rounded \in Nat /\ rounded % ALIGN = 0
    <3>1. n \in Nat /\ ALIGN % ALIGN = 0
      BY RequestAssumption, AlignAssumption
    <3> QED BY <3>1, RoundUpBounds, RoundUpAligned, AlignAssumption, Zenon
  <2>4. /\ mapped' = mapped
        /\ \/ heap' = heap
           \/ heap' = h
           \/ h.blk[b].size >= rounded /\ heap' = SplitBlock(h, b, rounded)
    BY <1>2, Zenon DEF Realloc, Block, Fail
  <2> HIDE DEF b, h, rounded
  <2>5. CASE h.blk[b].size >= rounded /\ heap' = SplitBlock(h, b, rounded)
    <3>1. rounded <= h.blk[b].size
      <4>1. h.blk[b].size \in Nat
        BY <2>2, Zenon DEF WF, Typed
      <4> QED BY <4>1, <2>3, <2>5
    <3>2. Tiles(heap') = Tiles(h) /\ AlignedList(heap')
      BY <3>1, <2>2, <2>3, <2>5, SplitBlockTiling, SMTT(60)
    <3> QED BY <3>2, <2>2, <2>4, <1>0, Zenon
  <2> QED BY <2>2, <2>4, <2>5, <1>0, Zenon
<1>3. ASSUME NEW s \in Slots, Free(s)
      PROVE  mapped' = Tiles(heap') /\ AlignedList(heap')
  <2>1. live[s].ptr # NULL /\ heap' = FreeBlock(heap, live[s].ptr - HDR) /\ mapped' = mapped
    BY <1>3, Zenon DEF Free, Block
  <2> QED BY <2>1, <1>0, <1>w, FreeBlockTiling
<1>4. CASE SearchFound
  <2>1. Placeable(heap, op.cur) /\ Place(heap, op.cur, data) /\ op # Idle /\ mapped' = mapped
    BY <1>4, FoundPlaceable, Zenon
  <2> QED BY <2>1, <1>0, PlaceTiling, Zenon
<1>5. CASE Grow
  <2> DEFINE extent == ExtentFor(Rounded(op.n))
             b == RoundUp(brk, ALIGN)
             h == AppendExtent(heap, b, extent)
             d == Erase(data, b .. (b + HDR - 1))
  <2>1. /\ Placeable(h, b) /\ Place(h, b, d) /\ op # Idle
        /\ mapped' = mapped \cup b .. (b + extent - 1)
        /\ b \in Nat \ {0} /\ extent \in Nat /\ HDR <= extent
        /\ \A x \in DOMAIN heap.blk : End(heap, x) <= b
    BY <1>5, GrowPlaceable, Zenon
  <2>2. b % ALIGN = 0 /\ extent % ALIGN = 0
    <3>1. ALIGN \in Nat \ {0} /\ ALIGN % ALIGN = 0 /\ brk \in Nat
      BY AlignAssumption DEF IInv, TypeOK
    <3>2. b % ALIGN = 0
      BY <3>1, RoundUpAligned, Zenon
    <3>3. op.n \in Nat /\ Rounded(op.n) \in Nat
      BY <2>1, RoundedBounds, Zenon DEF IInv, TypeOK, Idle
    <3>4. Rounded(op.n) + HDR \in Nat
      BY <3>3, AlignAssumption
    <3>5. RoundUp(Rounded(op.n) + HDR, GRANULE) % ALIGN = 0
      BY <3>4, RoundUpAligned, ExtentAssumption, DivisorAssumption, Zenon
    <3> QED BY <3>2, <3>5, DivisorAssumption, Zenon DEF ExtentFor
  <2> HIDE DEF extent, b, h, d
  <2>3. Tiles(h) = Tiles(heap) \cup b .. (b + extent - 1) /\ AlignedList(h)
    BY <2>1, <2>2, <1>0, <1>w, AppendExtentTiling DEF h
  <2>4. Tiles(heap') = Tiles(h) /\ AlignedList(heap')
    BY <2>1, <2>3, PlaceTiling, Zenon
  <2> QED BY <2>1, <2>3, <2>4, <1>0, Zenon
<1> QED BY <1>1, <1>2, <1>3, <1>4, <1>5, Zenon
    DEF Next, Malloc, Calloc, Write, SearchNext, GrowFails, Fail, vars

\* At first nothing is mapped and there is no block.
LEMMA InitTiling == Init => NoByteLost /\ Aligned
<1> SUFFICES ASSUME Init PROVE NoByteLost /\ Aligned
  BY Zenon
<1>1. DOMAIN heap.blk = {} /\ mapped = {}
  BY Zenon DEF Init
<1>2. \A u : u \notin Tiles(heap)
  BY <1>1, Zenon DEF Tiles
<1> QED BY <1>1, <1>2, Zenon DEF NoByteLost, Aligned

\* No byte obtained from sbrk is ever lost by splitting, merging, moving or failing.
THEOREM EveryByteKept == Spec => []NoByteLost
<1>1. Init => NoByteLost /\ Aligned
  BY InitTiling, Zenon
<1>2. IInv /\ NoByteLost /\ Aligned /\ [Next]_vars => NoByteLost' /\ Aligned'
  BY NextTiling, Zenon
<1> QED BY <1>1, <1>2, InvariantHolds, PTL DEF Spec

\* Every block, hence every pointer malloc returns, is aligned from any first break.
THEOREM AlwaysAligned == Spec => []Aligned
<1>1. Init => NoByteLost /\ Aligned
  BY InitTiling, Zenon
<1>2. IInv /\ NoByteLost /\ Aligned /\ [Next]_vars => NoByteLost' /\ Aligned'
  BY NextTiling, Zenon
<1> QED BY <1>1, <1>2, InvariantHolds, PTL DEF Spec
=============================================================================
