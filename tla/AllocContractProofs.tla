------------------------- MODULE AllocContractProofs -------------------------
(***************************************************************************)
(* Proofs about Alloc, 2: the heap implements HeapContract, and a call     *)
(* that fails leaves what it found.  What a client sees of a variable is a *)
(* view of data; a step changes data only in the block it works on, and    *)
(* blocks do not overlap.                                                  *)
(***************************************************************************)
EXTENDS AllocProofs, AllocCalls

\* The time the provers are given for a leaf that names none.
USE SMTT(20), ZenonT(20)

\* What a client variable l shows of the bytes d.
View(l, d) ==
  [ptr |-> l.ptr, len |-> l.req,
   seen |-> [i \in 0 .. (l.valid - 1) |->
                IF l.ptr + i \in DOMAIN d THEN d[l.ptr + i] ELSE Garbage]]

\* The client's view of a slot depends on its pointer and the bytes alone.
LEMMA SeenIsView == SeenArea = [s \in Slots |-> View(live[s], data)]
BY Zenon DEF SeenArea, View

\* d and e are the same outside S.
Agree(d, e, S) ==
  \A u \in Int : u \notin S => /\ u \in DOMAIN d <=> u \in DOMAIN e
                               /\ u \in DOMAIN d => d[u] = e[u]

\* The operations on data change it only where they should.
LEMMA DataAgree ==
  ASSUME NEW d
  PROVE  /\ \A S : Agree(d, d, S)
         /\ \A S : Agree(d, Erase(d, S), S)
         /\ \A S, v : Agree(d, Store(d, S, v), S)
         /\ \A from, to, n : Agree(d, CopyPayload(d, from, to, n), Payload(to, n))
<1>1. ASSUME NEW S PROVE Agree(d, d, S)
  BY Zenon DEF Agree
<1>2. ASSUME NEW S PROVE Agree(d, Erase(d, S), S)
  BY Zenon DEF Agree, Erase
<1>3. ASSUME NEW S, NEW v PROVE Agree(d, Store(d, S, v), S)
  BY Zenon DEF Agree, Store
<1>4. ASSUME NEW from, NEW to, NEW n PROVE Agree(d, CopyPayload(d, from, to, n), Payload(to, n))
  BY Zenon DEF Agree, CopyPayload
<1> QED BY <1>1, <1>2, <1>3, <1>4, Zenon

\* Sameness outside a set is transitive.
LEMMA AgreeTrans ==
  ASSUME NEW d, NEW e, NEW f, NEW S, NEW T, NEW U, Agree(d, e, S), Agree(e, f, T),
         S \subseteq U, T \subseteq U
  PROVE  Agree(d, f, U)
BY Zenon DEF Agree

\* A view is not changed by changes elsewhere.
LEMMA ViewAgree ==
  ASSUME NEW l, l.ptr \in Nat, l.valid \in Nat, NEW d, NEW e, NEW S, Agree(d, e, S),
         \A u \in l.ptr .. (l.ptr + l.valid - 1) : u \notin S
  PROVE  View(l, d) = View(l, e)
<1>1. ASSUME NEW i \in 0 .. (l.valid - 1)
      PROVE  (IF l.ptr + i \in DOMAIN d THEN d[l.ptr + i] ELSE Garbage)
             = (IF l.ptr + i \in DOMAIN e THEN e[l.ptr + i] ELSE Garbage)
  <2>1. l.ptr + i \in Int /\ l.ptr + i \in l.ptr .. (l.ptr + l.valid - 1)
    OBVIOUS
  <2>2. /\ l.ptr + i \in DOMAIN d <=> l.ptr + i \in DOMAIN e
        /\ l.ptr + i \in DOMAIN d => d[l.ptr + i] = e[l.ptr + i]
    BY <2>1, Zenon DEF Agree
  <2> QED BY <2>2, Zenon
<1>2. [i \in 0 .. (l.valid - 1) |-> IF l.ptr + i \in DOMAIN d THEN d[l.ptr + i] ELSE Garbage]
      = [i \in 0 .. (l.valid - 1) |-> IF l.ptr + i \in DOMAIN e THEN e[l.ptr + i] ELSE Garbage]
  BY <1>1, Zenon
<1> QED BY <1>2, Zenon DEF View

\* A variable that holds nothing shows no area.
LEMMA EmptyView ==
  ASSUME NEW l, NEW d, l.ptr = NULL, l.req = 0, l.valid = 0
  PROVE  View(l, d) = Contract!NoArea
<1>1. 0 .. (l.valid - 1) = {}
  OBVIOUS
<1>2. [i \in 0 .. (l.valid - 1) |-> IF l.ptr + i \in DOMAIN d THEN d[l.ptr + i] ELSE Garbage]
      = [i \in {} |-> Zero]
  BY <1>1
<1> QED BY <1>2, Zenon DEF View, Contract!NoArea, Contract!NULL, NULL

\* Different blocks share no byte, and a request lies in its block.
LEMMA BlocksApart ==
  ASSUME NEW h, WF(h), NEW x \in DOMAIN h.blk, NEW y \in DOMAIN h.blk, x # y,
         NEW u \in x .. (End(h, x) - 1)
  PROVE  u \notin y .. (End(h, y) - 1)
<1>1. x \in Nat /\ y \in Nat /\ HDR \in Nat /\ h.blk[x].size \in Nat /\ h.blk[y].size \in Nat
  BY AlignAssumption DEF WF, Typed
<1>2. (x < y => End(h, x) <= y) /\ (y < x => End(h, y) <= x)
  BY Zenon DEF WF, Separate
<1>3. End(h, x) \in Nat /\ End(h, y) \in Nat
  BY <1>1 DEF End
<1> QED BY <1>1, <1>2, <1>3

\* A request lies inside the block that serves it.
LEMMA WithinBlock ==
  ASSUME NEW h, WF(h), NEW x \in DOMAIN h.blk, NEW n \in Nat, n <= h.blk[x].size
  PROVE  /\ Payload(x, n) \subseteq x .. (End(h, x) - 1)
         /\ Payload(x, n) = (x + HDR) .. (x + HDR + n - 1)
<1>1. x \in Nat /\ HDR \in Nat /\ h.blk[x].size \in Nat
  BY AlignAssumption DEF WF, Typed
<1> QED BY <1>1 DEF Payload, End

-----------------------------------------------------------------------------
(* ClientRight is an invariant.                                            *)

\* A step after which no call is in progress keeps ClientRight if the other
\* variables and the sizes of their blocks stay and s is in order.
LEMMA KeepClient ==
  ASSUME IInv, ClientRight, NEW s \in Slots, op' = Idle,
         \A r \in Slots : r # s => live'[r] = live[r],
         \A r \in Slots : r # s /\ live[r].ptr # NULL =>
            heap'.blk[live[r].ptr - HDR].size = heap.blk[live[r].ptr - HDR].size,
         live'[s].valid <= live'[s].req,
         live'[s].ptr = NULL => live'[s].req = 0,
         live'[s].ptr # NULL =>
            RoundUp(live'[s].req, ALIGN) <= heap'.blk[live'[s].ptr - HDR].size
  PROVE  ClientRight'
<1>1. ASSUME NEW r \in Slots
      PROVE  /\ live'[r].valid <= live'[r].req
             /\ live'[r].ptr = NULL => live'[r].req = 0
             /\ live'[r].ptr # NULL =>
                   RoundUp(live'[r].req, ALIGN) <= heap'.blk[live'[r].ptr - HDR].size
  <2>1. CASE r = s
    BY <2>1, Zenon
  <2>2. CASE r # s
    BY <2>2, Zenon DEF ClientRight, Block
  <2> QED BY <2>1, <2>2, Zenon
<1> QED BY <1>1, Zenon DEF ClientRight, Block

\* The request fits the size malloc searches for.
LEMMA RoundUpRounded ==
  ASSUME NEW n \in Nat
  PROVE  /\ RoundUp(n, ALIGN) \in Nat /\ RoundUp(n, ALIGN) <= Rounded(n)
         /\ n # 0 => RoundUp(n, ALIGN) = Rounded(n)
<1>1. RoundUp(n, ALIGN) \in Nat /\ Rounded(n) \in Nat
  BY RoundUpBounds, RoundedBounds, AlignAssumption, Zenon
<1>2. n # 0 => RoundUp(n, ALIGN) = Rounded(n)
  BY Zenon DEF Rounded
<1>3. n = 0 => RoundUp(n, ALIGN) <= Rounded(n)
  <2>1. RoundUp(0, ALIGN) < 0 + ALIGN /\ RoundUp(0, ALIGN) \in Nat
    BY RoundUpBounds, AlignAssumption, Zenon
  <2>2. Rounded(0) % ALIGN = 0 /\ Rounded(0) \in Nat /\ 1 <= RoundUp(1, ALIGN)
    BY RoundedAligned, RoundedBounds, RoundUpBounds, AlignAssumption, Zenon
  <2>3. Rounded(0) = RoundUp(1, ALIGN)
    BY Zenon DEF Rounded
  <2>4. PICK k \in Int : Rounded(0) = ALIGN * k
    <3>1. Rounded(0) \in Int
      BY <2>2
    <3> QED BY <2>2, <3>1, ModDiv, AlignAssumption, Zenon
  <2>5. k >= 1
    BY <2>2, <2>3, <2>4, AlignAssumption
  <2>6. ALIGN * k >= ALIGN
    BY <2>5, AlignAssumption
  <2> QED BY <2>1, <2>2, <2>4, <2>6, AlignAssumption
<1> QED BY <1>1, <1>2, <1>3

\* malloc's last part keeps ClientRight.
LEMMA PlaceClient ==
  ASSUME IInv, ClientRight, op # Idle, NEW h, NEW b, Placeable(h, b), NEW d, Place(h, b, d)
  PROVE  /\ ClientRight'
         /\ \A r \in Slots : r # op.slot => live'[r] = live[r]
         /\ live'[op.slot].ptr = b + HDR /\ live'[op.slot].req = op.n
<1> DEFINE t == TakeBlock(h, b, Rounded(op.n))
           s == op.slot
           old == live[s].ptr - HDR
<1>1. /\ s \in Slots /\ op.n \in Nat /\ op.kind \in {"malloc", "calloc", "realloc"}
      /\ Rounded(op.n) \in Nat /\ op.n <= Rounded(op.n)
      /\ WF(t) /\ Coalesced(t) /\ b \in DOMAIN t.blk /\ t.blk[b].avail = 0 /\ Rounded(op.n) <= t.blk[b].size
      /\ \A r \in Slots : live[r].ptr # NULL =>
               /\ live[r].ptr - HDR \in DOMAIN t.blk /\ live[r].ptr - HDR # b
               /\ t.blk[live[r].ptr - HDR].avail = 0
               /\ t.blk[live[r].ptr - HDR].size = heap.blk[live[r].ptr - HDR].size
      /\ op.kind # "realloc" => heap' = t /\ live[s].ptr = NULL
      /\ op.kind = "realloc" => heap' = FreeBlock(t, old) /\ live[s].ptr # NULL
  BY PlaceHeap
<1>2. /\ b \in Nat \ {0} /\ HDR \in Nat \ {0} /\ b + HDR \in Nat /\ b + HDR # NULL
      /\ b + HDR - HDR = b
  BY <1>1, AlignAssumption DEF WF, Typed, NULL
<1>3. live \in [Slots -> [ptr : Nat, req : Nat, valid : Nat, val : Tags]]
  BY Zenon DEF IInv, TypeOK, Tags
<1>4. /\ live'[s].ptr = b + HDR /\ live'[s].req = op.n /\ live'[s].valid <= op.n
      /\ \A r \in Slots : r # s => live'[r] = live[r]
  <2>1. CASE op.kind = "malloc"
    <3>1. live' = [live EXCEPT ![s] = [ptr |-> b + HDR, req |-> op.n,
                                        valid |-> 0, val |-> Garbage]]
      BY <2>1, Zenon DEF Place
    <3>2. 0 <= op.n
      BY <1>1
    <3> QED BY <3>1, <3>2, <1>1, <1>3, Zenon
  <2>2. CASE op.kind = "calloc"
    <3>1. live' = [live EXCEPT ![s] = [ptr |-> b + HDR, req |-> op.n,
                                        valid |-> op.n, val |-> Zero]]
      BY <2>2, Zenon DEF Place
    <3>2. op.n <= op.n
      BY <1>1
    <3> QED BY <3>1, <3>2, <1>1, <1>3, Zenon
  <2>3. CASE op.kind = "realloc"
    <3>1. live' = [live EXCEPT ![s] = [ptr |-> b + HDR, req |-> op.n,
                                        valid |-> live[s].valid, val |-> live[s].val]]
      BY <2>3, Zenon DEF Place
    <3>2. live[s].valid <= op.n
      BY <2>3, Zenon DEF ClientRight
    <3> QED BY <3>1, <3>2, <1>1, <1>3, Zenon
  <2> QED BY <2>1, <2>2, <2>3, <1>1, Zenon
<1>5. op' = Idle
  BY Zenon DEF Place
<1> HIDE DEF t
<1>6. /\ heap'.blk[b].size = t.blk[b].size
      /\ \A r \in Slots : r # s /\ live[r].ptr # NULL =>
            heap'.blk[live[r].ptr - HDR].size = heap.blk[live[r].ptr - HDR].size
  <2>1. CASE op.kind # "realloc"
    BY <2>1, <1>1, Zenon
  <2>2. CASE op.kind = "realloc"
    <3>1. old \in DOMAIN t.blk /\ old # b
      BY <2>2, <1>1, Zenon
    <3>2. \A r \in Slots : r # s /\ live[r].ptr # NULL => live[r].ptr - HDR # old
      BY <2>2, <1>1, <1>2, OwnershipFacts
    <3> HIDE DEF old
    <3>3. \A x \in DOMAIN t.blk : x # old /\ t.blk[x].avail = 0 => heap'.blk[x].size = t.blk[x].size
      <4>e. Freed(t, old, heap')
        BY <3>1, <2>2, <1>1, FreeBlockEffect, Zenon
      <4> QED BY <4>e, Zenon DEF Freed
    <3> QED BY <3>1, <3>2, <3>3, <1>1
  <2> QED BY <2>1, <2>2, Zenon
<1>7. RoundUp(live'[s].req, ALIGN) <= heap'.blk[live'[s].ptr - HDR].size
  <2>1. RoundUp(op.n, ALIGN) \in Nat /\ RoundUp(op.n, ALIGN) <= Rounded(op.n)
    BY <1>1, RoundUpRounded, Zenon
  <2>2. t.blk[b].size \in Nat
    BY <1>1, Zenon DEF WF, Typed
  <2>3. RoundUp(op.n, ALIGN) <= t.blk[b].size
    BY <2>1, <2>2, <1>1
  <2>4. live'[s].ptr - HDR = b /\ live'[s].req = op.n /\ heap'.blk[b].size = t.blk[b].size
    BY <1>2, <1>4, <1>6
  <2> QED BY <2>3, <2>4, Zenon
<1>8. ClientRight'
  <2>1. s \in Slots /\ live'[s].valid <= live'[s].req /\ (live'[s].ptr = NULL => live'[s].req = 0)
    BY <1>1, <1>2, <1>4, Zenon
  <2> HIDE DEF s
  <2> QED BY <2>1, <1>4, <1>5, <1>6, <1>7, KeepClient, Zenon
<1> QED BY <1>4, <1>8, Zenon

\* Every step keeps ClientRight.
LEMMA NextClient ==
  ASSUME IInv, ClientRight, [Next]_vars
  PROVE  ClientRight'
<1>0. /\ HDR \in Nat \ {0} /\ ALIGN \in Nat \ {0} /\ WF(heap) /\ Coalesced(heap)
      /\ live \in [Slots -> [ptr : Nat, req : Nat, valid : Nat, val : Tags]]
  BY OwnershipFacts, AlignAssumption, Zenon DEF IInv, TypeOK, Tags
<1>1. CASE UNCHANGED vars
  BY <1>1, Zenon DEF vars, ClientRight, Block
<1>2. ASSUME Fail PROVE ClientRight'
  BY <1>2, Zenon DEF Fail, ClientRight, Block
<1>3. ASSUME NEW kind \in {"malloc", "calloc"}, NEW s, NEW n,
             StartSearch(kind, s, n, 0), UNCHANGED <<heap, live>>
      PROVE  ClientRight'
  <2>1. op'.kind # "realloc"
    BY <1>3, Zenon DEF StartSearch
  <2> QED BY <1>3, <2>1, Zenon DEF ClientRight, Block
<1>4. ASSUME NEW s \in Slots, NEW n \in Sizes, Realloc(s, n) PROVE ClientRight'
  <2> DEFINE b == live[s].ptr - HDR
             h == MergeNext(heap, b)
             rounded == RoundUp(n, ALIGN)
  <2>0. b = live[s].ptr - HDR /\ h = MergeNext(heap, b) /\ rounded = RoundUp(n, ALIGN)
    OBVIOUS
  <2>1. op = Idle /\ live[s].ptr # NULL /\ n # 0 /\ n \in Nat
    BY <1>4, RequestAssumption, Zenon DEF Realloc
  <2>2. \/ Fail
        \/ /\ h.blk[b].size >= rounded
           /\ heap' = SplitBlock(h, b, rounded)
           /\ live' = [live EXCEPT ![s] =
                [ptr |-> @.ptr, req |-> n,
                 valid |-> IF @.valid > n THEN n ELSE @.valid, val |-> @.val]]
           /\ op' = op
        \/ /\ h.blk[b].size < rounded
           /\ heap' = h /\ live' = live
           /\ StartSearch("realloc", s, n, heap.blk[b].size)
    BY <1>4, Zenon DEF Realloc, Block
  <2>3. /\ b \in DOMAIN heap.blk /\ heap.blk[b].size \in Nat
        /\ live[s].req <= heap.blk[b].size /\ live[s].req \in Nat /\ live[s].valid \in Nat
    BY <2>1, OwnershipFacts, Zenon
  <2>4. /\ live[s].valid <= live[s].req
        /\ RoundUp(live[s].req, ALIGN) <= heap.blk[b].size
    BY <2>1, Zenon DEF ClientRight, Block
  <2>5. rounded \in Nat /\ n <= rounded /\ rounded = Rounded(n)
    BY <2>1, <1>0, RoundUpBounds, RoundUpRounded, Zenon
  <2>6. \A r \in Slots : r # s /\ live[r].ptr # NULL =>
           /\ live[r].ptr - HDR # b /\ live[r].ptr - HDR \in DOMAIN heap.blk
           /\ heap.blk[live[r].ptr - HDR].avail = 0
    <3>1. ASSUME NEW r \in Slots, r # s, live[r].ptr # NULL PROVE live[r].ptr - HDR # b
      BY <3>1, <2>1, OwnershipFacts
    <3> QED BY <3>1, OwnershipFacts, Zenon
  <2> HIDE DEF b, h, rounded
  <2>7. /\ WF(h) /\ b \in DOMAIN h.blk
        /\ \A x \in DOMAIN h.blk : h.blk[x].avail = heap.blk[x].avail
        /\ \A x \in DOMAIN h.blk : x # b => h.blk[x].size = heap.blk[x].size
        /\ heap.blk[b].size <= h.blk[b].size
        /\ \A x \in DOMAIN heap.blk \ DOMAIN h.blk : heap.blk[x].avail = 1
    <3>e. WF(h) /\ Merged(heap, b, h)
      BY <2>0, <2>3, <1>0, MergeNextWF, MergeNextEffect, Zenon
    <3> QED BY <3>e, Zenon DEF Merged
  <2>8. h.blk[b].size \in Nat
    BY <2>7, Zenon DEF WF, Typed
  <2>9. CASE /\ h.blk[b].size >= rounded
             /\ heap' = SplitBlock(h, b, rounded)
             /\ live' = [live EXCEPT ![s] =
                  [ptr |-> @.ptr, req |-> n,
                   valid |-> IF @.valid > n THEN n ELSE @.valid, val |-> @.val]]
             /\ op' = op
    <3>0. rounded <= h.blk[b].size
      BY <2>5, <2>8, <2>9
    <3>1. /\ rounded <= heap'.blk[b].size
          /\ \A x \in DOMAIN heap'.blk : x \in DOMAIN h.blk /\ x # b => heap'.blk[x].size = h.blk[x].size
          /\ \A x \in DOMAIN h.blk \ DOMAIN heap'.blk : h.blk[x].avail = 1
      <4>e. SplitFrom(h, b, rounded, heap')
        BY <3>0, <2>5, <2>7, <2>9, SplitBlockEffect, Zenon
      <4> QED BY <4>e, Zenon DEF SplitFrom
    <3>2. /\ live'[s].ptr = live[s].ptr /\ live'[s].req = n /\ live'[s].valid <= n
          /\ \A r \in Slots : r # s => live'[r] = live[r]
      <4> DEFINE v == IF live[s].valid > n THEN n ELSE live[s].valid
      <4>1. v <= n
        BY <2>1, <2>3
      <4>2. live' = [live EXCEPT ![s] = [ptr |-> live[s].ptr, req |-> n, valid |-> v,
                                         val |-> live[s].val]]
        BY <2>9, Zenon
      <4> HIDE DEF v
      <4> QED BY <4>1, <4>2, <1>0, Zenon
    <3>3. \A r \in Slots : r # s /\ live[r].ptr # NULL =>
            heap'.blk[live[r].ptr - HDR].size = heap.blk[live[r].ptr - HDR].size
      BY <3>1, <2>6, <2>7
    <3> QED BY <3>1, <3>2, <3>3, <2>0, <2>1, <2>9, KeepClient, Zenon
  <2>10. CASE /\ h.blk[b].size < rounded
              /\ heap' = h /\ live' = live
              /\ StartSearch("realloc", s, n, heap.blk[b].size)
    <3>1. op' = [kind |-> "realloc", slot |-> s, n |-> n, cur |-> heap.first,
                 old |-> heap.blk[b].size]
      BY <2>10, Zenon DEF StartSearch
    <3>2. RoundUp(live[s].req, ALIGN) \in Nat
      BY <2>3, <1>0, RoundUpBounds, Zenon
    <3>3. RoundUp(live[s].req, ALIGN) < rounded
      BY <3>2, <2>3, <2>4, <2>5, <2>7, <2>8, <2>10
    <3>4. live[s].req < n
      BY <3>3, <2>0, <2>1, <2>3, <1>0, RoundUpOrder, Zenon
    <3>5. /\ live[s].valid <= n /\ live[s].valid <= heap.blk[b].size
          /\ heap.blk[b].size <= rounded
      BY <3>4, <2>1, <2>3, <2>4, <2>5, <2>7, <2>8, <2>10
    <3>6. ASSUME NEW r \in Slots, live'[r].ptr # NULL
          PROVE  RoundUp(live'[r].req, ALIGN) <= heap'.blk[live'[r].ptr - HDR].size
      <4>1. CASE r = s
        <5>1. RoundUp(live[s].req, ALIGN) <= h.blk[b].size
          BY <3>2, <2>3, <2>4, <2>7, <2>8
        <5> QED BY <5>1, <4>1, <2>0, <2>10, Zenon
      <4>2. CASE r # s
        <5>1. heap'.blk[live[r].ptr - HDR].size = heap.blk[live[r].ptr - HDR].size
          BY <3>6, <4>2, <2>6, <2>7, <2>10
        <5> QED BY <5>1, <3>6, <2>10, Zenon DEF ClientRight, Block
      <4> QED BY <4>1, <4>2, Zenon
    <3> QED BY <3>1, <3>5, <3>6, <2>5, <2>10, Zenon DEF ClientRight, Block
  <2> QED BY <2>2, <2>9, <2>10, <1>2, Zenon
<1>5. ASSUME NEW s \in Slots, Free(s) PROVE ClientRight'
  <2> DEFINE b == live[s].ptr - HDR
  <2>1. /\ op = Idle /\ op' = op /\ live[s].ptr # NULL /\ heap' = FreeBlock(heap, b)
        /\ live' = [live EXCEPT ![s] = Nothing]
    BY <1>5, Zenon DEF Free, Block
  <2>2. live'[s] = Nothing /\ \A r \in Slots : r # s => live'[r] = live[r]
    BY <2>1, <1>0, Zenon
  <2>3. live'[s].ptr = NULL /\ live'[s].req = 0 /\ live'[s].valid <= live'[s].req
    BY <2>2 DEF Nothing
  <2>4. b \in DOMAIN heap.blk
    BY <2>1, OwnershipFacts, Zenon
  <2>5. \A r \in Slots : r # s /\ live[r].ptr # NULL =>
           /\ live[r].ptr - HDR # b /\ live[r].ptr - HDR \in DOMAIN heap.blk
           /\ heap.blk[live[r].ptr - HDR].avail = 0
    <3>1. ASSUME NEW r \in Slots, r # s, live[r].ptr # NULL PROVE live[r].ptr - HDR # b
      BY <3>1, <2>1, OwnershipFacts
    <3> QED BY <3>1, OwnershipFacts, Zenon
  <2> HIDE DEF b
  <2>6. \A x \in DOMAIN heap.blk : x # b /\ heap.blk[x].avail = 0 => heap'.blk[x].size = heap.blk[x].size
    <3>e. Freed(heap, b, heap')
      BY <2>1, <2>4, <1>0, FreeBlockEffect, Zenon
    <3> QED BY <3>e, Zenon DEF Freed
  <2> QED BY <2>1, <2>2, <2>3, <2>5, <2>6, KeepClient, Zenon
<1>6. ASSUME NEW s \in Slots, Write(s) PROVE ClientRight'
  <2>1. /\ op = Idle /\ op' = op /\ live[s].ptr # NULL /\ heap' = heap
        /\ live' = [live EXCEPT ![s] = [ptr |-> live[s].ptr, req |-> live[s].req,
                                        valid |-> live[s].req, val |-> s]]
    BY <1>6, Zenon DEF Write
  <2>2. /\ live'[s].ptr = live[s].ptr /\ live'[s].req = live[s].req /\ live'[s].valid = live[s].req
        /\ \A r \in Slots : r # s => live'[r] = live[r]
    BY <2>1, <1>0, Zenon
  <2>3. live'[s].valid <= live'[s].req
    BY <2>2, <1>0
  <2> QED BY <2>1, <2>2, <2>3, KeepClient, Zenon DEF ClientRight, Block
<1>7. CASE SearchNext
  <2>1. op # Idle /\ op' = [op EXCEPT !.cur = heap.blk[op.cur].next] /\ UNCHANGED <<heap, live>>
    BY <1>7, Zenon DEF SearchNext
  <2>2. op \in [kind : {"malloc", "calloc", "realloc"}, slot : Slots, n : Nat, cur : Nat, old : Nat]
    BY <2>1, Zenon DEF IInv, TypeOK
  <2>3. op'.kind = op.kind /\ op'.slot = op.slot /\ op'.n = op.n /\ op'.old = op.old
    BY <2>1, <2>2, Zenon
  <2> QED BY <2>1, <2>3, Zenon DEF ClientRight, Block
<1>8. CASE SearchFound
  BY <1>8, FoundPlaceable, PlaceClient, Zenon
<1>9. CASE Grow
  <2>1. \E h, b, d : Placeable(h, b) /\ Place(h, b, d) /\ op # Idle
    BY <1>9, GrowPlaceable, Zenon
  <2> QED BY <2>1, PlaceClient, Zenon
<1>10. ASSUME NEW s \in Slots, NEW n \in Sizes, Malloc(s, n) PROVE ClientRight'
  BY <1>10, <1>2, <1>3, Zenon DEF Malloc
<1>11. ASSUME NEW s \in Slots, NEW count \in Sizes, NEW n \in Sizes, Calloc(s, count, n)
       PROVE  ClientRight'
  BY <1>11, <1>2, <1>3, Zenon DEF Calloc
<1>12. CASE GrowFails
  BY <1>12, <1>2, Zenon DEF GrowFails
<1> QED BY <1>1, <1>4, <1>5, <1>6, <1>7, <1>8, <1>9, <1>10, <1>11, <1>12, Zenon DEF Next

-----------------------------------------------------------------------------
(* Every step is one of the contract, or changes nothing the client sees.  *)

\* The blocks of h that the variables l hold.
Owns(h, l) ==
  /\ WF(h)
  /\ \A r \in Slots : /\ l[r].ptr \in Nat /\ l[r].req \in Nat /\ l[r].valid \in Nat
                      /\ l[r].valid <= l[r].req
                      /\ l[r].ptr = NULL => l[r].req = 0
                      /\ l[r].ptr # NULL =>
                            l[r].ptr - HDR \in DOMAIN h.blk /\ l[r].req <= h.blk[l[r].ptr - HDR].size
  /\ \A r, q \in Slots : l[r].ptr # NULL /\ l[r].ptr = l[q].ptr => r = q

\* The client's pointers are blocks in use, before a step ...
LEMMA OwnsNow == IInv /\ ClientRight => Owns(heap, live)
BY OwnershipFacts, Zenon DEF ClientRight, Owns

\* ... and after it.
LEMMA OwnsNext == IInv' /\ ClientRight' => Owns(heap', live')
<1> SUFFICES ASSUME IInv', ClientRight' PROVE Owns(heap', live')
  BY Zenon
<1>1. WF(heap')
  BY Zenon DEF IInv, TypeOK, HeapIntact, WF
<1>2. live' \in [Slots -> [ptr : Nat, req : Nat, valid : Nat, val : Slots \cup {Zero, Garbage}]]
  BY Zenon DEF IInv, TypeOK
<1>3. Ownership'
  BY Zenon DEF IInv
<1> QED BY <1>1, <1>2, <1>3, Zenon DEF ClientRight, Ownership, Block, Owns

\* The bytes of a variable lie in its block.
LEMMA OwnBytes ==
  ASSUME NEW h, NEW l, Owns(h, l), NEW s \in Slots,
         NEW u \in l[s].ptr .. (l[s].ptr + l[s].req - 1)
  PROVE  l[s].ptr # NULL /\ u \in Int /\ u \in (l[s].ptr - HDR) .. (End(h, l[s].ptr - HDR) - 1)
<1> DEFINE x == l[s].ptr - HDR
<1>1. l[s].ptr \in Nat /\ l[s].req \in Nat /\ HDR \in Nat \ {0}
  BY AlignAssumption, Zenon DEF Owns
<1>2. l[s].req # 0
  BY <1>1
<1>3. l[s].ptr # NULL
  BY <1>2, Zenon DEF Owns
<1>4. x \in DOMAIN h.blk /\ l[s].req <= h.blk[x].size /\ h.blk[x].size \in Nat
  BY <1>3, Zenon DEF Owns, WF, Typed
<1>5. l[s].ptr = x + HDR /\ x \in Int
  BY <1>1
<1> HIDE DEF x
<1>6. End(h, x) = x + HDR + h.blk[x].size
  BY Zenon DEF End
<1>7. u \in Int /\ u \in x .. (End(h, x) - 1)
  BY <1>1, <1>4, <1>5, <1>6
<1> QED BY <1>3, <1>7 DEF x

\* The bytes of a variable are in no block but its own.
LEMMA OthersApart ==
  ASSUME NEW h, NEW l, Owns(h, l), NEW s \in Slots, NEW x \in DOMAIN h.blk,
         l[s].ptr # NULL => l[s].ptr - HDR # x,
         NEW u \in l[s].ptr .. (l[s].ptr + l[s].valid - 1)
  PROVE  u \notin x .. (End(h, x) - 1)
<1>1. l[s].ptr \in Nat /\ l[s].req \in Nat /\ l[s].valid \in Nat /\ l[s].valid <= l[s].req
  BY Zenon DEF Owns
<1>2. u \in l[s].ptr .. (l[s].ptr + l[s].req - 1)
  BY <1>1
<1>3. l[s].ptr # NULL /\ u \in (l[s].ptr - HDR) .. (End(h, l[s].ptr - HDR) - 1)
  BY <1>2, OwnBytes, Zenon
<1>4. l[s].ptr - HDR \in DOMAIN h.blk /\ WF(h)
  BY <1>3, Zenon DEF Owns
<1> QED BY <1>3, <1>4, BlocksApart, Zenon

\* The regions of two variables do not overlap.
LEMMA FreshView ==
  ASSUME NEW h, NEW l, NEW d, Owns(h, l), NEW s \in Slots, l[s].ptr # NULL,
         NEW ar, ar = [r \in Slots |-> View(l[r], d)]
  PROVE  Contract!Fresh(ar, s)
<1>1. \A r \in Slots : ar[r].ptr = l[r].ptr /\ ar[r].len = l[r].req
  BY Zenon DEF View
<1>2. ASSUME NEW t \in Slots \ {s}, NEW u \in l[s].ptr .. (l[s].ptr + l[s].req - 1),
             u \in l[t].ptr .. (l[t].ptr + l[t].req - 1)
      PROVE  FALSE
  <2>1. u \in (l[s].ptr - HDR) .. (End(h, l[s].ptr - HDR) - 1)
    BY OwnBytes, Zenon
  <2>2. l[t].ptr # NULL /\ u \in (l[t].ptr - HDR) .. (End(h, l[t].ptr - HDR) - 1)
    BY <1>2, OwnBytes, Zenon
  <2>3. /\ l[s].ptr - HDR \in DOMAIN h.blk /\ l[t].ptr - HDR \in DOMAIN h.blk /\ WF(h)
        /\ l[s].ptr # l[t].ptr /\ l[s].ptr \in Nat /\ l[t].ptr \in Nat
    BY <2>2, Zenon DEF Owns
  <2>4. l[s].ptr - HDR # l[t].ptr - HDR
    BY <2>3, AlignAssumption
  <2> QED BY <2>1, <2>2, <2>3, <2>4, BlocksApart, Zenon
<1>3. \A t \in Slots \ {s} : Contract!Region(ar[s]) \cap Contract!Region(ar[t]) = {}
  BY <1>1, <1>2, Zenon DEF Contract!Region
<1> QED BY <1>1, <1>3, Zenon DEF Contract!Fresh, Contract!NULL, NULL

\* When data changes only in blocks that are not those of r, r's view stays.
LEMMA ViewKept ==
  ASSUME IInv, ClientRight, NEW r \in Slots, live'[r] = live[r],
         NEW S, Agree(data, data', S),
         \A u \in live[r].ptr .. (live[r].ptr + live[r].valid - 1) : u \notin S
  PROVE  SeenArea'[r] = SeenArea[r]
<1>1. live[r].ptr \in Nat /\ live[r].valid \in Nat
  BY OwnershipFacts, Zenon
<1>2. View(live[r], data) = View(live[r], data')
  BY <1>1, ViewAgree, Zenon
<1>3. SeenArea[r] = View(live[r], data)
  BY SeenIsView, Zenon
<1>4. SeenArea'[r] = View(live'[r], data')
  BY Zenon DEF SeenArea, View
<1> QED BY <1>2, <1>3, <1>4, Zenon

\* Other variables hold other blocks.
LEMMA OtherBlocks ==
  ASSUME IInv, NEW s \in Slots, live[s].ptr # NULL, NEW r \in Slots, r # s
  PROVE  live[r].ptr # NULL => live[r].ptr - HDR # live[s].ptr - HDR
BY OwnershipFacts

\* What the client sees of a slot: extent and bytes.
LEMMA SeenFields ==
  /\ \A r \in Slots : /\ SeenArea[r].ptr = live[r].ptr /\ SeenArea[r].len = live[r].req
                      /\ live[r].ptr # NULL => SeenArea[r] # Contract!NoArea
  /\ \A r \in Slots : SeenArea'[r].ptr = live'[r].ptr /\ SeenArea'[r].len = live'[r].req
BY Zenon DEF SeenArea, Contract!NoArea, Contract!NULL, NULL

\* free releases the region and touches no other.
LEMMA FreeContract ==
  ASSUME IInv, ClientRight, NEW s \in Slots, Free(s)
  PROVE  Contract!Release(s)
<1> DEFINE b == live[s].ptr - HDR
           S == Payload(b, heap.blk[b].size)
<1>1. /\ live[s].ptr # NULL /\ live' = [live EXCEPT ![s] = Nothing] /\ data' = Erase(data, S)
  BY Zenon DEF Free, Block
<1>2. live'[s] = Nothing /\ \A r \in Slots : r # s => live'[r] = live[r]
  BY <1>1, Zenon DEF IInv, TypeOK
<1>3. SeenArea'[s] = Contract!NoArea
  <2>1. SeenArea'[s] = View(live'[s], data')
    BY Zenon DEF SeenArea, View
  <2>2. live'[s].ptr = NULL /\ live'[s].req = 0 /\ live'[s].valid = 0
    BY <1>2 DEF Nothing
  <2> QED BY <2>1, <2>2, EmptyView, Zenon
<1>4. ASSUME NEW r \in Slots \ {s} PROVE SeenArea'[r] = SeenArea[r]
  <2>1. b \in DOMAIN heap.blk /\ heap.blk[b].size \in Nat /\ WF(heap) /\ Owns(heap, live)
    BY <1>1, OwnershipFacts, OwnsNow, Zenon
  <2>2. heap.blk[b].size <= heap.blk[b].size
    BY <2>1
  <2>3. S \subseteq b .. (End(heap, b) - 1)
    BY <2>1, <2>2, WithinBlock, Zenon
  <2>4. live[r].ptr # NULL => live[r].ptr - HDR # b
    BY <1>1, OtherBlocks, Zenon
  <2>5. Agree(data, data', S)
    BY <1>1, DataAgree, Zenon
  <2> HIDE DEF b, S
  <2>6. \A u \in live[r].ptr .. (live[r].ptr + live[r].valid - 1) : u \notin S
    BY <2>1, <2>3, <2>4, OthersApart, Zenon
  <2> QED BY <1>2, <2>5, <2>6, ViewKept, Zenon
<1> QED BY <1>1, <1>3, <1>4, SeenFields, Zenon DEF Contract!Release, Contract!OnlyChanges

\* A client write reaches all bytes of its region and no other region.
LEMMA WriteContract ==
  ASSUME IInv, ClientRight, NEW s \in Slots, Write(s)
  PROVE  Contract!Write(s)
<1> DEFINE b == live[s].ptr - HDR
           S == Payload(b, live[s].req)
<1>1. /\ live[s].ptr # NULL /\ data' = Store(data, S, s)
      /\ live' = [live EXCEPT ![s] = [ptr |-> live[s].ptr, req |-> live[s].req,
                                      valid |-> live[s].req, val |-> s]]
  BY Zenon DEF Write, Block
<1>2. /\ live'[s].ptr = live[s].ptr /\ live'[s].req = live[s].req /\ live'[s].valid = live[s].req
      /\ \A r \in Slots : r # s => live'[r] = live[r]
  BY <1>1, Zenon DEF IInv, TypeOK
<1>3. /\ b \in DOMAIN heap.blk /\ WF(heap) /\ Owns(heap, live)
      /\ live[s].req \in Nat /\ live[s].req <= heap.blk[b].size /\ live[s].ptr \in Nat
  BY <1>1, OwnershipFacts, OwnsNow, Zenon
<1>4. S \subseteq b .. (End(heap, b) - 1) /\ S = (b + HDR) .. (b + HDR + live[s].req - 1)
  BY <1>3, WithinBlock, Zenon
<1>5. b + HDR = live[s].ptr
  BY <1>3, AlignAssumption
<1>6. ASSUME NEW r \in Slots \ {s} PROVE SeenArea'[r] = SeenArea[r]
  <2>1. live[r].ptr # NULL => live[r].ptr - HDR # b
    BY <1>1, OtherBlocks, Zenon
  <2>2. Agree(data, data', S)
    BY <1>1, DataAgree, Zenon
  <2> HIDE DEF b, S
  <2>3. \A u \in live[r].ptr .. (live[r].ptr + live[r].valid - 1) : u \notin S
    BY <2>1, <1>3, <1>4, OthersApart, Zenon
  <2> QED BY <1>2, <2>2, <2>3, ViewKept, Zenon
<1> HIDE DEF b, S
<1>7. \A i \in 0 .. (live[s].req - 1) : live[s].ptr + i \in S
  BY <1>3, <1>4, <1>5
<1>8. \A i \in 0 .. (live[s].req - 1) :
         live[s].ptr + i \in DOMAIN data' /\ data'[live[s].ptr + i] = s
  BY <1>1, <1>7, Zenon DEF Store
<1>9. SeenArea'[s] = [ptr |-> live[s].ptr, len |-> live[s].req,
                      seen |-> [i \in 0 .. (live[s].req - 1) |-> s]]
  <2>1. SeenArea'[s] = View(live'[s], data')
    BY Zenon DEF SeenArea, View
  <2>2. [i \in 0 .. (live[s].req - 1) |->
            IF live[s].ptr + i \in DOMAIN data' THEN data'[live[s].ptr + i] ELSE Garbage]
        = [i \in 0 .. (live[s].req - 1) |-> s]
    BY <1>8, Zenon
  <2> QED BY <2>1, <2>2, <1>2, Zenon DEF View
<1>10. [SeenArea[s] EXCEPT !.seen = [i \in 0 .. (live[s].req - 1) |-> s]]
       = [ptr |-> live[s].ptr, len |-> live[s].req,
          seen |-> [i \in 0 .. (live[s].req - 1) |-> s]]
  <2> DEFINE now == SeenArea[s].seen
             all == [i \in 0 .. (live[s].req - 1) |-> s]
  <2>1. SeenArea[s] = [ptr |-> live[s].ptr, len |-> live[s].req, seen |-> now]
    BY Zenon DEF SeenArea
  <2> HIDE DEF now, all
  <2>2. [SeenArea[s] EXCEPT !.seen = all] = [ptr |-> live[s].ptr, len |-> live[s].req, seen |-> all]
    BY <2>1
  <2> QED BY <2>2 DEF all
<1>11. SeenArea' = [SeenArea EXCEPT ![s].seen = [i \in 0 .. (SeenArea[s].len - 1) |-> s]]
  <2>1. SeenArea[s].len = live[s].req
    BY SeenFields, Zenon
  <2>2. SeenArea = [r \in Slots |-> SeenArea[r]] /\ SeenArea' = [r \in Slots |-> SeenArea'[r]]
    BY Zenon DEF SeenArea
  <2>3. [SeenArea EXCEPT ![s].seen = [i \in 0 .. (SeenArea[s].len - 1) |-> s]]
        = [r \in Slots |-> IF r = s THEN [SeenArea[s] EXCEPT !.seen = [i \in 0 .. (live[s].req - 1) |-> s]]
                                    ELSE SeenArea[r]]
    BY <2>1, <2>2, Zenon
  <2> QED BY <2>2, <2>3, <1>6, <1>9, <1>10, Zenon
<1> QED BY <1>1, <1>11, SeenFields, Zenon DEF Contract!Write

Byte(u, d) == IF u \in DOMAIN d THEN d[u] ELSE Garbage

\* A byte outside the set in which two stores may differ.
LEMMA ByteAgree ==
  ASSUME NEW d, NEW e, NEW S, Agree(d, e, S), NEW u \in Int, u \notin S
  PROVE  Byte(u, d) = Byte(u, e)
BY Zenon DEF Agree, Byte

\* The view k of e is the view l of d as far as it goes: what realloc promises.
LEMMA ResizedView ==
  ASSUME NEW l, NEW d, NEW k, NEW e, l.valid \in Nat, k.req \in Nat,
         k.valid = IF l.valid > k.req THEN k.req ELSE l.valid,
         \A i \in 0 .. (k.valid - 1) : Byte(k.ptr + i, e) = Byte(l.ptr + i, d)
  PROVE  View(k, e).seen = [i \in {j \in DOMAIN View(l, d).seen : j < View(k, e).len} |-> View(l, d).seen[i]]
<1>1. DOMAIN View(l, d).seen = 0 .. (l.valid - 1) /\ View(k, e).len = k.req
  BY Zenon DEF View
<1>2. {j \in 0 .. (l.valid - 1) : j < k.req} = 0 .. (k.valid - 1)
  BY SMT
<1>3. \A i \in 0 .. (k.valid - 1) : i \in 0 .. (l.valid - 1)
  BY SMT
<1>4. View(k, e).seen = [i \in 0 .. (k.valid - 1) |-> Byte(k.ptr + i, e)]
  BY Zenon DEF View, Byte
<1>5. \A i \in 0 .. (l.valid - 1) : View(l, d).seen[i] = Byte(l.ptr + i, d)
  BY Zenon DEF View, Byte
<1>6. [i \in 0 .. (k.valid - 1) |-> View(l, d).seen[i]] = [i \in 0 .. (k.valid - 1) |-> Byte(k.ptr + i, e)]
  BY <1>3, <1>5, Zenon
<1>7. {j \in DOMAIN View(l, d).seen : j < View(k, e).len} = 0 .. (k.valid - 1)
  BY <1>1, <1>2, Zenon
<1> QED BY <1>4, <1>6, <1>7, Zenon

\* realloc in place keeps the common prefix; on its way to malloc it changes nothing.
LEMMA ReallocContract ==
  ASSUME IInv, ClientRight, IInv', ClientRight', NEW s \in Slots, NEW n \in Sizes, Realloc(s, n)
  PROVE  Contract!Resize(s) \/ SeenArea' = SeenArea
<1> DEFINE b == live[s].ptr - HDR
           h == MergeNext(heap, b)
           rounded == RoundUp(n, ALIGN)
           S == SplitTakes(h, b, rounded)
<1>1. live[s].ptr # NULL /\ n \in Nat
  BY RequestAssumption, Zenon DEF Realloc
<1>2. \/ live' = live /\ data' = data
      \/ /\ h.blk[b].size >= rounded
         /\ data' = Erase(data, S)
         /\ live' = [live EXCEPT ![s] =
                [ptr |-> @.ptr, req |-> n,
                 valid |-> IF @.valid > n THEN n ELSE @.valid, val |-> @.val]]
  BY Zenon DEF Realloc, Block, Fail
<1>3. /\ b \in DOMAIN heap.blk /\ WF(heap) /\ Owns(heap, live)
      /\ live[s].ptr \in Nat /\ live[s].valid \in Nat /\ HDR \in Nat \ {0}
  BY <1>1, OwnershipFacts, OwnsNow, Zenon
<1>4. CASE live' = live /\ data' = data
  BY <1>4, Zenon DEF SeenArea
<1>5. CASE /\ h.blk[b].size >= rounded
           /\ data' = Erase(data, S)
           /\ live' = [live EXCEPT ![s] =
                [ptr |-> @.ptr, req |-> n,
                 valid |-> IF @.valid > n THEN n ELSE @.valid, val |-> @.val]]
  <2>1. Agree(data, data', S)
    BY <1>5, DataAgree, Zenon
  <2>2. /\ live'[s].ptr = live[s].ptr /\ live'[s].req = n
        /\ live'[s].valid = IF live[s].valid > n THEN n ELSE live[s].valid
        /\ \A r \in Slots : r # s => live'[r] = live[r]
    BY <1>5, Zenon DEF IInv, TypeOK
  <2>3. rounded \in Nat /\ n <= rounded
    BY <1>1, RoundUpBounds, AlignAssumption, Zenon
  <2>4. b + HDR = live[s].ptr /\ b \in Int
    BY <1>3
  <2>5. S \subseteq (b + HDR + rounded) .. (End(h, b) - 1)
    BY Zenon DEF SplitTakes
  <2>6. h = MergeNext(heap, b)
    OBVIOUS
  <2>o. \A r \in Slots : r # s /\ live[r].ptr # NULL => live[r].ptr - HDR # b
    BY <1>1, OtherBlocks, Zenon
  <2> HIDE DEF b, h, rounded, S
  <2>7. /\ WF(h) /\ b \in DOMAIN h.blk
        /\ \A x \in DOMAIN h.blk : x # b => h.blk[x].size = heap.blk[x].size
        /\ heap.blk[b].size <= h.blk[b].size
        /\ \A x \in DOMAIN heap.blk \ DOMAIN h.blk : heap.blk[x].avail = 1
    <3>e. WF(h) /\ Merged(heap, b, h)
      BY <2>6, <1>3, MergeNextWF, MergeNextEffect, Zenon
    <3> QED BY <3>e, Zenon DEF Merged
  <2>8. Owns(h, live)
    <3>1. ASSUME NEW r \in Slots, live[r].ptr # NULL
          PROVE  live[r].ptr - HDR \in DOMAIN h.blk /\ live[r].req <= h.blk[live[r].ptr - HDR].size
      <4>1. /\ live[r].ptr - HDR \in DOMAIN heap.blk /\ heap.blk[live[r].ptr - HDR].avail = 0
            /\ live[r].req <= heap.blk[live[r].ptr - HDR].size
            /\ heap.blk[live[r].ptr - HDR].size \in Nat /\ live[r].req \in Nat
        BY <3>1, OwnershipFacts, Zenon
      <4>2. live[r].ptr - HDR \in DOMAIN h.blk
        BY <4>1, <2>7
      <4>3. h.blk[live[r].ptr - HDR].size \in Nat
        BY <4>2, <2>7, Zenon DEF WF, Typed
      <4>4. heap.blk[live[r].ptr - HDR].size <= h.blk[live[r].ptr - HDR].size
        BY <4>1, <4>2, <4>3, <2>7
      <4> QED BY <4>1, <4>2, <4>3, <4>4
    <3> QED BY <3>1, <2>7, <1>3, Zenon DEF Owns
  <2>9. ASSUME NEW r \in Slots \ {s} PROVE SeenArea'[r] = SeenArea[r]
    <3>1. \A u \in live[r].ptr .. (live[r].ptr + live[r].valid - 1) : u \notin b .. (End(h, b) - 1)
      BY <2>7, <2>8, <2>o, OthersApart, Zenon
    <3>2. \A u \in S : u \in b .. (End(h, b) - 1)
      <4>1. \A u \in (b + HDR + rounded) .. (End(h, b) - 1) : u \in b .. (End(h, b) - 1)
        BY <1>3, <2>3, <2>4
      <4> QED BY <4>1, <2>5, Zenon
    <3> QED BY <3>1, <3>2, <2>1, <2>2, ViewKept, Zenon
  <2>10. ASSUME NEW i \in 0 .. (live'[s].valid - 1)
         PROVE  Byte(live'[s].ptr + i, data') = Byte(live[s].ptr + i, data)
    <3>1. live[s].ptr + i \in Int /\ live[s].ptr + i < b + HDR + rounded
      BY <1>1, <1>3, <2>2, <2>3, <2>4
    <3>2. live[s].ptr + i \notin S
      <4>1. live[s].ptr + i \notin (b + HDR + rounded) .. (End(h, b) - 1)
        BY <3>1, <2>3, <2>4, <1>3
      <4> QED BY <4>1, <2>5, Zenon
    <3>3. Byte(live[s].ptr + i, data) = Byte(live[s].ptr + i, data')
      BY <3>1, <3>2, <2>1, ByteAgree
    <3> QED BY <3>3, <2>2, Zenon
  <2>11. SeenArea'[s].seen = [i \in {j \in DOMAIN SeenArea[s].seen : j < SeenArea'[s].len} |-> SeenArea[s].seen[i]]
    <3>1. SeenArea'[s] = View(live'[s], data') /\ SeenArea[s] = View(live[s], data)
      BY Zenon DEF SeenArea, View
    <3>2. live'[s].req \in Nat /\ live[s].valid \in Nat
          /\ live'[s].valid = IF live[s].valid > live'[s].req THEN live'[s].req ELSE live[s].valid
      BY <1>1, <1>3, <2>2, Zenon
    <3>3. View(live'[s], data').seen = [i \in {j \in DOMAIN View(live[s], data).seen :
             j < View(live'[s], data').len} |-> View(live[s], data).seen[i]]
      BY <3>2, <2>10, ResizedView
    <3> QED BY <3>1, <3>3, Zenon
  <2>12. Contract!Fresh(SeenArea', s)
    <3>1. SeenArea' = [r \in Slots |-> View(live'[r], data')] /\ live'[s].ptr # NULL
      BY <1>1, <2>2, Zenon DEF SeenArea, View
    <3> QED BY <3>1, OwnsNext, FreshView, Zenon
  <2> QED BY <1>1, <2>9, <2>11, <2>12, SeenFields, Zenon DEF Contract!Resize, Contract!OnlyChanges
<1> QED BY <1>2, <1>4, <1>5, Zenon

\* Where malloc's last part works: block b of h, apart from all the client holds.
LEMMA PlaceSetting ==
  ASSUME IInv, ClientRight, op # Idle, NEW h, NEW b, Placeable(h, b), NEW d, Place(h, b, d),
         Agree(data, d, b .. (End(h, b) - 1))
  PROVE  /\ Owns(h, live) /\ WF(h) /\ b \in DOMAIN h.blk /\ b \in Nat /\ HDR \in Nat \ {0}
         /\ Agree(data, Erase(d, SplitTakes(h, b, Rounded(op.n))), b .. (End(h, b) - 1))
         /\ Payload(b, op.n) \subseteq b .. (End(h, b) - 1)
         /\ \A n \in Nat : n <= Rounded(op.n) => Payload(b, n) \subseteq b .. (End(h, b) - 1)
         /\ \A r \in Slots : live[r].ptr # NULL => live[r].ptr - HDR # b
         /\ \A r \in Slots : live[r].ptr # NULL =>
               h.blk[live[r].ptr - HDR].size = heap.blk[live[r].ptr - HDR].size
<1> DEFINE t == TakeBlock(h, b, Rounded(op.n))
           S == SplitTakes(h, b, Rounded(op.n))
           B == b .. (End(h, b) - 1)
           e == Erase(d, S)
<1>1. /\ op.n \in Nat /\ Rounded(op.n) \in Nat /\ op.n <= Rounded(op.n)
      /\ \A r \in Slots : live[r].ptr # NULL => live[r].ptr - HDR # b
  BY PlaceHeap
<1>2. /\ WF(h) /\ b \in DOMAIN h.blk /\ Rounded(op.n) <= h.blk[b].size
      /\ \A x \in DOMAIN heap.blk : x \in DOMAIN h.blk /\ h.blk[x].size = heap.blk[x].size
  BY Zenon DEF Placeable
<1>3. b \in Nat /\ h.blk[b].size \in Nat /\ HDR \in Nat \ {0}
  BY <1>2, AlignAssumption, Zenon DEF WF, Typed
<1>4. Owns(heap, live)
  BY OwnsNow, Zenon
<1>5. Owns(h, live)
  BY <1>2, <1>4, Zenon DEF Owns
<1>6. \A n \in Nat : n <= Rounded(op.n) => Payload(b, n) \subseteq B
  <2>1. \A n \in Nat : n <= Rounded(op.n) => n <= h.blk[b].size
    BY <1>1, <1>2, <1>3
  <2>2. ASSUME NEW n \in Nat, n <= Rounded(op.n) PROVE Payload(b, n) \subseteq B
    <3>1. n <= h.blk[b].size
      BY <2>1, <2>2
    <3> QED BY <3>1, <1>2, WithinBlock
  <2> QED BY <2>2, Zenon
<1>7. S \subseteq B
  <2>1. S \subseteq (b + HDR + Rounded(op.n)) .. (End(h, b) - 1)
    BY Zenon DEF SplitTakes
  <2>2. End(h, b) \in Nat
    BY <1>3 DEF End
  <2>3. (b + HDR + Rounded(op.n)) .. (End(h, b) - 1) \subseteq B
    BY <1>1, <1>3, <2>2
  <2> QED BY <2>1, <2>3, Zenon
<1>8. Agree(data, e, B)
  <2>1. Agree(d, e, S) /\ Agree(data, d, B)
    BY DataAgree, Zenon
  <2> HIDE DEF S, e, B
  <2> QED BY <2>1, <1>7, Zenon DEF Agree
<1>9. \A r \in Slots : live[r].ptr # NULL => live[r].ptr - HDR \in DOMAIN heap.blk
  BY <1>4, Zenon DEF Owns
<1> QED BY <1>1, <1>2, <1>3, <1>5, <1>6, <1>8, <1>9, ZenonT(40)

\* The other variables: data changes only in block b, and in the old block of a realloc.
LEMMA PlaceOthers ==
  ASSUME IInv, ClientRight, op # Idle, NEW h, NEW b, Placeable(h, b), NEW d, Place(h, b, d),
         NEW B, B = b .. (End(h, b) - 1), NEW O, Agree(data, data', B \cup O), Owns(h, live),
         \/ O = {}
         \/ live[op.slot].ptr # NULL
            /\ O = (live[op.slot].ptr - HDR) .. (End(h, live[op.slot].ptr - HDR) - 1)
  PROVE  \A r \in Slots \ {op.slot} : SeenArea'[r] = SeenArea[r]
<1>0. b \in DOMAIN h.blk
  BY Zenon DEF Placeable
<1>1. /\ b \in DOMAIN h.blk /\ op.slot \in Slots
      /\ \A r \in Slots : live[r].ptr # NULL => live[r].ptr - HDR # b
  BY <1>0, PlaceHeap
<1>2. \A r \in Slots : r # op.slot => live'[r] = live[r]
  BY PlaceClient, Zenon
<1>3. ASSUME NEW r \in Slots \ {op.slot},
             NEW u \in live[r].ptr .. (live[r].ptr + live[r].valid - 1)
      PROVE  u \notin B \cup O
  <2>1. u \notin B
    BY <1>1, OthersApart, Zenon
  <2>2. CASE O = {}
    BY <2>1, <2>2, Zenon
  <2>3. CASE /\ live[op.slot].ptr # NULL
             /\ O = (live[op.slot].ptr - HDR) .. (End(h, live[op.slot].ptr - HDR) - 1)
    <3>1. live[op.slot].ptr - HDR \in DOMAIN h.blk
      BY <1>1, <2>3, Zenon DEF Owns
    <3>2. live[r].ptr # NULL => live[r].ptr - HDR # live[op.slot].ptr - HDR
      BY <1>1, <2>3, OtherBlocks, Zenon
    <3>3. u \notin O
      BY <2>3, <3>1, <3>2, OthersApart, Zenon
    <3> QED BY <2>1, <3>3, Zenon
  <2> QED BY <2>2, <2>3, Zenon
<1> QED BY <1>2, <1>3, ViewKept, Zenon

\* A new block is apart from the others, and malloc and calloc start from nothing.
LEMMA PlaceFresh ==
  ASSUME IInv, ClientRight, IInv', ClientRight', op # Idle,
         NEW h, NEW b, Placeable(h, b), NEW d, Place(h, b, d)
  PROVE  /\ Contract!Fresh(SeenArea', op.slot) /\ op.slot \in Slots
         /\ op.kind # "realloc" => SeenArea[op.slot] = Contract!NoArea
         /\ op.kind = "realloc" => SeenArea[op.slot] # Contract!NoArea
<1>1. /\ op.slot \in Slots /\ b \in Nat /\ HDR \in Nat \ {0}
      /\ op.kind # "realloc" => live[op.slot].ptr = NULL
      /\ op.kind = "realloc" => live[op.slot].ptr # NULL
  <2>1. b \in Nat
    BY Zenon DEF Placeable, WF, Typed
  <2> QED BY <2>1, PlaceHeap, AlignAssumption
<1>2. live'[op.slot].ptr = b + HDR
  BY PlaceClient, Zenon
<1>3. b + HDR # NULL
  BY <1>1 DEF NULL
<1>4. SeenArea' = [r \in Slots |-> View(live'[r], data')]
  BY Zenon DEF SeenArea, View
<1>5. Contract!Fresh(SeenArea', op.slot)
  <2>1. live'[op.slot].ptr # NULL
    BY <1>2, <1>3, Zenon
  <2> QED BY <1>1, <1>4, <2>1, OwnsNext, FreshView, Zenon
<1>6. ASSUME op.kind # "realloc" PROVE SeenArea[op.slot] = Contract!NoArea
  <2>1. live[op.slot].ptr = NULL /\ live[op.slot].req = 0
    BY <1>1, <1>6, Zenon DEF ClientRight
  <2>2. live[op.slot].valid \in Nat /\ live[op.slot].valid <= live[op.slot].req
    BY <1>1, OwnershipFacts, Zenon DEF ClientRight
  <2>3. live[op.slot].valid = 0
    BY <2>1, <2>2
  <2> QED BY <1>1, <2>1, <2>3, EmptyView, SeenIsView, Zenon
<1> QED BY <1>1, <1>5, <1>6, SeenFields, Zenon

\* malloc and calloc, returning.
LEMMA PlaceNew ==
  ASSUME IInv, ClientRight, IInv', ClientRight', op # Idle, op.kind # "realloc",
         NEW h, NEW b, Placeable(h, b), NEW d, Place(h, b, d),
         Agree(data, d, b .. (End(h, b) - 1))
  PROVE  Contract!Allocate(op.slot) \/ Contract!AllocateZero(op.slot)
<1> DEFINE B == b .. (End(h, b) - 1)
           e == Erase(d, SplitTakes(h, b, Rounded(op.n)))
           s == op.slot
<1>e. B = b .. (End(h, b) - 1) /\ e = Erase(d, SplitTakes(h, b, Rounded(op.n))) /\ Agree(data, d, B)
  OBVIOUS
<1> HIDE DEF B, e
<1>1. /\ Owns(h, live) /\ WF(h) /\ b \in Nat /\ HDR \in Nat \ {0}
      /\ Agree(data, e, B) /\ Payload(b, op.n) \subseteq B
  BY PlaceSetting, Zenon DEF B, e
<1>2. /\ Contract!Fresh(SeenArea', s) /\ SeenArea[s] = Contract!NoArea /\ s \in Slots
  BY PlaceFresh, Zenon
<1>3. \/ /\ data' = e
         /\ live' = [live EXCEPT ![s] = [ptr |-> b + HDR, req |-> op.n, valid |-> 0, val |-> Garbage]]
      \/ /\ data' = Store(e, Payload(b, op.n), Zero)
         /\ live' = [live EXCEPT ![s] = [ptr |-> b + HDR, req |-> op.n, valid |-> op.n, val |-> Zero]]
  BY Zenon DEF Place, e
<1>4. Agree(data, data', B)
  <2>1. CASE data' = e
    BY <2>1, <1>1, Zenon
  <2>2. CASE data' = Store(e, Payload(b, op.n), Zero)
    <3>1. Agree(e, data', Payload(b, op.n))
      BY <2>2, DataAgree, Zenon
    <3> QED BY <3>1, <1>1, Zenon DEF Agree
  <2> QED BY <1>3, <2>1, <2>2, Zenon
<1>5. \A r \in Slots \ {s} : SeenArea'[r] = SeenArea[r]
  <2>1. Agree(data, data', B \cup {})
    BY <1>4, Zenon DEF Agree
  <2> QED BY <1>e, <2>1, <1>1, PlaceOthers, Zenon
<1>6. SeenArea'[s] = View(live'[s], data')
  BY <1>2, ZenonT(40) DEF SeenArea, View
<1>7. CASE live' = [live EXCEPT ![s] = [ptr |-> b + HDR, req |-> op.n, valid |-> 0, val |-> Garbage]]
  <2>1. live'[s].valid = 0
    BY <1>2, <1>7, Zenon DEF IInv, TypeOK
  <2>2. 0 .. (live'[s].valid - 1) = {}
    BY <2>1
  <2>3. View(live'[s], data').seen = [i \in 0 .. (live'[s].valid - 1) |->
            IF live'[s].ptr + i \in DOMAIN data' THEN data'[live'[s].ptr + i] ELSE Garbage]
    BY Zenon DEF View
  <2>4. View(live'[s], data').seen = [i \in {} |-> Zero]
    BY <2>2, <2>3
  <2> QED BY <1>2, <1>5, <1>6, <2>4, Zenon DEF Contract!Allocate, Contract!OnlyChanges, Contract!NoArea
<1>8. CASE /\ data' = Store(e, Payload(b, op.n), Zero)
           /\ live' = [live EXCEPT ![s] = [ptr |-> b + HDR, req |-> op.n, valid |-> op.n, val |-> Zero]]
  <2>1. live'[s].ptr = b + HDR /\ live'[s].req = op.n /\ live'[s].valid = op.n
    BY <1>2, <1>8, ZenonT(40) DEF IInv, TypeOK
  <2>n. op.n \in Nat
    BY PlaceHeap
  <2>2. \A i \in 0 .. (op.n - 1) : b + HDR + i \in Payload(b, op.n)
    BY <2>n, <1>1 DEF Payload
  <2>3. \A i \in 0 .. (op.n - 1) : b + HDR + i \in DOMAIN data' /\ data'[b + HDR + i] = Zero
    BY <1>8, <2>2, Zenon DEF Store
  <2>4. View(live'[s], data').seen = [i \in 0 .. (op.n - 1) |->
            IF b + HDR + i \in DOMAIN data' THEN data'[b + HDR + i] ELSE Garbage]
    <3>1. View(live'[s], data').seen = [i \in 0 .. (live'[s].valid - 1) |->
            IF live'[s].ptr + i \in DOMAIN data' THEN data'[live'[s].ptr + i] ELSE Garbage]
      BY Zenon DEF View
    <3> QED BY <3>1, <2>1, Zenon
  <2>5. [i \in 0 .. (op.n - 1) |-> IF b + HDR + i \in DOMAIN data' THEN data'[b + HDR + i] ELSE Garbage]
        = [i \in 0 .. (op.n - 1) |-> Zero]
    BY <2>3, Zenon
  <2>6. SeenArea'[s].len = op.n
    BY <1>2, <2>1, SeenFields, Zenon
  <2> QED BY <1>2, <1>5, <1>6, <2>4, <2>5, <2>6, Zenon DEF Contract!AllocateZero, Contract!OnlyChanges
<1> QED BY <1>3, <1>7, <1>8, Zenon

\* memcpy: a byte of the target is the byte of the source.
LEMMA CopyByte ==
  ASSUME NEW d, NEW from, NEW to, NEW n, NEW u \in Payload(to, n)
  PROVE  Byte(u, CopyPayload(d, from, to, n)) = Byte(u - to + from, d)
BY Zenon DEF CopyPayload, Byte

\* realloc, returning with a new block: what was valid has been copied there.
LEMMA PlaceMoved ==
  ASSUME IInv, ClientRight, IInv', ClientRight', op # Idle, op.kind = "realloc",
         NEW h, NEW b, Placeable(h, b), NEW d, Place(h, b, d),
         Agree(data, d, b .. (End(h, b) - 1))
  PROVE  Contract!Resize(op.slot)
<1> DEFINE B == b .. (End(h, b) - 1)
           e == Erase(d, SplitTakes(h, b, Rounded(op.n)))
           t == TakeBlock(h, b, Rounded(op.n))
           s == op.slot
           old == live[s].ptr - HDR
           O == old .. (End(h, old) - 1)
           f == CopyPayload(e, old, b, op.old)
<1>e. B = b .. (End(h, b) - 1) /\ e = Erase(d, SplitTakes(h, b, Rounded(op.n))) /\ Agree(data, d, B)
  OBVIOUS
<1> HIDE DEF B, e
<1>1. /\ Owns(h, live) /\ WF(h) /\ b \in DOMAIN h.blk /\ b \in Nat /\ HDR \in Nat \ {0}
      /\ Agree(data, e, B)
      /\ \A n \in Nat : n <= Rounded(op.n) => Payload(b, n) \subseteq B
      /\ \A r \in Slots : live[r].ptr # NULL => live[r].ptr - HDR # b
      /\ \A r \in Slots : live[r].ptr # NULL =>
            h.blk[live[r].ptr - HDR].size = heap.blk[live[r].ptr - HDR].size
  BY PlaceSetting, Zenon DEF B, e
<1>2. /\ Contract!Fresh(SeenArea', s) /\ SeenArea[s] # Contract!NoArea /\ s \in Slots
  BY PlaceFresh, Zenon
<1>3. /\ data' = Erase(f, Payload(old, t.blk[old].size))
      /\ live' = [live EXCEPT ![s] = [ptr |-> b + HDR, req |-> op.n,
                                      valid |-> live[s].valid, val |-> @.val]]
  BY Zenon DEF Place, Block, e
<1>4. /\ live'[s].ptr = b + HDR /\ live'[s].req = op.n /\ live'[s].valid = live[s].valid
  BY <1>2, <1>3, ZenonT(40) DEF IInv, TypeOK
<1>5. /\ op.n \in Nat /\ op.old \in Nat /\ Rounded(op.n) \in Nat
      /\ live[s].ptr # NULL
      /\ t.blk[old].size = heap.blk[old].size
  BY PlaceHeap
<1>6. /\ live[s].ptr \in Nat /\ live[s].valid \in Nat
      /\ live[s].valid <= op.old /\ live[s].valid <= op.n /\ op.old <= Rounded(op.n)
  BY <1>2, OwnershipFacts, Zenon DEF ClientRight
<1>7. /\ old \in DOMAIN h.blk /\ old # b /\ t.blk[old].size = h.blk[old].size
  BY <1>1, <1>2, <1>5, ZenonT(40) DEF Owns
<1>8. old + HDR = live[s].ptr /\ old \in Nat /\ h.blk[old].size \in Nat
  <2>1. old \in Nat /\ h.blk[old].size \in Nat
    BY <1>1, <1>7, ZenonT(40) DEF WF, Typed
  <2> QED BY <2>1, <1>1, <1>6
<1>9. Payload(old, t.blk[old].size) \subseteq O
  <2>1. h.blk[old].size <= h.blk[old].size
    BY <1>8
  <2>2. Payload(old, h.blk[old].size) \subseteq O
    BY <2>1, <1>1, <1>7, <1>8, WithinBlock, Zenon
  <2> QED BY <2>2, <1>7, ZenonT(40)
<1>10. Agree(e, f, Payload(b, op.old)) /\ Payload(b, op.old) \subseteq B
  BY <1>1, <1>5, <1>6, DataAgree, Zenon
<1>11. Agree(f, data', O)
  <2>1. Agree(f, data', Payload(old, t.blk[old].size))
    BY <1>3, DataAgree, Zenon
  <2> HIDE DEF t, O, f
  <2> QED BY <2>1, <1>9, Zenon DEF Agree
<1>12. \A r \in Slots \ {s} : SeenArea'[r] = SeenArea[r]
  <2>1. Agree(data, data', B \cup O)
    <3> HIDE DEF O, f
    <3> QED BY <1>1, <1>10, <1>11, Zenon DEF Agree
  <2> QED BY <1>e, <2>1, <1>1, <1>5, PlaceOthers, Zenon
<1>13. ASSUME NEW i \in 0 .. (live'[s].valid - 1)
       PROVE  Byte(live'[s].ptr + i, data') = Byte(live[s].ptr + i, data)
  <2>1. /\ b + HDR + i \in Int /\ b + HDR + i \in Payload(b, op.old)
        /\ b + HDR + i - b + old = live[s].ptr + i /\ live[s].ptr + i \in Int
    <3> HIDE DEF old, s
    <3>1. i \in Int /\ 0 <= i /\ i < op.old
      BY <1>4, <1>5, <1>6
    <3>2. b + HDR + i - b + old = live[s].ptr + i
      BY <1>1, <1>6, <1>8, <3>1
    <3>3. b + HDR + i \in Payload(b, op.old)
      BY <1>1, <1>5, <3>1 DEF Payload
    <3>4. b + HDR + i \in Int /\ live[s].ptr + i \in Int
      BY <1>1, <1>6, <3>1
    <3> QED BY <3>2, <3>3, <3>4, Zenon
  <2>2. b + HDR + i \notin O
    <3>1. b + HDR + i \in B
      BY <2>1, <1>10, Zenon
    <3> QED BY <3>1, <1>e, <1>1, <1>7, BlocksApart, Zenon
  <2>3. Byte(b + HDR + i, f) = Byte(b + HDR + i, data')
    <3> HIDE DEF f, O
    <3> QED BY <1>11, <2>1, <2>2, ByteAgree
  <2>4. Byte(b + HDR + i, f) = Byte(live[s].ptr + i, e)
    <3>1. \A u \in Payload(b, op.old) : Byte(u, f) = Byte(u - b + old, e)
      BY CopyByte, Zenon
    <3> HIDE DEF f, old, s
    <3>2. PICK u : u = b + HDR + i
      OBVIOUS
    <3>3. u \in Payload(b, op.old) /\ u - b + old = live[s].ptr + i
      <4>1. u \in Payload(b, op.old)
        BY <2>1, <3>2, ZenonT(40)
      <4>2. u - b + old = live[s].ptr + i
        BY <1>1, <1>6, <1>8, <2>1, <3>2
      <4> QED BY <4>1, <4>2, Zenon
    <3>4. Byte(u, f) = Byte(u - b + old, e)
      BY <3>1, <3>3, Zenon
    <3> QED BY <3>2, <3>3, <3>4, Zenon
  <2>5. live[s].ptr + i \in live[s].ptr .. (live[s].ptr + live[s].valid - 1)
    BY <1>4, <1>6, <2>1
  <2>6. live[s].ptr + i \notin B
    BY <2>5, <1>e, <1>1, <1>2, OthersApart, Zenon
  <2>7. Byte(live[s].ptr + i, data) = Byte(live[s].ptr + i, e)
    BY <1>1, <2>1, <2>6, ByteAgree
  <2> QED BY <1>4, <2>1, <2>3, <2>4, <2>7, Zenon
<1>14. SeenArea'[s].seen = [i \in {j \in DOMAIN SeenArea[s].seen : j < SeenArea'[s].len} |-> SeenArea[s].seen[i]]
  <2>1. SeenArea'[s] = View(live'[s], data') /\ SeenArea[s] = View(live[s], data)
    BY <1>2, ZenonT(40) DEF SeenArea, View
  <2>2. live'[s].req \in Nat /\ live[s].valid \in Nat
        /\ live'[s].valid = IF live[s].valid > live'[s].req THEN live'[s].req ELSE live[s].valid
    BY <1>4, <1>5, <1>6
  <2>3. View(live'[s], data').seen = [i \in {j \in DOMAIN View(live[s], data).seen :
           j < View(live'[s], data').len} |-> View(live[s], data).seen[i]]
    BY <2>2, <1>13, ResizedView
  <2> QED BY <2>1, <2>3, Zenon
<1> QED BY <1>2, <1>12, <1>14, Zenon DEF Contract!Resize, Contract!OnlyChanges

\* The end of malloc, whoever called it.
LEMMA PlaceContract ==
  ASSUME IInv, ClientRight, IInv', ClientRight', op # Idle,
         NEW h, NEW b, Placeable(h, b), NEW d, Place(h, b, d),
         Agree(data, d, b .. (End(h, b) - 1))
  PROVE  Contract!Next
<1>1. op.slot \in Slots
  BY PlaceFresh, Zenon
<1>2. CASE op.kind = "realloc"
  BY <1>1, <1>2, PlaceMoved, Zenon DEF Contract!Next
<1>3. CASE op.kind # "realloc"
  BY <1>1, <1>3, PlaceNew, Zenon DEF Contract!Next
<1> QED BY <1>2, <1>3, Zenon

\* Every step of the heap is a step of the contract or is invisible to the client.
LEMMA NextContract ==
  ASSUME IInv, ClientRight, IInv', ClientRight', Next
  PROVE  Contract!Next \/ SeenArea' = SeenArea
<1>s. ASSUME live' = live, data' = data PROVE SeenArea' = SeenArea
  BY <1>s, Zenon DEF SeenArea
<1>1. ASSUME NEW s \in Slots, NEW n \in Sizes, Malloc(s, n)
      PROVE  SeenArea' = SeenArea
  BY <1>1, <1>s, Zenon DEF Malloc, Fail
<1>2. ASSUME NEW s \in Slots, NEW n \in Sizes, Realloc(s, n)
      PROVE  Contract!Next \/ SeenArea' = SeenArea
  BY <1>2, ReallocContract, Zenon DEF Contract!Next
<1>3. ASSUME NEW s \in Slots, NEW count \in Sizes, NEW n \in Sizes, Calloc(s, count, n)
      PROVE  SeenArea' = SeenArea
  BY <1>3, <1>s, Zenon DEF Calloc, Fail
<1>4. ASSUME NEW s \in Slots, Free(s) PROVE Contract!Next
  BY <1>4, FreeContract, Zenon DEF Contract!Next
<1>5. ASSUME NEW s \in Slots, Write(s) PROVE Contract!Next
  BY <1>5, WriteContract, Zenon DEF Contract!Next
<1>6. CASE SearchNext
  BY <1>6, <1>s, Zenon DEF SearchNext
<1>7. CASE GrowFails
  BY <1>7, <1>s, Zenon DEF GrowFails, Fail
<1>8. CASE SearchFound
  <2>1. Placeable(heap, op.cur) /\ Place(heap, op.cur, data) /\ op # Idle
    BY <1>8, FoundPlaceable, Zenon
  <2>2. Agree(data, data, op.cur .. (End(heap, op.cur) - 1))
    BY DataAgree, Zenon
  <2> QED BY <2>1, <2>2, PlaceContract, Zenon
<1>9. CASE Grow
  <2> DEFINE extent == ExtentFor(Rounded(op.n))
             b == RoundUp(brk, ALIGN)
             h == AppendExtent(heap, b, extent)
             d == Erase(data, b .. (b + HDR - 1))
  <2>1. Placeable(h, b) /\ Place(h, b, d) /\ op # Idle
    BY <1>9, GrowPlaceable
  <2>2. Agree(data, d, b .. (b + HDR - 1))
    BY DataAgree, Zenon
  <2> HIDE DEF extent, b, h, d
  <2>3. b .. (b + HDR - 1) \subseteq b .. (End(h, b) - 1)
    <3>1. b \in Nat /\ HDR \in Nat /\ h.blk[b].size \in Nat
      BY <2>1, AlignAssumption, Zenon DEF Placeable, WF, Typed
    <3> QED BY <3>1 DEF End
  <2>4. Agree(data, d, b .. (End(h, b) - 1))
    BY <2>2, <2>3, Zenon DEF Agree
  <2> QED BY <2>1, <2>4, PlaceContract, Zenon
<1> QED BY <1>1, <1>2, <1>3, <1>4, <1>5, <1>6, <1>7, <1>8, <1>9, Zenon DEF Next

\* Nothing is held at first.
LEMMA InitContract == Init => ClientRight /\ Contract!Init
<1> SUFFICES ASSUME Init PROVE ClientRight /\ Contract!Init
  BY Zenon
<1>1. op = Idle /\ live = [s \in Slots |-> Nothing]
  BY Zenon DEF Init
<1>2. \A s \in Slots : live[s].ptr = NULL /\ live[s].req = 0 /\ live[s].valid = 0
  BY <1>1 DEF Nothing
<1>3. ClientRight
  BY <1>1, <1>2 DEF ClientRight
<1>4. SeenArea = [s \in Slots |-> Contract!NoArea]
  <2>1. \A s \in Slots : View(live[s], data) = Contract!NoArea
    BY <1>2, EmptyView, Zenon
  <2> QED BY <2>1, SeenIsView, Zenon
<1> QED BY <1>3, <1>4, Zenon DEF Contract!Init

\* malloc, calloc, realloc and free keep HeapContract, for all sizes, alignments and
\* request sequences: regions in use never overlap, and every byte the client reads is
\* the one last stored there, through splits, merges, moves and failures of sbrk.
THEOREM ImplementsContract == Spec => KeepsContract
<1>1. Init => IInv /\ ClientRight /\ Contract!Init
  BY InitContract, InitIInv, Zenon
<1>2. IInv /\ [Next]_vars => IInv'
  BY NextIInv
<1>3. IInv /\ ClientRight /\ [Next]_vars => ClientRight'
  BY NextClient, Zenon DEF vars, ClientRight, Block
<1>4. IInv /\ ClientRight /\ IInv' /\ ClientRight' /\ [Next]_vars => [Contract!Next]_SeenArea
  BY NextContract, Zenon DEF vars, SeenArea
<1> QED BY <1>1, <1>2, <1>3, <1>4, PTL DEF Spec, KeepsContract, Contract!Spec

-----------------------------------------------------------------------------
(* Calls that fail, from their first step to their last.                   *)

\* A list has only grown since itself.
LEMMA GrewNothing == ASSUME NEW h, WF(h), NEW old PROVE OnlyGrew(h, h, old)
<1>1. \A b \in InUse(h) : h.blk[b].size \in Nat
  BY Zenon DEF WF, Typed, InUse
<1>2. \A b \in InUse(h) : h.blk[b].size <= h.blk[b].size
  BY <1>1
<1> QED BY <1>2, Zenon DEF OnlyGrew

\* merge_next grows the block it is given and touches no other block in use.
LEMMA MergeGrows ==
  ASSUME NEW h, WF(h), NEW b \in DOMAIN h.blk
  PROVE  OnlyGrew(h, MergeNext(h, b), b)
<1> DEFINE m == MergeNext(h, b)
<1>1. Merged(h, b, m) /\ Tiles(m) = Tiles(h)
  BY MergeNextEffect, MergeNextTiling, Zenon
<1> HIDE DEF m
<1>2. InUse(m) = InUse(h)
  <2>1. \A x \in DOMAIN h.blk \ DOMAIN m.blk : h.blk[x].avail # 0
    <3>1. \A x \in DOMAIN h.blk \ DOMAIN m.blk : h.blk[x].avail = 1
      BY <1>1, Zenon DEF Merged
    <3> QED BY <3>1
  <2>2. \A x : x \in InUse(m) <=> x \in InUse(h)
    BY <1>1, <2>1, Zenon DEF Merged, InUse
  <2> QED BY <2>2, Zenon
<1>3. \A x \in InUse(h) : x # b => m.blk[x].size = h.blk[x].size
  BY <1>1, <1>2, Zenon DEF Merged, InUse
<1>4. \A x \in InUse(h) : h.blk[x].size <= m.blk[x].size
  <2>1. \A x \in InUse(h) : h.blk[x].size \in Nat
    BY Zenon DEF WF, Typed, InUse
  <2>2. h.blk[b].size <= m.blk[b].size
    BY <1>1, Zenon DEF Merged
  <2> QED BY <1>3, <2>1, <2>2
<1>5. OnlyGrew(h, m, b)
  BY <1>1, <1>2, <1>3, <1>4, Zenon DEF OnlyGrew
<1> QED BY <1>5 DEF m

\* A step that leaves everything but the search alone keeps what holds of it.
LEMMA SearchGoesOn ==
  ASSUME SearchKeeps, op # Idle, CallNext, SearchNext
  PROVE  SearchKeeps'
<1>1. /\ op' # Idle => found' = found
      /\ UNCHANGED <<heap, brk, mapped, data, live>>
  BY Zenon DEF CallNext, AtStart, SearchNext
<1>2. op' # Idle => op'.slot = op.slot /\ OldBlock' = OldBlock
  <2>1. op' = [op EXCEPT !.cur = heap.blk[op.cur].next]
    BY Zenon DEF SearchNext
  <2>2. op'.slot = op.slot
    BY <2>1
  <2> QED BY <1>1, <2>2, Zenon DEF OldBlock, Block
<1> QED BY <1>1, <1>2, Zenon DEF SearchKeeps

\* A call begins its search with all it found, but for the merge of realloc.
LEMMA SearchBegins ==
  ASSUME IInv, op = Idle, CallNext PROVE SearchKeeps'
<1>w. WF(heap) /\ \A r \in Slots : live[r].ptr # NULL => live[r].ptr - HDR \in DOMAIN heap.blk
  BY OwnershipFacts, Zenon
<1>s. SUFFICES ASSUME op' # Idle PROVE SearchKeeps'
  BY Zenon DEF SearchKeeps
<1>1. found' = Now
  BY <1>s, Zenon DEF CallNext, AtStart
<1>2. /\ found'.heap = heap /\ found'.live = live /\ found'.data = data
      /\ found'.brk = brk /\ found'.mapped = mapped
  BY <1>1, Zenon DEF Now
<1>3. ASSUME UNCHANGED <<heap, brk, mapped, data, live>> PROVE SearchKeeps'
  BY <1>2, <1>3, <1>w, GrewNothing, Zenon DEF SearchKeeps
<1>4. ASSUME NEW s \in Slots, NEW n \in Sizes, Malloc(s, n) PROVE SearchKeeps'
  BY <1>3, <1>4, Zenon DEF Malloc, Fail
<1>5. ASSUME NEW s \in Slots, NEW count \in Sizes, NEW n \in Sizes, Calloc(s, count, n)
      PROVE  SearchKeeps'
  BY <1>3, <1>5, Zenon DEF Calloc, Fail
<1>6. ASSUME NEW s \in Slots, NEW n \in Sizes, Realloc(s, n) PROVE SearchKeeps'
  <2> DEFINE b == live[s].ptr - HDR
  <2>1. b \in DOMAIN heap.blk
    BY <1>6, <1>w, Zenon DEF Realloc
  <2>2. /\ heap' = MergeNext(heap, b)
        /\ StartSearch("realloc", s, n, heap.blk[b].size)
        /\ UNCHANGED <<brk, mapped, data, live>>
    BY <1>6, <1>s, Zenon DEF Realloc, Fail, Block
  <2>3. op'.slot = s
    BY <2>2 DEF StartSearch
  <2>4. OldBlock' = b
    BY <1>s, <2>2, <2>3, Zenon DEF OldBlock, Block
  <2>5. OnlyGrew(heap, heap', b)
    BY <1>w, <2>1, <2>2, MergeGrows, Zenon
  <2> QED BY <1>2, <2>2, <2>4, <2>5, Zenon DEF SearchKeeps
<1>7. ASSUME NEW s \in Slots, Free(s) \/ Write(s) PROVE FALSE
  BY <1>7, <1>s, Zenon DEF Free, Write
<1>8. ~(SearchNext \/ SearchFound \/ Grow \/ GrowFails)
  BY Zenon DEF SearchNext, SearchFound, Grow, GrowFails
<1> QED BY <1>4, <1>5, <1>6, <1>7, <1>8, Zenon DEF CallNext, Next

\* Only the search is taken on while a call is in progress.
LEMMA StepsOfCall ==
  ASSUME op # Idle, Next
  PROVE  SearchNext \/ op' = Idle
BY Zenon DEF Next, Malloc, Calloc, Realloc, Free, Write, SearchFound, Grow, GrowFails, Fail, Place

\* What a call has found stays found until it ends.
LEMMA NextSearchKeeps ==
  ASSUME IInv, SearchKeeps, [CallNext]_callVars PROVE SearchKeeps'
<1>1. CASE UNCHANGED callVars
  <2>1. /\ UNCHANGED <<heap, brk, mapped, data, live>>
        /\ op' = op /\ found' = found
    BY <1>1, Zenon DEF callVars, vars
  <2>2. OldBlock' = OldBlock
    BY <2>1, Zenon DEF OldBlock, Block
  <2> QED BY <2>1, <2>2, Zenon DEF SearchKeeps
<1>2. CASE CallNext /\ op = Idle
  BY <1>2, SearchBegins, Zenon
<1>3. CASE CallNext /\ op # Idle
  <2>1. CASE op' = Idle
    BY <2>1, Zenon DEF SearchKeeps
  <2>2. CASE SearchNext
    BY <1>3, <2>2, SearchGoesOn, Zenon
  <2> QED BY <1>3, <2>1, <2>2, StepsOfCall, Zenon DEF CallNext
<1> QED BY <1>1, <1>2, <1>3, Zenon

\* A step that reports ENOMEM changes nothing itself.
LEMMA FailsStill ==
  ASSUME Next, ret' = "ENOMEM"
  PROVE  UNCHANGED <<heap, brk, mapped, data, live>>
<1>1. ASSUME NEW s \in Slots, NEW n \in Sizes, Malloc(s, n) \/ Realloc(s, n)
      PROVE  UNCHANGED <<heap, brk, mapped, data, live>>
  BY <1>1, Zenon DEF Malloc, Realloc, Fail, StartSearch
<1>2. ASSUME NEW s \in Slots, NEW count \in Sizes, NEW n \in Sizes, Calloc(s, count, n)
      PROVE  UNCHANGED <<heap, brk, mapped, data, live>>
  BY <1>2, Zenon DEF Calloc, Fail, StartSearch
<1>3. ASSUME NEW s \in Slots, Free(s) \/ Write(s)
      PROVE  FALSE
  BY <1>3 DEF Free, Write
<1>4. CASE SearchNext \/ GrowFails
  BY <1>4, Zenon DEF SearchNext, GrowFails, Fail
<1>5. CASE SearchFound \/ Grow
  <2>1. ret' = "ok"
    BY <1>5, Zenon DEF SearchFound, Grow, Place
  <2> QED BY <2>1
<1> QED BY <1>1, <1>2, <1>3, <1>4, <1>5, Zenon DEF Next

\* A malloc, calloc or realloc that returns NULL has, from its first step to its last,
\* changed no pointer and no byte of the client, obtained nothing from sbrk and taken
\* nothing from a block in use: at most realloc's block has grown by the merge.
THEOREM FailuresAreClean == CallSpec => FailureKeepsEverything
<1> DEFINE Kept == /\ live' = AtStart.live /\ data' = AtStart.data
                   /\ brk' = AtStart.brk /\ mapped' = AtStart.mapped
                   /\ OnlyGrew(AtStart.heap, heap', OldBlock)
<1>1. CallInit => IInv /\ SearchKeeps
  BY InitIInv, Zenon DEF CallInit, Init, SearchKeeps
<1>2. IInv /\ [CallNext]_callVars => IInv'
  <2>1. [CallNext]_callVars => [Next]_vars
    BY Zenon DEF CallNext, callVars
  <2> QED BY <2>1, NextIInv
<1>3. IInv /\ SearchKeeps /\ [CallNext]_callVars => SearchKeeps'
  BY NextSearchKeeps, Zenon
<1>4. IInv /\ SearchKeeps /\ [CallNext]_callVars => [ret' = "ENOMEM" => Kept]_callVars
  <2> SUFFICES ASSUME IInv, SearchKeeps, CallNext, ret' = "ENOMEM" PROVE Kept
    BY Zenon
  <2>1. UNCHANGED <<heap, brk, mapped, data, live>>
    BY FailsStill, Zenon DEF CallNext
  <2>2. CASE op # Idle
    BY <2>1, <2>2, Zenon DEF SearchKeeps, AtStart
  <2>3. CASE op = Idle
    <3>1. AtStart = Now
      BY <2>3, Zenon DEF AtStart
    <3>2. /\ AtStart.heap = heap /\ AtStart.live = live /\ AtStart.data = data
          /\ AtStart.brk = brk /\ AtStart.mapped = mapped
      BY <3>1, Zenon DEF Now
    <3>3. WF(heap)
      BY OwnershipFacts, Zenon
    <3> QED BY <2>1, <3>2, <3>3, GrewNothing, Zenon
  <2> QED BY <2>2, <2>3, Zenon
<1> HIDE DEF Kept
<1>5. CallSpec => [][ret' = "ENOMEM" => Kept]_callVars
  BY <1>1, <1>2, <1>3, <1>4, PTL DEF CallSpec
<1> QED BY <1>5 DEF FailureKeepsEverything, Kept
=============================================================================
