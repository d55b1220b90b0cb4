------------------------------- MODULE Alloc -------------------------------
(***************************************************************************)
(* The single-threaded heap of libonyxc (memory/alloc.c).  The compiler's   *)
(* freestanding runtime (core/shim.c) holds a second copy of the algorithm, *)
(* which differs only in how much it asks of sbrk: GRANULE and MINEXTENT.   *)
(*                                                                          *)
(* A block is named by the byte address of its header.  The block list, its *)
(* two end pointers and every header field are explicit, so a stale link or *)
(* a wrong size shows.  The search loop of malloc is one step per           *)
(* iteration; the rest of a call is straight-line code and is one step.     *)
(***************************************************************************)
EXTENDS Integers, FiniteSets

CONSTANTS
    ALIGN,      \* alignment of blocks and sizes (16 in the code)
    HDR,        \* sizeof(block_t)               (32)
    GRANULE,    \* an extent is a multiple of it (65536; 4096 in shim.c)
    MINEXTENT,  \* smallest extent               (65536 in both)
    MAXREQ,     \* largest request malloc tries  (LONG_MAX - HDR - 65551)
    SIZEMAX,    \* (size_t)-1
    BRK0,       \* the program break at start, any byte address
    BRKLIMIT,   \* bound: where sbrk refuses to go on
    Slots,      \* the pointer variables of the client
    Sizes       \* bound: the request sizes the client uses

NULL == 0

ASSUME AlignAssumption == ALIGN \in Nat \ {0} /\ HDR \in Nat \ {0}
ASSUME ExtentAssumption == GRANULE \in Nat \ {0} /\ MINEXTENT \in Nat
ASSUME DivisorAssumption == HDR % ALIGN = 0 /\ GRANULE % ALIGN = 0 /\ MINEXTENT % ALIGN = 0
ASSUME RequestAssumption == MAXREQ \in Nat /\ SIZEMAX \in Nat /\ Sizes \subseteq Nat
ASSUME BreakAssumption == BRK0 \in Nat \ {0} /\ BRKLIMIT \in Nat

VARIABLES
    heap,   \* [blk, first, last]: headers by address, first_block, last_block
    brk,    \* the program break
    mapped, \* history: the bytes sbrk handed to the allocator
    data,   \* the bytes that hold client data, and whose
    live,   \* what each client variable points at
    op,     \* the call in progress, or Idle
    ret     \* how the last call ended

vars == <<heap, brk, mapped, data, live, op, ret>>

Zero == "zero"          \* what calloc fills with
Garbage == "garbage"    \* bytes memcpy moves that the client never wrote
Idle == [kind |-> "idle"]
Nothing == [ptr |-> NULL, req |-> 0, valid |-> 0, val |-> Garbage]

RoundUp(n, unit) == ((n + unit - 1) \div unit) * unit

----------------------------------------------------------------------------
(* Operations on the block list.                                           *)

End(h, b) == b + HDR + h.blk[b].size

\* Mutant: without the test that the next block touches this one.
MergesAcrossGap(h, b) ==
    LET n == h.blk[b].next IN n # NULL /\ h.blk[n].avail = 1

\* merge_next's two early returns, negated.
Merges(h, b) ==
    LET n == h.blk[b].next IN n # NULL /\ h.blk[n].avail = 1 /\ End(h, b) = n

\* Mutant: last_block and the back link are left behind.
MergeNextStale(h, b) ==
    LET n == h.blk[b].next
    IN  IF ~Merges(h, b) THEN h
        ELSE [h EXCEPT !.blk = [x \in DOMAIN h.blk \ {n} |->
                 IF x = b THEN [h.blk[b] EXCEPT !.next = h.blk[n].next,
                                                !.size = @ + HDR + h.blk[n].size]
                 ELSE h.blk[x]]]

\* merge_next: absorb the next block if it is available and starts where b ends.
MergeNext(h, b) ==
    LET n  == h.blk[b].next
        nn == h.blk[n].next
    IN  IF ~Merges(h, b)
        THEN h
        ELSE [blk   |-> [x \in DOMAIN h.blk \ {n} |->
                 [size  |-> IF x = b THEN h.blk[b].size + HDR + h.blk[n].size
                                     ELSE h.blk[x].size,
                  next  |-> IF x = b THEN nn ELSE h.blk[x].next,
                  prev  |-> IF x = nn THEN b ELSE h.blk[x].prev,
                  avail |-> h.blk[x].avail]],
              first |-> h.first,
              last  |-> IF nn = NULL THEN b ELSE h.last]

\* Mutant: no room is kept for the header of the rest.
SplitsAlways(h, b, n) == h.blk[b].size >= n

\* split_block's early return.
Splits(h, b, n) == h.blk[b].size - n >= HDR + ALIGN

\* The links after the tail of b beyond n bytes became the block rest.
CutBlock(h, b, n) ==
    LET rest == b + HDR + n
        nx   == h.blk[b].next
    IN  [blk   |-> [x \in DOMAIN h.blk \cup {rest} |->
             IF x = rest
             THEN [size |-> h.blk[b].size - n - HDR, next |-> nx,
                   prev |-> b, avail |-> 1]
             ELSE [size  |-> IF x = b THEN n ELSE h.blk[x].size,
                   next  |-> IF x = b THEN rest ELSE h.blk[x].next,
                   prev  |-> IF x = nx THEN rest ELSE h.blk[x].prev,
                   avail |-> h.blk[x].avail]],
         first |-> h.first,
         last  |-> IF nx = NULL THEN rest ELSE h.last]

\* split_block: cut, then merge the rest with its own successor.
SplitBlock(h, b, n) ==
    IF Splits(h, b, n) THEN MergeNext(CutBlock(h, b, n), b + HDR + n) ELSE h

\* The bytes a split takes from b: the header it writes, and the payload of rest.
SplitTakes(h, b, n) ==
    IF Splits(h, b, n) THEN (b + HDR + n) .. (End(h, b) - 1) ELSE {}

SetAvail(h, b, v) ==
    [blk   |-> [x \in DOMAIN h.blk |->
         [size |-> h.blk[x].size, next |-> h.blk[x].next, prev |-> h.blk[x].prev,
          avail |-> IF x = b THEN v ELSE h.blk[x].avail]],
     first |-> h.first,
     last  |-> h.last]

\* Mutant: the block found stays available.
TakeBlockUnmarked(h, b, size) == SplitBlock(h, b, size)

\* The end of malloc: split the block found, mark it used.
TakeBlock(h, b, size) == SetAvail(SplitBlock(h, b, size), b, 0)

\* Mutant: no merge into the predecessor.
FreeBlockForward(h, b) == MergeNext(SetAvail(h, b, 1), b)

\* free: release the block, merge it forwards, then merge it into its predecessor.
FreeBlock(h, b) ==
    LET h2 == MergeNext(SetAvail(h, b, 1), b)
        p  == h2.blk[b].prev
    IN  IF p # NULL /\ h2.blk[p].avail = 1 THEN MergeNext(h2, p) ELSE h2

\* Mutant: the header is not subtracted from the extent.
AppendWhole(h, b, extent) ==
    [blk   |-> [x \in DOMAIN h.blk \cup {b} |->
         IF x = b
         THEN [size |-> extent, next |-> NULL, prev |-> h.last, avail |-> 1]
         ELSE [h.blk[x] EXCEPT !.next = IF x = h.last THEN b ELSE @]],
     first |-> IF h.last = NULL THEN b ELSE h.first,
     last  |-> b]

\* malloc appends the new extent at the tail of the list, without merging.
AppendExtent(h, b, extent) ==
    [blk   |-> [x \in DOMAIN h.blk \cup {b} |->
         IF x = b
         THEN [size |-> extent - HDR, next |-> NULL, prev |-> h.last, avail |-> 1]
         ELSE [size  |-> h.blk[x].size,
               next  |-> IF x = h.last THEN b ELSE h.blk[x].next,
               prev  |-> h.blk[x].prev,
               avail |-> h.blk[x].avail]],
     first |-> IF h.last = NULL THEN b ELSE h.first,
     last  |-> b]

\* Mutant: sizes are not rounded.
RoundedNot(n) == IF n = 0 THEN 1 ELSE n

\* The size malloc searches for, and the extent it asks sbrk for.
Rounded(n) == RoundUp(IF n = 0 THEN 1 ELSE n, ALIGN)
ExtentFor(size) ==
    LET e == RoundUp(size + HDR, GRANULE) IN IF e < MINEXTENT THEN MINEXTENT ELSE e

----------------------------------------------------------------------------
(* Client data.                                                             *)

Payload(b, n) == (b + HDR) .. (b + HDR + n - 1)
Erase(d, S) == [u \in DOMAIN d \ S |-> d[u]]
Store(d, S, v) == [u \in DOMAIN d \cup S |-> IF u \in S THEN v ELSE d[u]]

\* Mutant: memcpy from the old block instead of its payload.
CopyFromHeader(d, from, to, n) ==
    LET src(u) == u - to + from - HDR
    IN  [u \in DOMAIN d \cup Payload(to, n) |->
            IF u \notin Payload(to, n) THEN d[u]
            ELSE IF src(u) \in DOMAIN d THEN d[src(u)] ELSE Garbage]

\* memcpy of n payload bytes; what was never written is garbage.
CopyPayload(d, from, to, n) ==
    LET src(u) == u - to + from
    IN  [u \in DOMAIN d \cup Payload(to, n) |->
            IF u \notin Payload(to, n) THEN d[u]
            ELSE IF src(u) \in DOMAIN d THEN d[src(u)] ELSE Garbage]

Block(s) == live[s].ptr - HDR

----------------------------------------------------------------------------
Init ==
    /\ heap = [blk |-> [x \in {} |-> Nothing], first |-> NULL, last |-> NULL]
    /\ brk = BRK0
    /\ mapped = {}
    /\ data = [x \in {} |-> Zero]
    /\ live = [s \in Slots |-> Nothing]
    /\ op = Idle
    /\ ret = "ok"

\* A call that fails changes nothing but errno.
Fail == ret' = "ENOMEM" /\ op' = Idle /\ UNCHANGED <<heap, brk, mapped, data, live>>

\* Enter malloc's search loop at the first block.
StartSearch(kind, s, n, old) ==
    /\ op' = [kind |-> kind, slot |-> s, n |-> n, cur |-> heap.first, old |-> old]
    /\ ret' = "busy"

\* malloc(n); realloc(NULL, n) is the same call.
Malloc(s, n) ==
    /\ op = Idle /\ live[s].ptr = NULL
    /\ \/ n > MAXREQ /\ Fail
       \/ /\ n <= MAXREQ
          /\ StartSearch("malloc", s, n, 0)
          /\ UNCHANGED <<heap, brk, mapped, data, live>>

\* calloc(count, n): refuse a product that overflows size_t.
Calloc(s, count, n) ==
    /\ op = Idle /\ live[s].ptr = NULL
    /\ LET overflow == n # 0 /\ count > SIZEMAX \div n
       IN  \/ (overflow \/ count * n > MAXREQ) /\ Fail
           \/ /\ ~overflow /\ count * n <= MAXREQ
              /\ StartSearch("calloc", s, count * n, 0)
              /\ UNCHANGED <<heap, brk, mapped, data, live>>

\* free(p); realloc(p, 0) is the same call.
Free(s) ==
    /\ op = Idle /\ live[s].ptr # NULL
    /\ heap' = FreeBlock(heap, Block(s))
    /\ data' = Erase(data, Payload(Block(s), heap.blk[Block(s)].size))
    /\ live' = [live EXCEPT ![s] = Nothing]
    /\ ret' = "ok"
    /\ UNCHANGED <<brk, mapped, op>>

\* Mutant: the old block is given up before the new one is found.
ReallocFreesFirst(s, n) ==
    /\ op = Idle /\ live[s].ptr # NULL /\ n # 0
    /\ LET b == Block(s)
           h == MergeNext(heap, b)
           rounded == RoundUp(n, ALIGN)
       IN  \/ n > MAXREQ /\ Fail
           \/ /\ n <= MAXREQ /\ h.blk[b].size >= rounded
              /\ heap' = SplitBlock(h, b, rounded)
              /\ data' = Erase(data, SplitTakes(h, b, rounded))
              /\ live' = [live EXCEPT ![s] =
                     [ptr |-> @.ptr, req |-> n,
                      valid |-> IF @.valid > n THEN n ELSE @.valid, val |-> @.val]]
              /\ ret' = "ok"
              /\ UNCHANGED <<brk, mapped, op>>
           \/ /\ n <= MAXREQ /\ h.blk[b].size < rounded
              /\ heap' = SetAvail(h, b, 1)
              /\ StartSearch("realloc", s, n, heap.blk[b].size)
              /\ UNCHANGED <<brk, mapped, data, live>>

\* realloc(p, n), n # 0: grow or shrink in place after absorbing a free successor,
\* otherwise enter malloc.  The block stays merged when malloc then fails.
Realloc(s, n) ==
    /\ op = Idle /\ live[s].ptr # NULL /\ n # 0
    /\ LET b == Block(s)
           h == MergeNext(heap, b)
           rounded == RoundUp(n, ALIGN)
       IN  \/ n > MAXREQ /\ Fail
           \/ /\ n <= MAXREQ /\ h.blk[b].size >= rounded
              /\ heap' = SplitBlock(h, b, rounded)
              /\ data' = Erase(data, SplitTakes(h, b, rounded))
              /\ live' = [live EXCEPT ![s] =
                     [ptr |-> @.ptr, req |-> n,
                      valid |-> IF @.valid > n THEN n ELSE @.valid, val |-> @.val]]
              /\ ret' = "ok"
              /\ UNCHANGED <<brk, mapped, op>>
           \/ /\ n <= MAXREQ /\ h.blk[b].size < rounded
              /\ heap' = h
              /\ StartSearch("realloc", s, n, heap.blk[b].size)
              /\ UNCHANGED <<brk, mapped, data, live>>

\* The loop body: this block does not do, go on to the next.
Fits(b) == heap.blk[b].avail = 1 /\ heap.blk[b].size >= Rounded(op.n)

\* Mutant: the search goes round.
SearchRing ==
    /\ op # Idle /\ op.cur # NULL /\ ~Fits(op.cur)
    /\ LET n == heap.blk[op.cur].next
       IN  op' = [op EXCEPT !.cur = IF n = NULL THEN heap.first ELSE n]
    /\ UNCHANGED <<heap, brk, mapped, data, live, ret>>

SearchNext ==
    /\ op # Idle /\ op.cur # NULL /\ ~Fits(op.cur)
    /\ op' = [op EXCEPT !.cur = heap.blk[op.cur].next]
    /\ UNCHANGED <<heap, brk, mapped, data, live, ret>>

\* malloc has its block b in heap h: split, mark it used, and return to the
\* caller, which is the client, calloc (memset) or realloc (memcpy, free).
Place(h, b, d) ==
    LET size == Rounded(op.n)
        h2   == TakeBlock(h, b, size)
        d2   == Erase(d, SplitTakes(h, b, size))
        s    == op.slot
        old  == Block(s)
        keep == live[s].valid
    IN  /\ \/ /\ op.kind = "malloc"
              /\ heap' = h2 /\ data' = d2
              /\ live' = [live EXCEPT ![s] = [ptr |-> b + HDR, req |-> op.n,
                                              valid |-> 0, val |-> Garbage]]
           \/ /\ op.kind = "calloc"
              /\ heap' = h2 /\ data' = Store(d2, Payload(b, op.n), Zero)
              /\ live' = [live EXCEPT ![s] = [ptr |-> b + HDR, req |-> op.n,
                                              valid |-> op.n, val |-> Zero]]
           \/ /\ op.kind = "realloc"
              /\ heap' = FreeBlock(h2, old)
              /\ data' = Erase(CopyPayload(d2, old, b, op.old),
                               Payload(old, h2.blk[old].size))
              /\ live' = [live EXCEPT ![s] = [ptr |-> b + HDR, req |-> op.n,
                                              valid |-> keep, val |-> @.val]]
        /\ op' = Idle /\ ret' = "ok"

SearchFound ==
    /\ op # Idle /\ op.cur # NULL /\ Fits(op.cur)
    /\ Place(heap, op.cur, data)
    /\ UNCHANGED <<brk, mapped>>

\* No block does: sbrk a new extent, align it, append it.
Grow ==
    /\ op # Idle /\ op.cur = NULL
    /\ LET extent == ExtentFor(Rounded(op.n))
           b      == RoundUp(brk, ALIGN)
       IN  /\ brk + extent + ALIGN - 1 <= BRKLIMIT
           /\ brk' = brk + extent + ALIGN - 1
           /\ mapped' = mapped \cup b .. (b + extent - 1)
           /\ Place(AppendExtent(heap, b, extent), b, Erase(data, b .. (b + HDR - 1)))

\* sbrk may refuse at any time.
GrowFails == op # Idle /\ op.cur = NULL /\ Fail

\* The client writes its whole allocation.
Write(s) ==
    /\ op = Idle /\ live[s].ptr # NULL
    /\ data' = Store(data, Payload(Block(s), live[s].req), s)
    /\ live' = [live EXCEPT ![s] =
           [ptr |-> @.ptr, req |-> @.req, valid |-> @.req, val |-> s]]
    /\ ret' = "ok"
    /\ UNCHANGED <<heap, brk, mapped, op>>

Next ==
    \/ \E s \in Slots, n \in Sizes : Malloc(s, n) \/ Realloc(s, n)
    \/ \E s \in Slots, count \in Sizes, n \in Sizes : Calloc(s, count, n)
    \/ \E s \in Slots : Free(s) \/ Write(s)
    \/ SearchNext \/ SearchFound \/ Grow \/ GrowFails

Spec == Init /\ [][Next]_vars

\* The program runs: a call that has started is carried on.
FairSpec == Spec /\ WF_vars(SearchNext \/ SearchFound \/ Grow \/ GrowFails)
----------------------------------------------------------------------------
(* Properties.                                                              *)

\* Every header holds numbers, and the flag is 0 or 1.
Typed(h) ==
    /\ \A b \in DOMAIN h.blk :
          /\ b \in Nat \ {0}
          /\ h.blk[b].size \in Nat /\ h.blk[b].next \in Nat
          /\ h.blk[b].prev \in Nat /\ h.blk[b].avail \in {0, 1}
    /\ h.first \in Nat /\ h.last \in Nat

\* Every variable stays in its type: headers hold sizes, links and a flag, the
\* call in progress is a malloc, calloc or realloc of a client variable.
TypeOK ==
    /\ Typed(heap)
    /\ brk \in Nat
    /\ mapped \subseteq Nat
    /\ DOMAIN data \subseteq Nat
    /\ \A u \in DOMAIN data : data[u] \in Slots \cup {Zero, Garbage}
    /\ live \in [Slots -> [ptr : Nat, req : Nat, valid : Nat,
                           val : Slots \cup {Zero, Garbage}]]
    /\ op \in {Idle} \cup [kind : {"malloc", "calloc", "realloc"}, slot : Slots,
                           n : Nat, cur : Nat, old : Nat]
    /\ ret \in {"ok", "busy", "ENOMEM"}

\* first_block and last_block are the lowest and the highest block, NULL if none.
EndsRight(h) ==
    LET B == DOMAIN h.blk IN
    /\ h.first = NULL <=> B = {}
    /\ h.last = NULL <=> B = {}
    /\ B # {} => h.first \in B /\ h.last \in B
    /\ \A b \in B : h.first <= b /\ b <= h.last

\* next leads to the block that follows in memory, which leads back.
NextRight(h) ==
    \A b \in DOMAIN h.blk :
        IF h.blk[b].next = NULL
        THEN b = h.last
        ELSE /\ h.blk[b].next \in DOMAIN h.blk
             /\ b < h.blk[b].next
             /\ h.blk[h.blk[b].next].prev = b
             /\ \A x \in DOMAIN h.blk : x <= b \/ h.blk[b].next <= x

\* previous is the inverse of next.
PrevRight(h) ==
    \A b \in DOMAIN h.blk :
        IF h.blk[b].prev = NULL
        THEN b = h.first
        ELSE h.blk[b].prev \in DOMAIN h.blk /\ h.blk[h.blk[b].prev].next = b

Linked(h) == EndsRight(h) /\ NextRight(h) /\ PrevRight(h)

\* Blocks do not overlap.
Separate(h) == \A b, c \in DOMAIN h.blk : b < c => End(h, b) <= c

\* b and its successor are not two touching available blocks.
Apart(h, b) == h.blk[b].avail = 0 \/ ~Merges(h, b)

\* No two available blocks touch: free and split merge all they can.
Coalesced(h) == \A b \in DOMAIN h.blk : Apart(h, b)

\* The bytes of all blocks, headers included.
Tiles(h) == UNION {b .. (End(h, b) - 1) : b \in DOMAIN h.blk}

\* The block list is intact after every step of malloc, free and realloc: sorted,
\* doubly linked, ends right, no two blocks overlapping.
HeapIntact == Linked(heap) /\ Separate(heap)

\* free leaves no two touching available blocks, even across contiguous extents.
FullyCoalesced == Coalesced(heap)

\* No byte obtained from sbrk is ever lost: blocks tile the extents exactly.
NoByteLost == mapped = Tiles(heap)

\* The blocks in use are exactly the ones the client holds, one pointer each, and
\* each is large enough for what was asked: no leak, no block handed out twice.
Ownership ==
    /\ \A s \in Slots : live[s].ptr # NULL =>
          /\ Block(s) \in DOMAIN heap.blk
          /\ heap.blk[Block(s)].avail = 0
          /\ live[s].req <= heap.blk[Block(s)].size
    /\ \A b \in DOMAIN heap.blk : heap.blk[b].avail = 0 =>
          \E s \in Slots : live[s].ptr = b + HDR
    /\ \A s, t \in Slots : live[s].ptr # NULL /\ live[s].ptr = live[t].ptr => s = t

\* All blocks lie below the program break, so a new extent is above them.
BelowBreak == brk >= 1 /\ \A b \in DOMAIN heap.blk : End(heap, b) <= brk

\* A malloc in progress looks at a block of the list; the variable it is for is
\* still empty, or, for realloc, still holds the old block.
CallRight ==
    op # Idle =>
        /\ op.cur = NULL \/ op.cur \in DOMAIN heap.blk
        /\ (live[op.slot].ptr # NULL) <=> (op.kind = "realloc")

\* The inductive invariant.
IInv == TypeOK /\ HeapIntact /\ FullyCoalesced /\ Ownership /\ BelowBreak /\ CallRight

\* What the contract needs beside IInv: the client reads no more than it asked
\* for, its block has the rounded size, and a realloc in progress copies all that
\* is defined and no more than the new block holds.
ClientRight ==
    /\ \A s \in Slots :
          /\ live[s].valid <= live[s].req
          /\ live[s].ptr = NULL => live[s].req = 0
          /\ live[s].ptr # NULL => RoundUp(live[s].req, ALIGN) <= heap.blk[Block(s)].size
    /\ op # Idle /\ op.kind = "realloc" =>
          /\ live[op.slot].valid <= op.old /\ live[op.slot].valid <= op.n
          /\ op.old <= Rounded(op.n)

\* Pointers handed out are aligned, whatever the program break was.
Aligned ==
    \A b \in DOMAIN heap.blk : b % ALIGN = 0 /\ heap.blk[b].size % ALIGN = 0

\* What the client sees of each variable: where it points and the bytes it reads.
SeenArea == [s \in Slots |->
    [ptr |-> live[s].ptr, len |-> live[s].req,
     seen |-> [i \in 0 .. (live[s].valid - 1) |->
                  IF live[s].ptr + i \in DOMAIN data THEN data[live[s].ptr + i]
                                                      ELSE Garbage]]]

Contract == INSTANCE HeapContract WITH area <- SeenArea

\* The heap implements the contract of malloc, calloc, realloc and free: regions
\* in use never overlap and every byte read is the one last stored.
KeepsContract == Contract!Spec

\* malloc's search always ends: the list it follows has no cycle.
CallsReturn == op # Idle ~> op = Idle
=============================================================================
