----------------------------- MODULE AllocCalls -----------------------------
(***************************************************************************)
(* Alloc with a history variable, so that the end of a call can be compared *)
(* with its start: malloc's search takes many steps, and realloc changes    *)
(* the block list before it knows whether malloc will succeed.              *)
(***************************************************************************)
EXTENDS Alloc

VARIABLE found  \* history: the state that the call in progress began in, or NoCall

callVars == <<vars, found>>

NoCall == "none"
Now == [heap |-> heap, brk |-> brk, mapped |-> mapped, data |-> data, live |-> live]

\* What the call that ends or goes on with this step began with.
AtStart == IF op = Idle THEN Now ELSE found

CallInit == Init /\ found = NoCall
CallNext == Next /\ found' = IF op' = Idle THEN NoCall ELSE AtStart
CallSpec == CallInit /\ [][CallNext]_callVars

----------------------------------------------------------------------------
InUse(h) == {b \in DOMAIN h.blk : h.blk[b].avail = 0}

\* The block a realloc in progress is to replace; no block for malloc and calloc.
OldBlock == IF op = Idle THEN NULL ELSE Block(op.slot)

\* From the list g to the list h no block in use came, went, moved or shrank, only
\* the block old grew, and the blocks cover the same bytes.
OnlyGrew(g, h, old) ==
    /\ InUse(h) = InUse(g)
    /\ \A b \in InUse(g) : /\ g.blk[b].size <= h.blk[b].size
                           /\ b # old => h.blk[b].size = g.blk[b].size
    /\ Tiles(h) = Tiles(g)

\* While a call goes on, all that has changed since it began is that the block a
\* realloc is to replace may have grown.
SearchKeeps ==
    op # Idle =>
        /\ live = found.live /\ data = found.data
        /\ brk = found.brk /\ mapped = found.mapped
        /\ OnlyGrew(found.heap, heap, OldBlock)

\* A call that returns NULL, after however many steps, leaves what it found: the
\* client's pointers and bytes, the break, and the blocks in use.  A realloc whose
\* malloc fails has merged the free successor into the old block by then, which
\* may have grown that block and nothing else.
FailureKeepsEverything ==
    [][ret' = "ENOMEM" =>
          /\ live' = AtStart.live /\ data' = AtStart.data
          /\ brk' = AtStart.brk /\ mapped' = AtStart.mapped
          /\ OnlyGrew(AtStart.heap, heap', OldBlock)]_callVars
=============================================================================
