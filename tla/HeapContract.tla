---------------------------- MODULE HeapContract ----------------------------
(***************************************************************************)
(* What malloc, calloc, realloc and free promise their client, with no      *)
(* block list: every pointer in use names a region that overlaps no other,  *)
(* and the bytes read through it are the ones last put there.               *)
(***************************************************************************)
EXTENDS Integers

CONSTANTS Slots, Zero

VARIABLE area   \* Slots -> [ptr, len, seen]: seen[i] is byte i, as far as defined

NULL == 0
NoArea == [ptr |-> NULL, len |-> 0, seen |-> [i \in {} |-> Zero]]

Region(a) == a.ptr .. (a.ptr + a.len - 1)

\* s has a region in ar that overlaps no other client region.
Fresh(ar, s) ==
    /\ ar[s].ptr # NULL
    /\ \A t \in Slots \ {s} : Region(ar[s]) \cap Region(ar[t]) = {}

Init == area = [s \in Slots |-> NoArea]

OnlyChanges(s) == \A t \in Slots \ {s} : area'[t] = area[t]

\* malloc: a region somewhere, contents undefined.
Allocate(s) ==
    /\ area[s] = NoArea
    /\ Fresh(area', s) /\ area'[s].seen = NoArea.seen
    /\ OnlyChanges(s)

\* calloc: a region somewhere, all zero.
AllocateZero(s) ==
    /\ area[s] = NoArea
    /\ Fresh(area', s) /\ area'[s].seen = [i \in 0 .. (area'[s].len - 1) |-> Zero]
    /\ OnlyChanges(s)

\* realloc: perhaps elsewhere, the common prefix unchanged.
Resize(s) ==
    /\ area[s] # NoArea
    /\ Fresh(area', s)
    /\ area'[s].seen =
         [i \in {j \in DOMAIN area[s].seen : j < area'[s].len} |-> area[s].seen[i]]
    /\ OnlyChanges(s)

Release(s) == area[s] # NoArea /\ area'[s] = NoArea /\ OnlyChanges(s)

\* The client writes the whole region.
Write(s) ==
    /\ area[s] # NoArea
    /\ area' = [area EXCEPT ![s].seen = [i \in 0 .. (area[s].len - 1) |-> s]]

Next == \E s \in Slots :
    Allocate(s) \/ AllocateZero(s) \/ Resize(s) \/ Release(s) \/ Write(s)

Spec == Init /\ [][Next]_area
=============================================================================
