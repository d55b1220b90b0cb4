---------------------------- MODULE MachineProofs ----------------------------
(****************************************************************************)
(* Proofs about the emulator's table of files in Machine: whatever a        *)
(* program opens, closes and duplicates, in any order and with any table    *)
(* size, a descriptor has a host file of its own.                           *)
(****************************************************************************)
EXTENDS Machine, TLAPS

\* The time the provers are given for a leaf that names none.
USE SMTT(20), ZenonT(20)

-----------------------------------------------------------------------------
(* The table of files.                                                     *)

\* The inductive invariant: FdsOwnHostFiles, and what the entries are.
FilesRight ==
  /\ fds \in [0 .. MAX_HOST_FILES - 1 -> Int]
  /\ \A i \in DOMAIN fds : fds[i] = -1 \/ fds[i] \in Nat
  /\ host \subseteq Nat /\ lost \subseteq Nat
  /\ FdsOwnHostFiles

\* The three standard descriptors at the start.
LEMMA InitFiles == Init => FilesRight
<1> SUFFICES ASSUME Init PROVE FilesRight
  BY Zenon
<1>1. /\ fds = [i \in 0 .. MAX_HOST_FILES - 1 |-> IF i < 3 THEN i ELSE -1]
      /\ host = 0 .. 2 /\ lost = {}
  BY Zenon DEF Init
<1>2. {fds[i] : i \in DOMAIN fds} \ {-1} = 0 .. 2
  BY <1>1, HostAssumption
<1> QED BY <1>1, <1>2, HostAssumption DEF FilesRight, FdsOwnHostFiles

\* A new host descriptor, put in a free entry.
LEMMA StoreFd ==
  ASSUME FilesRight, NEW i \in Slots, NEW h \in HostFree,
         fds' = [fds EXCEPT ![i] = h], host' = host \cup {h}, lost' = lost
  PROVE  FilesRight'
<1>1. /\ fds \in [0 .. MAX_HOST_FILES - 1 -> Int] /\ i \in DOMAIN fds /\ fds[i] = -1
      /\ h \in Nat /\ h \notin host /\ h # -1 /\ host \subseteq Nat /\ lost \subseteq Nat
      /\ \A j \in DOMAIN fds : fds[j] = -1 \/ fds[j] \in Nat
  BY HostAssumption DEF FilesRight, Slots, HostFree
<1>2. /\ fds' \in [0 .. MAX_HOST_FILES - 1 -> Int] /\ DOMAIN fds' = DOMAIN fds
      /\ fds'[i] = h /\ \A j \in DOMAIN fds : j # i => fds'[j] = fds[j]
  BY <1>1
<1>3. /\ \A j, k \in DOMAIN fds : j # k /\ fds[j] # -1 => fds[j] # fds[k]
      /\ host = ({fds[j] : j \in DOMAIN fds} \ {-1}) \cup lost
      /\ lost \cap {fds[j] : j \in DOMAIN fds} = {}
  BY Zenon DEF FilesRight, FdsOwnHostFiles
<1>4. \A j \in DOMAIN fds : fds[j] # -1 => fds[j] \in host
  BY <1>3, Zenon
<1>5. \A j, k \in DOMAIN fds' : j # k /\ fds'[j] # -1 => fds'[j] # fds'[k]
  BY <1>1, <1>2, <1>3, <1>4
<1>6. {fds'[j] : j \in DOMAIN fds'} \ {-1} = ({fds[j] : j \in DOMAIN fds} \ {-1}) \cup {h}
  BY <1>1, <1>2, Zenon
<1>7. host' = ({fds'[j] : j \in DOMAIN fds'} \ {-1}) \cup lost'
  BY <1>3, <1>6, Zenon
<1>8. lost' \cap {fds'[j] : j \in DOMAIN fds'} = {}
  BY <1>1, <1>2, <1>3
<1>9. host' \subseteq Nat /\ lost' \subseteq Nat /\ \A j \in DOMAIN fds' : fds'[j] = -1 \/ fds'[j] \in Nat
  BY <1>1, <1>2, Zenon
<1> QED BY <1>2, <1>5, <1>7, <1>8, <1>9, Zenon DEF FilesRight, FdsOwnHostFiles

\* close gives back the descriptor that the entry alone held.
LEMMA CloseFiles ==
  ASSUME FilesRight, NEW i \in DOMAIN fds, fds[i] # -1,
         host' = host \ {fds[i]}, fds' = [fds EXCEPT ![i] = -1], lost' = lost
  PROVE  FilesRight'
<1>1. /\ fds \in [0 .. MAX_HOST_FILES - 1 -> Int]
      /\ host \subseteq Nat /\ lost \subseteq Nat
      /\ \A j \in DOMAIN fds : fds[j] = -1 \/ fds[j] \in Nat
      /\ \A j, k \in DOMAIN fds : j # k /\ fds[j] # -1 => fds[j] # fds[k]
      /\ host = ({fds[j] : j \in DOMAIN fds} \ {-1}) \cup lost
      /\ lost \cap {fds[j] : j \in DOMAIN fds} = {}
  BY Zenon DEF FilesRight, FdsOwnHostFiles
<1>2. /\ fds' \in [0 .. MAX_HOST_FILES - 1 -> Int] /\ DOMAIN fds' = DOMAIN fds
      /\ fds'[i] = -1 /\ \A j \in DOMAIN fds : j # i => fds'[j] = fds[j]
  BY <1>1
<1>3. -1 \notin lost /\ fds[i] \notin lost
  <2>1. -1 \notin Nat
    OBVIOUS
  <2> QED BY <1>1, <2>1
<1>4. \A j, k \in DOMAIN fds' : j # k /\ fds'[j] # -1 => fds'[j] # fds'[k]
  BY <1>1, <1>2
<1>5. {fds'[j] : j \in DOMAIN fds'} \ {-1} = ({fds[j] : j \in DOMAIN fds} \ {-1}) \ {fds[i]}
  BY <1>1, <1>2
<1>6. host' = ({fds'[j] : j \in DOMAIN fds'} \ {-1}) \cup lost'
  BY <1>1, <1>3, <1>5, Zenon
<1>7. lost' \cap {fds'[j] : j \in DOMAIN fds'} = {}
  BY <1>1, <1>2, <1>3
<1>8. host' \subseteq Nat /\ lost' \subseteq Nat /\ \A j \in DOMAIN fds' : fds'[j] = -1 \/ fds'[j] \in Nat
  BY <1>1, <1>2, Zenon
<1> QED BY <1>2, <1>4, <1>6, <1>7, <1>8, Zenon DEF FilesRight, FdsOwnHostFiles

\* dup on a full table: the new descriptor belongs to no entry.
LEMMA LoseFd ==
  ASSUME FilesRight, NEW h \in HostFree, fds' = fds, host' = host \cup {h}, lost' = lost \cup {h}
  PROVE  FilesRight'
<1>1. h \in Nat /\ h \notin host /\ h # -1
  BY HostAssumption DEF HostFree
<1>2. /\ host \subseteq Nat /\ lost \subseteq Nat
      /\ host = ({fds[j] : j \in DOMAIN fds} \ {-1}) \cup lost
      /\ lost \cap {fds[j] : j \in DOMAIN fds} = {}
  BY Zenon DEF FilesRight, FdsOwnHostFiles
<1>3. h \notin {fds[j] : j \in DOMAIN fds}
  BY <1>1, <1>2, Zenon
<1>4. /\ host' = ({fds'[j] : j \in DOMAIN fds'} \ {-1}) \cup lost'
      /\ lost' \cap {fds'[j] : j \in DOMAIN fds'} = {}
      /\ host' \subseteq Nat /\ lost' \subseteq Nat
  BY <1>1, <1>2, <1>3, Zenon
<1> QED BY <1>4, Zenon DEF FilesRight, FdsOwnHostFiles

\* What no call but open, close and dup changes.
LEMMA OtherFiles ==
  /\ \A code : Die(code) => files' = files
  /\ \A v : Answers(v) => files' = files
  /\ \A v, at, bytes : Delivers(v, at, bytes) => files' = files
  /\ \A at : StatFill(at) => files' = files
BY Zenon DEF Die, Answers, Delivers, StatFill

\* Every step but openat and dup keeps the table in order.
LEMMA OtherSteps == FilesRight /\ [Next]_vars /\ ~OpenCall /\ ~DupCall => FilesRight'
<1> SUFFICES ASSUME FilesRight, [Next]_vars, ~OpenCall, ~DupCall PROVE FilesRight'
  BY Zenon
<1>s. ASSUME files' = files PROVE FilesRight'
  BY <1>s, Zenon DEF files, FilesRight, FdsOwnHostFiles
<1>1. CASE SetupStack \/ Start \/ NextPiece
  <2>1. CASE SetupStack
    BY <2>1, <1>s, Zenon DEF SetupStack
  <2>2. CASE Start
    BY <2>2, <1>s, Zenon DEF Start
  <2>3. CASE NextPiece
    BY <2>3, <1>s, Zenon DEF NextPiece
  <2> QED BY <1>1, <2>1, <2>2, <2>3, Zenon
<1>2. CASE Insn
  <2>1. PICK i, at : Execute(i, at)
    BY <1>2, Zenon DEF Insn
  <2> QED BY <2>1, <1>s, OtherFiles, Zenon DEF Execute
<1>3. CASE WriteCall
  BY <1>3, <1>s, OtherFiles, Zenon DEF WriteCall, Given
<1>4. CASE ReadCall
  BY <1>4, <1>s, OtherFiles, Zenon DEF ReadCall
<1>5. CASE ExitCall
  BY <1>5, <1>s, OtherFiles, Zenon DEF ExitCall
<1>6. CASE BrkCall
  BY <1>6, <1>s, Zenon DEF BrkCall
<1>7. CASE SbrkCall
  BY <1>7, <1>s, OtherFiles, Zenon DEF SbrkCall
<1>8. CASE MmapCall
  BY <1>8, <1>s, OtherFiles, Zenon DEF MmapCall
<1>10. CASE CloseCall
  <2>1. CASE Fd >= 3 /\ Named(Fd)
    <3>1. /\ host' = host \ {fds[Fd]} /\ fds' = [fds EXCEPT ![Fd] = -1] /\ lost' = lost
      BY <1>10, <2>1, Zenon DEF CloseCall
    <3>2. Fd \in 0 .. MAX_HOST_FILES - 1 /\ fds[Fd] >= 0
      BY <2>1, Zenon DEF Named
    <3>3. Fd \in DOMAIN fds /\ fds[Fd] # -1
      BY <3>2 DEF FilesRight
    <3> QED BY <3>1, <3>3, CloseFiles, Zenon
  <2>2. CASE ~(Fd >= 3 /\ Named(Fd))
    BY <1>10, <2>2, <1>s, OtherFiles, Zenon DEF CloseCall
  <2> QED BY <2>1, <2>2, Zenon
<1>12. CASE FileCall
  BY <1>12, <1>s, OtherFiles, Zenon DEF FileCall
<1>13. CASE PathCall
  BY <1>13, <1>s, OtherFiles, Zenon DEF PathCall, Given
<1>14. CASE InfoCall
  <2>1. CASE \E byte \in HostByte : Delivers(0, Arg(A0), IF Arg(A0) = 0 THEN <<>> ELSE Same(byte, 16))
    <3>1. PICK byte, bytes : bytes = (IF Arg(A0) = 0 THEN <<>> ELSE Same(byte, 16)) /\ Delivers(0, Arg(A0), bytes)
      BY <2>1
    <3> QED BY <3>1, <1>s, OtherFiles, Zenon
  <2>2. CASE \E byte \in HostByte : Delivers(0, Arg(A1), Same(byte, 16))
    BY <2>2, <1>s, OtherFiles, Zenon
  <2>3. CASE Delivers(0, Arg(A1), Same(0, 8) \o Little(1000, 8))
    BY <2>3, <1>s, OtherFiles
  <2>4. CASE \E byte \in HostByte : Delivers(0, Arg(A0), Same(byte, Arg(A1)))
    BY <2>4, <1>s, OtherFiles, Zenon
  <2>5. CASE Given(Span(Arg(A0), 16), Answers(0))
    BY <2>5, <1>s, OtherFiles, Zenon DEF Given
  <2>6. CASE \/ Answers(-1)
             \/ \E l \in 1 .. PATH - 1, byte \in HostByte :
                   IF l + 1 > Arg(A1) THEN Answers(-34) ELSE Delivers(l, Arg(A0), Append(Same(byte, l), 0))
    BY <2>6, <1>s, OtherFiles, Zenon
  <2>7. CASE Delivers(0, Arg(A2), CASE Arg(A1) = 21505 -> Same(0, 12) \o Little(10, 4) \o Same(0, 44)
                                    [] Arg(A1) = 21523 -> Little(24, 2) \o Little(80, 2)
                                    [] OTHER -> <<>>)
    BY <2>7, <1>s, OtherFiles
  <2> QED BY <1>14, <2>1, <2>2, <2>3, <2>4, <2>5, <2>6, <2>7 DEF InfoCall
<1>15. CASE OtherCall
  BY <1>15, <1>s, OtherFiles, Zenon DEF OtherCall
<1>16. CASE Stopped \/ UNCHANGED vars
  BY <1>16, <1>s, Zenon DEF Stopped, vars, files
<1> QED
  BY <1>1, <1>2, <1>3, <1>4, <1>5, <1>6, <1>7, <1>8, <1>10, <1>12, <1>13,
     <1>14, <1>15, <1>16, Zenon DEF Next

-----------------------------------------------------------------------------
(* The calls that take the lowest free descriptor.                            *)

INSTANCE WellFoundedInduction

\* A set of naturals that is not empty has a least member, and Min is it.
LEMMA MinMember ==
  ASSUME NEW S, S \subseteq Nat, S # {}
  PROVE  Min(S) \in S
<1> DEFINE R == OpToRel(<, Nat)
<1>1. \E x \in S : \A y \in S : ~(<<y, x>> \in R)
  BY NatLessThanWellFounded, WFMin, Zenon
<1>2. \A x, y \in Nat : <<y, x>> \in R <=> y < x
  BY DEF OpToRel
<1> HIDE DEF R
<1>3. PICK x \in S : \A y \in S : ~(<<y, x>> \in R)
  BY <1>1, Zenon
<1>4. ASSUME NEW y \in S PROVE x <= y
  <2>1. x \in Nat /\ y \in Nat /\ ~(y < x)
    BY <1>2, <1>3, Zenon
  <2> QED BY <2>1
<1> QED BY <1>4, Zenon DEF Min

\* What Min gives of the free entries and of the free descriptors.
LEMMA MinFree ==
  ASSUME FilesRight
  PROVE  /\ Slots # {} => Min(Slots) \in Slots
         /\ HostFree # {} => Min(HostFree) \in HostFree
<1>1. Slots \subseteq Nat /\ HostFree \subseteq Nat
  BY HostAssumption DEF Slots, HostFree
<1> QED BY <1>1, MinMember, Zenon

\* openat takes the lowest free host file for the lowest free descriptor.
LEMMA OpenFiles == FilesRight /\ HostFree # {} /\ OpenIn(Min(HostFree)) => FilesRight'
<1> SUFFICES ASSUME FilesRight, HostFree # {}, OpenIn(Min(HostFree)) PROVE FilesRight'
  BY Zenon
<1>1. CASE Slots = {}
  BY <1>1, Zenon DEF OpenIn, files, FilesRight, FdsOwnHostFiles
<1>2. CASE Slots # {}
  <2>1. /\ fds' = [fds EXCEPT ![Min(Slots)] = Min(HostFree)]
        /\ host' = host \cup {Min(HostFree)} /\ lost' = lost
    BY <1>2, Zenon DEF OpenIn
  <2> QED BY <1>2, <2>1, MinFree, StoreFd, Zenon
<1> QED BY <1>1, <1>2, Zenon

\* dup, in its three cases.
LEMMA DupFiles == FilesRight /\ DupCall => FilesRight'
<1> SUFFICES ASSUME FilesRight, DupCall PROVE FilesRight'
  BY Zenon
<1>1. \/ fds' = fds /\ host' = host /\ lost' = lost
      \/ /\ HostFree # {} /\ Slots # {}
         /\ fds' = [fds EXCEPT ![Min(Slots)] = Min(HostFree)]
         /\ host' = host \cup {Min(HostFree)} /\ lost' = lost
      \/ /\ HostFree # {} /\ fds' = fds
         /\ host' = host \cup {Min(HostFree)} /\ lost' = lost \cup {Min(HostFree)}
  BY Zenon DEF DupCall, Answers, files
<1>2. CASE fds' = fds /\ host' = host /\ lost' = lost
  BY <1>2, Zenon DEF FilesRight, FdsOwnHostFiles
<1>3. CASE /\ HostFree # {} /\ Slots # {}
           /\ fds' = [fds EXCEPT ![Min(Slots)] = Min(HostFree)]
           /\ host' = host \cup {Min(HostFree)} /\ lost' = lost
  BY <1>3, MinFree, StoreFd, Zenon
<1>4. CASE /\ HostFree # {} /\ fds' = fds
           /\ host' = host \cup {Min(HostFree)} /\ lost' = lost \cup {Min(HostFree)}
  BY <1>4, MinFree, LoseFd, Zenon
<1> QED BY <1>1, <1>2, <1>3, <1>4, Zenon

\* Every step keeps the table in order.
LEMMA NextFiles == FilesRight /\ [Next]_vars => FilesRight'
<1>1. FilesRight /\ OpenCall => FilesRight'
  <2> SUFFICES ASSUME FilesRight, OpenCall PROVE FilesRight'
    BY Zenon
  <2>1. ASSUME files' = files PROVE FilesRight'
    BY <2>1, Zenon DEF files, FilesRight, FdsOwnHostFiles
  <2> QED BY <2>1, OtherFiles, OpenFiles, Zenon DEF OpenCall, Given
<1> QED BY <1>1, DupFiles, OtherSteps, Zenon

\* Under every program and every answer of the host, open, close and dup keep g_fds and
\* the host's descriptors in step: no entry names a closed or foreign descriptor, no two
\* name the same, and none is leaked except by dup on a full table.
THEOREM DescriptorsKept == Spec => []FdsOwnHostFiles
<1>1. FilesRight => FdsOwnHostFiles
  BY Zenon DEF FilesRight
<1> QED BY <1>1, InitFiles, NextFiles, PTL DEF Spec
=============================================================================
