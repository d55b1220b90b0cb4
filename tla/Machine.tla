------------------------------- MODULE Machine -------------------------------
(***************************************************************************)
(* A process under onx-run: setup_stack and the start code, the words the  *)
(* compiler's encoders emit, fetched, decoded and executed one by one over *)
(* demand-mapped pages, and the system calls on the table of host files    *)
(* and the program break.                                                  *)
(*                                                                         *)
(* A program runs pieces, each a sequence of calls of the encoders; in a   *)
(* piece the n of a jump counts calls.  The words of a piece start at      *)
(* address 0.  Beside the machine runs the one that was asked for: it      *)
(* takes each call as one instruction.                                     *)
(***************************************************************************)
EXTENDS Hart

CONSTANTS
    Sessions,           \* [args, menu, most]: the command line, the pieces the program may run, and how many
    Foreign,            \* instructions of other assemblers: [op |-> [form, f3, f7, opcode]]
    MAX_HOST_FILES,     \* entries of g_fds
    HOST_MAX,           \* descriptors the host gives a process
    MAX_ARGS,           \* 63 in setup_stack
    PATH,               \* 1024: what is read of a path
    HostByte,           \* what a byte from the host may be
    PAGE, TOP,          \* page size and end of the address space
    HEAP, HEAPTOP,      \* first program break and its limit
    STACK, STACKTOP, STACKSIZE  \* first stack pointer, and the region mapped beforehand

\* The three standard descriptors have their entries.
ASSUME HostAssumption == MAX_HOST_FILES \in Nat /\ MAX_HOST_FILES >= 3 /\ HOST_MAX \in Nat

VARIABLES
    session,
    status,     \* "boot", "loaded", "running", "exited"
    exit,       \* exit code
    m, want,    \* the machine, and the one asked for
    text, ran,  \* the words of the piece: [w, last, call]; pieces run so far
    env,        \* what _start gives main
    fds, host,  \* g_fds, and the descriptors open on the host
    lost,       \* those of them no entry of g_fds names any more
    brk, pages

vars == <<session, status, exit, m, want, text, ran, env, fds, host, lost, brk, pages>>
files == <<fds, host, lost>>
program == <<session, text, ran, env>>

C == INSTANCE Syscalls
A0 == C!A0
A1 == C!A1
A2 == C!A2

Align16(v) == v - (v % 16)
PagesOf(S) == {x \div PAGE : x \in S}
Span(at, n) == at .. at + n - 1

-----------------------------------------------------------------------------
(* main and setup_stack.                                                   *)

Init ==
    /\ session \in Sessions
    /\ status = "boot" /\ exit = 0
    /\ m = [pc |-> 0, x |-> [r \in 0 .. 31 |-> 0], f |-> [r \in 0 .. 31 |-> 0], mem |-> <<>>]
    /\ want = m
    /\ text = <<>> /\ ran = 0 /\ env = [argc |-> 0, argv |-> 0, environ |-> 0]
    /\ fds = [i \in 0 .. MAX_HOST_FILES - 1 |-> IF i < 3 THEN i ELSE -1]
    /\ host = 0 .. 2 /\ lost = {}
    /\ brk = 0 /\ pages = {}

WriteBuf(mem, at, s) ==
    [b \in DOMAIN mem \cup Span(at, Len(s)) |-> IF b \in Span(at, Len(s)) THEN s[b - at + 1] ELSE mem[b]]
WriteSlots(mem, at, vs) ==
    FoldSet(LAMBDA k, acc : MemWrite(acc, at + 8 * (k - 1), vs[k], 8), mem, DOMAIN vs)

\* The strings from the top down, then argc, argv, NULL, an empty environment and
\* the auxiliary vector, above sixteen random bytes.
\* Mutant: the random bytes are inside the frame.
RandomAtTop(frame) == frame + 8
RandomAt(frame) == frame - 16
SetupStack ==
    LET n == IF Len(session.args) < MAX_ARGS THEN Len(session.args) ELSE MAX_ARGS
        string(k) == STACK - MapThenSumSet(LAMBDA j : Len(session.args[j]) + 1, 1 .. k)
        strings == FoldSet(LAMBDA k, acc : WriteBuf(acc, string(k), Append(session.args[k], 0)), m.mem, 1 .. n)
        frame == Align16(Align16(string(n)) - (16 + 32 + 8 + 8 + (n + 1) * 8))
        slots == WriteSlots(strings, frame, <<n>> \o [k \in 1 .. n |-> string(k)] \o <<0, 0>>)
    IN  /\ status = "boot"
        /\ status' = "loaded"
        /\ \E byte \in HostByte :
              LET random == WriteBuf(slots, RandomAt(frame), [k \in 1 .. 16 |-> byte])
                  mem == WriteSlots(random, frame + 8 * (n + 3), <<25, RandomAt(frame), 0, 0>>)
              IN  /\ m' = [m EXCEPT !.mem = mem, !.x[C!SP] = frame, !.x[A0] = n, !.x[A1] = frame + 8]
                  /\ pages' = PagesOf(DOMAIN mem \cup Span(STACKTOP - STACKSIZE, STACKSIZE))
        /\ want' = m'
        /\ brk' = HEAP
        /\ UNCHANGED <<exit, program, files>>

\* _start; setup_stack passes at least the program's name, so the default is not needed.
Start ==
    /\ status = "loaded"
    /\ status' = "running"
    /\ m.x[A0] # 0 /\ m.x[A1] # 0
    /\ env' = [argc |-> m.x[A0], argv |-> m.x[A1], environ |-> m.x[A1] + 8 * (m.x[A0] + 1)]
    /\ m' = [m EXCEPT !.x[A0] = 0, !.x[A1] = 0]
    /\ want' = m'
    /\ UNCHANGED <<session, text, ran, exit, files, brk, pages>>

-----------------------------------------------------------------------------
(* The words of a piece.                                                   *)

Jumps == BranchOps \cup {"jal"}

ForeignWord(i) ==
    LET g == Foreign[i.op]
    IN  CASE g.form = "I" -> C!IType(g.f3, i.d, i.a, i.n, g.opcode)
          [] g.form = "shift" -> C!RType(g.f3, g.f7, i.d, i.a, i.n, g.opcode)
          [] g.form = "R" -> C!RType(g.f3, g.f7 + (IF g.opcode = 83 /\ i.fmt = "d" THEN 1 ELSE 0), i.d, i.a, i.b, g.opcode)

\* A jump back is emitted with its distance, a jump forward is patched.
JumpWord(i, delta) ==
    CASE delta <= 0 -> C!Encode([i EXCEPT !.n = delta])
      [] i.op = "jal" -> C!PatchJal(C!Encode([i EXCEPT !.n = 0]), delta)
      [] OTHER -> C!PatchBranch(C!Encode([i EXCEPT !.n = 0]), delta)

\* Concatenation by halves, to stay shallow on long pieces.
Concat(ss) ==
    LET cat[lo, hi \in 1 .. Len(ss)] ==
            IF lo = hi THEN ss[lo] ELSE cat[lo, (lo + hi) \div 2] \o cat[(lo + hi) \div 2 + 1, hi]
    IN  IF ss = <<>> THEN <<>> ELSE cat[1, Len(ss)]

\* The words, and in the last word of each call the call, its jump counted in words.
Assemble(p) ==
    LET insns == [k \in DOMAIN p |-> C!Emitted(p[k])]
        StartOf(k) == Len(Concat(SubSeq(insns, 1, k - 1)))
        Distance(k) == StartOf(k + p[k].n) - StartOf(k)
        Words(k) ==
            IF p[k].op \in Jumps
            THEN <<[w |-> JumpWord(p[k], 4 * Distance(k)), last |-> TRUE, call |-> [p[k] EXCEPT !.n = Distance(k)]]>>
            ELSE [j \in DOMAIN insns[k] |->
                    [w |-> IF insns[k][j].op \in DOMAIN Foreign THEN ForeignWord(insns[k][j]) ELSE C!Encode(insns[k][j]),
                     last |-> j = Len(insns[k]), call |-> p[k]]]
    IN  Concat([k \in DOMAIN p |-> Words(k)])

\* The program goes on with a piece; after the last, main returns and exit is called.
NextPiece ==
    /\ status = "running" /\ m.pc = Len(text)
    /\ \E p \in IF ran < session.most THEN session.menu ELSE {C!Wrapper("exit", <<0>>)} : text' = Assemble(p)
    /\ ran' = ran + 1
    /\ m' = [m EXCEPT !.pc = 0]
    /\ want' = [want EXCEPT !.pc = 0]
    /\ UNCHANGED <<session, status, exit, env, files, brk, pages>>

-----------------------------------------------------------------------------
(* step.                                                                   *)

Readable(S) == S \subseteq 0 .. TOP - 1 /\ PagesOf(S) \subseteq pages
Writable(S) == S \subseteq 0 .. TOP - 1

\* What an instruction reads and writes; the address wraps as the registers do.
Stores == {"sb", "sh", "sw", "sd", "fsw", "fsd"}
Loads == DOMAIN Access \cup {"flw", "fld"}
Wrapped(mc, i) == IF i.op \in Loads \cup Stores THEN [i EXCEPT !.n = Ux(mc.x[i.a] + i.n, XLEN) - mc.x[i.a]] ELSE i
Touched(i) ==
    Span(m.x[i.a] + i.n, IF i.op \in DOMAIN Access THEN Access[i.op].n ELSE Width[i.op])

Die(code) ==
    /\ status' = "exited" /\ exit' = code
    /\ UNCHANGED <<program, m, want, files, brk, pages>>

Traps == [ebreak |-> 133, illegal |-> 132]

\* One word that is not a system call; the machine asked for steps with the last word of a call.
Execute(i, at) ==
    \/ /\ i.op \in DOMAIN Traps
       /\ Die(Traps[i.op])
    \/ /\ (i.op \in Loads /\ ~Readable(Touched(i))) \/ (i.op \in Stores /\ ~Writable(Touched(i)))
       /\ Die(139)
    \/ /\ i.op \notin DOMAIN Traps
       /\ i.op \in Loads => Readable(Touched(i))
       /\ i.op \in Stores => Writable(Touched(i))
       /\ m' = Step(m, i)
       /\ pages' = IF i.op \in Stores THEN pages \cup PagesOf(Touched(i)) ELSE pages
       /\ want' = IF ~at.last THEN want
                  ELSE [Step(want, Wrapped(want, at.call)) EXCEPT !.pc = IF at.call.op \in Jumps \cup {"jalr"} THEN @ ELSE m.pc + 1]
       /\ UNCHANGED <<program, status, exit, files, brk>>

\* A branch or jal counts bytes in the word, instructions in Hart.
InWords(i) == IF i.op \in Jumps THEN [i EXCEPT !.n = @ \div 4] ELSE i

Insn ==
    /\ status = "running" /\ m.pc < Len(text)
    /\ \E i \in {Wrapped(m, InWords(C!Decode(text[m.pc + 1].w)))} :
          i.op # "ecall" /\ Execute(i, text[m.pc + 1])

-----------------------------------------------------------------------------
(* do_syscall.                                                             *)

Calling(name) ==
    /\ status = "running" /\ m.pc < Len(text)
    /\ text[m.pc + 1].w = C!Bits(115)
    /\ m.x[C!A7] = C!Number(name)

Arg(r) == Ux(m.x[r], XLEN)
Fd == Sx(m.x[A0], 4 * BYTE)
Named(fd) == fd \in 0 .. MAX_HOST_FILES - 1 /\ fds[fd] >= 0

\* The result in a0, the memory and the pages after the call.
Returns(v, mem, mapped) ==
    /\ m' = [m EXCEPT !.x[A0] = v, !.mem = mem, !.pc = @ + 1]
    /\ want' = m'
    /\ pages' = pages \cup PagesOf(mapped)
    /\ UNCHANGED <<program, status, exit>>
Answers(v) == Returns(v, m.mem, {}) /\ UNCHANGED <<files, brk>>
Delivers(v, at, bytes) ==
    IF Writable(Span(at, Len(bytes)))
    THEN Returns(v, WriteBuf(m.mem, at, bytes), Span(at, Len(bytes))) /\ UNCHANGED <<files, brk>>
    ELSE Die(139)
\* A call that first reads memory.
Given(S, Action) == IF Readable(S) THEN Action ELSE Die(139)

Little(v, n) == [k \in 1 .. n |-> (v \div 2^(BYTE * (k - 1))) % 2^BYTE]
Same(byte, n) == [k \in 1 .. n |-> byte]

\* mem_read_str: up to a zero, or to the end of the buffer.
Str(at) == at .. at + Min({k \in 0 .. PATH - 2 : k = PATH - 2 \/ ~Readable({at + k}) \/ MemRead(m.mem, at + k, 1) = 0})

WriteCall ==
    /\ Calling("write")
    /\ Given(Span(Arg(A1), Arg(A2)),
             \E n \in IF Fd \in {1, 2} THEN 0 .. Arg(A2) ELSE IF Named(Fd) THEN -1 .. Arg(A2) ELSE {-9} : Answers(n))

\* The standard input gives one byte at a time.
ReadCall ==
    /\ Calling("read")
    /\ \/ Fd = 0 /\ (Answers(0) \/ \E byte \in HostByte : Delivers(1, Arg(A1), <<byte>>))
       \/ Fd # 0 /\ Named(Fd)
          /\ (Answers(-1) \/ \E n \in 0 .. Arg(A2), byte \in HostByte : Delivers(n, Arg(A1), Same(byte, n)))
       \/ Fd # 0 /\ ~Named(Fd) /\ Answers(-9)

ExitCall ==
    /\ Calling("exit")
    /\ Die(Arg(A0))

\* The pages that a walk from one address in steps of a page meets.
Walk(from, to) == {a \in from .. to - 1 : (a - from) % PAGE = 0}

BrkCall ==
    /\ Calling("brk")
    /\ LET grows == Arg(A0) > brk /\ Arg(A0) < HEAPTOP
       IN  /\ brk' = IF grows THEN Arg(A0) ELSE brk
           /\ Returns(brk', m.mem, IF grows THEN Walk(brk, Arg(A0)) ELSE {})
           /\ UNCHANGED files

SbrkCall ==
    /\ Calling("sbrk")
    /\ LET inc == m.x[A0]
           nb == IF inc >= 0 THEN brk + inc ELSE IF brk > -inc THEN brk + inc ELSE HEAP
       IN  IF nb > HEAPTOP THEN Answers(-12)
           ELSE /\ brk' = nb
                /\ Returns(brk, m.mem, Walk(brk, nb))
                /\ UNCHANGED files

MmapCall ==
    /\ Calling("mmap")
    /\ LET walk == Walk(Arg(A0), Ux(Arg(A0) + Arg(A1), XLEN))
       IN  IF Arg(A1) > HEAPTOP THEN Answers(-12)
           ELSE IF ~Writable(walk) THEN Die(139)
           ELSE Returns(m.x[A0], m.mem, walk) /\ UNCHANGED <<files, brk>>

-----------------------------------------------------------------------------
(* The table of files.                                                     *)

\* The host gives the lowest free descriptor, or none.
HostFree == {h \in 0 .. HOST_MAX - 1 : h \notin host}
Slots == {i \in 3 .. MAX_HOST_FILES - 1 : fds[i] = -1}

\* Mutant: a descriptor that finds no entry is not given back to the host.
OpenInLeaky(h) ==
    IF Slots = {} THEN host' = host \cup {h} /\ UNCHANGED <<fds, lost>> /\ Returns(-24, m.mem, {})
    ELSE /\ fds' = [fds EXCEPT ![Min(Slots)] = h]
         /\ host' = host \cup {h} /\ UNCHANGED lost
         /\ Returns(Min(Slots), m.mem, {})
OpenIn(h) ==
    IF Slots = {} THEN UNCHANGED files /\ Returns(-24, m.mem, {})
    ELSE /\ fds' = [fds EXCEPT ![Min(Slots)] = h]
         /\ host' = host \cup {h} /\ UNCHANGED lost
         /\ Returns(Min(Slots), m.mem, {})

OpenCall ==
    /\ Calling("open")
    /\ Given(Str(Arg(A0)), Answers(-2) \/ (HostFree # {} /\ OpenIn(Min(HostFree)) /\ UNCHANGED brk))

CloseCall ==
    /\ Calling("close")
    /\ IF Fd >= 3 /\ Named(Fd)
       THEN /\ host' = host \ {fds[Fd]}
            /\ fds' = [fds EXCEPT ![Fd] = -1]
            /\ Returns(0, m.mem, {})
            /\ UNCHANGED <<lost, brk>>
       ELSE Answers(-9)

\* A full table loses the new descriptor; a descriptor the host refuses is stored as -1.
DupCall ==
    /\ Calling("dup")
    /\ IF ~Named(Fd) THEN Answers(-9)
       ELSE /\ \/ /\ HostFree # {} /\ Slots # {}
                  /\ fds' = [fds EXCEPT ![Min(Slots)] = Min(HostFree)]
                  /\ host' = host \cup {Min(HostFree)}
                  /\ UNCHANGED lost
               \/ /\ HostFree # {} /\ Slots = {}
                  /\ host' = host \cup {Min(HostFree)}
                  /\ lost' = lost \cup {Min(HostFree)}
                  /\ UNCHANGED fds
               \/ HostFree = {} /\ UNCHANGED files
            /\ Returns(IF Slots = {} THEN -1 ELSE Min(Slots), m.mem, {})
            /\ UNCHANGED brk

\* do_stat_fill, with a hole of four bytes.
StatFill(at) ==
    \E byte \in HostByte :
        IF ~Writable(Span(at, 120)) THEN Die(139)
        ELSE Returns(0, WriteBuf(WriteBuf(m.mem, at, Same(byte, 32) \o Same(0, 4)), at + 40,
                                 Same(byte, 40) \o Same(0, 8) \o Same(byte, 8) \o Same(0, 8) \o Same(byte, 8) \o Same(0, 8)),
                     Span(at, 120))
             /\ UNCHANGED <<files, brk>>

FileCall ==
    \/ /\ Calling("lseek") \/ Calling("ftruncate")
       /\ \E v \in IF Named(Fd) THEN {-1, 0} ELSE {-9} : Answers(v)
    \/ /\ Calling("fstat")
       /\ IF Named(Fd) THEN Answers(-2) \/ StatFill(Arg(A1)) ELSE Answers(-9)

PathCall ==
    \/ /\ Calling("chdir") \/ Calling("unlink") \/ Calling("access")
       /\ Given(Str(Arg(A0)), Answers(0) \/ Answers(-2))
    \/ Calling("truncate2") /\ Given(Str(Arg(A0)), Answers(0) \/ Answers(-1))
    \/ Calling("rename") /\ Given(Str(Arg(A0)) \cup Str(Arg(A1)), Answers(0) \/ Answers(-2))
    \/ Calling("stat") /\ Given(Str(Arg(A0)), Answers(-2) \/ StatFill(Arg(A1)))

-----------------------------------------------------------------------------
(* What only writes memory, and what does nothing.                         *)

InfoCall ==
    \/ Calling("gettimeofday") /\ \E byte \in HostByte : Delivers(0, Arg(A0), IF Arg(A0) = 0 THEN <<>> ELSE Same(byte, 16))
    \/ Calling("clock_gettime") /\ \E byte \in HostByte : Delivers(0, Arg(A1), Same(byte, 16))
    \/ Calling("clock_getres") /\ Delivers(0, Arg(A1), Same(0, 8) \o Little(1000, 8))
    \/ Calling("nanosleep") /\ Given(Span(Arg(A0), 16), Answers(0))
    \/ /\ Calling("ioctl")
       /\ Delivers(0, Arg(A2), CASE Arg(A1) = 21505 -> Same(0, 12) \o Little(10, 4) \o Same(0, 44)
                                 [] Arg(A1) = 21523 -> Little(24, 2) \o Little(80, 2)
                                 [] OTHER -> <<>>)
    \/ /\ Calling("getcwd")
       /\ \/ Answers(-1)
          \/ \E l \in 1 .. PATH - 1, byte \in HostByte :
                IF l + 1 > Arg(A1) THEN Answers(-34) ELSE Delivers(l, Arg(A0), Append(Same(byte, l), 0))
    \/ Calling("getentropy") /\ \E byte \in HostByte : Delivers(0, Arg(A0), Same(byte, Arg(A1)))

Handled ==
    {"write", "read", "exit", "brk", "sbrk", "mmap", "open", "close", "dup", "lseek", "ftruncate", "fstat", "chdir", "unlink",
     "access", "truncate2", "rename", "stat", "gettimeofday", "clock_gettime", "clock_getres", "nanosleep", "ioctl", "getcwd",
     "getentropy"}
Constant == [yield |-> 0, munmap |-> 0, fcntl |-> 0, isatty |-> 1, getpid |-> 2]

OtherCall ==
    \E name \in DOMAIN C!Calls \ Handled :
        Calling(name) /\ Answers(IF name \in DOMAIN Constant THEN Constant[name] ELSE -38)

Stopped == status = "exited" /\ UNCHANGED vars

Next ==
    \/ SetupStack \/ Start \/ NextPiece \/ Insn
    \/ WriteCall \/ ReadCall \/ ExitCall \/ BrkCall \/ SbrkCall \/ MmapCall
    \/ OpenCall \/ CloseCall \/ DupCall \/ FileCall \/ PathCall \/ InfoCall \/ OtherCall
    \/ Stopped

Spec == Init /\ [][Next]_vars

-----------------------------------------------------------------------------

\* Between two calls of the encoders the machine is where one that takes each call as a
\* single instruction is: the words, with their split immediates and patched distances,
\* decoded and executed one by one, do what was asked, and disturb only t5 and t6.
RunsAsMeant ==
    status = "running" /\ (m.pc = 0 \/ text[m.pc].last) =>
        /\ want.pc = m.pc
        /\ want.f = m.f /\ want.mem = m.mem
        /\ \A r \in 0 .. 29 : want.x[r] = m.x[r]

\* main finds in argv the strings of the command line, each ended by a zero, as many as
\* argc says (at most MAX_ARGS), then NULL, and an empty environment, whatever the random bytes are.
ArgsArrive ==
    status = "running" /\ ran = 0 =>
        /\ env.argc = Min({Len(session.args), MAX_ARGS})
        /\ \A k \in 1 .. env.argc :
              LET s == MemRead(m.mem, env.argv + 8 * (k - 1), 8)
              IN  \A j \in 1 .. Len(session.args[k]) + 1 :
                     MemRead(m.mem, s + j - 1, 1) = Append(session.args[k], 0)[j]
        /\ MemRead(m.mem, env.argv + 8 * env.argc, 8) = 0
        /\ MemRead(m.mem, env.environ, 8) = 0

\* Every host descriptor opened for the program is in exactly one entry of g_fds, and
\* every entry in use is an open descriptor; only dup on a full table loses one.
FdsOwnHostFiles ==
    /\ \A i, j \in DOMAIN fds : i # j /\ fds[i] # -1 => fds[i] # fds[j]
    /\ host = ({fds[i] : i \in DOMAIN fds} \ {-1}) \cup lost
    /\ lost \cap {fds[i] : i \in DOMAIN fds} = {}
=============================================================================
