----------------------------- MODULE MCMachine ------------------------------
EXTENDS Machine

T0 == 5
T1 == 6
T2 == 7
RA == 1
In(op, d, a, b, n) == C!I(op, d, a, b, n, "d")
Li(r, v) == C!Li(r, v)

MCForeign ==
    LET g(form, f3, f7, opcode) == [form |-> form, f3 |-> f3, f7 |-> f7, opcode |-> opcode]
    IN  [ori |-> g("I", 6, 0, 19), andi |-> g("I", 7, 0, 19), addiw |-> g("I", 0, 0, 27), slliw |-> g("shift", 1, 0, 27),
         srliw |-> g("shift", 5, 0, 27), sraiw |-> g("shift", 5, 32, 27), addw |-> g("R", 0, 0, 59), subw |-> g("R", 0, 32, 59),
         sllw |-> g("R", 1, 0, 59), srlw |-> g("R", 5, 0, 59), sraw |-> g("R", 5, 32, 59), mulw |-> g("R", 0, 1, 59),
         divw |-> g("R", 4, 1, 59), divuw |-> g("R", 5, 1, 59), remw |-> g("R", 6, 1, 59), remuw |-> g("R", 7, 1, 59),
         fsgnjn |-> g("R", 1, 16, 83), fsgnjx |-> g("R", 2, 16, 83), fmin |-> g("R", 0, 40, 83), fmax |-> g("R", 1, 40, 83),
         zero |-> g("R", 0, 0, 0)]

-----------------------------------------------------------------------------
(* Pieces of one or a few instructions, with operands at the edges and     *)
(* immediates on both sides of twelve bits.                                *)

Pairs == {<<5, 3>>, <<-7, 2>>, <<12345, -30000>>, <<-32768, -1>>, <<2047, 0>>}
Offsets == {0, -16, 40, 2047, -2049, 2600, -3000, -12345}
Bases == {T0, C!T6}

Arithmetic ==
    {<<Li(T0, p[1]), Li(T1, p[2]), In(op, T2, T0, T1, 0)>> :
        p \in Pairs, op \in DOMAIN C!ROps \cup {"addw", "subw", "sllw", "srlw", "sraw", "mulw", "divw", "divuw", "remw", "remuw"}}
    \cup {<<Li(a, 77), In("addi", d, a, 0, n)>> : a \in Bases \cup {0}, d \in {T0, T2}, n \in Offsets \ {0}}
    \cup {<<Li(T0, p[1]), In(op, T2, T0, 0, n)>> :
            p \in Pairs, op \in {"slti", "sltiu", "xori", "ori", "andi", "addiw"}, n \in {-2048, 2047}}
    \cup {<<Li(T0, p[1]), In(op, T2, T0, 0, n)>> :
            p \in Pairs, op \in {"slli", "srli", "srai", "slliw", "srliw", "sraiw"}, n \in {1, 7}}
    \cup {<<In(op, T2, 0, 0, n)>> : op \in {"lui", "auipc"}, n \in {1, 1048575}}

Accesses ==
    {<<Li(a, 3800 - n), Li(T1, -22222), In(st, 0, a, T1, n), In(ld, T2, a, 0, n)>> :
        a \in Bases, n \in Offsets, <<st, ld>> \in
            {<<"sb", "lb">>, <<"sb", "lbu">>, <<"sh", "lh">>, <<"sh", "lhu">>, <<"sw", "lw">>, <<"sw", "lwu">>, <<"sd", "ld">>}}
    \cup {<<Li(a, 3800 - n), Li(T1, 7), C!I("fcvt.f.l", 1, T1, 0, 0, fmt), C!I(st, 0, a, 1, n, fmt), C!I(ld, 2, a, 0, n, fmt)>> :
            a \in Bases, n \in Offsets, <<st, ld, fmt>> \in {<<"fsd", "fld", "d">>, <<"fsw", "flw", "s">>}}
    \cup {<<Li(T0, at), In(op, T1, T0, T1, 0)>> : at \in {2000, 4095, 8190, -8}, op \in {"ld", "sd", "lb"}}

Floating ==
    LET ops == {"fadd", "fsub", "fmul", "fdiv", "fsgnj", "fsgnjn", "fsgnjx", "fmin", "fmax", "fneg", "feq", "flt", "fle"}
    IN  {<<Li(T0, p[1]), C!I("fcvt.f.l", 0, T0, 0, p[3], fmt), Li(T1, p[2]), C!I("fcvt.f.l", 1, T1, 0, 0, fmt), C!I(op, 2, 0, 1, 0, fmt)>> :
            p \in {<<5, -2, 0>>, <<-7, 0, 2>>, <<3, 3, 1>>}, op \in ops, fmt \in {"d", "s"}}
        \cup {<<Li(T0, n), C!I("fmv.f.x", 0, T0, 0, 0, fmt), C!I(op, 2, 0, 0, 0, fmt)>> :
                n \in {37, -37}, op \in {"fcvt.l.f", "fcvt.w.f", "fmv.x.f", "fcvt.s.d", "fcvt.d.s"}, fmt \in {"d", "s"}}
        \cup {<<Li(T0, -37), C!I("fmv.f.x", 0, T0, 0, 0, fmt), C!I("fcvt.l.f", 2, 0, 0, 1, fmt)>> : fmt \in {"d", "s"}}

Wide == In("addi", T2, T2, 0, 5000)
Widest == In("addi", T2, T2, 0, 1234567890)
Flow ==
    {<<Li(T0, p[1]), Li(T1, p[2]), In(op, 0, T0, T1, n), Wide, Wide>> : p \in Pairs \cup {<<4, 4>>}, op \in BranchOps, n \in 1 .. 3}
    \cup {<<Li(T0, 2), Wide, In("addi", T0, T0, 0, -1), In(op, 0, T0, 0, -2)>> : op \in {"bne", "blt"}}
    \cup {<<Li(T0, 2), In("beq", 0, T0, 0, 3), In("addi", T0, T0, 0, -1), In("jal", 0, 0, 0, -2), Wide>>}
    \cup {<<In("jal", RA, 0, 0, 3), Wide, In("jal", 0, 0, 0, 3), Wide, In("jalr", 0, RA, 0, 0)>>}
    \cup {<<In("beq", 0, 0, 0, 101)>> \o [k \in 1 .. 100 |-> Widest] \o <<Wide>>}
    \cup {<<In("jal", 0, 0, 0, 176)>> \o [k \in 1 .. 175 |-> Widest] \o <<Wide>>}
    \cup {<<In(op, 0, 0, 0, 0)>> : op \in {"fence", "ebreak", "zero"}}

-----------------------------------------------------------------------------
(* System calls; the registers are cleared after each.                     *)

Clear == [k \in 1 .. 4 |-> Li(<<10, 11, 12, 17>>[k], 0)]
Do(name, args) == C!Wrapper(name, args) \o Clear

Files == {Do("open", <<4000, 0, 0>>)} \cup {Do(name, <<fd>>) : name \in {"close", "dup"}, fd \in {0, 3, 4}}

Memory ==
    {Do("sbrk", <<n>>) : n \in {64, 100, 60, -40, -2000}} \cup {Do("brk", <<n>>) : n \in {0, 1090, 1500}}
    \cup {Do("mmap", <<at, n, 0, 0, 0, 0>>) : at \in {1200, 8100}, n \in {130, 5000}}
    \cup {<<Li(T0, n), In("lb", T1, T0, 0, 0), Li(T0, 0), Li(T1, 0)>> : n \in {1024, 1100}}

Others ==
    {Do(name, args) : name \in {"write", "read"}, args \in ({0, 1, 3} \X {4000, 8192} \X {0, 2})}
    \cup {Do(name, <<fd, at, 0>>) : name \in {"lseek", "ftruncate", "fstat"}, fd \in {1, 4, -1}, at \in {3600, 8180}}
    \cup {Do(name, <<at, to, 0>>) :
            name \in {"open", "chdir", "unlink", "access", "truncate2", "rename", "stat"}, at \in {3700, 1000}, to \in {3600, 8100}}
    \cup {Do(name, <<at, at, 3600>>) :
            name \in {"gettimeofday", "clock_gettime", "clock_getres", "nanosleep", "getentropy", "getcwd"}, at \in {0, 3, 3600, 8190}}
    \cup {Do("ioctl", <<0, n, at>>) : n \in {21505, 21506, 21523}, at \in {3600, 8190}}
    \cup {Do(name, <<1, 2, 3>>) : name \in {"yield", "munmap", "fcntl", "isatty", "getpid", "fork", "pipe", "poll"}}

Session(args, menu, most) == [args |-> args, menu |-> menu, most |-> most]
MCSessions ==
    {Session(args, {}, 0) : args \in {<<<<1>>>>, <<<<1, 2>>, <<>>>>, <<<<3>>, <<1, 2, 3>>, <<2>>>>, <<<<1>>, <<2>>, <<3>>, <<1, 1>>, <<2>>>>}}
    \cup {Session(<<<<1>>>>, menu, 1) : menu \in {Arithmetic, Accesses, Floating, Flow, Others}}
    \cup {Session(<<<<1>>>>, Files, 5), Session(<<<<1>>>>, Memory, 3)}
MCHostByte == {0, 3}
=============================================================================
