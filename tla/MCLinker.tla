------------------------------ MODULE MCLinker ------------------------------
(* Small objects and every short command line made of them.                *)
EXTENDS Linker

W(op) == Bits(op + 128 * 5 + 2^15)      \* an instruction: opcode, rd = 5, rs1 = 1
Sec(type, align, size, words) == [type |-> type, align |-> align, size |-> size, words |-> words]
Sym(name, flags, sec, value) == [name |-> name, flags |-> flags, sec |-> sec, value |-> value]
Rel(sec, type, off, sym, addend) ==
    [sec |-> sec, type |-> type, off |-> off, sym |-> sym, addend |-> addend]
Obj(secs, syms, relocs) ==
    [object |-> TRUE, ok |-> TRUE, secs |-> secs, syms |-> syms, relocs |-> relocs]

Global == {"DEFINED", "GLOBAL"}
Local == {"DEFINED", "LOCAL"}
Undef == {"UNDEF", "GLOBAL"}
Words(ws) == [x \in {4 * (i - 1) : i \in DOMAIN ws} |-> ws[(x \div 4) + 1]]

\* The program: loads v, compares and branches to f.
Main == Obj(<<Sec("text", 4, 20, Words(<<W(55), W(19), W(99), W(55), W(35)>>))>>,
            <<Sym("_start", Global, 1, 0), Sym("v", Undef, 0, 0), Sym("f", Undef, 0, 0)>>,
            <<Rel(1, "HI20", 0, 2, 2040), Rel(1, "LO12_I", 4, 2, 2040), Rel(1, "BRANCH", 8, 3, 0),
              Rel(1, "HI20", 12, 2, -20), Rel(1, "LO12_S", 16, 2, -20)>>)

\* The library: f in an aligned text section, v in data after a pointer to f.
Lib == Obj(<<Sec("text", 16, 12, Words(<<W(23), W(19), W(99)>>)), Sec("rodata", 1, 3, <<>>),
             Sec("data", 8, 16, Words(<<{}, {}, {}>>)), Sec("bss", 16, 5, <<>>)>>,
           <<Sym("f", Global, 1, 4), Sym("v", Global, 3, 12), Sym("", Local, 4, 0)>>,
           <<Rel(3, "64", 0, 1, 0), Rel(3, "32", 8, 2, -2), Rel(1, "PCREL_HI20", 0, 2, -4000),
             Rel(1, "PCREL_LO12_I", 4, 2, -3996), Rel(1, "BRANCH", 8, 1, -4)>>)

\* A second definition of f, and stores through a PC-relative pair.
Other == Obj(<<Sec("data", 0, 5, <<>>), Sec("text", 2, 10, Words(<<W(23), W(35)>>))>>,
             <<Sym("f", Global, 2, 0), Sym("v", {"DEFINED", "LOCAL", "GLOBAL"}, 1, 1)>>,
             <<Rel(2, "PCREL_HI20", 0, 2, 2047), Rel(2, "PCREL_LO12_S", 4, 2, 2051)>>)

\* A branch that is too far, a relocation in bss, an object that does not parse.
Far == Obj(<<Sec("text", 4, 4, Words(<<W(99)>>)), Sec("bss", 1, 3, <<>>)>>,
           <<Sym("g", Global, 1, 0)>>, <<Rel(1, "BRANCH", 0, 1, 4096)>>)
Near == [Far EXCEPT !.relocs = <<Rel(1, "BRANCH", 0, 1, 4094)>>]
InBss == [Far EXCEPT !.relocs = <<Rel(2, "32", 0, 1, 0)>>]
BadIndex == [Far EXCEPT !.relocs = <<Rel(1, "32", 0, 2, 0)>>]
Broken == [Lib EXCEPT !.ok = FALSE]
Text == [Broken EXCEPT !.object = FALSE]

\* A call backwards.
Caller == Obj(<<Sec("text", 4, 8, Words(<<W(19), W(111)>>))>>, <<Sym("_start", Global, 1, 0)>>,
              <<Rel(1, "JAL", 4, 1, 0)>>)
MCObjects == {Main, Lib, Other, Far, Near, InBss, BadIndex, Broken, Text, Caller}

File(o) == [kind |-> "object", object |-> o]
Archive(ms) == [kind |-> "archive", members |-> ms]

MCInputs == {File(Main), File(Lib), File(Other), File(Caller), Archive(<<Text, Lib, Broken, Near>>),
           Archive(<<Text, Broken>>), File(Far), File(InBss), File(BadIndex), File(Broken),
           [kind |-> "unreadable"], [kind |-> "unknown"], [kind |-> "ring1"], [kind |-> "output"], [kind |-> "help"],
           [kind |-> "entry", name |-> "g"]}

MCCommandLines == UNION {[1..n -> MCInputs] : n \in 0..3}

MCClaimInputs == {File(Caller), File(Main), File(Lib), Archive(<<Lib, Near>>)}
MCArguments == MCInputs \cup MCClaimInputs
MCClaimLines == UNION {[1..n -> MCClaimInputs] : n \in 1..2}

=============================================================================
