# Verification of the Onyx compiler, its tools and its C library

This directory holds TLA+ specifications of the programs in this repository,
TLC configurations that check them on small instances, and TLAPS proofs of the
results that do not depend on the size of the instance.

## The system

`onyxcc` is a one-pass C compiler for RISC-V 64. A source file goes through the
preprocessor (`src/back/pp.c`) and the lexer; the parser (`src/front`,
`src/back/gen.c`) has no syntax tree and emits code while it reads. All input
files and the library's source are compiled into one set of sections and one
symbol table. At the end addresses are assigned, references are patched, and
one `.onx` image is written (`src/back/emit.c`). `onyx-ld` is a separate linker
for object files. `onx-run` is an emulator: it loads an image, interprets its
instructions and answers its system calls. `libonyxc` is the C library of the
compiled programs; the compiler's own runtime (`src/core/shim.c`) has a second
copy of its heap.

Everything is sequential. What makes these programs hard is not concurrency but
order: code is emitted before its targets are known, operands sit in registers
that later code destroys, reads run ahead of a client that then writes, any
system call may fail or do half of its work, and files and blocks share names.

## Modules

| Module | Models | State and actions |
| --- | --- | --- |
| `Alloc` | `libonyxc/src/memory/alloc.c`, and `shim.c` 58-150 with other constants | the block list with every header field, the break, the client's pointers and bytes; `Malloc`, `Calloc`, `Realloc`, `Free`, one step per turn of the search, `Grow` or `GrowFails` |
| `AllocCalls` | the same, remembering what the call in progress began with | `Alloc` and a history variable, `found` |
| `HeapContract` | what the four calls promise | regions and the bytes read through them |
| `Stream` | one `FILE` of `libonyxc/src/io/stdio.c` | flags, buffer, pushed-back byte, kernel file; one action per call, one per turn of the loops of `fread` and `fwrite` |
| `ByteFile` | what a stream promises | contents and position, no buffer |
| `Insn` | instruction words as sets of bits, the linker's patching and the emulator's reading of immediates | operators |
| `Linker` | `src/tools/onyx-ld.c` | objects, layout, symbol table, image; one action per turn of each loop |
| `Preproc` | directives and files of `src/back/pp.c` | macro table, stack of conditionals, `#pragma once` table, stack of files; one action per kind of line |
| `ControlFlow` | statements of `gen.c`: emitted jumps and their patching, and the run of the code | the stack of `parse_stmt` calls in progress, the patch lists, labels, code; then a program counter |
| `Statements` | the meaning of statements in C | operators over the tokens |
| `Hart` | what one instruction does in `tools/onx-run.c` | operators over a machine record |
| `Expressions` | `parse_expr` and below in `gen.c`, calls, returns and conversions, then the run of the code on `Hart` | the stack of parser calls in progress, where the current value is, the frame, code; then the machine |
| `ExprMeaning` | the meaning of expressions in C | an evaluator of syntax trees, and the text of a tree |
| `Code` | encoders of `src/arch/riscv64.c`, the patching in `gen.c`, the decoder of `onx-run.c` | operators over words |
| `Syscalls` | wrappers of `libonyxc/src/core/syscalls.c` | number and arguments of each |
| `Machine` | a process under `onx-run`: first stack, start code, fetch, decode and execute over demand-mapped pages, and every system call | machine, pages, host files, break; beside it the machine that executes what the encoders were asked for |
| `Declarations` | declarators and initializers (`decl.c`, `gen.c`) | operators: the type a declarator makes, the bytes or stores an initializer becomes |
| `Unit` | driver, file-level declarations, symbol table, finalization, image writer, loader | sections, fixups, symbols, scopes, image, memory; one action per declaration, body item and phase |
| `UnitMeaning` | what C says of those programs | which object a name denotes, what it holds, which programs are wrong |

`MC*` modules give the constants for TLC. `*Proofs` hold the proofs.
`HeapContract`, `ByteFile`, `Statements`, `ExprMeaning` and
`UnitMeaning` are reference definitions: they say what C or the library promises
and share no definition of the code's behaviour. There is one concession. In
`UnitMeaning` a name that an earlier file declares counts as declared in a later
one, as the compiler's single symbol table has it; C would refuse the later file.

Some data is abstract. A token is a record; a line of text is opaque; the value
of a condition in `ControlFlow` and the answers of the host are free choices; a
condition of `#if` is a name, `defined`, its negation, or malformed. In `Hart`,
`Expressions` and `Machine` a byte has two bits, so that a register of eight
bytes is a 16-bit number that TLC can compute with; sizes in bytes, offsets and
extensions are those of the code. A floating-point number is a whole number
with a different encoding in each precision, so that a missing conversion
shows, but rounding is not modelled.

## Runs

**alloc_heap** (`MCAlloc.cfg`). Three client pointers, a header of two bytes,
extents of at least eight and a break of at most 28, so that up to three
touching extents fit, each of a few blocks; a small request, a large one and one
above the limit; `sbrk` may refuse at any time. The list stays sorted, linked
both ways and without overlap (`HeapIntact`); two touching blocks are never both
free (`FullyCoalesced`); no byte obtained from `sbrk` is forgotten
(`NoByteLost`); blocks in use are those the client holds (`Ownership`), aligned
from any break (`Aligned`); a call that returns `NULL`, after however many
steps, has left the client's pointers and bytes, the break and the blocks in use
as it found them, save that `realloc`'s block may have grown by the merge
(`FailureKeepsEverything`). Pointers are symmetric. Three pointers are enough
for each pattern of neighbours: none, free or in use on either side. The gap
between two extents is in the other run. `NoByteLost` is about the bytes of
extents: what rounding the break up skips belongs to none.

**alloc_contract** (`MCAllocContract.cfg`). The granule of `shim.c`, smaller
than the smallest extent, a gap between extents, and a request of zero. The heap
implements `HeapContract`, and every call returns. Fairness: a call that has
started goes on, which sequential code does.

**stream_file**, **stream_pipe** (`MCStream.cfg`, `MCStreamPipe.cfg`). A buffer
of two bytes (then three, or one), files of up to three bytes, five on the pipe
(`MaxLen`): enough for two refills, a hole and a write that spans the buffer.
Writes shorter and longer than the buffer, on the pipe with newlines in all places; seeks by
-1, 0 and 2 bytes (`Offsets`) from every base, beyond the end too, where a write
leaves zeros between. The kernel may write part and fail, fail a read, and fail
a close. `r+` and `a+` on a seekable file; the three standard streams on a pipe,
where `lseek` fails. A stream behaves as a plain file (`BehavesAsPlainFile`, a
refinement of `ByteFile`); buffered writes and input never mix (`BufferRoles`);
the sticky end-of-file flag is set only at or beyond the end of the file, so
that it never hides data (`EofMeansEnd`); line-buffered and unbuffered output is
out when `fwrite` reports success (`PromptDelivery`); the loops end
(`CallsReturn`, fairness of the loops only: the client may stop calling).

**linker** (`MCLinker.cfg`). Every command line of up to three of sixteen
arguments: options, objects with every relocation type at the edges of the
immediates, archives, rejected files; memory may run out at any allocation, and
the tables are small enough to overflow. Sections do not overlap
(`SectionsApart`), a global name has one definition (`OneDefinition`), a
patched word, decoded as the emulator decodes it, leads to its symbol
(`ReferencesLead`) and keeps every bit that its relocations do not write, the
operation among them (`OperationsKept`), and the segments do not overlap, hold
the sections placed in them at the address those are given, and the entry is
where its symbol is (`ImageWellFormed`). The relocation of a call is wrong:
`OperationsKept` covers its words, `ReferencesLead` leaves their targets out, and
**linker_calls** shows that they do not lead there, see Findings. A merged
section without contents is not allocated, and the relocation loop skips it; a
relocation of the model names a word of its section, so nothing is skipped.

**pp** (`MCPreproc.cfg`). Every main file of four lines over ten directives with
each of two headers, and fixed programs of headers that include one another;
nesting and macros may overflow their tables. One active macro per name
(`OneActiveMacro`); text is kept exactly when each open conditional is in its
first true branch (`KeptWhenChosen`); skipped text has no effect
(`SkippedHasNoEffect`); once-only files are read once (`OncePerFile`);
preprocessing ends (`Finishes`, fairness: the program runs).

**control_flow** (`MCControlFlow.cfg`). Every nesting of two control statements
around simple ones, and chosen deeper bodies with labels, gotos and switches,
valid or not, with every outcome of every condition. The tables are small, so
that each of them fills: two labels with two patches each, two cases, four
epilogue patches, three entries in `break_fixups` and in `continue_fixups`. The
compiler stops at a full table (`TooManyCases`, "fatal"), except that it stores
past the end of the last two without looking: the model ends there ("overrun"),
since nothing is known of what follows. A `jal` reaches 40 instructions, and the
distance of a longer one wraps as in `rv_jal` (`Distance`); the code may then run
out of the function ("astray"). The emitted code steps as the C statements do
(`FollowsC`), exactly the invalid bodies are refused (`RejectsExactly`), jumps
stay inside the function (`JumpsLand`), each return restores the caller's frame
whatever the final frame size (`ReturnsRestore`), and neither compiler nor code
gets stuck (`KeepsGoing`, fairness: the program runs). `FollowsC`, `KeepsGoing`
and the target of a jump in `JumpsLand` are promised of functions no longer than
a `jal` reaches (`InReach`); the run has longer ones too.

**expressions** (`MCExpressions.cfg`). About 460 expressions over all operators,
types and forms of operands, nested so that each saved value is exposed to what
is evaluated after it, and 20 texts that are no expressions; two argument
registers per bank and at most four parameters, so that arguments overflow to
the stack. Called functions destroy every register the convention lets them
destroy. The result and all variables are those of C (`ComputesC`); a value that
is still needed is never in a place that is overwritten (`OperandsSafe`);
nothing outside the frame is touched (`FrameKept`); exactly the wrong texts are
refused (`RejectsExactly`). `ComputesC` has exceptions: of the 441 valid
expressions, 18 have a form that `Departs` names, which the compiler is known to
translate otherwise (listed under Divergences), and 16 have no defined value in
C. It says something of the other 407. **expressions_assign** shows one of the
excepted forms as a finding.

**machine** (`MCMachine.cfg`). About 900 short instruction sequences, with
operands and immediates on both sides of each field's limit, forward and
backward jumps, page faults and sequences of system calls. The encoded program,
fetched and decoded, does what was asked of the encoders (`RunsAsMeant`);
`main` gets its arguments whatever their number (`ArgsArrive`); a descriptor
names the host file that was opened for it, no two share one, and a host file is
lost only by `dup` on a full table, as the code does (`FdsOwnHostFiles`).

**unit** (`MCUnit.cfg`). 341 command lines: thirty initializers as globals,
static locals and automatic objects, four of them with only the outermost
braces; 18 of the 25 pairs of declarations of one name in two files; every
balanced body of five items that open and close blocks, declare and use a name,
in a function with and without a parameter of that name; addresses on both sides
of the rounding of `lui`; and programs that must be refused. Each name leads to
the object C says (`ReferencesDenote`), objects start with their values and
share no byte (`ObjectsInitialised`), exactly the wrong programs are refused
(`RejectsExactly`). Of the seven pairs left out, five have no definition of the
variable, one gives two values, and one is a definition with a value followed by
one without, which the compiler misplaces (see Divergences). Other forms it is
known to get wrong are not among the programs either.

Deadlock is checked where a state without a successor would be an error. It is
not checked where the model stops with the program: a closed pipe, a finished
link, a preprocessed file, a function that returned. In `Machine`, `Unit` and
`Expressions` a finished program has a step that changes nothing.

Every property of a passing run has a mutant, an operator defined just before
the definition it replaces, that makes TLC find the property violated.

## Proofs

All theorems are checked by TLAPS to the last leaf and hold for every value of
the constants that the named assumptions of the modules allow.

**Heap** (`AllocProofs`, `AllocContractProofs`). Assumed: positive alignment,
header and granule, natural sizes, a break that is not the null address, and
that the alignment divides the header, the granule and the smallest extent, as
it does in both copies of the allocator. The invariant is `IInv == TypeOK /\
HeapIntact /\ FullyCoalesced /\ Ownership /\ BelowBreak /\ CallRight`. The list
alone is not inductive: a new extent goes to the end of the list, which is
sorted only if all blocks lie below the break (`BelowBreak`), and a search in
progress must look at a block that is still in the list (`CallRight`).
`AllocProofs` proves first what splitting, merging and appending do to a list,
then that each call keeps the invariant. Theorems: `InvariantHolds`,
`TypeCorrect`, `ListIntact`, `AlwaysCoalesced`, `OwnershipHolds`;
`EveryByteKept` and `AlwaysAligned`, by what each list operation does to the
bytes the blocks cover. `AllocContractProofs` proves `FailuresAreClean`
(`FailureKeepsEverything`), from the invariant `SearchKeeps` of `AllocCalls`:
while a call goes on, all that differs from its start is that the block
`realloc` is to replace may have grown. It also proves the refinement of
`HeapContract` (`ImplementsContract`). Each call maps to one step of the
contract and each turn of a search to none. The hard step is `realloc`, which
copies between blocks that may have been merged. It needs `ClientRight`: a
client has stored no more than it asked for, its block has the rounded size, and
a copy in progress covers all that is stored and fits the new block.

**Linker** (`LinkerProofs`). Assumed: the shape of objects and command lines,
natural capacities and address, a positive alignment. `IInv == InputsTyped /\
LoopTyped /\ Placed /\ SectionsApart /\ GlobalsTyped /\ OneDefinition`. `Placed`
says that the layout loop has passed every section it has placed, so the next
one is new. Theorems: `LayoutApart`, `NamesUnique`, `TypeCorrect`. `ImageRight`
(`ImageWellFormed`) adds `ImageInv`: each global symbol is an exported symbol of
the object it names, and a finished link wrote the image of the tables as they
are. Segments do not overlap because rounding an address up never moves it back;
a section lies in the segment of its type because the size of that segment is
where the last of its sections ends; the entry point is the right one by
`OneDefinition`. `OperationsAlwaysKept` (`OperationsKept`) assumes in addition
that words lie inside their sections and that a relocation names words of its
section (`WordsAssumption`): the linker does not check it, and for an object
that breaks it the theorem says nothing. `WordsInv` follows the words through
the loops: every section has been laid out when the copying starts, what the
copy loop has passed is in its place, and a patched word differs from the
object's only in the fields of the relocations that name it (of a call, all but
the low seven bits). A copy or a patch touches no other word because sections do
not overlap, and each writer of an immediate keeps the bits outside its field
(`PatchedKeeps`). `ReferencesAlwaysBind` (`ReferencesBind`) is the part of
`ReferencesLead` that needs no arithmetic on bits: the value a relocation is
computed from is the address of the only exported symbol of that name. Its
invariant `BindInv` says of the symbols the loop has passed that their names are
in the table and differ from each other, and of the relocations it has passed
that their names were found.

**Preprocessor** (`PreprocProofs`). Three invariants. The macro table: its type
and `OneActiveMacro`. The conditionals: each entry of the stack remembers enough
of the branches seen so far (`Remembers`) to decide the next one. The files
(`OnceInv`): a file that starts with `#pragma once` is in the table of seen
files or has its first line still to be read, and that line is not skipped.
Theorems: `MacroUnique`, `SelectionCorrect`, `SkippedTextInert`,
`OnceMeansOnce`.

**Streams** (`StreamProofs`, `StreamCallProofs`). Assumed: files and inputs are
sequences of integers, seeks ask for integers, the byte that `ungetc` pushes
back is not `EOF`, and `fwrite` is given at least one byte (of none it returns
at once). The invariant of `StreamProofs` is `Good(fp, file)` with the type of
the call in progress. `Good` says that positions and counts stay inside buffer
and file, that buffered writes and input do not mix, and that the end-of-file
flag means that nothing is left to read, at the end or beyond it; none of the
three is inductive without the others, since a refill relies on an empty write
buffer and the flag on where the buffer ends. Each helper (flush, discard,
prepare, fill) has a lemma that it keeps `Good` for every outcome of the system
call. Theorems: `RolesKept`, `EofSound`, `InsideBuffer`. `StreamCallProofs`
proves the refinement of `ByteFile` (`ActsAsPlainFile`). A buffer with writes
stands for the file after they are written, and one with input for a position
before the kernel's. That needs `InputRight`, which `More` adds to the
invariant: the input in the buffer is what the file holds just before the
kernel's offset. Each helper then leaves the client's file alone whatever the
system call does (last section of `StreamProofs`, first of `StreamCallProofs`):
what a write did not take stays in the buffer, and only an `fclose` that reports
failure loses it. `OutputIsPrompt` (`PromptDelivery`) is an action property of
the last turn of `fwrite`.

**Machine** (`MachineProofs`). Assumed: a table of at least three host files.
`FilesRight` is `FdsOwnHostFiles` with the types of the table and of the host's
descriptors. Theorem: `DescriptorsKept`, for every program and every answer of
the host.

**Statement compiler** (`ControlFlowProofs`). Assumed: the types of the tokens
and natural capacities; the body may be any sequence of tokens, valid or not.
The invariant `CInv` is about the compiler in the middle of its work, where
almost no jump has its target yet. Every emitted jump lands in the code or waits
in one place that will patch it: a local variable of a `parse_stmt` call in
progress, `break_fixups`, `continue_fixups` or the patch list of a label
(`Waiting`, `Good`). A loop must put back what it saved of the loop around it,
so the counters and saved positions of the calls are nested as the calls are
(`Nested`), and every remembered target is an offset of the code (`Bounded`).
Both offsets of each return are in the table of epilogue patches while it has
room. When the last call returns, nothing waits, and a function within the reach
of a `jal` has no distance that wraps (`DistanceKept`). The capacities may have
any value: a body that fills a table stops the compiler, or ends what is claimed
where the compiler stores past it. Theorems: `CInvAlways`, `JumpsAlwaysLand`
(`JumpsLand`), `ReturnsAlwaysRestore` (`ReturnsRestore`), for bodies of any
length and depth. The instructions carry a field `target` that only properties
read: it tells a jump that is not patched from one to itself, whose word is the
same.

Only model-checked:

- All liveness (`CallsReturn`, `Finishes`, `KeepsGoing`): out of the prover's
  reach.
- What `ReferencesLead` of the linker says beyond `ReferencesBind`, that the
  patched words compute that address: the immediates are split and joined by
  powers of two, which the provers' arithmetic does not follow.
- `FollowsC` and `RejectsExactly` of `ControlFlow`, all of `Expressions` and
  `Unit` and the rest of `Machine` (`RunsAsMeant`, `ArgsArrive`):
  they compare the code with references that are recursive definitions, or run
  code that recursive definitions emit, and need an induction over data.

## Findings

- `onyx-ld.c:554`: the relocation of a call puts the sign bit of its offset at
  bit 30 and clears the register of the return address (line 559), while
  `include/sys/onyxo.h:59` says "jal imm21 (function call)". A backward call
  goes elsewhere, and no call can return (**linker_calls**).
- `gen.c:2434`: "Assignment returns the assigned value." It does not for a
  floating-point or narrow object (**expressions_assign**).

## Divergences

Met while modelling, by reading the code. No property covers them: the runs
leave these inputs out or except them, so a passing run says nothing about them.
Only the two findings above have a run that shows them.

Expressions: the value of `a = b = 3.0` and of an assignment passed to a
function; `++c` and `c += k` on narrow types are not truncated as values; `++`
and `--` of a floating object have no effect; `int` with `unsigned` is not
converted for `/`, `%` and comparisons, nor are the operands of compound
assignments; `2 && 3.0`; a negative floating value cast to `long`; the operand
of `sizeof` is executed; `sizeof x` without parentheses is refused; unsigned and
signed conversions from floating point are the same, of 32 bits, in `onx-run`; a
call that declares its function while a local operand waits; `i()` of an `int`
local declares a function; a compound literal's address stays in a temporary
register.

Statements: `if (c) L: x;`; more than 255 returns lose their frame patches; the
arrays of break and continue patches are not bounded; the reach of `jal` is not
checked; `case` inside a nested block.

Declarations: `char t[2][3] = {"abc", "de"}` shifts later elements; elided
braces in an array of unions; `int a[2] = "x";` at file level is accepted, and
copies bytes; a nested trailing comma in a full local initializer is refused;
`int (a[3]);` ends the compiler; an inner `static` takes over an outer local of
its name, and two of one name in one function are one object; so are those of
two `static` functions of one name in different files, since the symbol is named
after the function without its file (`gen.c:2690`; the comment at `gen.c:2682`
says "collision-free across functions"); an entry symbol that is only declared
is accepted, and the image starts at the first function; a repeated enumerator
changes the last symbol (`gen.c:722`); `int x = 5; int x;` gets an offset in
`.bss` that is then read as one in `.data` (`gen.c:4201`, 4230); an `extern`
variable that nothing defines is at the start of `.bss`; objects in `.data` are
not aligned; files share one symbol table.

Preprocessor: `#pragma once` remembers 16 files, and one beyond
them that includes itself is read without end (in the run no file does that when
the table is full); `# pragma once` with a space is
not recognised; a header beside a main file named without a directory is not
found (`pp.c:582`); an unreadable include is dropped silently; includes have no
depth limit; a directive leaves no empty line.

Linker and image: the linker's magic number is reversed with respect to the
loader's (`onyx-ld.c:686`, `onx.h:45`); every member of an archive is loaded;
relocations against local symbols go by name; failed writes of the image are
not noticed.

Emulator: `dup` on a full table loses the host file and returns -1, and a host
`dup` that fails is reported as success; after unaligned `sbrk` calls the last
page may be unmapped until written; `read` of no bytes from descriptor 0 still
writes one; the branch of `fstat` for descriptors 1 and 2 is never reached.

Library: `%.3d` of 5 prints "500"; a sign comes before space padding; `%u` above
`LLONG_MAX` is negative; `h` and `hh` are ignored; `fscanf` drops what it read
beyond its match; widths of `scanf` are ignored.

## Not modelled

- Lexer, constant evaluator, `#if` operators, macro expansion within a line and
  the text of `asm`: scans of characters without state of their own.
- `printf`, `scanf`, strings, sorting, mathematics, time, locale: stateless
  conversions, or arithmetic on floating-point numbers, which TLA+ has not.
- The table of streams, `freopen`, `fflush(NULL)`, `fgets`, `getline`,
  `tmpfile`, and a failing allocation in `setvbuf`.
- Builtin functions, compound literals, `setjmp` and `longjmp`, unions.
- Capacities of the compiler's symbol and fixup tables, where it stops.
- Square roots and the floating point control register of `onx-run`: `Decode`
  tells them from illegal words, and no encoder makes them. `Hart` has no step for
  them.
- In `Unit`, variadic functions, functions that return structures, and parameters
  that do not arrive in integer registers; `Expressions` has those parameters.
- `-E`, the token dump, scripts, headers, and `system`, whose kernel calls the
  emulator does not have.
- Rounding of floating-point numbers and bytes of eight bits in the models that
  execute code: a fault that needs either would not be seen.
