------------------------------ MODULE Preproc -------------------------------
(***************************************************************************)
(* The preprocessor's control (src/src/back/pp.c): process_source reads a  *)
(* file line by line, handle_directive keeps the macro table, the stack of *)
(* conditionals and the #pragma once table, and #include processes another *)
(* file in between.  What expansion does to a line of text is left out; a  *)
(* line, its comments stripped, is [d, arg, body] with d the directive,    *)
(* "text", or "other" for a directive that is ignored.  Tokens are macro   *)
(* names and the numerals "0" and "1".                                     *)
(***************************************************************************)
EXTENDS Integers, Sequences

CONSTANTS
    Programs,       \* what the disk may hold: functions from paths [dir, name] to lines
    Main,           \* the path of the file to preprocess
    IncPaths,       \* g_inc_paths, the directories of -I
    Predefined,     \* specs of define_macro: [name, body]
    MAX_MACROS, MAX_IF_DEPTH,
    MAX_INCLUDES,   \* capacity of g_seen_files
    PASSES          \* passes of expand_macros, 16

ASSUME ProgramAssumption ==
    /\ \A disk \in Programs : \A p \in DOMAIN disk : disk[p] \in Seq([d : STRING, arg : STRING, body : STRING])
    /\ Predefined \in Seq([name : STRING, body : STRING])
ASSUME CapacityAssumption ==
    /\ MAX_MACROS \in Nat /\ MAX_IF_DEPTH \in Nat /\ MAX_INCLUDES \in Nat
    /\ PASSES \in Nat

VARIABLES
    status,     \* "predefine", "run", "done", or "fatal" after cc_fatal
    files,      \* the files on disk
    specs,      \* macros of the command line still to define
    macros,     \* g_macros
    ifs,        \* g_if_stack, g_if_parent, g_if_taken up to g_if_depth
    seen,       \* g_seen_files
    frames,     \* the files being processed, each with its next line
    out,        \* g_out, as the lines it holds
    errors,     \* errors reported: [what, path, name]
    trail,      \* history: for each open conditional the values of its branches
    entered     \* history: the files processed so far, as a sequence

vars == <<status, files, specs, macros, ifs, seen, frames, out, errors, trail, entered>>
NoPath == [dir |-> "", name |-> ""]

Top == frames[Len(frames)]
Line == files[Top.path][Top.next]
Running == status = "run" /\ frames # <<>>
AtLine(d) == Running /\ Top.next <= Len(files[Top.path]) /\ Line.d = d

\* process_source goes on to the next line.
NextLine == frames' = [frames EXCEPT ![Len(frames)].next = @ + 1]

Front(s) == SubSeq(s, 1, Len(s) - 1)

\* Mutant: the outermost conditional decides.
SkippingOutermost == ifs # <<>> /\ ~ifs[1].on

Skipping == ifs # <<>> /\ ~ifs[Len(ifs)].on

-----------------------------------------------------------------------------
(* Macros.                                                                 *)

Defines(name) == {i \in DOMAIN macros : macros[i].active /\ macros[i].name = name}
Defined(name) == Defines(name) # {}
FindMacro(name) == CHOOSE i \in Defines(name) : \A j \in Defines(name) : i <= j

\* Mutant: the table is not searched for the name.
DefineAppends(name, body) ==
    /\ Len(macros) < MAX_MACROS
    /\ macros' = Append(macros, [name |-> name, body |-> body, active |-> TRUE])

\* #define and define_macro.
Define(name, body) ==
    \/ /\ Defined(name)
       /\ macros' = [macros EXCEPT ![FindMacro(name)] = [name |-> name, body |-> body, active |-> TRUE]]
    \/ /\ ~Defined(name) /\ Len(macros) < MAX_MACROS
       /\ macros' = Append(macros, [name |-> name, body |-> body, active |-> TRUE])

Full(name) == ~Defined(name) /\ Len(macros) >= MAX_MACROS

\* expand_macros on one token: at most PASSES rounds of replacement.
Expand(tok) ==
    LET tokens == {tok} \cup {macros[i].body : i \in DOMAIN macros}
        replace == [t \in tokens |-> IF Defined(t) THEN macros[FindMacro(t)].body ELSE t]
        pass[n \in 0..PASSES] == IF n = 0 THEN tok ELSE replace[pass[n-1]]
    IN  pass[PASSES]

\* eval_const_expr of NAME, of defined(NAME), of !defined(NAME) and of an
\* expression it reports an error for; a name left after expansion counts as 0.
Holds(line) ==
    CASE line.body = "defined"   -> Defined(line.arg)
      [] line.body = "!defined"  -> ~Defined(line.arg)
      [] line.body = "malformed" -> FALSE
      [] OTHER -> Expand(line.arg) = "1"
Evaluate(line) ==
    errors' = IF line.body = "malformed"
              THEN errors \cup {[what |-> "condition", path |-> Top.path, name |-> ""]} ELSE errors

-----------------------------------------------------------------------------

Init ==
    /\ status = "predefine"
    /\ files \in Programs /\ Main \in DOMAIN files
    /\ specs = Predefined
    /\ macros = <<>> /\ ifs = <<>> /\ seen = <<>> /\ out = <<>> /\ errors = {}
    /\ frames = <<[path |-> Main, next |-> 1]>>
    /\ trail = <<>> /\ entered = <<Main>>

Predefine ==
    /\ status = "predefine" /\ specs # <<>>
    /\ Define(Head(specs).name, Head(specs).body)
    /\ specs' = Tail(specs)
    /\ UNCHANGED <<status, files, ifs, seen, frames, out, errors, trail, entered>>

StartFile ==
    /\ status = "predefine" /\ specs = <<>>
    /\ status' = "run"
    /\ UNCHANGED <<files, specs, macros, ifs, seen, frames, out, errors, trail, entered>>

\* cc_fatal: too many macros, or conditionals nested too deep.
Fatal ==
    /\ \/ status = "predefine" /\ specs # <<>> /\ Full(Head(specs).name)
       \/ AtLine("define") /\ ~Skipping /\ Full(Line.arg)
       \/ /\ AtLine("ifdef") \/ AtLine("ifndef") \/ AtLine("if")
          /\ Len(ifs) >= MAX_IF_DEPTH
    /\ status' = "fatal"
    /\ UNCHANGED <<files, specs, macros, ifs, seen, frames, out, errors, trail, entered>>

\* A line that is not a directive: kept, or an empty line in its place.
Text ==
    /\ AtLine("text")
    /\ out' = Append(out, IF Skipping THEN [path |-> NoPath, line |-> 0]
                          ELSE [path |-> Top.path, line |-> Top.next])
    /\ NextLine
    /\ UNCHANGED <<status, files, specs, macros, ifs, seen, errors, trail, entered>>

DefineLine ==
    /\ AtLine("define")
    /\ IF Skipping THEN UNCHANGED macros ELSE Define(Line.arg, Line.body)
    /\ NextLine
    /\ UNCHANGED <<status, files, specs, ifs, seen, out, errors, trail, entered>>

UndefLine ==
    /\ AtLine("undef")
    /\ macros' = IF ~Skipping /\ Defined(Line.arg)
                 THEN [macros EXCEPT ![FindMacro(Line.arg)].active = FALSE] ELSE macros
    /\ NextLine
    /\ UNCHANGED <<status, files, specs, ifs, seen, out, errors, trail, entered>>

-----------------------------------------------------------------------------
(* Conditionals.                                                           *)

\* A conditional is opened, its first condition being c.
Open(on, parent, taken, c) ==
    /\ Len(ifs) < MAX_IF_DEPTH
    /\ ifs' = Append(ifs, [on |-> on, parent |-> parent, taken |-> taken])
    /\ trail' = Append(trail, <<c>>)
    /\ NextLine
    /\ UNCHANGED <<status, files, specs, macros, seen, out, entered>>

\* #ifdef and #ifndef.
OpenDefined(taken) ==
    /\ Open(~Skipping /\ taken, Skipping, taken, taken)
    /\ UNCHANGED errors
IfdefLine == AtLine("ifdef") /\ OpenDefined(Defined(Line.arg))
IfndefLine == AtLine("ifndef") /\ OpenDefined(~Defined(Line.arg))

\* Mutant: the condition is evaluated in skipped text too.
IfLineEvaluated ==
    /\ AtLine("if")
    /\ Open(~Skipping /\ Holds(Line), Skipping, Holds(Line), Holds(Line))
    /\ Evaluate(Line)

\* #if: the condition is not evaluated in skipped text.
IfLine ==
    /\ AtLine("if")
    /\ IF Skipping THEN Open(FALSE, TRUE, FALSE, Holds(Line)) /\ UNCHANGED errors
       ELSE Open(Holds(Line), FALSE, Holds(Line), Holds(Line)) /\ Evaluate(Line)

\* Mutant: a branch that was taken does not decide.
DecidedByParent == ifs[Len(ifs)].parent

\* An #elif whose condition is c, or an #else with TRUE, at the innermost
\* conditional: it is closed to further branches, or takes the value c.
Decided == ifs[Len(ifs)].parent \/ ifs[Len(ifs)].taken
Branch(c) ==
    /\ ifs' = [ifs EXCEPT ![Len(ifs)] =
                  IF Decided THEN [@ EXCEPT !.on = FALSE] ELSE [@ EXCEPT !.on = c, !.taken = c]]
    /\ trail' = [trail EXCEPT ![Len(trail)] = Append(@, c)]

ElifLine ==
    /\ AtLine("elif")
    /\ IF ifs = <<>> THEN UNCHANGED <<ifs, trail, errors>>
       ELSE /\ Branch(Holds(Line))
            /\ IF Decided THEN UNCHANGED errors ELSE Evaluate(Line)
    /\ NextLine
    /\ UNCHANGED <<status, files, specs, macros, seen, out, entered>>

ElseLine ==
    /\ AtLine("else")
    /\ IF ifs = <<>> THEN UNCHANGED <<ifs, trail>> ELSE Branch(TRUE)
    /\ NextLine
    /\ UNCHANGED <<status, files, specs, macros, seen, out, errors, entered>>

EndifLine ==
    /\ AtLine("endif")
    /\ IF ifs = <<>> THEN UNCHANGED <<ifs, trail>>
       ELSE ifs' = Front(ifs) /\ trail' = Front(trail)
    /\ NextLine
    /\ UNCHANGED <<status, files, specs, macros, seen, out, errors, entered>>

-----------------------------------------------------------------------------
(* Files.                                                                  *)

\* The places find_include looks for name in, in order.
Candidates(name, system) ==
    (IF system \/ Top.path.dir = "" THEN <<>> ELSE <<[dir |-> Top.path.dir, name |-> name]>>)
    \o [i \in 1..Len(IncPaths) |-> [dir |-> IncPaths[i], name |-> name]]
\* find_include: the first of them that is there, if any.
FindInclude(name, system) ==
    {Candidates(name, system)[i] : i \in
        {k \in DOMAIN Candidates(name, system) :
            /\ Candidates(name, system)[k] \in DOMAIN files
            /\ \A j \in 1..k-1 : Candidates(name, system)[j] \notin DOMAIN files}}

\* Mutant: the table of #pragma once files is not looked up.
FileSeenNever(path) == FALSE
FileSeen(path) == \E i \in DOMAIN seen : seen[i] = path

\* #include goes into the file, unless it is skipped, seen or cannot be read.
IncludeLine ==
    LET found == FindInclude(Line.arg, Line.body = "<>") IN
    /\ AtLine("include")
    /\ IF Skipping
       THEN NextLine /\ UNCHANGED <<errors, entered>>
       ELSE \/ /\ found = {}
               /\ errors' = errors \cup {[what |-> "include", path |-> Top.path, name |-> Line.arg]}
               /\ NextLine /\ UNCHANGED entered
            \/ /\ found # {}          \* seen, or no memory to read it
               /\ NextLine /\ UNCHANGED <<errors, entered>>
            \/ \E full \in found :
               /\ ~FileSeen(full)
               /\ frames' = Append([frames EXCEPT ![Len(frames)].next = @ + 1],
                                   [path |-> full, next |-> 1])
               /\ entered' = Append(entered, full)
               /\ UNCHANGED errors
    /\ UNCHANGED <<status, files, specs, macros, ifs, seen, out, trail>>

\* Mutant: the loop goes on while p <= end.
EndFileLate ==
    /\ Running /\ Top.next > Len(files[Top.path]) + 1
    /\ frames' = Front(frames)
    /\ status' = IF Len(frames) = 1 THEN "done" ELSE status
    /\ UNCHANGED <<files, specs, macros, ifs, seen, out, errors, trail, entered>>

EndFile ==
    /\ Running /\ Top.next > Len(files[Top.path])
    /\ frames' = Front(frames)
    /\ status' = IF Len(frames) = 1 THEN "done" ELSE status
    /\ UNCHANGED <<files, specs, macros, ifs, seen, out, errors, trail, entered>>

\* #pragma once: the file is remembered while the table has room.
OnceLine ==
    /\ AtLine("once")
    /\ seen' = IF ~Skipping /\ Len(seen) < MAX_INCLUDES THEN Append(seen, Top.path) ELSE seen
    /\ NextLine
    /\ UNCHANGED <<status, files, specs, macros, ifs, out, errors, trail, entered>>

ErrorLine ==
    /\ AtLine("error")
    /\ errors' = IF Skipping THEN errors
                 ELSE errors \cup {[what |-> "error", path |-> Top.path, name |-> ""]}
    /\ NextLine
    /\ UNCHANGED <<status, files, specs, macros, ifs, seen, out, trail, entered>>

\* #line, other pragmas and unknown directives.
OtherLine ==
    /\ AtLine("other")
    /\ NextLine
    /\ UNCHANGED <<status, files, specs, macros, ifs, seen, out, errors, trail, entered>>

Next ==
    \/ Predefine \/ StartFile \/ Fatal \/ Text \/ DefineLine \/ UndefLine
    \/ IfdefLine \/ IfndefLine \/ IfLine \/ ElifLine \/ ElseLine \/ EndifLine
    \/ IncludeLine \/ EndFile \/ OnceLine \/ ErrorLine \/ OtherLine

Spec == Init /\ [][Next]_vars
FairSpec == Spec /\ WF_vars(Next)

-----------------------------------------------------------------------------
(* Properties.                                                             *)

\* The tables stay in their types and within the capacities of pp.c.
TypeOK ==
    /\ status \in {"predefine", "run", "done", "fatal"}
    /\ \A i \in DOMAIN ifs : ifs[i] \in [on : BOOLEAN, parent : BOOLEAN, taken : BOOLEAN]
    /\ Len(macros) <= MAX_MACROS /\ Len(ifs) <= MAX_IF_DEPTH /\ Len(seen) <= MAX_INCLUDES
    /\ \A i \in DOMAIN frames : frames[i].path \in DOMAIN files
    /\ \A i \in DOMAIN seen : seen[i] \in DOMAIN files

\* find_macro returns the first active entry of a name: there is never a second
\* one, through any order of #define, #undef and redefinition, so that #undef
\* really removes the name and #define replaces its body.
OneActiveMacro ==
    \A i, j \in DOMAIN macros :
        macros[i].active /\ macros[j].active /\ macros[i].name = macros[j].name => i = j

\* The current branch of a conditional is its first one that holds.
Chosen(branches) ==
    branches[Len(branches)] /\ \A j \in 1..Len(branches) - 1 : ~branches[j]

\* pp.c looks only at the innermost conditional, which remembers whether it was
\* opened while skipping: text is kept exactly when every open conditional, of
\* this file and of the files that include it, is in its chosen branch.
KeptWhenChosen == Skipping <=> \E i \in DOMAIN trail : ~Chosen(trail[i])

\* Skipped text has no effect but on the nesting of conditionals: no macro, file
\* or #pragma once of it counts, and a condition in it is evaluated, and may be
\* reported, only when it is an #elif that could still be chosen.
SkippedHasNoEffect ==
    [][Skipping =>
        /\ UNCHANGED <<macros, seen, entered>>
        /\ errors' # errors =>
              /\ Line.d = "elif"
              /\ \A i \in 1..Len(trail) - 1 : Chosen(trail[i])
              /\ \A j \in DOMAIN trail[Len(trail)] : ~trail[Len(trail)][j]]_vars

\* A file that starts with #pragma once is processed once, as long as the table
\* has room.
OncePerFile ==
    Len(seen) < MAX_INCLUDES =>
        \A i, j \in DOMAIN entered :
            entered[i] = entered[j] /\ files[entered[i]] # <<>> /\ files[entered[i]][1].d = "once" => i = j

\* Preprocessing ends, also when guarded headers include one another.
Finishes == <>(status \in {"done", "fatal"})

=============================================================================
