------------------------------ MODULE ByteFile ------------------------------
(***************************************************************************)
(* What a FILE promises its client, with no buffer in sight: a sequence of  *)
(* bytes, a position in it, and room for one pushed-back byte.              *)
(***************************************************************************)
EXTENDS Integers, Sequences

CONSTANT NoByte     \* no byte is pushed back

VARIABLES
    content,    \* the bytes of the file, the buffered ones included
    pos,        \* the client's position
    pushed,     \* the pushed-back byte, or NoByte
    seen,       \* the bytes just handed to the client
    rest,       \* the bytes the fwrite in progress has yet to take
    done,       \* how many bytes the fwrite or fread has moved
    appending,  \* whether every write goes to the end
    ret         \* [op, arg, val]: what the last call returned

bvars == <<content, pos, pushed, seen, rest, done, appending, ret>>

Init == pos = 0 /\ pushed = NoByte /\ seen = <<>> /\ rest = <<>> /\ done = 0 /\ ret.op = "fopen"

\* bs in place of the bytes after the first at ones, which may be more than there
\* are: the rest of them are zeros.
Patched(at, bs) ==
    LET end == IF at + Len(bs) > Len(content) THEN at + Len(bs) ELSE Len(content)
    IN  IF bs = <<>> THEN content
        ELSE [i \in 1 .. end |-> IF at < i /\ i <= at + Len(bs) THEN bs[i - at]
                                 ELSE IF i <= Len(content) THEN content[i] ELSE 0]

\* fwrite takes the next n bytes: at the position, or at the end of an appending
\* stream.  It goes on, or returns; it may own up to fewer bytes than it took,
\* never to more.
Put ==
    /\ \E n \in 1 .. Len(rest) :
          LET at == IF appending THEN Len(content) ELSE pos
          IN  /\ at >= 0
              /\ content' = Patched(at, SubSeq(rest, 1, n))
              /\ pos' = at + n
              /\ \/ /\ rest' = SubSeq(rest, n + 1, Len(rest)) /\ rest' # <<>>
                    /\ done' = done + n
                    /\ UNCHANGED ret
                 \/ /\ rest' = <<>> /\ done' = 0
                    /\ ret'.op = "fwrite" /\ ret'.val \in {done, done + n}
    /\ pushed' = NoByte /\ seen' = <<>>
    /\ UNCHANGED appending

\* fread and fgetc: the pushed-back byte first, then the bytes at the position.
\* fread goes on, or returns how many bytes it has handed over.
Get ==
    /\ \E n \in 1 .. 1 + Len(content) :
          /\ IF pushed # NoByte THEN n = 1 /\ seen' = <<pushed>>
             ELSE pos + n <= Len(content) /\ seen' = SubSeq(content, pos + 1, pos + n)
          /\ pos' = pos + n
          /\ \/ done' = done + n /\ UNCHANGED ret
             \/ done' = 0 /\ ret'.op = "fread" /\ ret'.val = done + n
             \/ done' = 0 /\ ret'.op = "fgetc" /\ n = 1
    /\ pushed' = NoByte
    /\ UNCHANGED <<content, rest, appending>>

\* ungetc
Push ==
    /\ pushed = NoByte /\ pushed' # NoByte
    /\ pos' = pos - 1 /\ seen' = <<>>
    /\ UNCHANGED <<content, rest, done, appending>>

\* fseek to ret.arg bytes from where ret.op says; the pushed-back byte is forgotten.
Move ==
    /\ ret'.val = 0
    /\ \/ ret'.op = "SEEK_SET" /\ pos' = ret'.arg
       \/ ret'.op = "SEEK_CUR" /\ pos' = pos + ret'.arg
       \/ ret'.op = "SEEK_END" /\ pos' = Len(content) + ret'.arg
    /\ pushed' = NoByte /\ seen' = <<>>
    /\ UNCHANGED <<content, rest, done, appending>>

\* Everything else leaves the file and the position alone.  A call that sends the
\* stream back to the kernel may forget the pushed-back byte; an fwrite may begin;
\* fwrite or fread may give up before the next byte; ftell tells the truth.
Keep ==
    /\ pushed' \in {pushed, NoByte} /\ seen' = <<>>
    /\ rest = <<>> \/ rest' = <<>>
    /\ done' = 0
    /\ ret'.op \in {"fwrite", "fread"} => ret'.val = done
    /\ (ret'.op = "ftell" /\ ret'.val # -1) => ret'.val = pos
    /\ UNCHANGED <<content, pos, appending>>

\* fclose that returns 0 has kept every byte; one that returns EOF may have lost
\* what it could not write.
Close ==
    /\ ret'.op = "fclose" /\ (ret'.val = 0 => content' = content)
    /\ pos' = 0 /\ pushed' = NoByte /\ seen' = <<>>
    /\ UNCHANGED <<rest, done>>

\* fopen: the same bytes, or none after truncation.
Open ==
    /\ ret'.op = "fopen" /\ content' \in {content, <<>>}
    /\ pos' = 0 /\ pushed' = NoByte /\ seen' = <<>>
    /\ UNCHANGED <<rest, done>>

Next == Put \/ Get \/ Push \/ Move \/ Keep \/ Close \/ Open

Spec == Init /\ [][Next]_bvars
=============================================================================
