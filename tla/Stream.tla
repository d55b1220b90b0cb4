------------------------------- MODULE Stream -------------------------------
(***************************************************************************)
(* One FILE stream of libonyxc (io/stdio.c) over one kernel file: the       *)
(* buffer, its flags and every call that reads, writes, seeks or rebuffers. *)
(*                                                                          *)
(* The kernel is free to write less than asked and to fail at any write or  *)
(* read.  A loop of short writes that ends after k bytes is one choice of   *)
(* k.  fread and fwrite take one step per turn of their copy loops.         *)
(***************************************************************************)
EXTENDS Integers, Sequences

CONSTANTS
    FILE_BUF_SIZE,  \* buffer capacity of a fresh stream       (4096)
    Sizes,          \* bound: capacities setvbuf is asked for
    Inputs,         \* bound: the byte sequences the client writes
    NL,             \* the newline byte
    Data0,          \* what the file holds at first
    Modes,          \* the fopen modes in use
    Seekable,       \* whether lseek works on the file
    Offsets,        \* bound: the offsets fseek is asked for
    MaxLen          \* bound: longest file, and furthest place it is sought to

ASSUME BufferAssumption == FILE_BUF_SIZE \in Nat \ {0} /\ Sizes \subseteq Nat \ {0}
\* A byte is not EOF, and fwrite of no bytes returns before it does anything.
ASSUME BytesAssumption == NL \in Nat /\ Data0 \in Seq(Int) /\ Inputs \subseteq Seq(Int) \ {<<>>}
ASSUME LengthAssumption == MaxLen \in Nat /\ Seekable \in BOOLEAN /\ Offsets \subseteq Int

VARIABLES
    file,   \* [data, off]: the kernel's file and offset
    fp,     \* the FILE: open (fd # -1), mode, flags, buf (bytes 0..buf_end-1), start, size, pb
    call,   \* the fread or fwrite in its loop, or Idle
    seen,   \* the bytes the last step handed to the client
    ret     \* [op, arg, val]: the last call and what it returned

vars == <<file, fp, call, seen, ret>>

Idle == [op |-> "idle"]
EOF == -1

Least(a, b) == IF a < b THEN a ELSE b

----------------------------------------------------------------------------
(* The kernel: external, as the code uses it.                               *)

\* bs in place of the bytes after the first off ones.  Between the end and a place
\* beyond it the file is filled with zeros, once a byte is written there.
Overlay(data, off, bs) ==
    LET end == IF off + Len(bs) > Len(data) THEN off + Len(bs) ELSE Len(data)
    IN  IF bs = <<>> THEN data
        ELSE [i \in 1 .. end |-> IF off < i /\ i <= off + Len(bs) THEN bs[i - off]
                                 ELSE IF i <= Len(data) THEN data[i] ELSE 0]

\* write: at the offset, or at the end of a file opened with O_APPEND.
KWrite(f, app, bs) ==
    LET at == IF app THEN Len(f.data) ELSE f.off
    IN  [data |-> Overlay(f.data, at, bs), off |-> at + Len(bs)]

\* lseek to a place in the file or beyond its end; -1 if it cannot.
KSeek(target) == IF Seekable /\ target >= 0 THEN target ELSE -1

----------------------------------------------------------------------------
(* Helpers shared by the calls.  Each works on a pair [fp, file].           *)

Has(f, flag) == flag \in f.flags
Set(f, flag) == [f EXCEPT !.flags = @ \cup {flag}]
Clear(f, S) == [f EXCEPT !.flags = @ \ S]

\* open_mode, and the standard streams of streams_init.
StdStreams == {"stdin", "stdout", "stderr"}
OpenMode(m) ==
    [rd  |-> m \in {"r", "r+", "w+", "a+", "stdin"},
     wr  |-> m \in {"w", "a", "r+", "w+", "a+", "stdout", "stderr"},
     app |-> m \in {"a", "a+"},
     trunc |-> m \in {"w", "w+", "stdout", "stderr"}]  \* a pipe starts empty

\* Mutant: what was sent is not taken out of the buffer after an error.
FlushesAgain(f, ker) ==
    IF ~Has(f, "DIRTY")
    THEN {[ok |-> TRUE, fp |-> f, file |-> ker]}
    ELSE {[ok |-> k = Len(f.buf),
           fp |-> IF k = Len(f.buf) THEN Clear([f EXCEPT !.buf = <<>>], {"DIRTY"})
                  ELSE Set(f, "ERR"),
           file |-> KWrite(ker, f.mode.app, SubSeq(f.buf, 1, k))] : k \in 0 .. Len(f.buf)}

\* file_flush_locked: k bytes get out; fewer than all is an error, and the rest is
\* moved to the front of the buffer for a later flush.
Flushes(f, ker) ==
    IF ~Has(f, "DIRTY")
    THEN {[ok |-> TRUE, fp |-> f, file |-> ker]}
    ELSE {LET out == KWrite(ker, f.mode.app, SubSeq(f.buf, 1, k))
              rest == SubSeq(f.buf, k + 1, Len(f.buf))
          IN  IF k = Len(f.buf)
              THEN [ok |-> TRUE, fp |-> Clear([f EXCEPT !.buf = <<>>], {"DIRTY"}),
                    file |-> out]
              ELSE [ok |-> FALSE, fp |-> Set([f EXCEPT !.buf = rest], "ERR"),
                    file |-> IF k = 0 THEN ker ELSE out]
          : k \in 0 .. Len(f.buf)}

\* How far the reads are ahead of the client.
Unread(f) == Len(f.buf) - f.start + (IF Has(f, "PUSHBACK") THEN 1 ELSE 0)

\* Mutant: the read-ahead is dropped without the seek back.
DiscardWithoutSeek(f, ker) ==
    [ok |-> TRUE, file |-> ker,
     fp |-> IF Has(f, "UNREAD")
            THEN Clear([f EXCEPT !.buf = <<>>, !.start = 0], {"UNREAD", "PUSHBACK"})
            ELSE f]

\* discard_input: give unread bytes back to the kernel by seeking.
Discard(f, ker) ==
    LET target == KSeek(ker.off - Unread(f))
        empty  == Clear([f EXCEPT !.buf = <<>>, !.start = 0], {"UNREAD", "PUSHBACK"})
    IN  IF ~Has(f, "UNREAD") THEN [ok |-> TRUE, fp |-> f, file |-> ker]
        ELSE IF Unread(f) = 0 THEN [ok |-> TRUE, fp |-> empty, file |-> ker]
        ELSE IF target = -1 THEN [ok |-> FALSE, fp |-> Set(f, "ERR"), file |-> ker]
        ELSE [ok |-> TRUE, fp |-> empty, file |-> [ker EXCEPT !.off = target]]

PrepareRead(f, ker) ==
    IF ~f.mode.rd THEN {[ok |-> FALSE, fp |-> Set(f, "ERR"), file |-> ker]}
    ELSE {IF o.ok THEN [o EXCEPT !.fp = Set(@, "UNREAD")] ELSE o : o \in Flushes(f, ker)}

\* Mutant: a write does not end the reading.
PrepareWriteOnInput(f, ker) == [ok |-> f.mode.wr, fp |-> f, file |-> ker]

PrepareWrite(f, ker) ==
    IF ~f.mode.wr THEN [ok |-> FALSE, fp |-> Set(f, "ERR"), file |-> ker]
    ELSE Discard(f, ker)

\* file_fill_locked: the read brings n bytes, none at end of file, or fails.
Fills(f, ker) ==
    LET left == Len(ker.data) - ker.off
        most == Least(IF Has(f, "UNBUF") THEN 1 ELSE f.size, left)
    IN  IF Has(f, "EOF") THEN {[ok |-> FALSE, fp |-> f, file |-> ker]}
        ELSE {[ok |-> FALSE, fp |-> Set(f, "ERR"), file |-> ker]} \cup
             IF left <= 0
             THEN {[ok |-> FALSE, fp |-> Set(f, "EOF"), file |-> ker]}
             ELSE {[ok |-> TRUE,
                    fp |-> [f EXCEPT !.buf = SubSeq(ker.data, ker.off + 1, ker.off + n),
                                     !.start = 0],
                    file |-> [ker EXCEPT !.off = @ + n]] : n \in 1 .. most}

\* A FILE as fopen, or streams_init, leaves it.
Opened(m) == [open |-> TRUE, mode |-> OpenMode(m),
              flags |-> CASE m = "stdout" -> {"LINE_BUF"}
                          [] m = "stderr" -> {"UNBUF"}
                          [] OTHER -> {},
              buf |-> <<>>, start |-> 0, size |-> FILE_BUF_SIZE, pb |-> NL]

\* A FILE as fclose leaves it.
Closed(f) == [open |-> FALSE, mode |-> OpenMode("none"), flags |-> {}, buf |-> <<>>,
              start |-> 0, size |-> 0, pb |-> f.pb]

----------------------------------------------------------------------------
Init ==
    /\ \E m \in Modes :
          /\ fp = Opened(m)
          /\ file = [data |-> IF OpenMode(m).trunc THEN <<>> ELSE Data0, off |-> 0]
    /\ call = Idle
    /\ seen = <<>>
    /\ ret = [op |-> "fopen", arg |-> 0, val |-> 0]

IsOpen == fp.open

\* The call op (with argument arg) returns val, having left [fp, file] = o.
ReturnsFrom(op, arg, val, o) ==
    /\ ret' = [op |-> op, arg |-> arg, val |-> val]
    /\ fp' = o.fp /\ file' = o.file
    /\ call' = Idle
Returns(op, val, o) == ReturnsFrom(op, 0, val, o)

\* What the stream stands for: the file with the buffered writes in place, and
\* the position the client is at.
Contents ==
    IF IsOpen /\ Has(fp, "DIRTY") THEN KWrite(file, fp.mode.app, fp.buf).data ELSE file.data
Position ==
    IF Has(fp, "DIRTY") THEN KWrite(file, fp.mode.app, fp.buf).off
    ELSE file.off - Unread(fp)

\* fopen in a free slot: the file may have been written before.
Fopen(m) ==
    /\ ~IsOpen /\ call = Idle
    /\ Returns("fopen", 0,
               [fp |-> Opened(m),
                file |-> [data |-> IF OpenMode(m).trunc THEN <<>> ELSE file.data, off |-> 0]])
    /\ seen' = <<>>

\* fclose: flush, close whatever happened, release the slot.
Fclose ==
    /\ IsOpen /\ call = Idle
    /\ \E o \in Flushes(fp, file), closes \in BOOLEAN :
          Returns("fclose", IF o.ok /\ closes THEN 0 ELSE EOF,
                  [fp |-> Closed(o.fp), file |-> o.file])
    /\ seen' = <<>>

\* fwrite up to its loop (fputc and fputs are calls of fwrite).
Fwrite(bs) ==
    /\ IsOpen /\ call = Idle
    /\ (IF fp.mode.app THEN Len(Contents) ELSE Position) + Len(bs) <= MaxLen
    /\ LET o == PrepareWrite(fp, file)
       IN  IF ~o.ok THEN Returns("fwrite", 0, o)
           ELSE /\ call' = [op |-> "fwrite", rest |-> bs, put |-> 0]
                /\ fp' = o.fp /\ file' = o.file
                /\ ret' = [op |-> "none", arg |-> 0, val |-> 0]
    /\ seen' = <<>>

\* Mutant: an off-by-one in the test for a full buffer.
BeforeCopyLate(f, ker) ==
    IF Len(f.buf) > f.size THEN Flushes(f, ker)
    ELSE {[ok |-> TRUE, fp |-> f, file |-> ker]}

\* A turn of fwrite's loop flushes a full buffer first.
BeforeCopy(f, ker) ==
    IF Len(f.buf) >= f.size THEN Flushes(f, ker)
    ELSE {[ok |-> TRUE, fp |-> f, file |-> ker]}

\* Its copy: as much as fits.
Take(f) == Least(f.size - Len(f.buf), Len(call.rest))
Copied(f) == Set([f EXCEPT !.buf = @ \o SubSeq(call.rest, 1, Take(f))], "DIRTY")

\* Mutant: only the last byte is compared with the newline.
AfterCopyOfLine(f, ker, take) ==
    IF Has(f, "UNBUF") \/ (Has(f, "LINE_BUF") /\ f.buf[Len(f.buf)] = NL) THEN Flushes(f, ker)
    ELSE {[ok |-> TRUE, fp |-> f, file |-> ker]}

\* The flush an unbuffered stream, or a newline on a line-buffered one, asks for.
AfterCopy(f, ker, take) ==
    LET new == SubSeq(f.buf, Len(f.buf) - take + 1, Len(f.buf))
    IN  IF Has(f, "UNBUF") \/ (Has(f, "LINE_BUF") /\ \E i \in DOMAIN new : new[i] = NL)
        THEN Flushes(f, ker)
        ELSE {[ok |-> TRUE, fp |-> f, file |-> ker]}

\* One turn of fwrite's loop.
FwriteStep ==
    /\ call.op = "fwrite"
    /\ \E o \in BeforeCopy(fp, file) :
          IF ~o.ok THEN Returns("fwrite", call.put, o)
          ELSE LET take == Take(o.fp)
                   put  == call.put + take
                   rest == SubSeq(call.rest, take + 1, Len(call.rest))
               IN  \E a \in AfterCopy(Copied(o.fp), o.file, take) :
                      IF ~a.ok THEN Returns("fwrite", call.put, a)
                      ELSE IF rest = <<>> THEN Returns("fwrite", put, a)
                      ELSE /\ call' = [call EXCEPT !.rest = rest, !.put = put]
                           /\ fp' = a.fp /\ file' = a.file
                           /\ UNCHANGED ret
    /\ seen' = <<>>

\* fread of want bytes, up to its loop.
Fread(want) ==
    /\ IsOpen /\ call = Idle
    /\ \E o \in PrepareRead(fp, file) :
          IF ~o.ok THEN Returns("fread", 0, o)
          ELSE /\ call' = [op |-> "fread", want |-> want, got |-> 0]
               /\ fp' = o.fp /\ file' = o.file
               /\ ret' = [op |-> "none", arg |-> 0, val |-> 0]
    /\ seen' = <<>>

\* After giving the client n bytes, fread returns or goes round.
FreadGoesOn(f, ker, n) ==
    LET got == call.got + n
    IN  IF got = call.want THEN Returns("fread", got, [fp |-> f, file |-> ker])
        ELSE call' = [call EXCEPT !.got = got] /\ fp' = f /\ file' = ker /\ UNCHANGED ret

\* One turn of fread's loop: the pushed-back byte, or a part of the buffer.
FreadStep ==
    /\ call.op = "fread"
    /\ IF Has(fp, "PUSHBACK")
       THEN FreadGoesOn(Clear(fp, {"PUSHBACK"}), file, 1) /\ seen' = <<fp.pb>>
       ELSE \E o \in (IF fp.start >= Len(fp.buf) THEN Fills(fp, file)
                      ELSE {[ok |-> TRUE, fp |-> fp, file |-> file]}) :
               IF ~o.ok THEN Returns("fread", call.got, o) /\ seen' = <<>>
               ELSE LET take == Least(Len(o.fp.buf) - o.fp.start, call.want - call.got)
                    IN  /\ FreadGoesOn([o.fp EXCEPT !.start = @ + take], o.file, take)
                        /\ seen' = SubSeq(o.fp.buf, o.fp.start + 1, o.fp.start + take)

\* fgetc, which fgets and getline repeat.
Fgetc ==
    /\ IsOpen /\ call = Idle
    /\ \E p \in PrepareRead(fp, file) :
          IF ~p.ok THEN Returns("fgetc", EOF, p) /\ seen' = <<>>
          ELSE IF Has(p.fp, "PUSHBACK")
          THEN /\ Returns("fgetc", 0, [p EXCEPT !.fp = Clear(@, {"PUSHBACK"})])
               /\ seen' = <<p.fp.pb>>
          ELSE \E o \in (IF p.fp.start >= Len(p.fp.buf) THEN Fills(p.fp, p.file) ELSE {p}) :
                  IF ~o.ok THEN Returns("fgetc", EOF, o) /\ seen' = <<>>
                  ELSE /\ Returns("fgetc", 0, [o EXCEPT !.fp.start = @ + 1])
                       /\ seen' = <<o.fp.buf[o.fp.start + 1]>>

\* Mutant: the end-of-file flag stays.
UngetcAtEof(ch) ==
    /\ IsOpen /\ call = Idle
    /\ \E o \in PrepareRead(fp, file) :
          IF ~o.ok \/ Has(o.fp, "PUSHBACK") THEN Returns("ungetc", EOF, o)
          ELSE Returns("ungetc", 0, [o EXCEPT !.fp = Set([@ EXCEPT !.pb = ch], "PUSHBACK")])
    /\ seen' = <<>>

Ungetc(ch) ==
    /\ IsOpen /\ call = Idle
    /\ \E o \in PrepareRead(fp, file) :
          IF ~o.ok \/ Has(o.fp, "PUSHBACK") THEN Returns("ungetc", EOF, o)
          ELSE Returns("ungetc", 0,
                  [o EXCEPT !.fp = Clear(Set([@ EXCEPT !.pb = ch], "PUSHBACK"), {"EOF"})])
    /\ seen' = <<>>

\* fseek to offset from the start (SEEK_SET), the client's position (SEEK_CUR) or
\* the end (SEEK_END), beyond the end too; rewind also clears the error flag.
Fseek(offset, whence) ==
    /\ IsOpen /\ call = Idle
    /\ \E o \in Flushes(fp, file) :
          LET base == CASE whence = "SEEK_SET" -> 0
                        [] whence = "SEEK_END" -> Len(o.file.data)
                        [] whence = "SEEK_CUR" ->
                              o.file.off - (IF Has(o.fp, "UNREAD") THEN Unread(o.fp) ELSE 0)
              target == KSeek(base + offset)
          IN  /\ base + offset <= MaxLen
              /\ IF ~o.ok \/ target = -1 THEN ReturnsFrom(whence, offset, EOF, o)
                 ELSE ReturnsFrom(whence, offset, 0,
                        [fp |-> Clear([o.fp EXCEPT !.buf = <<>>, !.start = 0],
                                      {"EOF", "UNREAD", "PUSHBACK"}),
                         file |-> [o.file EXCEPT !.off = target]])
    /\ seen' = <<>>

\* ftell, which moves an appending stream's offset to the end.
Ftell ==
    /\ IsOpen /\ call = Idle
    /\ LET physical == KSeek(IF fp.mode.app /\ Has(fp, "DIRTY") THEN Len(file.data)
                             ELSE file.off)
           adjust == IF Has(fp, "UNREAD") THEN -Unread(fp)
                     ELSE IF Has(fp, "DIRTY") THEN Len(fp.buf) ELSE 0
       IN  IF physical = -1 THEN Returns("ftell", EOF, [fp |-> fp, file |-> file])
           ELSE Returns("ftell", physical + adjust,
                        [fp |-> fp, file |-> [file EXCEPT !.off = physical]])
    /\ seen' = <<>>

\* fflush: flush, then give unread input back.
FlushAndDiscard(f, ker) ==
    {IF o.ok THEN Discard(o.fp, o.file) ELSE o : o \in Flushes(f, ker)}

Fflush ==
    /\ IsOpen /\ call = Idle
    /\ \E o \in FlushAndDiscard(fp, file) :
          Returns("fflush", IF o.ok THEN 0 ELSE EOF, o)
    /\ seen' = <<>>

\* setvbuf: full ("_IOFBF"), line ("_IOLBF") or no buffering ("_IONBF").
Buffering(mode) == CASE mode = "_IOFBF" -> {}
                     [] mode = "_IOLBF" -> {"LINE_BUF"}
                     [] mode = "_IONBF" -> {"UNBUF"}

Rebuffered(f, mode, n) ==
    [open |-> f.open, mode |-> f.mode, pb |-> f.pb, buf |-> <<>>, start |-> 0,
     flags |-> (f.flags \ {"LINE_BUF", "UNBUF"}) \cup Buffering(mode),
     size |-> IF mode = "_IONBF" THEN 1 ELSE n]

Setvbuf(mode, n) ==
    /\ IsOpen /\ call = Idle
    /\ \E o \in FlushAndDiscard(fp, file) :
          IF ~o.ok THEN Returns("setvbuf", EOF, o)
          ELSE Returns("setvbuf", 0, [o EXCEPT !.fp = Rebuffered(@, mode, n)])
    /\ seen' = <<>>

Clearerr ==
    /\ IsOpen /\ call = Idle
    /\ Returns("clearerr", 0, [fp |-> Clear(fp, {"EOF", "ERR"}), file |-> file])
    /\ seen' = <<>>

Next ==
    \/ \E m \in Modes \ StdStreams : Fopen(m)
    \/ Fclose
    \/ \E bs \in Inputs : Fwrite(bs)
    \/ FwriteStep
    \/ \E want \in 1 .. MaxLen : Fread(want)
    \/ FreadStep
    \/ Fgetc
    \/ \E ch \in {NL} : Ungetc(ch)
    \/ \E offset \in Offsets, whence \in {"SEEK_SET", "SEEK_CUR", "SEEK_END"} :
          Fseek(offset, whence)
    \/ Ftell
    \/ Fflush
    \/ \E mode \in {"_IOFBF", "_IOLBF", "_IONBF"}, n \in Sizes : Setvbuf(mode, n)
    \/ Clearerr

Spec == Init /\ [][Next]_vars

\* The loops of fwrite and fread run until they return.
FairSpec == Spec /\ WF_vars(FwriteStep) /\ WF_vars(FreadStep)

----------------------------------------------------------------------------
\* file_flush_locked, prepare_read and discard_input share one buffer: it holds
\* writes or reads, never both; writes start at its front, it is empty when it
\* holds neither, a byte is pushed back only onto input, and each kind needs the
\* mode that allows it.
BufferRoles ==
    IsOpen =>
      /\ Has(fp, "DIRTY") => ~Has(fp, "UNREAD") /\ fp.start = 0 /\ fp.mode.wr
      /\ Has(fp, "UNREAD") => fp.mode.rd
      /\ Has(fp, "PUSHBACK") => Has(fp, "UNREAD")
      /\ fp.buf # <<>> => Has(fp, "DIRTY") \/ Has(fp, "UNREAD")
      /\ call.op = "fwrite" => fp.mode.wr /\ ~Has(fp, "UNREAD")
      /\ call.op = "fread" => Has(fp, "UNREAD")

\* The end-of-file flag is sticky (file_fill_locked does not read again), and that
\* is sound: while it is set no byte is left for the client, who is at the end of the
\* file or, after a seek, beyond it, whatever they have written, flushed or failed to
\* flush since.
EofMeansEnd == IsOpen /\ Has(fp, "EOF") => Position >= Len(Contents)

\* An fwrite that reports every byte has sent what its buffering promises: nothing
\* stays in an unbuffered stream, and no new newline in a line-buffered one.
PromptDelivery ==
    [][(call.op = "fwrite" /\ call' = Idle /\ ret'.val = call.put + Len(call.rest)) =>
          /\ Has(fp, "UNBUF") => fp'.buf = <<>>
          /\ Has(fp, "LINE_BUF") =>
                ((\E i \in DOMAIN fp'.buf : fp'.buf[i] = NL) =>
                 (\E i \in DOMAIN fp.buf : fp.buf[i] = NL))]_vars

\* The stream's calls behave as those of a plain file without a buffer, although
\* writes wait in the buffer and reads run ahead of the client: no byte is lost,
\* repeated or moved by a short or failed write, by changing between reading and
\* writing, by rebuffering or by a seek, and ftell tells the client's position.
Plain == INSTANCE ByteFile WITH
    NoByte <- -1,
    content <- Contents,
    pos <- IF IsOpen THEN Position ELSE 0,
    pushed <- IF IsOpen /\ Has(fp, "PUSHBACK") THEN fp.pb ELSE -1,
    rest <- IF call.op = "fwrite" THEN call.rest ELSE <<>>,
    appending <- fp.mode.app,
    done <- CASE call.op = "fwrite" -> call.put
              [] call.op = "fread" -> call.got
              [] OTHER -> 0

BehavesAsPlainFile == Plain!Spec

\* fwrite and fread return: every turn of their loops makes progress.
CallsReturn == call # Idle ~> call = Idle

=============================================================================
