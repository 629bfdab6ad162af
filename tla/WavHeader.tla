----------------------------- MODULE WavHeader ------------------------------
(***************************************************************************)
(* The RIFF/WAVE header codec: a pure parser over the prefix of a file and *)
(* the writer of the canonical header.                                     *)
(*                                                                         *)
(* A file is the list of the chunks that a walk by their declared sizes    *)
(* comes upon, and its length in bytes; a damaged size only changes what   *)
(* the walk finds next.  The body of a "fmt " chunk is one of four kinds.  *)
(***************************************************************************)
EXTENDS Integers, Sequences

CONSTANTS
  ScanSize,   \* AUDIO_WAV_HEADER_SCAN_SIZE, the prefix a reader buffers
  SizeLimit   \* one more than a 32 bit size field can hold

RiffSize  == 12   \* "RIFF", size, "WAVE"
ChunkSize == 8    \* id, size
FmtSize   == 16   \* the least body of a "fmt " chunk

\* The canonical header: RIFF, one "fmt " chunk and the head of "data".
HeaderSize == RiffSize + ChunkSize + FmtSize + ChunkSize

\* What the RIFF size field can count besides the header bytes behind it.
MaxDataSize == SizeLimit - 1 - (HeaderSize - 8)

ASSUME WavAssumption ==
  /\ ScanSize \in Nat /\ HeaderSize <= ScanSize
  /\ SizeLimit \in Nat /\ HeaderSize <= SizeLimit

\* PCM with plausible fields: the one the pipeline is bound to, or another.
\* The rest is not PCM, or contradicts itself.
Usable == {"bound", "foreign"}
Bodies == Usable \union {"notPCM", "degenerate"}

\* What a file may be.
Chunks == [id : {"fmt", "data", "other"}, size : Nat, body : Bodies \union {"none"}]
Files  == [chunks : Seq(Chunks), length : Nat]

\* No header to be had: -EINVAL or -ENOTSUP.
Refused == [offset |-> 0, size |-> 0, format |-> "none"]

Smaller(a, b) == IF a < b THEN a ELSE b

\* Mutant of Advance: adds up in 32 bits.
MutAdvance(size) == (size + (size % 2)) % SizeLimit

\* How far the next chunk is: chunks are padded to an even length.
Advance(size) == size + (size % 2)

-----------------------------------------------------------------------------
(* audio_wav_read_header(). *)

BadFmt(chunk, available) ==
  chunk.size > available \/ chunk.size < FmtSize \/ chunk.body \notin Usable

\* One round of the walk.  It ends at the first "data" behind a "fmt ", at a
\* chunk that is not all in the buffer, and at a "fmt " it refuses.
ReadChunk(len, walk, chunk) ==
  LET body      == walk.pos + ChunkSize
      available == len - body
      found     == CASE chunk.id = "fmt"  -> [walk EXCEPT !.format = chunk.body]
                     [] chunk.id = "data" -> [walk EXCEPT !.offset = body, !.size = chunk.size]
                     [] OTHER             -> walk
      complete  == chunk.id = "data" /\ walk.format # "none"
  IN IF walk.over = 1 \/ len - walk.pos < ChunkSize THEN [walk EXCEPT !.over = 1]
     ELSE IF chunk.id = "fmt" /\ BadFmt(chunk, available)
       THEN [walk EXCEPT !.over = 1, !.format = "none", !.offset = 0]
     ELSE IF complete \/ Advance(chunk.size) > available THEN [found EXCEPT !.over = 1]
     ELSE [found EXCEPT !.pos = body + Advance(chunk.size)]

Buffered(file) == Smaller(ScanSize, file.length)

AtRiff == [pos |-> RiffSize, over |-> 0, format |-> "none", offset |-> 0, size |-> 0]

\* The walk, after each of its rounds.
Walk(file) ==
  LET walk[i \in 0..Len(file.chunks)] ==
        IF i = 0 THEN AtRiff ELSE ReadChunk(Buffered(file), walk[i - 1], file.chunks[i])
  IN walk

ReadHeader(file) ==
  LET walk == Walk(file)[Len(file.chunks)]
  IN IF Buffered(file) < RiffSize \/ walk.format = "none" \/ walk.offset = 0
       THEN Refused
       ELSE [offset |-> walk.offset, size |-> walk.size, format |-> walk.format]

-----------------------------------------------------------------------------
(* audio_wav_write_header(). *)

\* Mutant of HeaderChunks: the payload's field gets the size of the RIFF one.
MutHeaderChunks(size, format) ==
  IF format \in Usable /\ size <= MaxDataSize
    THEN <<[id |-> "fmt", size |-> FmtSize, body |-> format],
           [id |-> "data", size |-> HeaderSize - 8 + size, body |-> "none"]>>
    ELSE <<>>

\* The chunks of the header for a payload of that size, if there is one.
HeaderChunks(size, format) ==
  IF format \in Usable /\ size <= MaxDataSize
    THEN <<[id |-> "fmt", size |-> FmtSize, body |-> format],
           [id |-> "data", size |-> size, body |-> "none"]>>
    ELSE <<>>

-----------------------------------------------------------------------------
(* What the parser is to find, without a walk. *)

\* Where the chunks of the list begin, and where the last one ends.
Begins(file) ==
  LET begins[i \in 1..(Len(file.chunks) + 1)] ==
        IF i = 1 THEN RiffSize
        ELSE begins[i - 1] + ChunkSize + file.chunks[i - 1].size + (file.chunks[i - 1].size % 2)
  IN begins

Body(file, i) == Begins(file)[i] + ChunkSize

\* The chunks whose heads are in the buffer, and those of one kind among some.
Heads(file) == {i \in DOMAIN file.chunks : Body(file, i) <= Buffered(file)}
Kind(file, id, among) == {i \in among : file.chunks[i].id = id}

\* The first "data" behind a "fmt " is the last chunk to be read.
Closing(file) ==
  {d \in Kind(file, "data", Heads(file)) : \E f \in Kind(file, "fmt", Heads(file)) : f < d}
ToRead(file) == {i \in Heads(file) : \A d \in Closing(file) : i <= d}

Latest(S) == CHOOSE i \in S : \A j \in S : j <= i

Bad(file, i) == BadFmt(file.chunks[i], Buffered(file) - Body(file, i))

\* The payload is the last "data" there is to read, the format the last "fmt ",
\* and no "fmt " is one to be refused.
Expected(file) ==
  LET fmts  == Kind(file, "fmt", ToRead(file))
      datas == Kind(file, "data", ToRead(file))
  IN IF fmts = {} \/ datas = {} \/ \E f \in fmts : Bad(file, f)
       THEN Refused
       ELSE [offset |-> Body(file, Latest(datas)),
             size   |-> file.chunks[Latest(datas)].size,
             format |-> file.chunks[Latest(fmts)].body]
=============================================================================
