----------------------------- MODULE FileReader -----------------------------
(***************************************************************************)
(* The WAV file source: open() parses the header and seeks to the payload, *)
(* process() hands out whole sample sets until the payload that the header *)
(* declares, or the file itself, comes to its end.                         *)
(*                                                                         *)
(* The file is external and keeps still while it is open.  A track is a    *)
(* file of WavHeader.  The pipeline's protocol is assumed: after a failed  *)
(* process() the next call is close().  close() before an open() of the    *)
(* same node is not: a second open() drops the first handle.               *)
(***************************************************************************)
EXTENDS WavHeader

CONSTANTS
  FrameBytes,  \* bytes of a sample set: 16 bits for each of 1 or 2 channels
  Capacities   \* samples that the frame buffers hold which process() is given

ASSUME ReaderAssumption == FrameBytes \in {2, 4} /\ Capacities \subseteq Nat

VARIABLES
  readerOpen,  \* node: 1 while it has a handle
  bytesLeft,   \* node: declared payload not yet read
  eof,         \* node: 1 once the data ran out
  declared,    \* what bytesLeft was when the track was opened
  stored,      \* file: bytes there are from the payload's beginning
  filePos,     \* file: how many of them have been read
  heard,       \* how many have been handed to the pipeline
  outcome      \* of the last call: "none", "frame", "eof" or "error"

readerVars == <<readerOpen, bytesLeft, eof, declared, stored, filePos, heard, outcome>>

ReaderInit ==
  /\ readerOpen = 0 /\ bytesLeft = 0 /\ eof = 0 /\ outcome = "none"
  /\ declared = 0 /\ stored = 0 /\ filePos = 0 /\ heard = 0

\* Whole sample sets of so many bytes.
Whole(bytes) == bytes - (bytes % FrameBytes)

\* Between two tracks.
NoTrack == declared' = 0 /\ stored' = 0 /\ filePos' = 0 /\ heard' = 0

\* file_reader_open() of a track that is what the pipeline is bound to.  The
\* size is a 32 bit field, and the parser found the payload inside the file.
OpenTrack(track) ==
  LET header == ReadHeader(track)
      bytes  == track.length - header.offset
  IN /\ header.format = "bound"
     /\ header.size \in 0..(SizeLimit - 1) /\ bytes \in Nat
     /\ readerOpen' = 1 /\ eof' = 0 /\ outcome' = "none"
     /\ declared' = header.size /\ bytesLeft' = header.size /\ stored' = bytes
     /\ filePos' = 0 /\ heard' = 0

\* Any other file is refused, and any call of the filesystem may fail.
OpenTrackFails ==
  /\ readerOpen' = 0 /\ eof' = 0 /\ bytesLeft' = 0 /\ outcome' = "error"
  /\ NoTrack

\* file_reader_close(); the mark of the end is left standing.
CloseTrack ==
  /\ readerOpen' = 0 /\ bytesLeft' = 0 /\ outcome' = "none"
  /\ NoTrack /\ UNCHANGED eof

Reading == readerOpen = 1 /\ outcome # "error"

\* Once at its end, the node says so until it is opened again.
StillOver ==
  /\ Reading /\ eof = 1 /\ outcome' = "eof"
  /\ UNCHANGED <<readerOpen, bytesLeft, eof, declared, stored, filePos, heard>>

\* Mutant of TooSmall: no such check.
MutTooSmall(capacity) == FALSE

\* A buffer that does not hold one sample set is the caller's error.
TooSmall(capacity) == capacity < FrameBytes \div 2

\* How much to ask of the filesystem: what is declared and fits the buffer.
Wanted(capacity) == Smaller(Whole(capacity * 2), Whole(bytesLeft))

\* A frame, or what there is of it.  Less than was asked for means that the
\* file has come to its end before the payload did.
ReadFrame(capacity) ==
  LET wanted == Wanted(capacity)
      read   == Smaller(wanted, stored - filePos)
  IN /\ Reading /\ eof = 0 /\ ~TooSmall(capacity)
     /\ filePos' = filePos + read /\ bytesLeft' = bytesLeft - read
     /\ heard' = heard + Whole(read)
     /\ eof' = IF read < wanted \/ Whole(read) = 0 THEN 1 ELSE 0
     /\ outcome' = IF Whole(read) = 0 THEN "eof" ELSE "frame"
     /\ UNCHANGED <<readerOpen, declared, stored>>

\* The buffer is too small, or the filesystem fails.
ReadFrameFails(capacity) ==
  /\ Reading /\ eof = 0
  /\ TooSmall(capacity) \/ Wanted(capacity) > 0
  /\ outcome' = "error"
  /\ UNCHANGED <<readerOpen, bytesLeft, eof, declared, stored, filePos, heard>>

Process == StillOver \/ \E c \in Capacities : ReadFrame(c) \/ ReadFrameFails(c)

-----------------------------------------------------------------------------
(* Properties. *)

\* The payload, as far as the header declares it and the file has it.
Playable == Whole(Smaller(declared, stored))

\* Only payload is played, in whole sample sets, and the end of the stream is
\* reported when all of it was: whatever the frame buffers, a header that
\* promises more than the file has, chunks behind the payload, or a payload that
\* stops in the middle of a sample set.
PlaysWholeTrack ==
  /\ heard <= Playable /\ heard % FrameBytes = 0
  /\ outcome = "eof" => heard = Playable
=============================================================================
