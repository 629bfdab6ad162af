---------------------------- MODULE WavFileProofs ----------------------------
(***************************************************************************)
(* The volume.  What the file writer keeps true by itself, for every range *)
(* of the header's size field and a filesystem that fails at will, it      *)
(* keeps true over losses of power as well.  The file reader plays every   *)
(* track it opens to the end, for every size of frame buffers and every    *)
(* length of the payload, and a recording is heard as it was reported.     *)
(***************************************************************************)
EXTENDS WavFile, WavHeaderProofs

-----------------------------------------------------------------------------
(* The writer. *)

\* The handle lives from Create to CloseHandle.
HandleMatchesCall ==
  /\ fileOpen = handle
  /\ pc \in {"check", "forget"} => fileOpen = 0
  /\ pc \notin {"idle", "check", "forget"} => fileOpen = 1
  /\ pc = "idle" /\ call = "close" => fileOpen = 0
  /\ pc = "close" => call # "process"
  /\ pc \in {"check", "header"} => call = "open"
  /\ pc = "write" => call = "process"

\* The node counts what the file holds, and what it is about to write fits.
CountsMatchFile ==
  /\ fileOpen = 1 => dataBytes = payload
  /\ pc = "write" => left > 0 /\ dataBytes + left <= MaxData
  /\ pc = "header" => payload = 0 /\ stale = 0 /\ junk = 0

\* The header declares the payload, or is marked as stale and declares less.
HeaderMatchesFile ==
  /\ header <= payload
  /\ fileOpen = 1 /\ stale = 0 /\ pc # "header" => header = payload
  /\ pc \in {"sync", "seekend"} => header = payload
  /\ pc \in {"patch", "sync", "seekend"} => stale = 1
  /\ pc = "close" /\ err = 0 => header = payload
  /\ pc = "idle" /\ result = "eof" => fileOpen = 1 /\ stale = 0

\* Until a call has failed the payload is whole, and between finalises the
\* position is behind it.
PositionedAtEnd ==
  /\ pc = "write" => pos = "end" /\ junk = 0
  /\ pc = "idle" /\ fileOpen = 1 /\ result # "error" => pos = "end" /\ junk = 0
  /\ pc = "finalize" /\ call = "process" => pos = "end"
  /\ pc \in {"finalize", "patch", "sync", "seekend"} /\ call = "process" => junk = 0

IInv == /\ TypeOK /\ HandleMatchesCall /\ CountsMatchFile
        /\ HeaderMatchesFile /\ PositionedAtEnd

\* Before the first open() there is no file.
LEMMA InitHolds == Init => IInv
  BY SizeAssumption
  DEF Init, None, Torn, IInv, TypeOK, HandleMatchesCall, CountsMatchFile,
      HeaderMatchesFile, PositionedAtEnd

\* Each step of a call, and each way it can fail, keeps the invariant.
LEMMA StepHolds == IInv /\ [Next]_vars => IInv'
<1> SUFFICES ASSUME IInv, [Next]_vars PROVE IInv'
  OBVIOUS
<1> USE SizeAssumption
    DEF None, Torn, IInv, TypeOK, HandleMatchesCall, CountsMatchFile,
        HeaderMatchesFile, PositionedAtEnd, node, file, Finish, Enter
<1>1. CASE UNCHANGED vars
  BY <1>1 DEF vars, calls
<1>2. CASE Open
  BY <1>2 DEF Open
<1>3. CASE Close
  BY <1>3 DEF Close
<1>4. CASE PullFails
  BY <1>4 DEF PullFails, MayProcess
<1>5. CASE PullEnd
  BY <1>5 DEF PullEnd, MayProcess
<1>6. CASE PullFrame
  <2>1. PICK n \in 1..MaxChunks :
           IF n > MaxData - dataBytes
             THEN result' = "error" /\ UNCHANGED <<pc, call, left, err>>
             ELSE left' = n /\ Enter("process", "write") /\ UNCHANGED result
    BY <1>6 DEF PullFrame
  <2>2. fileOpen = 1 /\ pc = "idle" /\ result # "error" /\ UNCHANGED <<node, file>>
    BY <1>6 DEF PullFrame, MayProcess
  <2>3. CASE n > MaxData - dataBytes
    BY <2>1, <2>2, <2>3
  <2>4. CASE ~(n > MaxData - dataBytes)
    <3>1. n \in Nat /\ n > 0 /\ n <= MaxChunks /\ dataBytes + n <= MaxData
      BY <2>4
    <3>2. left' = n /\ pc' = "write" /\ call' = "process" /\ err' = 0 /\ result' = result
      BY <2>1, <2>4
    <3>3. TypeOK'
      <4>1. left' \in 0..MaxChunks
        BY <3>1, <3>2
      <4>2. UNCHANGED <<fileOpen, dataBytes, stale, handle, header, payload, junk, pos>>
        BY <2>2
      <4>3. pc' = "write" /\ call' = "process" /\ err' = 0 /\ result' = result
        BY <3>2
      <4> QED
        BY <4>1, <4>2, <4>3
    <3>4. HandleMatchesCall' /\ CountsMatchFile'
      BY <2>2, <3>1, <3>2
    <3>5. HeaderMatchesFile' /\ PositionedAtEnd'
      BY <2>2, <3>2
    <3> QED
      BY <3>3, <3>4, <3>5
  <2> QED
    BY <2>3, <2>4
<1>7. CASE OpenFails
  BY <1>7 DEF OpenFails
<1>8. CASE Create
  BY <1>8 DEF Create
<1>9. CASE WriteHeader
  BY <1>9 DEF WriteHeader
<1>10. CASE WriteHeaderFails
  BY <1>10 DEF WriteHeaderFails
<1>11. CASE WriteChunk
  <2>1. dataBytes \in Nat /\ dataBytes + 1 <= MaxData
    BY <1>11 DEF WriteChunk
  <2>2. dataBytes' = dataBytes + 1
    BY <1>11, <2>1 DEF WriteChunk, CountOneMore
  <2> QED
    BY <1>11, <2>1, <2>2 DEF WriteChunk
<1>12. CASE WriteChunkFails
  BY <1>12 DEF WriteChunkFails
<1>13. CASE NothingToPatch
  BY <1>13 DEF NothingToPatch, Finalized
<1>14. CASE SeekStart
  BY <1>14 DEF SeekStart
<1>15. CASE Patch
  BY <1>15 DEF Patch
<1>16. CASE PatchFails
  BY <1>16 DEF PatchFails, Finalized
<1>17. CASE Sync
  BY <1>17 DEF Sync
<1>18. CASE SeekEnd
  BY <1>18 DEF SeekEnd, Finalized
<1>19. CASE FinalizeFails
  BY <1>19 DEF FinalizeFails, Finalized
<1>20. CASE CloseHandle
  BY <1>20 DEF CloseHandle
<1>21. CASE Forget
  BY <1>21 DEF Forget
<1> QED
  BY <1>1, <1>2, <1>3, <1>4, <1>5, <1>6, <1>7, <1>8, <1>9, <1>10, <1>11,
     <1>12, <1>13, <1>14, <1>15, <1>16, <1>17, <1>18, <1>19, <1>20, <1>21 DEF Next

LEMMA Inductive == Spec => []IInv
  BY InitHolds, StepHolds, PTL DEF Spec

\* Whenever the power fails, the header on the medium declares no more than the
\* payload that was stored: file_writer_write_all() is counted after it succeeds,
\* and file_writer_finalize() writes the count.
THEOREM CrashSafe == Spec => []HeaderNeverOverstates
<1>1. IInv => HeaderNeverOverstates
  BY DEF IInv, HeaderMatchesFile, HeaderNeverOverstates
<1> QED
  BY <1>1, Inductive, PTL

\* An end of stream, or a close(), that is reported as a success has left a file
\* whose header is exact, whatever failed before it.
THEOREM SuccessIsExact == Spec => []ReportedFileIsExact
<1>1. IInv => ReportedFileIsExact
  BY DEF IInv, TypeOK, HeaderMatchesFile, HandleMatchesCall, ReportedFileIsExact
<1> QED
  BY <1>1, Inductive, PTL

\* process() appends, in the track after a finalise as in the first.
THEOREM OnlyAppends == Spec => []PayloadIsAppended
<1>1. IInv => PayloadIsAppended
  BY DEF IInv, PositionedAtEnd, PayloadIsAppended
<1> QED
  BY <1>1, Inductive, PTL

\* No failure strands a handle: the node knows of every one that is open, and
\* after close() there is none.
THEOREM NoHandleStranded == Spec => []HandleReleased
<1>1. IInv => HandleReleased
  BY DEF IInv, HandleMatchesCall, HandleReleased
<1> QED
  BY <1>1, Inductive, PTL

-----------------------------------------------------------------------------
(* The writer and the power. *)

LEMMA PowerFailureHolds == IInv /\ PowerFails => IInv'
  BY SizeAssumption
  DEF PowerFails, None, Torn, IInv, TypeOK, HandleMatchesCall, CountsMatchFile,
      HeaderMatchesFile, PositionedAtEnd

LEMMA VolumeKeepsWriter == VolumeSpec => []IInv
<1>1. VolumeInit => IInv  BY InitHolds DEF VolumeInit
<1>2. IInv /\ [VolumeNext]_allVars => IInv'
  <2> SUFFICES ASSUME IInv, [VolumeNext]_allVars PROVE IInv'  OBVIOUS
  <2>1. CASE [Next]_vars  BY <2>1, StepHolds
  <2>2. CASE PowerFails  BY <2>2, PowerFailureHolds
  <2> QED
    BY <2>1, <2>2 DEF VolumeNext, allVars, Write, Play, PlayRecording, PlayForeign, PlayFails,
       PullTrack, EndPlay
<1> QED  BY <1>1, <1>2, PTL DEF VolumeSpec

\* With the power failing at any step of a recording, and again in the next, the
\* header never declares more than was stored, a recording that was reported
\* complete is exact, and nothing is written but at the end.
THEOREM RecordingsSurvivePower ==
  VolumeSpec => [](HeaderNeverOverstates /\ ReportedFileIsExact /\ PayloadIsAppended)
<1>1. IInv => HeaderNeverOverstates /\ ReportedFileIsExact /\ PayloadIsAppended
  BY DEF IInv, TypeOK, HandleMatchesCall, HeaderMatchesFile, PositionedAtEnd,
         HeaderNeverOverstates, ReportedFileIsExact, PayloadIsAppended
<1> QED  BY <1>1, VolumeKeepsWriter, PTL

-----------------------------------------------------------------------------
(* The reader. *)

\* Until the end of the data is met what was read was handed out, in whole
\* sample sets; from then on there is nothing left to play.
ReaderInv ==
  /\ readerOpen \in {0, 1} /\ eof \in {0, 1} /\ outcome \in {"none", "frame", "eof", "error"}
  /\ bytesLeft \in Nat /\ declared \in Nat /\ stored \in Nat /\ filePos \in Nat /\ heard \in Nat
  /\ readerOpen = 0 => /\ declared = 0 /\ stored = 0 /\ filePos = 0 /\ heard = 0
                       /\ outcome \in {"none", "error"}
  /\ readerOpen = 1 => filePos + bytesLeft = declared /\ filePos <= stored
  /\ readerOpen = 1 /\ eof = 0 => heard = filePos /\ filePos % FrameBytes = 0
  /\ readerOpen = 1 /\ eof = 1 => heard = Playable
  /\ outcome = "eof" => readerOpen = 1 /\ eof = 1

\* Rounding to whole sample sets.
LEMMA WholeFacts ==
  ASSUME NEW n \in Nat
  PROVE  /\ Whole(n) \in Nat /\ Whole(n) <= n /\ n < Whole(n) + FrameBytes
         /\ Whole(n) % FrameBytes = 0
         /\ (n % FrameBytes = 0 => Whole(n) = n)
<1>1. CASE FrameBytes = 2  BY <1>1 DEF Whole
<1>2. CASE FrameBytes = 4  BY <1>2 DEF Whole
<1> QED  BY <1>1, <1>2, ReaderAssumption

\* ... behind a whole number of them.
LEMMA WholeSum ==
  ASSUME NEW p \in Nat, NEW n \in Nat, p % FrameBytes = 0
  PROVE  /\ Whole(p + n) = p + Whole(n)
         /\ (n % FrameBytes = 0 => (p + n) % FrameBytes = 0)
<1>1. CASE FrameBytes = 2  BY <1>1 DEF Whole
<1>2. CASE FrameBytes = 4  BY <1>2 DEF Whole
<1> QED  BY <1>1, <1>2, ReaderAssumption

LEMMA FrameHolds ==
  ASSUME ReaderInv, NEW capacity \in Capacities, ReadFrame(capacity)
  PROVE  ReaderInv'
<1> DEFINE wanted == Wanted(capacity)
           read   == Smaller(wanted, stored - filePos)
<1>1. /\ readerOpen = 1 /\ eof = 0 /\ ~TooSmall(capacity)
      /\ filePos' = filePos + read /\ bytesLeft' = bytesLeft - read
      /\ heard' = heard + Whole(read)
      /\ eof' = IF read < wanted \/ Whole(read) = 0 THEN 1 ELSE 0
      /\ outcome' = IF Whole(read) = 0 THEN "eof" ELSE "frame"
      /\ UNCHANGED <<readerOpen, declared, stored>>
  BY DEF ReadFrame, Reading
<1>2. /\ bytesLeft \in Nat /\ declared \in Nat /\ stored \in Nat /\ filePos \in Nat
      /\ heard = filePos /\ filePos % FrameBytes = 0
      /\ filePos + bytesLeft = declared /\ filePos <= stored
  BY <1>1 DEF ReaderInv
<1>3. capacity \in Nat /\ capacity * 2 \in Nat /\ FrameBytes \in {2, 4}
  BY ReaderAssumption
<1>4. wanted \in Nat /\ wanted % FrameBytes = 0 /\ wanted <= bytesLeft
      /\ (wanted = 0 => Whole(bytesLeft) = 0)
  <2>1. capacity * 2 >= FrameBytes
    BY <1>1, <1>3 DEF TooSmall
  <2>2. Whole(capacity * 2) > 0
    <3>1. CASE FrameBytes = 2  BY <1>3, <2>1, <3>1 DEF Whole
    <3>2. CASE FrameBytes = 4  BY <1>3, <2>1, <3>2 DEF Whole
    <3> QED  BY <1>3, <3>1, <3>2
  <2>3. /\ Whole(capacity * 2) \in Nat /\ Whole(capacity * 2) % FrameBytes = 0
        /\ Whole(bytesLeft) \in Nat /\ Whole(bytesLeft) % FrameBytes = 0
        /\ Whole(bytesLeft) <= bytesLeft
    BY <1>2, <1>3, WholeFacts
  <2> QED  BY <2>2, <2>3, <1>2 DEF Wanted, Smaller
<1> HIDE DEF wanted
<1>5. read \in Nat /\ read <= wanted /\ read <= stored - filePos
      /\ (read = wanted \/ (read < wanted /\ filePos + read = stored))
  BY <1>2, <1>4 DEF Smaller
<1> HIDE DEF read
<1>6. Whole(read) \in Nat /\ Whole(read) <= read  BY <1>5, WholeFacts
<1>7. filePos' \in Nat /\ bytesLeft' \in Nat /\ heard' \in Nat
      /\ filePos' + bytesLeft' = declared' /\ filePos' <= stored'
  BY <1>1, <1>2, <1>4, <1>5, <1>6
<1>8. CASE eof' = 0
  <2>1. read = wanted /\ Whole(read) = read
    BY <1>1, <1>4, <1>5, <1>8, WholeFacts
  <2>2. heard' = filePos' /\ filePos' % FrameBytes = 0
    BY <1>1, <1>2, <1>4, <1>5, <2>1, WholeSum
  <2> QED  BY <1>1, <1>2, <1>7, <1>8, <2>2 DEF ReaderInv
<1>9. CASE eof' = 1
  <2>1. heard' = Whole(filePos + read)  BY <1>1, <1>2, <1>5, WholeSum
  <2>2. Playable' = Whole(Smaller(declared, stored))  BY <1>1 DEF Playable, Whole, Smaller
  <2>3. CASE read < wanted
    <3>1. filePos + read = stored /\ stored < declared  BY <1>2, <1>4, <1>5, <2>3
    <3> QED  BY <1>1, <1>2, <1>7, <1>9, <2>1, <2>2, <3>1 DEF ReaderInv, Smaller
  <2>4. CASE read = wanted
    <3>1. wanted = 0
      <4>1. Whole(read) = read  BY <1>4, <2>4, WholeFacts
      <4> QED  BY <1>1, <1>9, <2>4, <4>1, <1>4
    <3>2. Whole(bytesLeft) = 0 /\ bytesLeft < FrameBytes
      BY <1>2, <1>3, <1>4, <3>1, WholeFacts
    <3>3. PICK n \in Nat : Smaller(declared, stored) = filePos + n /\ n <= bytesLeft
      <4>1. Smaller(declared, stored) - filePos \in Nat /\ Smaller(declared, stored) \in Nat
            /\ Smaller(declared, stored) - filePos <= bytesLeft
        BY <1>2 DEF Smaller
      <4> QED  BY <4>1, <1>2
    <3>4. Whole(n) = 0
      <4>1. n < FrameBytes  BY <1>2, <1>3, <3>2, <3>3
      <4>2. CASE FrameBytes = 2  BY <4>1, <4>2 DEF Whole
      <4>3. CASE FrameBytes = 4  BY <4>1, <4>3 DEF Whole
      <4> QED  BY <1>3, <4>2, <4>3
    <3>5. Playable' = filePos /\ heard' = filePos
      <4>1. Whole(filePos + n) = filePos  BY <1>2, <3>3, <3>4, WholeSum
      <4>2. filePos + read = filePos  BY <1>2, <2>4, <3>1
      <4>3. Whole(filePos) = filePos  BY <1>2, WholeFacts
      <4> QED  BY <2>1, <2>2, <3>3, <4>1, <4>2, <4>3
    <3> QED  BY <1>1, <1>2, <1>7, <1>9, <3>5 DEF ReaderInv
  <2> QED  BY <1>5, <2>3, <2>4
<1> QED  BY <1>1, <1>8, <1>9

LEMMA ReaderStep == ReaderInv /\ [VolumeNext]_allVars => ReaderInv'
<1> SUFFICES ASSUME ReaderInv, [VolumeNext]_allVars PROVE ReaderInv'  OBVIOUS
<1>1. ASSUME UNCHANGED readerVars PROVE ReaderInv'
  BY <1>1 DEF readerVars, ReaderInv, Playable, Whole, Smaller
<1>2. ASSUME NEW t, OpenTrack(t) PROVE ReaderInv'
  <2>1. PICK size \in Nat, bytes \in Nat :
          /\ readerOpen' = 1 /\ eof' = 0 /\ outcome' = "none"
          /\ declared' = size /\ bytesLeft' = size /\ stored' = bytes
          /\ filePos' = 0 /\ heard' = 0
    BY <1>2 DEF OpenTrack
  <2>2. 0 % FrameBytes = 0  BY ReaderAssumption
  <2> QED  BY <2>1, <2>2 DEF ReaderInv
<1>3. CASE OpenTrackFails  BY <1>3 DEF OpenTrackFails, NoTrack, ReaderInv
<1>4. CASE CloseTrack  BY <1>4 DEF CloseTrack, NoTrack, ReaderInv
<1>5. CASE StillOver
  BY <1>5 DEF StillOver, Reading, ReaderInv, Playable, Whole, Smaller
<1>6. ASSUME NEW c \in Capacities, ReadFrame(c) PROVE ReaderInv'  BY <1>6, FrameHolds
<1>7. ASSUME NEW c \in Capacities, ReadFrameFails(c) PROVE ReaderInv'
  BY <1>7 DEF ReadFrameFails, Reading, ReaderInv, Playable, Whole, Smaller
<1>8. CASE Write  BY <1>1, <1>8 DEF Write
<1>9. CASE PowerFails  BY <1>1, <1>9 DEF PowerFails
<1>10. CASE Play  BY <1>2, <1>3, <1>10 DEF Play, PlayRecording, PlayForeign, PlayFails
<1>11. CASE PullTrack  BY <1>5, <1>6, <1>7, <1>11 DEF PullTrack, Process
<1>12. CASE EndPlay  BY <1>4, <1>12 DEF EndPlay
<1>13. CASE UNCHANGED allVars  BY <1>1, <1>13 DEF allVars
<1> QED  BY <1>8, <1>9, <1>10, <1>11, <1>12, <1>13 DEF VolumeNext

\* For every recording, every file from elsewhere that the parser accepts, mono
\* and stereo, and buffers of every size: what is played is payload in whole
\* sample sets, and all of it by the time the end of the stream is reported.
THEOREM TracksPlayToTheEnd == VolumeSpec => []PlaysWholeTrack
<1>1. VolumeInit => ReaderInv  BY DEF VolumeInit, ReaderInit, ReaderInv
<1>2. ReaderInv /\ [VolumeNext]_allVars => ReaderInv'  BY ReaderStep
<1>3. ReaderInv => PlaysWholeTrack
  <2> SUFFICES ASSUME ReaderInv PROVE PlaysWholeTrack  OBVIOUS
  <2>1. Smaller(declared, stored) \in Nat  BY DEF ReaderInv, Smaller
  <2>2. Playable \in Nat /\ Playable % FrameBytes = 0  BY <2>1, WholeFacts DEF Playable
  <2>3. CASE readerOpen = 0
    <3>1. Playable = 0 /\ heard = 0 /\ outcome # "eof"
      <4>1. Smaller(declared, stored) = 0 /\ heard = 0 /\ outcome # "eof"
        BY <2>3 DEF ReaderInv, Smaller
      <4>2. Whole(0) = 0  BY WholeFacts
      <4> QED  BY <4>1, <4>2 DEF Playable
    <3> QED  BY <2>2, <3>1 DEF PlaysWholeTrack
  <2>4. CASE readerOpen = 1 /\ eof = 0
    <3>1. /\ heard = filePos /\ filePos % FrameBytes = 0 /\ filePos \in Nat /\ outcome # "eof"
          /\ filePos <= Smaller(declared, stored)
      BY <2>4 DEF ReaderInv, Smaller
    <3>2. filePos <= Playable
      <4>1. PICK n \in Nat : Smaller(declared, stored) = filePos + n  BY <2>1, <3>1
      <4>2. Playable = filePos + Whole(n)  BY <3>1, <4>1, WholeSum DEF Playable
      <4>3. Whole(n) \in Nat  BY <4>1, WholeFacts
      <4> QED  BY <3>1, <4>2, <4>3
    <3> QED  BY <3>1, <3>2 DEF PlaysWholeTrack
  <2>5. CASE readerOpen = 1 /\ eof = 1
    BY <2>2, <2>5 DEF ReaderInv, PlaysWholeTrack
  <2> QED  BY <2>3, <2>4, <2>5 DEF ReaderInv
<1> QED  BY <1>1, <1>2, <1>3, PTL DEF VolumeSpec

-----------------------------------------------------------------------------
(* The parser and the recordings. *)

\* The reader's open() gets the payload and the format right, or refuses: whatever
\* file from elsewhere there is.
THEOREM ForeignFilesParsed == VolumeSpec => []ParserFindsHeader
<1>1. ParserFindsHeader
  BY ParserIsRight, VolumeAssumption DEF ParserFindsHeader
<1> QED
  BY <1>1, PTL

\* What has been reported is in the file, and its header says so, if it is not
\* torn, until the file is created again.
HistoryInv ==
  /\ reported \in (0..MaxData) \union {None, Untouched}
  /\ reported <= payload
  /\ header # Torn => reported <= header \/ reported \in {None, Untouched}
  /\ pc = "header" => reported = None

\* A recording is played by the header it has, or by one that a torn one may be
\* taken for, and all that it declares is there.
PlayInv ==
  playing = "recording" =>
    /\ readerOpen = 1
    /\ \E n \in 0..payload : /\ declared = n * ChunkBytes
                             /\ header # Torn => n = header
                             /\ stored \in Nat /\ stored >= payload * ChunkBytes

LEMMA Times ==
  ASSUME NEW a \in Nat, NEW b \in Nat
  PROVE  /\ a * ChunkBytes \in Nat
         /\ (a <= b => a * ChunkBytes <= b * ChunkBytes)
         /\ (a * ChunkBytes) % FrameBytes = 0
<1>1. ChunkBytes \in Nat
  BY VolumeAssumption
<1>2. a * ChunkBytes \in Nat
  BY <1>1
<1>3. ASSUME a <= b PROVE a * ChunkBytes <= b * ChunkBytes
  <2>1. PICK d \in Nat : b = a + d
    <3>1. b - a \in Nat /\ b = a + (b - a)
      BY <1>3
    <3> QED
      BY <3>1
  <2>2. b * ChunkBytes = a * ChunkBytes + d * ChunkBytes
    BY <1>1, <2>1
  <2>3. d * ChunkBytes \in Nat
    BY <1>1
  <2> QED
    BY <1>2, <2>2, <2>3
<1>4. (a * ChunkBytes) % FrameBytes = 0
  <2>1. CASE FrameBytes = 2
    <3>1. PICK q \in Nat : ChunkBytes = 2 * q
      <4>1. ChunkBytes \div 2 \in Nat /\ ChunkBytes = 2 * (ChunkBytes \div 2)
        BY <1>1, <2>1, VolumeAssumption
      <4> QED
        BY <4>1
    <3>2. a * ChunkBytes = 2 * (a * q) /\ a * q \in Nat
      BY <3>1
    <3> QED
      BY <2>1, <3>2
  <2>2. CASE FrameBytes = 4
    <3>1. PICK q \in Nat : ChunkBytes = 4 * q
      <4>1. ChunkBytes \div 4 \in Nat /\ ChunkBytes = 4 * (ChunkBytes \div 4)
        BY <1>1, <2>2, VolumeAssumption
      <4> QED
        BY <4>1
    <3>2. a * ChunkBytes = 4 * (a * q) /\ a * q \in Nat
      BY <3>1
    <3> QED
      BY <2>2, <3>2
  <2> QED
    BY <2>1, <2>2, ReaderAssumption
<1> QED
  BY <1>2, <1>3, <1>4

\* The header of a recording that is opened declares what is there.
LEMMA RecordingOpens ==
  ASSUME IInv, NEW t \in Recordings, OpenTrack(t)
  PROVE  /\ readerOpen' = 1
         /\ \E n \in 0..payload : /\ declared' = n * ChunkBytes
                                  /\ header # Torn => n = header
                                  /\ stored' \in Nat /\ stored' >= payload * ChunkBytes
<1>1. /\ payload \in 0..MaxData /\ header <= payload /\ header \in (0..MaxData) \union {None, Torn}
      /\ payload \in Nat /\ MaxData \in Nat /\ ChunkBytes \in Nat \ {0}
      /\ ChunkBytes * MaxData <= MaxDataSize
  BY SizeAssumption, VolumeAssumption DEF IInv, TypeOK, HeaderMatchesFile
<1>2. PICK n \in 0..payload : t = Recorded(n) /\ (header # Torn => n = header)
  BY <1>1 DEF Recordings, None, Torn
<1> DEFINE size == n * ChunkBytes
           rest == IF junk = 1 THEN ChunkBytes - 1 ELSE 0
           length == HeaderSize + payload * ChunkBytes + rest
<1>3. HeaderSize = 44
  BY DEF HeaderSize, RiffSize, ChunkSize, FmtSize
<1>4. rest \in Nat /\ payload * ChunkBytes \in Nat
  BY <1>1
<1>5. length \in Nat /\ HeaderSize <= length /\ length - HeaderSize \in Nat
      /\ length - HeaderSize >= payload * ChunkBytes
  <2> HIDE DEF rest
  <2> QED
    BY <1>3, <1>4
<1>6. size \in 0..MaxDataSize
  <2>1. n \in Nat /\ n <= MaxData
    BY <1>1
  <2>2. size \in Nat /\ size <= MaxData * ChunkBytes
    BY <1>1, <2>1, Times
  <2>3. MaxDataSize \in Int
    BY <1>3, WavAssumption DEF MaxDataSize
  <2>4. MaxData * ChunkBytes = ChunkBytes * MaxData /\ MaxData * ChunkBytes \in Nat
    BY <1>1
  <2> HIDE DEF size
  <2> QED
    BY <1>1, <2>2, <2>3, <2>4
<1>7. t = [chunks |-> HeaderChunks(size, "bound"), length |-> length]
  BY <1>2 DEF Recorded
<1> HIDE DEF size, length
<1>8. ReadHeader(t) = [offset |-> HeaderSize, size |-> size, format |-> "bound"]
  BY <1>5, <1>6, <1>7, HeaderReadsBack DEF Usable
<1>9. t.length = length
  BY <1>7
<1>10. /\ readerOpen' = 1 /\ declared' = ReadHeader(t).size
       /\ stored' = t.length - ReadHeader(t).offset
  BY DEF OpenTrack
<1>11. declared' = size /\ stored' = length - HeaderSize
  BY <1>8, <1>9, <1>10
<1> QED
  BY <1>2, <1>5, <1>10, <1>11 DEF size

LEMMA HistoryStep == IInv /\ HistoryInv /\ [VolumeNext]_allVars => HistoryInv'
<1> SUFFICES ASSUME IInv, HistoryInv, [VolumeNext]_allVars PROVE HistoryInv'
  OBVIOUS
<1>1. ASSUME UNCHANGED <<reported, payload, header>>, pc' # "header" \/ pc' = pc PROVE HistoryInv'
  BY <1>1 DEF HistoryInv
<1>2. CASE Write
  <2>1. Next /\ reported' = IF Creates THEN None ELSE IF Reports THEN payload ELSE reported
    BY <1>2 DEF Write
  <2>2. /\ payload \in 0..MaxData /\ header <= payload /\ MaxData \in Nat
        /\ header \in (0..MaxData) \union {None, Torn}
        /\ reported \in (0..MaxData) \union {None, Untouched} /\ reported <= payload
    BY SizeAssumption DEF IInv, TypeOK, HeaderMatchesFile, HistoryInv
  <2> USE DEF HistoryInv, Creates, Reports, None, Torn, Untouched, Finish, Enter, node, file
  <2>3. CASE Open
    BY <2>1, <2>2, <2>3 DEF Open
  <2>4. CASE Close
    BY <2>1, <2>2, <2>4 DEF Close
  <2>5. CASE PullFails
    BY <2>1, <2>2, <2>5 DEF PullFails, MayProcess
  <2>6. CASE PullEnd
    BY <2>1, <2>2, <2>6 DEF PullEnd, MayProcess
  <2>7. CASE PullFrame
    <3>1. pc = "idle" /\ pc' \in {"idle", "write"} /\ UNCHANGED <<header, payload>>
      BY <2>7 DEF PullFrame, MayProcess
    <3> QED
      BY <2>1, <2>2, <3>1
  <2>8. CASE OpenFails
    BY <2>1, <2>2, <2>8 DEF OpenFails
  <2>9. CASE Create
    BY <2>1, <2>2, <2>9 DEF Create
  <2>10. CASE WriteHeader
    BY <2>1, <2>2, <2>10 DEF WriteHeader, IInv, CountsMatchFile
  <2>11. CASE WriteHeaderFails
    BY <2>1, <2>2, <2>11 DEF WriteHeaderFails
  <2>12. CASE WriteChunk
    <3>1. pos = "end"
      BY <2>12 DEF WriteChunk, IInv, PositionedAtEnd
    <3>2. payload' = payload + 1 /\ header' = header /\ pc = "write" /\ pc' \in {"write", "idle"}
      BY <2>12, <3>1 DEF WriteChunk
    <3>3. dataBytes = payload /\ left > 0 /\ dataBytes + left <= MaxData
      BY <3>2 DEF IInv, CountsMatchFile, HandleMatchesCall
    <3> QED
      BY <2>1, <2>2, <3>2, <3>3
  <2>13. CASE WriteChunkFails
    BY <2>1, <2>2, <2>13 DEF WriteChunkFails
  <2>14. CASE NothingToPatch
    <3>1. header = payload
      BY <2>14 DEF NothingToPatch, IInv, HeaderMatchesFile, HandleMatchesCall
    <3> QED
      BY <2>1, <2>2, <2>14, <3>1 DEF NothingToPatch, Finalized
  <2>15. CASE SeekStart
    BY <2>1, <2>2, <2>15 DEF SeekStart
  <2>16. CASE Patch
    <3>1. dataBytes = payload
      BY <2>16 DEF Patch, IInv, CountsMatchFile, HandleMatchesCall
    <3> QED
      BY <2>1, <2>2, <2>16, <3>1 DEF Patch
  <2>17. CASE PatchFails
    BY <2>1, <2>2, <2>17 DEF PatchFails, Finalized
  <2>18. CASE Sync
    BY <2>1, <2>2, <2>18 DEF Sync
  <2>19. CASE SeekEnd
    <3>1. header = payload
      BY <2>19 DEF SeekEnd, IInv, HeaderMatchesFile
    <3> QED
      BY <2>1, <2>2, <2>19, <3>1 DEF SeekEnd, Finalized
  <2>20. CASE FinalizeFails
    BY <2>1, <2>2, <2>20 DEF FinalizeFails, Finalized
  <2>21. CASE CloseHandle
    <3>1. err' = 0 => header = payload
      BY <2>21 DEF CloseHandle, IInv, TypeOK, HeaderMatchesFile
    <3> QED
      BY <2>1, <2>2, <2>21, <3>1 DEF CloseHandle
  <2>22. CASE Forget
    BY <2>1, <2>2, <2>22 DEF Forget
  <2> QED
    BY <2>1, <2>3, <2>4, <2>5, <2>6, <2>7, <2>8, <2>9, <2>10, <2>11, <2>12, <2>13, <2>14, <2>15,
       <2>16, <2>17, <2>18, <2>19, <2>20, <2>21, <2>22 DEF Next
<1>3. CASE PowerFails
  BY <1>1, <1>3 DEF PowerFails, volume
<1>4. CASE Play \/ PullTrack \/ EndPlay \/ UNCHANGED allVars
  <2>1. UNCHANGED <<reported, payload, header, pc>>
    BY <1>4 DEF Play, PlayRecording, PlayForeign, PlayFails, PullTrack, EndPlay, allVars, vars,
                file, calls, volume
  <2> QED
    BY <1>1, <2>1
<1> QED
  BY <1>2, <1>3, <1>4 DEF VolumeNext

LEMMA PlayStep == IInv /\ PlayInv /\ [VolumeNext]_allVars => PlayInv'
<1> SUFFICES ASSUME IInv, PlayInv, [VolumeNext]_allVars, playing' = "recording" PROVE PlayInv'
  BY DEF PlayInv
<1>1. ASSUME UNCHANGED <<playing, readerOpen, declared, stored, header, payload>> PROVE PlayInv'
  BY <1>1 DEF PlayInv
<1>2. ASSUME readerOpen = 0, playing' = playing PROVE PlayInv'
  BY <1>2 DEF PlayInv
<1>3. CASE Write \/ PowerFails
  BY <1>2, <1>3 DEF Write, PowerFails, volume
<1>4. CASE PlayRecording
  <2>1. PICK t \in Recordings : OpenTrack(t)
    BY <1>4 DEF PlayRecording
  <2>2. UNCHANGED <<header, payload>>
    BY <1>4 DEF PlayRecording, vars, file
  <2> QED
    BY <2>1, <2>2, RecordingOpens DEF PlayInv
<1>5. CASE PullTrack
  <2>1. UNCHANGED <<playing, readerOpen, declared, stored, header, payload>>
    BY <1>5 DEF PullTrack, Process, StillOver, ReadFrame, ReadFrameFails, vars, file, volume
  <2> QED
    BY <1>1, <2>1
<1>6. CASE UNCHANGED allVars
  BY <1>1, <1>6 DEF allVars, vars, file, volume, readerVars
<1> QED
  BY <1>3, <1>4, <1>5, <1>6 DEF VolumeNext, Play, PlayForeign, PlayFails, EndPlay

\* Recorded, reported complete, and played: every chunk of it is heard by the end
\* of the stream, over losses of power after the report, and never more than was
\* stored as a whole.
THEOREM ReportedIsHeard == VolumeSpec => []RecordingPlaysBack
<1>1. VolumeInit => ReaderInv /\ HistoryInv /\ PlayInv
  <2> SUFFICES ASSUME VolumeInit PROVE ReaderInv /\ HistoryInv /\ PlayInv
    OBVIOUS
  <2>1. ReaderInv
    BY DEF VolumeInit, ReaderInit, ReaderInv
  <2>2. HistoryInv /\ PlayInv
    BY SizeAssumption DEF VolumeInit, Init, HistoryInv, PlayInv, Untouched, None
  <2> QED
    BY <2>1, <2>2
<1>2. IInv /\ ReaderInv /\ HistoryInv /\ PlayInv /\ PlaysWholeTrack => RecordingPlaysBack
  <2> SUFFICES ASSUME IInv, ReaderInv, HistoryInv, PlayInv, PlaysWholeTrack, playing = "recording"
               PROVE  /\ heard <= payload * ChunkBytes
                      /\ outcome = "eof" /\ header # Torn /\ reported >= 0
                           => heard >= reported * ChunkBytes
    BY DEF RecordingPlaysBack
  <2>1. PICK n \in 0..payload : /\ declared = n * ChunkBytes /\ (header # Torn => n = header)
                                /\ stored \in Nat /\ stored >= payload * ChunkBytes
    BY DEF PlayInv
  <2>2. payload \in Nat /\ n \in Nat /\ n <= payload
    BY SizeAssumption DEF IInv, TypeOK
  <2>3. n * ChunkBytes \in Nat /\ n * ChunkBytes <= payload * ChunkBytes
        /\ payload * ChunkBytes \in Nat /\ (n * ChunkBytes) % FrameBytes = 0
    BY <2>2, Times
  <2>4. Smaller(declared, stored) = n * ChunkBytes
    BY <2>1, <2>3 DEF Smaller
  <2>5. Playable = n * ChunkBytes
    BY <2>3, <2>4, WholeFacts DEF Playable
  <2>6. heard \in Nat /\ heard <= n * ChunkBytes /\ (outcome = "eof" => heard = n * ChunkBytes)
    BY <2>5 DEF PlaysWholeTrack, ReaderInv
  <2>7. heard <= payload * ChunkBytes
    BY <2>3, <2>6
  <2>8. ASSUME outcome = "eof", header # Torn, reported >= 0
        PROVE  heard >= reported * ChunkBytes
    <3>1. reported \in Nat /\ reported <= n
      BY <2>1, <2>8, SizeAssumption DEF HistoryInv, None, Untouched
    <3>2. reported * ChunkBytes \in Nat /\ reported * ChunkBytes <= n * ChunkBytes
      BY <2>2, <3>1, Times
    <3> QED
      BY <2>6, <2>8, <3>2
  <2> QED
    BY <2>7, <2>8
<1> QED
  BY <1>1, <1>2, ReaderStep, HistoryStep, PlayStep, VolumeKeepsWriter, TracksPlayToTheEnd, PTL
     DEF VolumeSpec
=============================================================================
