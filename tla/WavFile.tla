------------------------------ MODULE WavFile -------------------------------
(***************************************************************************)
(* One path on a volume, recorded by the file writer and played by the     *)
(* file reader, in turns.  Before the first recording it may hold any file *)
(* from elsewhere.  The power may fail at any step of a recording; the     *)
(* node's memory is lost then, and the file is what the calls have made of *)
(* it.                                                                     *)
(***************************************************************************)
EXTENDS FileWriter, FileReader

CONSTANTS
  ChunkBytes,  \* bytes of one of the writer's chunks
  Foreign      \* the files from elsewhere

ASSUME VolumeAssumption ==
  /\ ChunkBytes \in Nat \ {0} /\ ChunkBytes % FrameBytes = 0
  /\ ChunkBytes * MaxData <= MaxDataSize
  /\ Foreign \subseteq Files

VARIABLES
  reported,    \* history: chunks there were when the recording was last
               \* reported complete, None before that, and Untouched while
               \* the file from elsewhere is there
  playing      \* history: what the reader has opened

Untouched == -3

volume == <<reported, playing>>
allVars == <<vars, readerVars, volume>>

VolumeInit == Init /\ ReaderInit /\ reported = Untouched /\ playing = "nothing"

-----------------------------------------------------------------------------
(* The recordings as the reader finds them. *)

\* The file with a header for so many chunks; what was stored in part is there
\* as well.
Recorded(chunks) ==
  [chunks |-> HeaderChunks(chunks * ChunkBytes, "bound"),
   length |-> HeaderSize + payload * ChunkBytes + (IF junk = 1 THEN ChunkBytes - 1 ELSE 0)]

\* A header cut short when the file was created is not one.  One that was cut
\* short when it was patched mixes the low bytes of the new size with the high
\* bytes of the old: anything up to the new one.
Recordings ==
  IF header = Torn THEN {Recorded(n) : n \in 0..payload}
  ELSE IF header = None THEN {}
  ELSE {Recorded(header)}

-----------------------------------------------------------------------------

Creates == pc = "check" /\ pc' = "header"

\* The step at which the end of the stream, or close(), is reported a success.
Reports ==
  \/ pc \in {"finalize", "seekend"} /\ pc' = "idle" /\ result' = "eof"
  \/ pc = "close" /\ err' = 0

\* The writer makes a step.
Write ==
  /\ readerOpen = 0 /\ Next
  /\ reported' = IF Creates THEN None ELSE IF Reports THEN payload ELSE reported
  /\ UNCHANGED <<readerVars, playing>>

\* The writer's node starts from nothing, the file is as it is.
PowerFails ==
  /\ readerOpen = 0 /\ (pc # "idle" \/ fileOpen = 1)
  /\ fileOpen' = 0 /\ dataBytes' = 0 /\ stale' = 0
  /\ pc' = "idle" /\ call' = "close" /\ left' = 0 /\ err' = 0 /\ result' = "ok"
  /\ handle' = 0
  /\ UNCHANGED <<header, payload, junk, pos, readerVars, volume>>

\* The application plays the recording, or the file that was there before it.
PlayRecording ==
  /\ fileOpen = 0 /\ pc = "idle"
  /\ \E t \in Recordings : OpenTrack(t)
  /\ playing' = "recording" /\ UNCHANGED <<vars, reported>>

ForeignThere == reported = Untouched /\ fileOpen = 0 /\ pc = "idle" /\ readerOpen = 0

PlayForeign ==
  /\ ForeignThere
  /\ \E t \in Foreign : OpenTrack(t)
  /\ playing' = "foreign" /\ UNCHANGED <<vars, reported>>

PlayFails ==
  /\ fileOpen = 0 /\ pc = "idle"
  /\ OpenTrackFails
  /\ playing' = "nothing" /\ UNCHANGED <<vars, reported>>

Play == PlayRecording \/ PlayForeign \/ PlayFails

PullTrack == Process /\ UNCHANGED <<vars, volume>>

EndPlay ==
  /\ readerOpen = 1 /\ CloseTrack
  /\ playing' = "nothing" /\ UNCHANGED <<vars, reported>>

VolumeNext == Write \/ PowerFails \/ Play \/ PullTrack \/ EndPlay

VolumeSpec == VolumeInit /\ [][VolumeNext]_allVars

-----------------------------------------------------------------------------
(* Properties. *)

\* The parser finds the header fields that the chunk list defines, or refuses,
\* for every list of chunks, damaged sizes included, and every length of file.
ParserFindsHeader ==
  ForeignThere => \A t \in Foreign : ReadHeader(t) = Expected(t)

\* What the writer reported complete is played to the end, whatever became of
\* the recording after that, unless the power failed or the volume did while
\* the header was written.  Nothing is played that was not stored as a whole.
RecordingPlaysBack ==
  playing = "recording" =>
    /\ heard <= payload * ChunkBytes
    /\ outcome = "eof" /\ header # Torn /\ reported >= 0 => heard >= reported * ChunkBytes
=============================================================================
