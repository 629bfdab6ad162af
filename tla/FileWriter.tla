----------------------------- MODULE FileWriter -----------------------------
(***************************************************************************)
(* The WAV file sink and the file it writes.  The header is patched to the *)
(* payload's size at the end of the stream and again on close, by seeking  *)
(* back over a file that is otherwise appended to; any of the filesystem's *)
(* calls may fail, a write also by storing a part of what it was given.    *)
(*                                                                         *)
(* The file is external.  A unit of payload is one chunk, the most a       *)
(* single fs_write() of process() carries.  The pipeline's protocol is     *)
(* assumed: after a failed process() the next call is close().             *)
(***************************************************************************)
EXTENDS Integers

CONSTANTS
  MaxData,    \* chunks the 32 bit size fields can describe
  MaxChunks   \* chunks of the largest frame

ASSUME SizeAssumption == MaxData \in Nat /\ MaxChunks \in Nat \ {0}

VARIABLES
  fileOpen,   \* node: 1 while it has a handle
  dataBytes,  \* node: payload the filesystem has confirmed
  stale,      \* node: 1 if the header does not say so yet
  pc,         \* where a call is, "idle" between calls
  call,       \* the call: "open", "process" or "close"
  left,       \* chunks of the frame not yet written
  err,        \* 1 once a step of the call has failed
  result,     \* of the last call: "ok", "eof", "error"
  handle,     \* file: 1 while the filesystem has it open
  header,     \* file: the size the header declares, None or Torn
  payload,    \* file: complete chunks behind the header
  junk,       \* file: 1 if a chunk was stored in part behind them
  pos         \* file: "start", "data" behind the header, or "end"

None == -1   \* no header yet
Torn == -2   \* a part of one

node == <<fileOpen, dataBytes, stale>>
calls == <<pc, call, left, err, result>>
file == <<handle, header, payload, junk, pos>>
vars == <<node, calls, file>>

Init ==
  /\ fileOpen = 0 /\ dataBytes = 0 /\ stale = 0
  /\ pc = "idle" /\ call = "close" /\ left = 0 /\ err = 0 /\ result = "ok"
  /\ handle = 0 /\ header = None /\ payload = 0 /\ junk = 0 /\ pos = "start"

-----------------------------------------------------------------------------
(* The calls. *)

Finish(res) ==
  /\ pc' = "idle" /\ left' = 0 /\ err' = 0 /\ result' = res /\ UNCHANGED call

Enter(what, where) == pc' = where /\ call' = what /\ err' = 0

\* The node counts its payload in 32 bits, like the header's fields.
CountOneMore == dataBytes' = (dataBytes + 1) % (MaxData + 1)

\* open() and close() begin with file_writer_release(), which finalises.
Open ==
  /\ pc = "idle"
  /\ Enter("open", IF fileOpen = 1 THEN "finalize" ELSE "forget")
  /\ UNCHANGED <<left, result, node, file>>

Close ==
  /\ pc = "idle"
  /\ Enter("close", IF fileOpen = 1 THEN "finalize" ELSE "forget")
  /\ UNCHANGED <<left, result, node, file>>

MayProcess == pc = "idle" /\ fileOpen = 1 /\ result # "error"

\* Upstream fails, or its samples do not fill whole sample sets.
PullFails ==
  /\ MayProcess
  /\ result' = "error" /\ UNCHANGED <<pc, call, left, err, node, file>>

\* An empty frame ends the stream and finalises as well.
PullEnd ==
  /\ MayProcess
  /\ Enter("process", "finalize")
  /\ UNCHANGED <<left, result, node, file>>

\* Mutant of PullFrame: looks at the total before the frame is added.
MutPullFrame ==
  /\ MayProcess
  /\ \E n \in 1..MaxChunks :
       IF dataBytes >= MaxData
         THEN result' = "error" /\ UNCHANGED <<pc, call, left, err>>
         ELSE left' = n /\ Enter("process", "write") /\ UNCHANGED result
  /\ UNCHANGED <<node, file>>

\* A frame, refused if the size fields could not describe the sum.
PullFrame ==
  /\ MayProcess
  /\ \E n \in 1..MaxChunks :
       IF n > MaxData - dataBytes
         THEN result' = "error" /\ UNCHANGED <<pc, call, left, err>>
         ELSE left' = n /\ Enter("process", "write") /\ UNCHANGED result
  /\ UNCHANGED <<node, file>>

-----------------------------------------------------------------------------
(* The rest of open(). *)

\* The format is refused, or the file cannot be created: any file is as it was.
OpenFails ==
  /\ pc = "check" /\ Finish("error")
  /\ UNCHANGED <<node, file>>

Create ==
  /\ pc = "check" /\ pc' = "header"
  /\ handle' = 1 /\ header' = None /\ payload' = 0 /\ junk' = 0 /\ pos' = "start"
  /\ fileOpen' = 1 /\ dataBytes' = 0 /\ stale' = 0
  /\ UNCHANGED <<call, left, err, result>>

\* A header for an empty file.
WriteHeader ==
  /\ pc = "header" /\ Finish("ok")
  /\ header' = 0 /\ pos' = "end"
  /\ UNCHANGED <<node, handle, payload, junk>>

\* The file is left behind, closed, with what part of the header it got.
WriteHeaderFails ==
  /\ pc = "header" /\ Finish("error")
  /\ header' \in {None, Torn}
  /\ handle' = 0 /\ fileOpen' = 0
  /\ UNCHANGED <<dataBytes, stale, payload, junk, pos>>

-----------------------------------------------------------------------------
(* The rest of process(). *)

\* A chunk is stored, and counted only then.  Anywhere but at the end it would
\* overwrite what is there: the header, at the start of the file.
WriteChunk ==
  /\ pc = "write"
  /\ IF pos = "end" THEN payload' = payload + 1 /\ UNCHANGED header
     ELSE header' = Torn /\ UNCHANGED payload
  /\ CountOneMore /\ stale' = 1
  /\ IF left = 1 THEN Finish("ok")
                 ELSE left' = left - 1 /\ UNCHANGED <<pc, call, err, result>>
  /\ UNCHANGED <<fileOpen, handle, junk, pos>>

\* Mutant of WriteChunkFails: counts what it meant to write.
MutWriteChunkFails ==
  /\ pc = "write" /\ Finish("error")
  /\ junk' \in {0, 1} /\ CountOneMore /\ stale' = 1
  /\ UNCHANGED <<fileOpen, handle, header, payload, pos>>

\* The filesystem fails, or takes a part of the chunk and is full.
WriteChunkFails ==
  /\ pc = "write" /\ Finish("error")
  /\ junk' \in {0, 1}
  /\ UNCHANGED <<node, handle, header, payload, pos>>

-----------------------------------------------------------------------------
(* file_writer_finalize() and, for open() and close(), the rest of          *)
(* file_writer_release().                                                   *)

\* What follows a finalise that has gone well, or failed.
Finalized(ok) ==
  IF call = "process"
    THEN Finish(IF ok THEN "eof" ELSE "error")
    ELSE pc' = "close" /\ err' = (IF ok THEN 0 ELSE 1) /\ UNCHANGED <<call, left, result>>

\* Without new payload there is nothing to do.
NothingToPatch ==
  /\ pc = "finalize" /\ stale = 0 /\ Finalized(TRUE)
  /\ UNCHANGED <<node, file>>

SeekStart ==
  /\ pc = "finalize" /\ stale = 1
  /\ pos' = "start" /\ pc' = "patch"
  /\ UNCHANGED <<call, left, err, result, node, handle, header, payload, junk>>

\* The header for what has been confirmed so far.
Patch ==
  /\ pc = "patch"
  /\ header' = dataBytes /\ pos' = "data" /\ pc' = "sync"
  /\ UNCHANGED <<call, left, err, result, node, handle, payload, junk>>

\* A header stored in part.
PatchFails ==
  /\ pc = "patch" /\ Finalized(FALSE)
  /\ header' \in {header, Torn} /\ pos' \in {"start", "data"}
  /\ UNCHANGED <<node, handle, payload, junk>>

\* A filesystem without sync support is not an error.
Sync ==
  /\ pc = "sync" /\ pc' = "seekend"
  /\ UNCHANGED <<call, left, err, result, node, file>>

\* Mutant of SeekEnd: the position stays behind the header.
MutSeekEnd ==
  /\ pc = "seekend" /\ Finalized(TRUE)
  /\ stale' = 0
  /\ UNCHANGED <<fileOpen, dataBytes, handle, header, payload, junk, pos>>

SeekEnd ==
  /\ pc = "seekend" /\ Finalized(TRUE)
  /\ pos' = "end" /\ stale' = 0
  /\ UNCHANGED <<fileOpen, dataBytes, handle, header, payload, junk>>

\* Either seek fails, or the sync: the header stays marked as stale.
FinalizeFails ==
  /\ \/ pc = "finalize" /\ stale = 1
     \/ pc \in {"sync", "seekend"}
  /\ Finalized(FALSE)
  /\ UNCHANGED <<node, file>>

\* The handle is given up whatever came before, and whatever fs_close() says.
CloseHandle ==
  /\ pc = "close" /\ pc' = "forget"
  /\ handle' = 0 /\ fileOpen' = 0
  /\ err' \in IF err = 1 THEN {1} ELSE {0, 1}
  /\ UNCHANGED <<call, left, result, dataBytes, stale, header, payload, junk, pos>>

\* The counters are reset; open() goes on and drops the error.
Forget ==
  /\ pc = "forget"
  /\ dataBytes' = 0 /\ stale' = 0
  /\ IF call = "open"
       THEN pc' = "check" /\ err' = 0 /\ UNCHANGED <<call, left, result>>
       ELSE Finish(IF err = 1 THEN "error" ELSE "ok")
  /\ UNCHANGED <<fileOpen, file>>

Next ==
  \/ Open \/ Close \/ PullFails \/ PullEnd \/ PullFrame
  \/ OpenFails \/ Create \/ WriteHeader \/ WriteHeaderFails
  \/ WriteChunk \/ WriteChunkFails
  \/ NothingToPatch \/ SeekStart \/ Patch \/ PatchFails \/ Sync \/ SeekEnd
  \/ FinalizeFails \/ CloseHandle \/ Forget

Spec == Init /\ [][Next]_vars

-----------------------------------------------------------------------------
(* Properties. *)

\* Every variable has its type; the payload never outgrows the 32 bit field that
\* has to declare it.
TypeOK ==
  /\ fileOpen \in {0, 1} /\ stale \in {0, 1} /\ err \in {0, 1}
  /\ handle \in {0, 1} /\ junk \in {0, 1}
  /\ dataBytes \in 0..MaxData /\ payload \in 0..MaxData
  /\ header \in (0..MaxData) \union {None, Torn}
  /\ pc \in {"idle", "check", "header", "write", "finalize", "patch", "sync",
             "seekend", "close", "forget"}
  /\ call \in {"open", "process", "close"} /\ left \in 0..MaxChunks
  /\ result \in {"ok", "eof", "error"} /\ pos \in {"start", "data", "end"}

\* At no step, so whenever the power fails, does the header declare payload
\* that the filesystem has not confirmed.
HeaderNeverOverstates == header <= payload

\* A file whose end of stream, or whose close(), is reported without an error
\* declares exactly the payload that is in it, over any number of tracks, of
\* finalises that failed on the way and of frames that were cut short.
ReportedFileIsExact ==
  /\ pc = "idle" /\ result = "eof" => header = payload
  /\ pc = "close" /\ err = 0 => header = payload

\* Payload is only ever appended: the position a finalise left in the header
\* never meets the next track's first frame.
PayloadIsAppended == pc = "write" => pos = "end" /\ junk = 0

\* Whatever fails, the node has a handle exactly while the filesystem does,
\* and none after close().
HandleReleased ==
  /\ fileOpen = handle
  /\ pc = "idle" /\ call = "close" => handle = 0
=============================================================================
