----------------------------- MODULE MCWavFile ------------------------------
(* Frames of several chunks, size fields that a few frames exhaust, and     *)
(* files of up to three chunks, cut off anywhere, with odd, missing, wrong  *)
(* and oversized ones among them.                                           *)
EXTENDS WavFile

MCChunks ==
  [id : {"fmt"}, size : {16}, body : Bodies]
    \union [id : {"fmt"}, size : {14, 18, 127}, body : {"bound"}]
    \union [id : {"data", "other"}, size : {0, 3, 8, 10, 127}, body : {"none"}]

MCForeign ==
  [chunks : UNION {[1..n -> MCChunks] : n \in 0..3}, length : {10, 30, 36, 44, 49, 56, 75}]
=============================================================================
