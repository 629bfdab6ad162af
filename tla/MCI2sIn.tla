------------------------------- MODULE MCI2sIn ------------------------------
(* Blocks that take more than one frame to drain, the last one partly full. *)
EXTENDS I2sIn
=============================================================================
