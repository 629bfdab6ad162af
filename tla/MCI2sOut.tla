------------------------------ MODULE MCI2sOut ------------------------------
(* A single frame fills the queue of one driver, and with the other takes   *)
(* every block of the slab.                                                *)
EXTENDS I2sOut
=============================================================================
