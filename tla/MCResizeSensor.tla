--------------------------- MODULE MCResizeSensor ---------------------------
(* Instances of ResizeSensor for TLC. *)
EXTENDS ResizeSensor
=============================================================================
