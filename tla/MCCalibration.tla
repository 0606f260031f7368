--------------------------- MODULE MCCalibration ---------------------------
(* Constants for TLC are in the .cfg files. *)
EXTENDS Calibration

=============================================================================
