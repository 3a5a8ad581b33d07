------------------------------ MODULE MCExecution ------------------------------
(* Instances of Execution: one message, two or three incarnations.          *)
EXTENDS Execution, TLC

CONSTANTS m1
=============================================================================
