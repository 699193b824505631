---------------------------- MODULE MCCoprocessor ----------------------------
(* The last repetition, or one that waits for a line that stays 0,         *)
(* ends the program's progress.                                            *)
EXTENDS Coprocessor
=============================================================================
