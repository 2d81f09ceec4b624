---------------------------- MODULE MCRunRecords ----------------------------
(* Instances of RunRecords: two runs, whose records are independent.       *)
EXTENDS RunRecords, TLC
CONSTANTS r1, r2
=============================================================================
