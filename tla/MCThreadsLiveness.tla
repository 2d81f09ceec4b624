------------------------- MODULE MCThreadsLiveness -------------------------
(* The liveness of the threads and of the owner-reference checks, in one     *)
(* run: part says which of the two takes the steps.  The other rests where   *)
(* no fairness condition of its own asks for a step: threads nobody has      *)
(* asked for anything, checks that have all returned.                        *)
EXTENDS MCTaskThreads, OwnerRefChecks
CONSTANTS c1, c2, c3
VARIABLE part

LiveInit ==
  /\ Init
  /\ \/ part = "checks" /\ ChecksInit
     \/ /\ part = "threads"
        /\ check = [c \in Checks |-> "answered"] /\ late = Checks
        /\ waiters = <<>> /\ slotsUsed = 0

LiveNext ==
  /\ UNCHANGED part
  /\ IF part = "threads" THEN Next ELSE UNCHANGED vars
  /\ IF part = "checks" THEN ChecksNext ELSE UNCHANGED checkVars

LiveSpec == LiveInit /\ [][LiveNext]_<<part, vars, checkVars>> /\ Fairness /\ ChecksFairness
=============================================================================
