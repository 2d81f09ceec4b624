--------------------------- MODULE OwnershipLock ---------------------------
(***************************************************************************)
(* What withFileOwnershipLock promises to its callers: the protected       *)
(* actions on one path exclude each other for as long as no process has    *)
(* died owning the lock file.  Once a lock has been orphaned, recovery     *)
(* gets the path moving again but no longer promises exclusion.            *)
(***************************************************************************)
CONSTANT Callers

VARIABLES
  holders,    \* callers whose protected action is running
  orphaned    \* a process has died with its token in the lock file

vars == <<holders, orphaned>>

Init == holders = {} /\ orphaned = FALSE

Acquire(c) ==
  /\ c \notin holders
  /\ orphaned \/ holders = {}
  /\ holders' = holders \cup {c}
  /\ UNCHANGED orphaned

Release(c) ==
  /\ c \in holders
  /\ holders' = holders \ {c}
  /\ UNCHANGED orphaned

\* A process dies: its actions stop, and a holder among them orphans the lock.
Die ==
  /\ holders' \subseteq holders
  /\ holders' # holders => orphaned'
  /\ orphaned => orphaned'

Next == Die \/ \E c \in Callers : Acquire(c) \/ Release(c)

Spec == Init /\ [][Next]_vars
=============================================================================
