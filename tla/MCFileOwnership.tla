-------------------------- MODULE MCFileOwnership --------------------------
(* Instances of FileOwnership: three or four contenders for one lock file. *)
EXTENDS FileOwnership, TLC

CONSTANTS a, b, c, d, p, q, r

\* Two requests of one process against two other processes.
SharedProcOf == a :> p @@ b :> p @@ c :> q @@ d :> r
\* Three processes of one request each.
SeparateProcOf == a :> p @@ b :> q @@ c :> r
=============================================================================
