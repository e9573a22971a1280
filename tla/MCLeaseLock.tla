----------------------------- MODULE MCLeaseLock -----------------------------
(* Small instances of the lease for TLC. *)
EXTENDS LeaseLock, TLC

Symmetry == Permutations(Procs)

(* One opener at a time, whose process may be paused ... *)
PauseEnv == {"pause"}
(* ... or die anywhere. *)
PauseCrashEnv == {"crash", "pause"}
(* Openers that start together. *)
ContendEnv == {"contend"}

=============================================================================
