----------------------------- MODULE MCDeltaLog ------------------------------
(* Small instances of the delta log for TLC. *)
EXTENDS DeltaLog, TLC

CrashFailEnv == {"crash", "fail"}
FailEnv == {"fail"}

=============================================================================
