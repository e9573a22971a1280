------------------------------ MODULE MCEngine ------------------------------
(* Small instances of the commit engine for TLC. *)
EXTENDS Engine, TLC

(* Objects and key values are interchangeable in the safety properties. *)
Symmetry == Permutations(Insts) \cup Permutations(Keys)

(* The blocking facade, with every fault but discard(). *)
SyncEnv == {"fail", "crash", "consumer"}
(* ... and with it. *)
DiscardEnv == SyncEnv \cup {"discard"}
(* The asyncio facade: other tasks run during P2. *)
QuietEnv == {"fail", "crash", "async"}
(* ... and the task awaiting a commit may be cancelled. *)
LiveEnv == {"async", "cancel", "fail", "crash"}
(* The single ingredients of the divergence runs. *)
RacingEnv == {"async"}
RacingFailEnv == {"async", "fail"}
RacingConsumerEnv == {"async", "consumer"}
TaskCancelEnv == {"async", "cancel"}
OnlyDiscardEnv == {"discard"}

=============================================================================
