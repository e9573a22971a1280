---------------------------- MODULE MCSubmitQueue ----------------------------
(* SubmitQueue with model values, for TLC. *)
EXTENDS SubmitQueue

=============================================================================
