--------------------------- MODULE MCWitnessQuorum ---------------------------
(* A small instance of the witness quorum for TLC.                         *)
EXTENDS WitnessQuorum

\* One handover, before or after the first commit.
MCProposals == [state_version : {1}, model_version : {0}, domain : Domains]
==============================================================================
