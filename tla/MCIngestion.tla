---------------------------- MODULE MCIngestion ----------------------------
(* Small instances of Ingestion for TLC. *)
EXTENDS Ingestion, TLC

ConsumerSymmetry == Permutations(Workers)
=============================================================================
