------------------------------ MODULE MCIntake ------------------------------
(* Small instances of Intake for TLC. *)
EXTENDS Intake, TLC

CONSTANTS k1, k2, a, b

I(k, c) == [key |-> k, content |-> c]

\* A single observation, batches that take two keys in opposite order, and a batch that
\* uses a key twice.
MixedBatches ==
    {<<I(k1, b)>>, <<I(k1, a), I(k2, a)>>, <<I(k2, a), I(k1, a)>>, <<I(k1, a), I(k1, b)>>}
=============================================================================
