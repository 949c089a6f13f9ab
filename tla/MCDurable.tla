----------------------------- MODULE MCDurable -----------------------------
(* What is promised to whoever sends an observation, as far as it is a promise that something
   happens: the routes that accept it (Intake) and the outbox that works on it (Ingestion).  They
   share no step, and one run explores either, chosen by `part`, while the other stays as it began. *)
EXTENDS MCIntake, MCIngestion

CONSTANT Sides
VARIABLE part

DurableInit ==
    /\ part \in Sides
    /\ IntakeInit /\ Init
IntakeStep    == part = "intake" /\ IntakeNext /\ UNCHANGED <<part, vars>>
IngestionStep == part = "ingestion" /\ Next /\ UNCHANGED <<part, intakeVars>>

DurableSpec == DurableInit /\ [][IntakeStep \/ IngestionStep]_<<part, intakeVars, vars>>

\* The fairness of either part, as its module states it: none of its steps is enabled in the other.
DurableFairSpec ==
    /\ DurableSpec
    /\ Fairness
    /\ \A i \in Requests : WF_intakeVars(Progress(i))
=============================================================================
