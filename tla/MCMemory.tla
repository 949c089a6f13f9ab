------------------------------ MODULE MCMemory ------------------------------
(* The memory as it is written and as it is read: the slot of a fact that runs and routes write to
   (TruthSlots), and the reads of one request (Recollect).  What happens to the rows while they are
   read is part of a world of Recollect, so the two share no step: one run explores either, chosen
   by `part`, while the other stays as it began. *)
EXTENDS MCTruthSlots, MCRecollect

CONSTANT Sides
VARIABLE part

MemoryInit ==
    /\ part \in Sides
    /\ MCInit /\ Init
    /\ part = "slots" => world = Still
    /\ part = "reads" => clock = 1
SlotStep  == part = "slots" /\ TruthNext /\ UNCHANGED <<part, vars>>
ReadStep  == part = "reads" /\ Next /\ UNCHANGED <<part, truthVars>>
memoryVars == <<part, truthVars, vars>>

\* No more requests come; a read may not get stuck.
Quiet == part = "slots" /\ (\A one \in Runs : run[one].pc \in {"done", "dead"}) /\ UNCHANGED memoryVars
Goes(step) == part = "slots" /\ step
MemorySpec ==
    /\ MemoryInit /\ [][SlotStep \/ ReadStep \/ Quiet]_memoryVars
    /\ \A one \in Runs : WF_truthVars(Goes(RunStep(one)))
    /\ WF_truthVars(Goes(OpClose \/ OpMerge \/ OpDelete))
=============================================================================
