---------------------------- MODULE MCTruthSlots ----------------------------
(* Small instances of TruthSlots for TLC. *)
EXTENDS TruthSlots, TLC

Claim(type, val, status, from) == [type |-> type, val |-> val, status |-> status, from |-> from]

\* Restatement, correction and change of kind, late arrivals and temporary states; claims of
\* another memory type, dated in the future, or labelled superseded.
MixedClaims ==
    {Claim("fact", <<"a", 1>>, "current", 0), Claim("fact", <<"a", 2>>, "current", 1),
     Claim("fact", <<"b", 1>>, "current", 0), Claim("fact", <<"a", 1>>, "temporary", 0),
     Claim("fact", <<"a", 2>>, "superseded", 0), Claim("goal", <<"a", 2>>, "current", 0),
     Claim("fact", <<"a", 2>>, "current", 2)}

\* Two runs, and a third whose observation has been processed when they begin: it left nothing, or
\* the row that both of them find, later, at their last attempt.
CONSTANT settled
Standing == [type |-> "fact", val |-> <<"a", 1>>, status |-> "current", from |-> 1, to |-> 0]
MCInit ==
    /\ versions = {} /\ op = NoOp /\ ops = 0
    /\ \E found \in BOOLEAN :
          /\ clock = IF found THEN MaxTime ELSE 1
          /\ rows = [r \in Runs |-> IF found /\ r = settled THEN Standing ELSE Absent]
          /\ run  = [r \in Runs |-> IF r = settled THEN Outside("done", 0)
                                   ELSE Outside("idle", IF found THEN MaxTries - 1 ELSE 0)]
=============================================================================
