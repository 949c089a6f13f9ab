-------------------------- MODULE IdempotentStore --------------------------
(***************************************************************************)
(* What the observation routes promise: an idempotency key has at most one *)
(* content, for ever, and every answer is true of the store when it is     *)
(* given.  How requests wait, fail and are repeated is left open.          *)
(***************************************************************************)
CONSTANTS
    Rows,       \* [key |-> k, hash |-> h]
    Answers     \* [key |-> k, hash |-> h, code |-> c, ...]

VARIABLES
    stored,     \* the observations
    answers     \* every answer given

storeVars == <<stored, answers>>

OneContent(S) == \A a, b \in S : a.key = b.key => a = b

\* An accepted item is stored; a conflicting one has a key that is stored with another
\* content.  An error says nothing.
Holds(a, S) ==
    /\ a.code = "accepted" => \E r \in S : r.key = a.key /\ r.hash = a.hash
    /\ a.code = "conflict" => \E r \in S : r.key = a.key /\ r.hash # a.hash

StoreInit == stored = {} /\ answers = {}

\* A request ends: its new observations are stored and its items answered.
StoreNext ==
    /\ stored \subseteq stored' /\ stored' \subseteq Rows
    /\ answers \subseteq answers' /\ answers' \subseteq Answers
    /\ OneContent(stored')
    /\ \A a \in answers' \ answers : Holds(a, stored')

StoreSpec == StoreInit /\ [][StoreNext]_storeVars
=============================================================================
