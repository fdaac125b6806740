------------------------------ MODULE HostBatch ------------------------------
(***************************************************************************)
(* What a batch of SSH tests promises, however many workers share it: each *)
(* host is claimed once, reported once with one result, and the batch      *)
(* returns to its caller only when every host has been reported.           *)
(***************************************************************************)
CONSTANT Hosts

VARIABLES stage,     \* where each host stands
          outcome,   \* the reported result of each host
          returned   \* the batch has returned to its caller

vars == <<stage, outcome, returned>>

Init == /\ stage    = [h \in Hosts |-> "waiting"]
        /\ outcome  = [h \in Hosts |-> "none"]
        /\ returned = FALSE

Claim(h) == /\ stage[h] = "waiting"
            /\ stage' = [stage EXCEPT ![h] = "testing"]
            /\ UNCHANGED <<outcome, returned>>

Report(h) == /\ stage[h] = "testing"
             /\ stage' = [stage EXCEPT ![h] = "reported"]
             /\ \E o \in {"ok", "failed"} : outcome' = [outcome EXCEPT ![h] = o]
             /\ UNCHANGED returned

Return == /\ ~returned
          /\ \A h \in Hosts : stage[h] = "reported"
          /\ returned' = TRUE
          /\ UNCHANGED <<stage, outcome>>

Next == Return \/ \E h \in Hosts : Claim(h) \/ Report(h)

Spec == Init /\ [][Next]_vars
==============================================================================
