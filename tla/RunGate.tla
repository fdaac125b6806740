------------------------------- MODULE RunGate -------------------------------
(***************************************************************************)
(* What the web server promises about runs, whatever it does inside: a run *)
(* starts only when no other run is in progress, ends once with a verdict, *)
(* and the verdict never changes.  WebJob implements it.                   *)
(***************************************************************************)
CONSTANT Jobs          \* the job ids POST /api/run may hand out

VARIABLES phase,       \* how far each run has got
          verdict      \* its outcome, "open" until it has ended

vars == <<phase, verdict>>

TypeOK == /\ phase   \in [Jobs -> {"idle", "running", "ended"}]
          /\ verdict \in [Jobs -> {"open", "done", "failed"}]

Init == /\ phase   = [j \in Jobs |-> "idle"]
        /\ verdict = [j \in Jobs |-> "open"]

Start(j) == /\ phase[j] = "idle"
            /\ \A i \in Jobs : phase[i] # "running"
            /\ phase' = [phase EXCEPT ![j] = "running"]
            /\ UNCHANGED verdict

End(j) == /\ phase[j] = "running"
          /\ phase' = [phase EXCEPT ![j] = "ended"]
          /\ \E v \in {"done", "failed"} : verdict' = [verdict EXCEPT ![j] = v]

Next == \E j \in Jobs : Start(j) \/ End(j)

Spec == Init /\ [][Next]_vars
==============================================================================
