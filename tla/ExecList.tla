------------------------------ MODULE ExecList ------------------------------
(***************************************************************************)
(* What an exec list promises (README "execList"): the once steps run once *)
(* and their results are every host's; every host has one result per step, *)
(* in the order of the list; a failed step that says stop leaves nothing   *)
(* to run after it, on its host, or anywhere if it was a once step.        *)
(*                                                                         *)
(* There is no flag that remembers a stop, no order of phases and hosts,   *)
(* no login: Pipeline, which has them, implements this.                    *)
(***************************************************************************)
EXTENDS Naturals, Sequences

CONSTANTS Hosts,
          Lists,           \* the exec lists: sequences of [once, stop]
          Checks           \* whether a run may be a check

VARIABLES list, check,
          shared,   \* the results of the once steps
          results,  \* a host's results, so far
          over      \* how a host's turn has ended

vars == <<list, check, shared, results, over>>

Init ==
  /\ list \in Lists /\ check \in Checks
  /\ shared  = [i \in DOMAIN list |-> "nil"]
  /\ results = [h \in Hosts |-> << >>]
  /\ over    = [h \in Hosts |-> "no"]

SharedStop == \E i \in DOMAIN list : shared[i] = "failure" /\ list[i].stop
Stopped(h) == SharedStop \/ \E i \in DOMAIN results[h] : results[h][i] = "failure" /\ list[i].stop

\* A once step runs after those before it, and before any host.
Share(i) ==
  /\ ~check /\ ~SharedStop
  /\ list[i].once /\ shared[i] = "nil"
  /\ \A j \in 1..(i - 1) : list[j].once => shared[j] # "nil"
  /\ \A h \in Hosts : over[h] = "no" /\ results[h] = << >>
  /\ \E r \in {"success", "failure"} : shared' = [shared EXCEPT ![i] = r]
  /\ UNCHANGED <<list, check, results, over>>

\* What may become of step i on a host.
Outcomes(h, i) ==
  IF shared[i] # "nil" THEN {shared[i]}
  ELSE IF list[i].once \/ Stopped(h) THEN {"skipped"}
  ELSE {"success", "failure"}

Report(h) ==
  LET i == Len(results[h]) + 1 IN
  /\ ~check /\ over[h] = "no"
  /\ i \in DOMAIN list
  /\ \E r \in Outcomes(h, i) : results' = [results EXCEPT ![h] = Append(@, r)]
  /\ UNCHANGED <<list, check, shared, over>>

\* A host that cannot be logged in to has no result at all.
Refuse(h) ==
  /\ over[h] = "no" /\ results[h] = << >>
  /\ over' = [over EXCEPT ![h] = "refused"]
  /\ UNCHANGED <<list, check, shared, results>>

Close(h) ==
  /\ over[h] = "no"
  /\ check \/ Len(results[h]) = Len(list)
  /\ over' = [over EXCEPT ![h] = "done"]
  /\ UNCHANGED <<list, check, shared, results>>

Next == (\E i \in DOMAIN list : Share(i)) \/ \E h \in Hosts : Report(h) \/ Refuse(h) \/ Close(h)
Spec == Init /\ [][Next]_vars
=============================================================================
