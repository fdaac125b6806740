---------------------------- MODULE MCEventStream ----------------------------
(* Instances of EventStream for TLC. *)
EXTENDS EventStream

CONSTANT p1

MCProjects == {p1}

\* One request: full runs of one unambiguous project.
OneRequest == {[mode |-> "run", projectId |-> None, matches |-> {p1}]}
==============================================================================
