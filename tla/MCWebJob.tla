------------------------------ MODULE MCWebJob ------------------------------
(* Instance of WebJob for TLC: two projects of one name, and requests that  *)
(* preselect one of them, preselect the other, rely on a unique name, or    *)
(* carry no preselection although the name is ambiguous.                    *)
EXTENDS WebJob, TLC

CONSTANTS p1, p2

MCProjects == {p1, p2}

MCRequests == { [mode |-> "run",   projectId |-> p1,   matches |-> {p1, p2}],
                [mode |-> "check", projectId |-> p2,   matches |-> {p1, p2}],
                [mode |-> "run",   projectId |-> None, matches |-> {p1}],
                [mode |-> "run",   projectId |-> None, matches |-> {p1, p2}] }

\* Every request here meets an ambiguous name: the preselection always counts.
Symmetry == Permutations(Jobs)
=============================================================================
