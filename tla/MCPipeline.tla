----------------------------- MODULE MCPipeline -----------------------------
(* Instances of Pipeline for TLC: every exec list up to MaxSteps steps over  *)
(* the kinds of step the code tells apart.                                   *)
EXTENDS Pipeline, FiniteSets

CONSTANTS MaxSteps,   \* the longest exec list tried
          h1, h2

Step(t, r, e) == [type |-> t, run |-> r, onError |-> e]

\* A local step without run is a once step, one with always is not; a remote
\* step with run=once is accepted by the validation and stays an always step.
Kinds == { Step("local", "", ""), Step("local", "", "continue"),
           Step("local", "always", "stop"), Step("local", "always", "continue"),
           Step("remote", "once", ""), Step("remote", "", "continue") }

SomeKinds == { Step("local", "", ""), Step("local", "", "continue"),
               Step("remote", "", ""), Step("collect", "", "") }

ListsOf(K)   == UNION {[1..n -> K] : n \in 0..MaxSteps}
AllPipelines  == ListsOf(Kinds)
SomePipelines == ListsOf(SomeKinds)
=============================================================================
