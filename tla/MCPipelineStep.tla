---------------------------- MODULE MCPipelineStep ----------------------------
(* An instance of PipelineStep for TLC: a script with a child that writes to    *)
(* the step's output and one in the background with its output elsewhere; two   *)
(* hosts that transfer the same file, with rules that disagree with the step,   *)
(* a directory of two files that meet at one path, and an empty one.            *)
EXTENDS PipelineStep

CONSTANTS writer, background, h1, h2, p1

To(o) == [path |-> p1, overwrite |-> o]

SomeRuleLists ==
  {<< <<To("unset")>> >>, << << >>, <<To("no")>> >>, << <<To("yes"), To("no")>>, <<To("no")>> >>}
=============================================================================
