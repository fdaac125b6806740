----------------------------- MODULE PipelineStep -----------------------------
(***************************************************************************)
(* One step of the exec list, as runPipeline hands it to the code for its  *)
(* type: a script on this machine (LocalCommand), a script on the host     *)
(* (RemoteCommand), or files to and from the hosts (FileTransfer).  The    *)
(* types share no state; which one a step is, its configuration says.      *)
(***************************************************************************)
EXTENDS Naturals, Sequences, LocalCommand

CONSTANTS Hosts, Paths, RuleLists, Targets, Chunks, NoEntry   \* of FileTransfer

VARIABLES type,
          rpc, runner, done, late, session, remote, link, rverdict,
          step, before, fs, at, rule, file, existed, pos, results, state

Remote == INSTANCE RemoteCommand WITH pc <- rpc, verdict <- rverdict
Files  == INSTANCE FileTransfer

\* Rules are about the paths there are, a source file has something in it, and a
\* file is not the absence of one.
ASSUME FilesAssumption ==
  /\ RuleLists \subseteq Seq(Seq([path : Paths, overwrite : Files!Setting]))
  /\ Chunks \in Nat \ {0}
  /\ NoEntry \notin Files!Contents

remoteVars == <<rpc, runner, done, late, session, remote, link, rverdict>>
filesVars  == <<step, before, fs, at, rule, file, existed, pos, results, state>>
stepVars   == <<type, vars, remoteVars, filesVars>>

\* A step of another type stands for one configuration of a files step.
StepInit ==
  /\ type \in {"local", "remote", "files"}
  /\ Init /\ Remote!Init /\ Files!Init
  /\ type # "files" => /\ step = CHOOSE s \in [target : Targets, overwrite : Files!Setting, rules : RuleLists] : TRUE
                       /\ before = [m \in Files!Machines |-> [p \in Paths |-> NoEntry]]

Local(A) == type = "local" /\ A /\ UNCHANGED <<type, remoteVars, filesVars>>
OnHost(A) == type = "remote" /\ A /\ UNCHANGED <<type, vars, filesVars>>

StepNext ==
  \/ Local(Next)
  \/ OnHost(Remote!Next)
  \/ type = "files" /\ Files!Next /\ UNCHANGED <<type, vars, remoteVars>>

StepSpec == StepInit /\ [][StepNext]_stepVars

\* As for each type by itself: the program's own steps are taken and its timers
\* fire; the script, the host and the network owe nothing.  Nothing bounds a file.
FairStep ==
  /\ StepSpec
  /\ WF_stepVars(Local(Start \/ Wait \/ Classify))
  /\ WF_stepVars(Local(Expire)) /\ WF_stepVars(Local(Select)) /\ WF_stepVars(Local(Kill))
  /\ WF_stepVars(OnHost(Remote!SessionFails \/ Remote!OpenSession))
  /\ WF_stepVars(OnHost(Remote!Take \/ Remote!TimeOut \/ Remote!Grace))
  /\ WF_stepVars(OnHost(Remote!TimerFires)) /\ WF_stepVars(OnHost(Remote!CloseClient))
  /\ WF_stepVars(OnHost(Remote!Send))
  /\ WF_stepVars(OnHost(\E e \in Remote!Returned : Remote!Run(e)))

-------------------------------------------------------------------------------
(* The properties of the other types, stated and explained in their modules *)

\* A remote verdict never says more than is known (sshcheck.go:874).
RemoteInv == Remote!RemoteCommandTypeOK /\ Remote!VerdictIsHonest

\* With its session open, a remote step returns whatever the host does, and no
\* runner goroutine outlives the connection (README.md:294, sshcheck.go:908).
RemoteEnds == Remote!SelectEnds /\ Remote!RunnerEnds

\* Success of a host that no other disturbs means that every file was delivered whole,
\* or was there and to be kept; a file nobody asked to overwrite stays as it was, also
\* when hosts transfer to the same machine and copies fail (README.md:306).
FilesInv == /\ Files!FileTransferTypeOK
            /\ Files!SuccessIsDelivered
            /\ Files!UnaskedIsUntouched
=============================================================================
