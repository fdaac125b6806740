---------------------------- MODULE RemoteCommand ----------------------------
(***************************************************************************)
(* runRemoteCommand (sshcheck.go): one command step on a host.  The step   *)
(* opens a session, a runner goroutine runs the command in it and sends    *)
(* what Run returned to the channel done, and the step waits for done or   *)
(* for its timeout; after a timeout it closes the session and waits for    *)
(* the runner, at most two seconds.                                        *)
(*                                                                         *)
(* What Run returns: "zero" or "nonzero", an exit status of the host;      *)
(* "noStatus", the channel or the connection was closed before one came,   *)
(* in a way isInterrupted knows; "other", any other error: the host        *)
(* refused to run the command, or the connection was ended by a disconnect *)
(* message.                                                                *)
(*                                                                         *)
(* External: the host, the network, and golang.org/x/crypto/ssh.           *)
(* Abstracted: the output and its truncation.                              *)
(***************************************************************************)
EXTENDS Sequences

VARIABLES pc,       \* where the step stands
          runner,   \* the goroutine of session.Run
          done,     \* the channel, with room for one
          late,     \* the timeout has fired
          session,
          remote,   \* the command on the host
          link,     \* the connection
          verdict   \* res.State

vars == <<pc, runner, done, late, session, remote, link, verdict>>

Returned == {"zero", "nonzero", "noStatus", "other"}

RemoteCommandTypeOK ==
  /\ pc      \in {"start", "select", "grace", "returned"}
  /\ runner  \in {"none", "asking", "waiting", "sent"} \cup Returned
  /\ done    \in {<< >>} \cup {<<e>> : e \in Returned}
  /\ late    \in BOOLEAN
  /\ session \in {"none", "open", "closed"}
  /\ remote  \in {"none", "running", "zero", "nonzero", "gone"}
  /\ link    \in {"up", "silent", "cut"}
  /\ verdict \in {"none", "success", "fail", "timeout", "interrupted", "error"}

Init ==
  /\ pc = "start" /\ runner = "none" /\ done = << >> /\ late = FALSE
  /\ session = "none" /\ remote = "none" /\ link = "up"
  /\ verdict = "none"

-------------------------------------------------------------------------------
(* The step *)

\* The deferred session.Close runs at every return.
Return(v) ==
  /\ pc' = "returned"
  /\ verdict' = v
  /\ session' = IF session = "open" THEN "closed" ELSE session

\* The step has no content to run.
Refuse ==
  /\ pc = "start"
  /\ Return("error")
  /\ UNCHANGED <<runner, done, late, remote, link>>

\* NewSession waits for the host's answer, however long.
SessionFails ==
  /\ pc = "start" /\ link # "silent"
  /\ Return("error")
  /\ UNCHANGED <<runner, done, late, remote, link>>

OpenSession ==
  /\ pc = "start" /\ link = "up"
  /\ session' = "open"
  /\ runner' = "asking"
  /\ pc' = "select"
  /\ UNCHANGED <<done, late, remote, link, verdict>>

\* Mutant: only an exit status tells of a failure.
TrustingVerdict(e) == CASE e = "nonzero" -> "fail"
                        [] e = "noStatus" -> "interrupted"
                        [] OTHER -> "success"

\* Mutant: the kind of error as the verdict.
RawVerdict(e) == IF e = "zero" THEN "success" ELSE e

Verdict(e) == CASE e = "zero" -> "success"
                [] e = "noStatus" -> "interrupted"
                [] OTHER -> "fail"

Take ==
  /\ pc = "select" /\ done # << >>
  /\ Return(Verdict(Head(done)))
  /\ done' = << >>
  /\ UNCHANGED <<runner, late, remote, link>>

TimerFires ==
  /\ pc = "select" /\ ~late
  /\ late' = TRUE
  /\ UNCHANGED <<pc, runner, done, session, remote, link, verdict>>

\* The select may choose the timeout though an answer is there as well.
TimeOut ==
  /\ pc = "select" /\ late
  /\ session' = "closed"
  /\ pc' = "grace"
  /\ UNCHANGED <<runner, done, late, remote, link, verdict>>

\* Mutant: after the timeout the runner is waited for without a limit.
AwaitRunner ==
  /\ pc = "grace" /\ done # << >>
  /\ Return("timeout")
  /\ done' = << >>
  /\ UNCHANGED <<runner, late, remote, link>>

\* The runner is heard of, or the two seconds are over.
Grace ==
  /\ pc = "grace"
  /\ Return("timeout")
  /\ done' = << >>
  /\ UNCHANGED <<runner, late, remote, link>>

\* The caller closes the client when the host's steps are over.
CloseClient ==
  /\ pc = "returned" /\ link # "cut"
  /\ link' = "cut"
  /\ UNCHANGED <<pc, runner, done, late, session, remote, verdict>>

-------------------------------------------------------------------------------
(* The runner *)

\* What Run can return now.
Hears(e) ==
  \/ e \in {"zero", "nonzero"} /\ runner = "waiting" /\ link = "up" /\ remote = e
  \/ e = "noStatus" /\ runner = "waiting" /\ link = "up" /\ remote = "gone"
  \/ e = "noStatus" /\ runner \in {"asking", "waiting"} /\ link = "up" /\ session = "closed"
  \/ e \in {"noStatus", "other"} /\ runner \in {"asking", "waiting"} /\ link = "cut"
  \/ e = "other" /\ runner = "asking" /\ link = "up" /\ remote = "none"

Run(e) ==
  /\ Hears(e)
  /\ runner' = e
  /\ UNCHANGED <<pc, done, late, session, remote, link, verdict>>

\* Mutant: done has no room of its own.
SendUnbuffered ==
  /\ runner \in Returned /\ pc \in {"select", "grace"}
  /\ done' = <<runner>>
  /\ runner' = "sent"
  /\ UNCHANGED <<pc, late, session, remote, link, verdict>>

Send ==
  /\ runner \in Returned /\ done = << >>
  /\ done' = <<runner>>
  /\ runner' = "sent"
  /\ UNCHANGED <<pc, late, session, remote, link, verdict>>

-------------------------------------------------------------------------------
(* The host and the network *)

\* The host runs the command it was asked to run, even for a step that is over.
HostStarts ==
  /\ runner = "asking" /\ link = "up" /\ remote = "none"
  /\ remote' = "running"
  /\ runner' = "waiting"
  /\ UNCHANGED <<pc, done, late, session, link, verdict>>

\* The command exits, or the host ends it without a status, as when it shuts down.
HostEnds ==
  /\ remote = "running"
  /\ remote' \in {"zero", "nonzero", "gone"}
  /\ UNCHANGED <<pc, runner, done, late, session, link, verdict>>

LinkFails ==
  /\ \/ link = "up" /\ link' \in {"silent", "cut"}
     \/ link = "silent" /\ link' = "cut"
  /\ UNCHANGED <<pc, runner, done, late, session, remote, verdict>>

Next == \/ Refuse \/ SessionFails \/ OpenSession \/ Take \/ TimerFires \/ TimeOut \/ Grace \/ CloseClient
        \/ Send \/ \E e \in Returned : Run(e)
        \/ HostStarts \/ HostEnds \/ LinkFails

Spec == Init /\ [][Next]_vars

\* The program's own steps are taken and its timers fire; the host and the network
\* owe nothing.
FairSpec == /\ Spec
            /\ WF_vars(SessionFails \/ OpenSession) /\ WF_vars(Take \/ TimeOut \/ Grace) /\ WF_vars(TimerFires)
            /\ WF_vars(CloseClient) /\ WF_vars(Send) /\ WF_vars(\E e \in Returned : Run(e))

-------------------------------------------------------------------------------
(* Properties *)

\* The verdict never says more than is known: a success exited 0 on the host, an
\* error never reached the host, a timeout waited its time (sshcheck.go:874).
VerdictIsHonest ==
  /\ verdict = "success" => remote = "zero"
  /\ verdict = "error"   => remote = "none"
  /\ verdict = "timeout" => late

\* Once the session is open the step returns, whatever the host and the network do
\* (README.md:294).
SelectEnds == pc = "select" ~> pc = "returned"

\* No runner outlives the connection: the goroutine of every step ends, also of a
\* step that did not wait for it (sshcheck.go:908).
RunnerEnds == runner # "none" ~> runner = "sent"

\* A failure is what a nonzero exit status was received for (sshcheck.go:874).
\* Not satisfied by the code.
FailHasStatus == verdict = "fail" => remote = "nonzero"

\* The step's timeout bounds the step (README.md:294).
\* Not satisfied by the code.
StepEnds == <>(pc = "returned")
=============================================================================
