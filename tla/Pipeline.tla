------------------------------- MODULE Pipeline -------------------------------
(***************************************************************************)
(* The exec list of a run.  Phase one (runPipelineOnce) runs the local     *)
(* once steps, in order, before any host; then every host is logged in to  *)
(* (testOne, trySSH) and goes through the list (runPipeline), reusing the  *)
(* results of phase one.  A failed step with onError=stop ends the list of *)
(* its host, or of every host when it failed in phase one.                 *)
(*                                                                         *)
(* Abstracted: a step is its type, its run mode and its failure policy; it *)
(* ends in "success" or "failure" (PipelineStep says when).  Hosts proceed *)
(* independently, as many as there are workers (WorkerPool).               *)
(***************************************************************************)
EXTENDS Naturals, Sequences

CONSTANTS Hosts,      \* VMs, with what testOne looks at:
          HasPassword, HasIP, HasEIP,   \* the hosts that have one
          UseIPs,     \* the values of ssh.useIp to try
          Modes,      \* "run", "check"
          Pipelines   \* the exec lists to try

\* type "collect" stands for status and services, "remote" for the remote
\* command and for files.
StepType == [type : {"local", "remote", "collect"}, run : {"", "once", "always"},
             onError : {"", "stop", "continue"}]

ASSUME PipelinesAssumption == Pipelines \subseteq Seq(StepType)
ASSUME ModesAssumption     == Modes \subseteq {"run", "check"}
ASSUME UseIPsAssumption    == UseIPs \subseteq {"internal", "eip", "internal-then-eip"}

\* Stands for phase one where runs counts for whom a step ran.
Nowhere == "phase one"

ASSUME NowhereAssumption == Nowhere \notin Hosts

VARIABLES
  steps, useIP, mode,   \* the configuration of this run
  cursor,        \* next step of phase one; past the end when it is over
  onceResults,   \* its results, "nil" where it ran nothing
  globalStopped,
  at,            \* where testOne stands for each host
  candidates,    \* addresses it has still to try
  login,         \* the SSH verdict of each host
  stopped,       \* the host's list has been stopped
  results,       \* the host's results so far, in the order of the list
  runs           \* history: how often each step ran, by host or in phase one

config   == <<steps, useIP, mode>>
onceVars == <<cursor, onceResults, globalStopped>>
hostVars == <<at, candidates, login, stopped, results>>
vars == <<config, onceVars, hostVars, runs>>

-------------------------------------------------------------------------------
(* The configuration as the steps read it *)

IsLocal(s)   == s.type = "local"
RunMode(s)   == IF s.run # "" THEN s.run ELSE IF IsLocal(s) THEN "once" ELSE "always"
OnError(s)   == IF s.onError # "" THEN s.onError ELSE "stop"
InPhaseOne(s) == IsLocal(s) /\ RunMode(s) = "once"

Candidates(h) ==
  LET internal == IF h \in HasIP  THEN <<"internal">> ELSE << >>
      eip      == IF h \in HasEIP THEN <<"eip">>      ELSE << >>
  IN  CASE useIP = "eip"               -> eip
        [] useIP = "internal-then-eip" -> internal \o eip
        [] OTHER                       -> internal

Ok(r)       == r \in {"success", "skipped"}
Stops(s, r) == ~Ok(r) /\ OnError(s) = "stop"

TypeOK ==
  /\ steps \in Pipelines /\ useIP \in UseIPs /\ mode \in Modes
  /\ cursor        \in 1..(Len(steps) + 1)
  /\ onceResults   \in [1..Len(steps) -> {"nil", "success", "failure"}]
  /\ globalStopped \in BOOLEAN
  /\ at         \in [Hosts -> {"waiting", "dial", "handshake", "session", "verify", "steps", "finished"}]
  /\ candidates \in [Hosts -> Seq({"internal", "eip"})]
  /\ login      \in [Hosts -> {"none", "ok", "failed"}]
  /\ stopped    \in [Hosts -> BOOLEAN]
  /\ results    \in [Hosts -> Seq({"success", "failure", "skipped"})]
  /\ runs       \in [Hosts \cup {Nowhere} -> [1..Len(steps) -> Nat]]

Init ==
  /\ steps \in Pipelines /\ useIP \in UseIPs /\ mode \in Modes
  /\ cursor        = IF mode = "check" THEN Len(steps) + 1 ELSE 1
  /\ onceResults   = [i \in 1..Len(steps) |-> "nil"]
  /\ globalStopped = FALSE
  /\ at         = [h \in Hosts |-> "waiting"]
  /\ candidates = [h \in Hosts |-> << >>]
  /\ login      = [h \in Hosts |-> "none"]
  /\ stopped    = [h \in Hosts |-> FALSE]
  /\ results    = [h \in Hosts |-> << >>]
  /\ runs       = [x \in Hosts \cup {Nowhere} |-> [i \in 1..Len(steps) |-> 0]]

-------------------------------------------------------------------------------
(* Phase one *)

PhaseOneOver == globalStopped \/ cursor > Len(steps)

PassOver ==
  /\ ~PhaseOneOver
  /\ ~InPhaseOne(steps[cursor])
  /\ cursor' = cursor + 1
  /\ UNCHANGED <<config, onceResults, globalStopped, hostVars, runs>>

OnceStep ==
  /\ ~PhaseOneOver
  /\ InPhaseOne(steps[cursor])
  /\ \E r \in {"success", "failure"} :
       /\ onceResults'   = [onceResults EXCEPT ![cursor] = r]
       /\ globalStopped' = Stops(steps[cursor], r)
  /\ runs'   = [runs EXCEPT ![Nowhere][cursor] = @ + 1]
  /\ cursor' = cursor + 1
  /\ UNCHANGED <<config, hostVars>>

-------------------------------------------------------------------------------
(* testOne and trySSH *)

\* Mutant: a host without an address is passed over instead of reported.
ClaimUsable(h) ==
  /\ PhaseOneOver
  /\ at[h] = "waiting"
  /\ Candidates(h) # << >>
  /\ at' = [at EXCEPT ![h] = "dial"]
  /\ candidates' = [candidates EXCEPT ![h] = Candidates(h)]
  /\ UNCHANGED <<config, onceVars, login, stopped, results, runs>>

\* No password or no usable address ends the test at once.
Claim(h) ==
  /\ PhaseOneOver
  /\ at[h] = "waiting"
  /\ LET c == Candidates(h) IN
     IF h \notin HasPassword \/ c = << >>
     THEN /\ at'    = [at EXCEPT ![h] = "finished"]
          /\ login' = [login EXCEPT ![h] = "failed"]
          /\ UNCHANGED candidates
     ELSE /\ at'    = [at EXCEPT ![h] = "dial"]
          /\ candidates' = [candidates EXCEPT ![h] = c]
          /\ UNCHANGED login
  /\ UNCHANGED <<config, onceVars, stopped, results, runs>>

Advance(h, from, to) ==
  /\ at[h] = from
  /\ at' = [at EXCEPT ![h] = to]
  /\ UNCHANGED <<config, onceVars, candidates, login, stopped, results, runs>>

\* Any error of trySSH: the next address, or the verdict.
Refused(h, from) ==
  /\ at[h] = from
  /\ candidates' = [candidates EXCEPT ![h] = Tail(@)]
  /\ IF Len(candidates[h]) > 1
     THEN at' = [at EXCEPT ![h] = "dial"] /\ UNCHANGED login
     ELSE at' = [at EXCEPT ![h] = "finished"] /\ login' = [login EXCEPT ![h] = "failed"]
  /\ UNCHANGED <<config, onceVars, stopped, results, runs>>

Dial(h)      == Advance(h, "dial", "handshake")    \/ Refused(h, "dial")
Handshake(h) == Advance(h, "handshake", "session") \/ Refused(h, "handshake")
Session(h)   == Advance(h, "session", "verify")    \/ Refused(h, "session")

\* Mutant: check mode does not return after the verify command.
EnterAlways(h) ==
  /\ at[h] = "verify"
  /\ at'      = [at EXCEPT ![h] = "steps"]
  /\ login'   = [login EXCEPT ![h] = "ok"]
  /\ stopped' = [stopped EXCEPT ![h] = globalStopped]
  /\ UNCHANGED <<config, onceVars, candidates, results, runs>>

\* Mutant: the stop of phase one does not reach the host.
EnterForgetsStop(h) ==
  /\ at[h] = "verify"
  /\ at'      = [at EXCEPT ![h] = IF mode = "check" THEN "finished" ELSE "steps"]
  /\ login'   = [login EXCEPT ![h] = "ok"]
  /\ UNCHANGED <<config, onceVars, candidates, stopped, results, runs>>

\* The verify command succeeded: check mode is done, a run begins the list.
Enter(h) ==
  /\ at[h] = "verify"
  /\ at'      = [at EXCEPT ![h] = IF mode = "check" THEN "finished" ELSE "steps"]
  /\ login'   = [login EXCEPT ![h] = "ok"]
  /\ stopped' = [stopped EXCEPT ![h] = globalStopped]
  /\ UNCHANGED <<config, onceVars, candidates, results, runs>>

Verify(h) == Enter(h) \/ Refused(h, "verify")

-------------------------------------------------------------------------------
(* runPipeline *)

Next1(h) == Len(results[h]) + 1

\* Mutant: no test for a nil result.
ReusesNil(h) == InPhaseOne(steps[Next1(h)])

\* Mutant: only a success of phase one is reused.
ReusesSuccess(h) == InPhaseOne(steps[Next1(h)]) /\ onceResults[Next1(h)] = "success"

Reuses(h) == InPhaseOne(steps[Next1(h)]) /\ onceResults[Next1(h)] # "nil"

\* Mutant: after a stop everything is shown as skipped.
SkipAll(h) ==
  /\ at[h] = "steps" /\ Next1(h) <= Len(steps)
  /\ stopped[h]
  /\ results' = [results EXCEPT ![h] = Append(@, "skipped")]
  /\ UNCHANGED <<config, onceVars, at, candidates, login, stopped, runs>>

\* After a stop, only what phase one did run is shown.
SkipStep(h) ==
  /\ at[h] = "steps" /\ Next1(h) <= Len(steps)
  /\ stopped[h] /\ ~Reuses(h)
  /\ results' = [results EXCEPT ![h] = Append(@, "skipped")]
  /\ UNCHANGED <<config, onceVars, at, candidates, login, stopped, runs>>

ReuseStep(h) ==
  /\ at[h] = "steps" /\ Next1(h) <= Len(steps)
  /\ Reuses(h)
  /\ LET i == Next1(h) IN
       /\ results' = [results EXCEPT ![h] = Append(@, onceResults[i])]
       /\ stopped' = [stopped EXCEPT ![h] = @ \/ Stops(steps[i], onceResults[i])]
  /\ UNCHANGED <<config, onceVars, at, candidates, login, runs>>

\* Mutant: the failure of a step on the host does not stop its list.
ExecWithoutStop(h) ==
  /\ at[h] = "steps" /\ Next1(h) <= Len(steps)
  /\ ~stopped[h] /\ ~Reuses(h)
  /\ \E r \in {"success", "failure"} : results' = [results EXCEPT ![h] = Append(@, r)]
  /\ runs' = [runs EXCEPT ![h][Next1(h)] = @ + 1]
  /\ UNCHANGED <<config, onceVars, at, candidates, login, stopped>>

\* Mutant: any failure stops the list, onError=continue or not.
ExecAlwaysStops(h) ==
  /\ at[h] = "steps" /\ Next1(h) <= Len(steps)
  /\ ~stopped[h] /\ ~Reuses(h)
  /\ \E r \in {"success", "failure"} :
       /\ results' = [results EXCEPT ![h] = Append(@, r)]
       /\ stopped' = [stopped EXCEPT ![h] = r = "failure"]
  /\ runs' = [runs EXCEPT ![h][Next1(h)] = @ + 1]
  /\ UNCHANGED <<config, onceVars, at, candidates, login>>

\* Includes the fallback that would run a once step phase one did not reach.
ExecStep(h) ==
  /\ at[h] = "steps" /\ Next1(h) <= Len(steps)
  /\ ~stopped[h] /\ ~Reuses(h)
  /\ LET i == Next1(h) IN
     /\ \E r \in {"success", "failure"} :
          /\ results' = [results EXCEPT ![h] = Append(@, r)]
          /\ stopped' = [stopped EXCEPT ![h] = Stops(steps[i], r)]
     /\ runs' = [runs EXCEPT ![h][i] = @ + 1]
  /\ UNCHANGED <<config, onceVars, at, candidates, login>>

\* Mutant: a list that was stopped is tried again over the next address.
FinishOrRetry(h) ==
  /\ Len(results[h]) = Len(steps)
  /\ IF stopped[h] /\ Len(candidates[h]) > 1
     THEN /\ at[h] = "steps"
          /\ at'         = [at EXCEPT ![h] = "dial"]
          /\ candidates' = [candidates EXCEPT ![h] = Tail(@)]
          /\ results'    = [results EXCEPT ![h] = << >>]
          /\ UNCHANGED <<config, onceVars, login, stopped, runs>>
     ELSE Advance(h, "steps", "finished")

Finish(h) ==
  /\ Len(results[h]) = Len(steps)
  /\ Advance(h, "steps", "finished")

HostNext(h) == \/ Claim(h) \/ Dial(h) \/ Handshake(h) \/ Session(h) \/ Verify(h)
               \/ SkipStep(h) \/ ReuseStep(h) \/ ExecStep(h) \/ Finish(h)

Next == PassOver \/ OnceStep \/ \E h \in Hosts : HostNext(h)

Spec == Init /\ [][Next]_vars

\* What the program itself bounds: local commands by their timeout, the dial by
\* the connect timeout.  Nothing bounds the waits for the server that follow the
\* dial, nor a step that opens a session of its own on that connection.
OwnFairness ==
  /\ WF_vars(PassOver \/ OnceStep)
  /\ \A h \in Hosts : /\ WF_vars(Claim(h)) /\ WF_vars(Dial(h))
                      /\ WF_vars(SkipStep(h) \/ ReuseStep(h) \/ Finish(h))

ServersAnswer == \A h \in Hosts : /\ WF_vars(Handshake(h)) /\ WF_vars(Session(h))
                                  /\ WF_vars(Verify(h))    /\ WF_vars(ExecStep(h))

FairSpec      == Spec /\ OwnFairness
AnsweringSpec == FairSpec /\ ServersAnswer

-------------------------------------------------------------------------------
(* Properties *)

Executed(h, i) == i <= Len(results[h]) /\ runs[h][i] > 0
FailedStop(h, i) == i <= Len(results[h]) /\ Stops(steps[i], results[h][i])

\* A local once step runs at most once whatever the number of hosts, never on
\* behalf of a host, and exactly once in a full run that was not stopped: the
\* fallback in runPipeline is dead code, as its comment says.
OnceStepsRunOnce ==
  \A i \in 1..Len(steps) : InPhaseOne(steps[i]) =>
    /\ runs[Nowhere][i] <= 1
    /\ \A h \in Hosts : runs[h][i] = 0
    /\ PhaseOneOver /\ mode = "run" /\ ~globalStopped => runs[Nowhere][i] = 1

\* No step runs twice for one host, also when the second address is tried.
NoStepTwice == \A h \in Hosts, i \in 1..Len(steps) : runs[h][i] <= 1

\* Check mode logs in and changes nothing: no step runs anywhere.
CheckRunsNothing ==
  mode = "check" => \A x \in DOMAIN runs, i \in 1..Len(steps) : runs[x][i] = 0

\* On a host no step runs after an earlier one of the list failed with
\* onError=stop, whether that one ran here or in phase one.
StopIsFinal ==
  \A h \in Hosts : \A i, k \in 1..Len(steps) :
    i < k /\ FailedStop(h, i) => ~Executed(h, k)

\* A failure in phase one with onError=stop keeps every host from running
\* anything at all.
GlobalStopStopsAll ==
  globalStopped => \A h \in Hosts, i \in 1..Len(steps) : runs[h][i] = 0

\* A step is skipped only on account of a failed step that says stop: one
\* earlier in the host's list, or one of phase one.
SkippedForAReason ==
  \A h \in Hosts : \A k \in 1..Len(results[h]) : results[h][k] = "skipped" =>
    globalStopped \/ \E i \in 1..(k - 1) : FailedStop(h, i)

\* What is skipped is what the failure policies say, no less and no more
\* (sshcheck.go:470, 528).
SkipInv == StopIsFinal /\ GlobalStopStopsAll /\ SkippedForAReason

\* Every step runs as often as its mode says, here, on a host, in a check
\* (sshcheck.go:438, 480).
OnceInv == OnceStepsRunOnce /\ NoStepTwice /\ CheckRunsNothing

\* A host that failed to log in has run nothing; one that did has, in a full
\* run, one result per step, and shows of phase one exactly what it returned.
ResultsComplete ==
  \A h \in Hosts : at[h] = "finished" =>
    /\ login[h] = "failed" => results[h] = << >> /\ \A i \in 1..Len(steps) : runs[h][i] = 0
    /\ login[h] = "ok" /\ mode = "run" =>
         /\ Len(results[h]) = Len(steps)
         /\ \A i \in 1..Len(steps) : onceResults[i] # "nil" => results[h][i] = onceResults[i]

\* Results are typed, one per step, and those of phase one are shared unchanged.
ResultsInv == TypeOK /\ ResultsComplete

\* With servers that answer, the test of every host ends.
EveryHostEnds == \A h \in Hosts : <>(at[h] = "finished")

\* The list, its phases, logins and flags implement what an exec list promises
\* (sshcheck.go:438, 457).
Promise == INSTANCE ExecList WITH
  Lists  <- {[i \in DOMAIN p |-> [once |-> InPhaseOne(p[i]), stop |-> OnError(p[i]) = "stop"]] : p \in Pipelines},
  Checks <- {m = "check" : m \in Modes},
  list   <- [i \in DOMAIN steps |-> [once |-> InPhaseOne(steps[i]), stop |-> OnError(steps[i]) = "stop"]],
  check  <- (mode = "check"),
  shared <- onceResults,
  over   <- [h \in Hosts |-> IF at[h] # "finished" THEN "no"
                              ELSE IF login[h] = "failed" THEN "refused" ELSE "done"]

ImplementsExecList == Promise!Spec

\* README: a once step that fails with stop keeps all hosts from running the
\* steps that come after it; those before it do not depend on it.
\* Not satisfied by the code.
StepsBeforeStillRun ==
  \A h \in Hosts : \A k \in 1..Len(results[h]) : results[h][k] = "skipped" =>
    \E i \in 1..(k - 1) : \/ FailedStop(h, i)
                          \/ onceResults[i] = "failure" /\ OnError(steps[i]) = "stop"

\* The comments on execStatusStep and execServicesStep: collecting is best
\* effort, its failure does not block the list.
\* Not satisfied by the code.
CollectingNeverBlocks ==
  \A h \in Hosts : \A k \in 1..Len(results[h]) : results[h][k] = "skipped" =>
    globalStopped \/ \E i \in 1..(k - 1) : FailedStop(h, i) /\ steps[i].type # "collect"

\* SSHSingleTimeout is the timeout of one host's login test: the test of a
\* host that was dialled ends, whatever its server does.
\* Not satisfied by the code.
LoginTestEnds == \A h \in Hosts : at[h] = "dial" ~> at[h] \in {"steps", "finished"}
===============================================================================
