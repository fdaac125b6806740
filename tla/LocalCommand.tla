---------------------------- MODULE LocalCommand ----------------------------
(***************************************************************************)
(* runLocalCommand (sshcheck.go): one command step on this machine.  The   *)
(* step starts a shell and waits for it; a watchdog goroutine kills the    *)
(* shell's process group when the step's context reaches its deadline.     *)
(* cmd.Wait returns when the shell is over AND nobody holds its output     *)
(* pipe any more, and the deferred cancel ends the context of a step that  *)
(* has returned.                                                           *)
(*                                                                         *)
(* A kid is a process the script starts.  Holding kids inherited the pipe; *)
(* Grouped kids are in the shell's process group, the others have left it  *)
(* (setsid).  On Windows only the shell is killed: no kid is Grouped.      *)
(*                                                                         *)
(* Abstracted: the output itself, its truncation, and errors of the        *)
(* goroutines that copy it.                                                *)
(***************************************************************************)
CONSTANTS Kids, Holding, Grouped

ASSUME KidsAssumption == Holding \subseteq Kids /\ Grouped \subseteq Kids

VARIABLES pc,      \* where the step stands
          dog,     \* the watchdog; "parked" once its select has found nothing ready
          ctx,     \* the context: live, past its deadline, or canceled
          shell,
          kids,    \* the fate of every kid
          verdict  \* res.State

vars == <<pc, dog, ctx, shell, kids, verdict>>

LocalCommandTypeOK ==
  /\ pc      \in {"start", "wait", "classify", "returned"}
  /\ dog     \in {"none", "born", "parked", "kill", "gone"}
  /\ ctx     \in {"live", "deadline", "canceled"}
  /\ shell   \in {"none", "running", "zero", "nonzero", "killed"}
  /\ kids    \in [Kids -> {"unborn", "alive", "over", "killed"}]
  /\ verdict \in {"none", "success", "fail", "timeout", "error"}

Alive(k) == kids[k] = "alive"

Init ==
  /\ pc = "start" /\ dog = "none" /\ ctx = "live"
  /\ shell = "none"
  /\ kids = [k \in Kids |-> "unborn"]
  /\ verdict = "none"

-------------------------------------------------------------------------------
(* The step *)

\* No content to run, or the shell cannot be started.
Refuse ==
  /\ pc = "start"
  /\ pc' = "returned"
  /\ verdict' = "error"
  /\ UNCHANGED <<dog, ctx, shell, kids>>

Start ==
  /\ pc = "start"
  /\ pc' = "wait"
  /\ shell' = "running"
  /\ dog' = "born"
  /\ UNCHANGED <<ctx, kids, verdict>>

ShellOver  == shell \notin {"none", "running"}
PipeClosed == \A k \in Holding : ~Alive(k)

\* A parked watchdog wakes for the first thing that becomes ready, and for no other.
Wakes(to) == dog' = IF dog = "parked" THEN to ELSE dog

\* Mutant: only the shell is waited for, as with Process.Wait.
WaitForShell ==
  /\ pc = "wait" /\ ShellOver
  /\ pc' = "classify"
  /\ Wakes("gone")
  /\ UNCHANGED <<ctx, shell, kids, verdict>>

\* cmd.Wait returns and done is closed.
Wait ==
  /\ pc = "wait" /\ ShellOver /\ PipeClosed
  /\ pc' = "classify"
  /\ Wakes("gone")
  /\ UNCHANGED <<ctx, shell, kids, verdict>>

\* Mutant: the exit status is looked at before the deadline.
StatusFirst == IF shell = "zero" THEN "success" ELSE "fail"

Verdict == CASE ctx = "deadline" -> "timeout"
             [] ctx # "deadline" /\ shell = "zero" -> "success"
             [] ctx # "deadline" /\ shell # "zero" -> "fail"

Classify ==
  /\ pc = "classify"
  /\ pc' = "returned"
  /\ verdict' = Verdict
  /\ ctx' = IF ctx = "live" THEN "canceled" ELSE ctx
  /\ UNCHANGED <<dog, shell, kids>>

-------------------------------------------------------------------------------
(* The watchdog *)

Expire ==
  /\ ctx = "live" /\ pc \in {"wait", "classify"}
  /\ ctx' = "deadline"
  /\ Wakes("kill")
  /\ UNCHANGED <<pc, shell, kids, verdict>>

DoneClosed == pc \in {"classify", "returned"}

\* The watchdog reaches its select: either ready case may be taken.
Select ==
  /\ dog = "born"
  /\ dog' \in {d \in {"parked", "kill", "gone"} :
                 /\ d = "kill" => ctx # "live"
                 /\ d = "gone" => DoneClosed
                 /\ d = "parked" => ctx = "live" /\ ~DoneClosed}
  /\ UNCHANGED <<pc, ctx, shell, kids, verdict>>

\* Mutant: the shell alone is killed, not its group.
KillShell ==
  /\ dog = "kill"
  /\ dog' = "gone"
  /\ shell' = IF shell = "running" THEN "killed" ELSE shell
  /\ UNCHANGED <<pc, ctx, kids, verdict>>

\* killProcessGroup
Kill ==
  /\ dog = "kill"
  /\ dog' = "gone"
  /\ shell' = IF shell = "running" THEN "killed" ELSE shell
  /\ kids' = [k \in Kids |-> IF k \in Grouped /\ Alive(k) THEN "killed" ELSE kids[k]]
  /\ UNCHANGED <<pc, ctx, verdict>>

-------------------------------------------------------------------------------
(* The script *)

Spawn(k) ==
  /\ shell = "running" /\ kids[k] = "unborn"
  /\ kids' = [kids EXCEPT ![k] = "alive"]
  /\ UNCHANGED <<pc, dog, ctx, shell, verdict>>

KidEnds(k) ==
  /\ Alive(k)
  /\ kids' = [kids EXCEPT ![k] = "over"]
  /\ UNCHANGED <<pc, dog, ctx, shell, verdict>>

ShellExits ==
  /\ shell = "running"
  /\ shell' \in {"zero", "nonzero"}
  /\ UNCHANGED <<pc, dog, ctx, kids, verdict>>

Next == \/ Refuse \/ Start \/ Wait \/ Classify
        \/ Expire \/ Select \/ Kill
        \/ ShellExits \/ \E k \in Kids : Spawn(k) \/ KidEnds(k)

Spec == Init /\ [][Next]_vars

\* The goroutines run and the timer fires.  Nothing is assumed of the script.
FairSpec == /\ Spec
            /\ WF_vars(Start \/ Wait \/ Classify) /\ WF_vars(Expire)
            /\ WF_vars(Select) /\ WF_vars(Kill)

-------------------------------------------------------------------------------
(* Properties *)

\* When the step reads the buffers no process can write to them any more: the
\* output it reports is whole and read without a race (sshcheck.go:1003-1006).
OutputIsWhole == DoneClosed => PipeClosed

\* A command that was killed is reported as a timeout, never as a failure with the
\* exit status of the kill, and a success exited 0 by itself (sshcheck.go:1007).
KilledIsTimeout ==
  /\ verdict # "none" /\ shell = "killed" => verdict = "timeout"
  /\ verdict = "success" => shell = "zero"

\* What a step reports of its command is the whole of it and the truth
\* (sshcheck.go:1003-1012).
CommandInv == OutputIsWhole /\ KilledIsTimeout

\* A step past its deadline returns, however long the command and its children
\* would run (README.md:300).
ExpiredEnds == ctx = "deadline" ~> pc = "returned"

\* Nothing the script left running is killed but by a timeout (sshcheck.go:992).
\* Not satisfied by the code.
OnlyTimeoutKills ==
  [][(\E k \in Kids : Alive(k) /\ kids'[k] = "killed") => ctx = "deadline"]_vars
=============================================================================
