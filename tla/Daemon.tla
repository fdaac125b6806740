------------------------------- MODULE Daemon -------------------------------
(***************************************************************************)
(* Daemon mode: -web -daemon launches a detached instance that writes      *)
(* web.pid and then binds the port; -stop reads web.pid and asks the       *)
(* instance it names to end; the page's /api/shutdown does the same.       *)
(*                                                                         *)
(* web.pid holds pid, token and address of one instance, so its content is *)
(* the instance itself, NoFile, or Torn between os.WriteFile's truncation  *)
(* and its write.  The operating system gives pids of ended processes to   *)
(* new ones, to those of other programs too.                               *)
(*                                                                         *)
(* On Windows -stop takes every process for dead (SeenAlive), so it never  *)
(* gets as far as requestShutdown, and its request with the token is not   *)
(* an action of its own.                                                   *)
(*                                                                         *)
(* Abstracted: the log file and every message; the 5 s and 3 s waits may   *)
(* run out at any moment; all instances use one port; the shutdown         *)
(* goroutine gets the mutex it asks for (web.go:227), which a page that    *)
(* reads a broken history would keep for good (WebJob's jammed).           *)
(***************************************************************************)
EXTENDS FiniteSets

CONSTANTS Instances,  \* the launches
          Pids,       \* process ids
          Stops,      \* -stop commands
          None, Torn

ASSUME DaemonAssumption == /\ None \notin Instances \cup Pids
                           /\ Torn \notin Instances \cup {None}

VARIABLES
  windows, \* the platform: no signals, and no process is seen alive
  careful, \* the operator: one command at a time, never a second instance
  stage,   \* the main goroutine of an instance
  down,    \* its shutdown goroutine
  sig,     \* its handling of SIGTERM
  asked,   \* instances whose shutdownCh has been sent to
  pid,     \* the pid of an instance, also after its end
  others,  \* pids of other programs
  file,    \* web.pid
  at,      \* where a -stop command stands, and at last its verdict
  info     \* the instance it read from web.pid

setting      == <<windows, careful>>
instanceVars == <<stage, down, sig, asked, pid>>
stopVars     == <<at, info>>
vars == <<setting, instanceVars, others, file, stopVars>>

Starting == {"booted", "noting", "noted"}
Verdicts == {"missing", "unreadable", "stale", "failed", "late", "stopped"}

DaemonTypeOK ==
  /\ windows \in BOOLEAN
  /\ careful \in BOOLEAN
  /\ stage  \in [Instances -> {"unborn", "serving", "over"} \cup Starting]
  /\ down   \in [Instances -> {"waiting", "marked", "unlinked", "closed"}]
  /\ sig    \in [Instances -> {"default", "caught", "pending", "used"}]
  /\ asked  \subseteq Instances
  /\ pid    \in [Instances -> Pids \cup {None}]
  /\ others \subseteq Pids
  /\ file   \in Instances \cup {None, Torn}
  /\ at     \in [Stops -> {"idle", "check", "ask", "wait", "clear", "remove"} \cup Verdicts]
  /\ info   \in [Stops -> Instances \cup {None}]

Init ==
  /\ windows \in BOOLEAN
  /\ careful \in BOOLEAN
  /\ stage  = [i \in Instances |-> "unborn"]
  /\ down   = [i \in Instances |-> "waiting"]
  /\ sig    = [i \in Instances |-> "default"]
  /\ asked  = {}
  /\ pid    = [i \in Instances |-> None]
  /\ others = {}
  /\ file   = None
  /\ at     = [q \in Stops |-> "idle"]
  /\ info   = [q \in Stops |-> None]

Live(i)     == stage[i] \notin {"unborn", "over"}
Holders(p)  == {i \in Instances : Live(i) /\ pid[i] = p}
PidAlive(p) == p \in others \/ Holders(p) # {}

\* What processAlive says: signal 0 on Unix.  On Windows the handle lacks the
\* right to wait, WaitForSingleObject fails, and no process counts as alive.
SeenAlive(p) == ~windows /\ PidAlive(p)

HasPort(i)  == stage[i] = "serving" /\ down[i] # "closed"
Busy(q)     == at[q] \notin {"idle"} \cup Verdicts

\* Mutant: the signal handler is started before web.pid is written.
UpEarly(i) == stage[i] \in {"noting", "noted", "serving"}

\* The shutdown goroutine and the signal handler have been started.
Up(i) == stage[i] \in {"noted", "serving"}

\* The process is gone, and with it what its memory held.
End(i) == /\ stage' = [stage EXCEPT ![i] = "over"]
          /\ sig'   = [sig EXCEPT ![i] = "default"]
          /\ asked' = asked \ {i}

MainTo(i, from, to) == stage[i] = from /\ stage' = [stage EXCEPT ![i] = to]
DownTo(i, from, to) == Up(i) /\ down[i] = from /\ down' = [down EXCEPT ![i] = to]
StopTo(q, from, to) == at[q] = from /\ at' = [at EXCEPT ![q] = to]

-------------------------------------------------------------------------------
(* An instance: daemonize, runWeb *)

\* The parent has left as soon as the child process exists.
Launch(i, p) ==
  /\ MainTo(i, "unborn", "booted")
  /\ ~PidAlive(p)
  /\ careful => /\ \A j \in Instances : ~Live(j)
                /\ \A q \in Stops : ~Busy(q)
  /\ pid' = [pid EXCEPT ![i] = p]
  /\ UNCHANGED <<setting, down, sig, asked, others, file, stopVars>>

\* writePIDFile, first half: whoever's file it was, it is empty now.
Truncate(i) ==
  /\ MainTo(i, "booted", "noting")
  /\ file' = Torn
  /\ UNCHANGED <<setting, down, sig, asked, pid, others, stopVars>>

WritePid(i) ==
  /\ MainTo(i, "noting", "noted")
  /\ file' = i
  /\ UNCHANGED <<setting, down, sig, asked, pid, others, stopVars>>

\* ListenAndServe binds the port, or the process exits with 1.
Listen(i) ==
  /\ down[i] # "closed"
  /\ \/ /\ \A j \in Instances : ~HasPort(j)
        /\ MainTo(i, "noted", "serving")
        /\ UNCHANGED <<sig, asked>>
     \/ /\ \E j \in Instances : HasPort(j)
        /\ stage[i] = "noted"
        /\ End(i)
  /\ UNCHANGED <<setting, down, pid, others, file, stopVars>>

\* kill -9, a panic, a failed write, a port another program holds.
Crash(i) ==
  /\ Live(i)
  /\ End(i)
  /\ UNCHANGED <<setting, down, pid, others, file, stopVars>>

-------------------------------------------------------------------------------
(* Its shutdown: handleSignals, handleShutdown, the goroutine of runWeb *)

\* signal.Notify; on Windows handleSignals does nothing.
Notify(i) ==
  /\ ~windows
  /\ Up(i)
  /\ sig[i] = "default"
  /\ sig' = [sig EXCEPT ![i] = "caught"]
  /\ UNCHANGED <<setting, stage, down, asked, pid, others, file, stopVars>>

\* SIGTERM: fatal by default, kept for the handler, or one too many.
Deliver(i) ==
  \/ sig[i] = "default" /\ End(i)
  \/ /\ sig[i] = "caught"
     /\ sig' = [sig EXCEPT ![i] = "pending"]
     /\ UNCHANGED <<stage, asked>>
  \/ sig[i] \in {"pending", "used"} /\ UNCHANGED <<stage, sig, asked>>

\* Somebody else sends SIGTERM: a shell, an init system.
Terminate(i) ==
  /\ ~windows
  /\ Live(i)
  /\ Deliver(i)
  /\ UNCHANGED <<setting, down, pid, others, file, stopVars>>

HandleSignal(i) ==
  /\ Up(i)
  /\ sig[i] = "pending"
  /\ sig'   = [sig EXCEPT ![i] = "used"]
  /\ asked' = asked \cup {i}
  /\ UNCHANGED <<setting, stage, down, pid, others, file, stopVars>>

\* handleShutdown: the page's exit button with a valid session, or the token.
AskFromPage(i) ==
  /\ HasPort(i)
  /\ asked' = asked \cup {i}
  /\ UNCHANGED <<setting, stage, down, sig, pid, others, file, stopVars>>

\* The goroutine wakes up and fails the running job.
MarkJob(i) ==
  /\ i \in asked
  /\ DownTo(i, "waiting", "marked")
  /\ UNCHANGED <<setting, stage, sig, asked, pid, others, file, stopVars>>

\* Mutant: a pid file that is not there any more ends the shutdown.
UnlinkOwn(i) ==
  /\ DownTo(i, "marked", "unlinked")
  /\ file = i
  /\ file' = None
  /\ UNCHANGED <<setting, stage, sig, asked, pid, others, stopVars>>

\* removePIDFile does not look whose file it removes.
Unlink(i) ==
  /\ DownTo(i, "marked", "unlinked")
  /\ file' = None
  /\ UNCHANGED <<setting, stage, sig, asked, pid, others, stopVars>>

\* srv.Shutdown closes the listener, or keeps ListenAndServe from opening it.
Close(i) ==
  /\ DownTo(i, "unlinked", "closed")
  /\ UNCHANGED <<setting, stage, sig, asked, pid, others, file, stopVars>>

\* main returns, or os.Exit(0), whichever is first.
Exit(i) ==
  /\ Up(i)
  /\ down[i] = "closed"
  /\ End(i)
  /\ UNCHANGED <<setting, down, pid, others, file, stopVars>>

-------------------------------------------------------------------------------
(* stopWebDaemon *)

ReadFile(q) ==
  /\ careful => \A i \in Instances : stage[i] \notin Starting
  /\ \/ file = None /\ StopTo(q, "idle", "missing") /\ UNCHANGED info
     \/ file = Torn /\ StopTo(q, "idle", "unreadable") /\ UNCHANGED info
     \/ /\ file \in Instances
        /\ StopTo(q, "idle", "check")
        /\ info' = [info EXCEPT ![q] = file]
  /\ UNCHANGED <<setting, instanceVars, others, file>>

\* Mutant: the process is never found alive.
CheckNever(q) ==
  /\ StopTo(q, "check", "clear")
  /\ UNCHANGED <<setting, instanceVars, others, file, info>>

\* processAlive
CheckAlive(q) ==
  /\ \/ StopTo(q, "check", "ask") /\ SeenAlive(pid[info[q]])
     \/ StopTo(q, "check", "clear") /\ ~SeenAlive(pid[info[q]])
  /\ UNCHANGED <<setting, instanceVars, others, file, info>>

ClearStale(q) ==
  /\ StopTo(q, "clear", "stale")
  /\ file' = None
  /\ UNCHANGED <<setting, instanceVars, others, info>>

\* requestShutdown: SIGTERM to whatever has the pid now.
SendSignal(q) ==
  LET p == pid[info[q]] IN
  /\ at[q] = "ask"
  /\ \/ /\ StopTo(q, "ask", "wait")
        /\ \E i \in Holders(p) : Deliver(i)
     \/ /\ Holders(p) = {} /\ p \in others
        /\ StopTo(q, "ask", "wait")
        /\ UNCHANGED <<stage, sig, asked>>
     \/ /\ ~PidAlive(p)
        /\ StopTo(q, "ask", "failed")
        /\ UNCHANGED <<stage, sig, asked>>
  /\ UNCHANGED <<setting, down, pid, others, file, info>>

\* Mutant: the wait is over when its time is, whatever the process does.
GoneUnchecked(q) ==
  /\ StopTo(q, "wait", "remove")
  /\ UNCHANGED <<setting, instanceVars, others, file, info>>

Gone(q) ==
  /\ StopTo(q, "wait", "remove")
  /\ ~SeenAlive(pid[info[q]])
  /\ UNCHANGED <<setting, instanceVars, others, file, info>>

\* Mutant: the wait has no deadline.
NoDeadline(q) == FALSE /\ UNCHANGED vars

\* The 5 s are over.
TimeUp(q) ==
  /\ StopTo(q, "wait", "late")
  /\ SeenAlive(pid[info[q]])
  /\ UNCHANGED <<setting, instanceVars, others, file, info>>

RemoveFile(q) ==
  /\ StopTo(q, "remove", "stopped")
  /\ file' = None
  /\ UNCHANGED <<setting, instanceVars, others, info>>

-------------------------------------------------------------------------------
(* Other programs come and go *)

OtherStarts(p) ==
  /\ ~PidAlive(p)
  /\ others' = others \cup {p}
  /\ UNCHANGED <<setting, instanceVars, file, stopVars>>

OtherEnds(p) ==
  /\ p \in others
  /\ others' = others \ {p}
  /\ UNCHANGED <<setting, instanceVars, file, stopVars>>

Boot(i)     == \/ \E p \in Pids : Launch(i, p)
               \/ Truncate(i) \/ WritePid(i) \/ Listen(i) \/ Crash(i)
Shutdown(i) == \/ Notify(i) \/ Terminate(i) \/ HandleSignal(i) \/ AskFromPage(i)
               \/ MarkJob(i) \/ Unlink(i) \/ Close(i) \/ Exit(i)
Stop(q)     == \/ ReadFile(q) \/ CheckAlive(q) \/ ClearStale(q) \/ SendSignal(q)
               \/ Gone(q) \/ TimeUp(q) \/ RemoveFile(q)
Others      == \E p \in Pids : OtherStarts(p) \/ OtherEnds(p)

Next == \/ \E i \in Instances : Boot(i) \/ Shutdown(i)
        \/ \E q \in Stops : Stop(q)
        \/ Others

Spec == Init /\ [][Next]_vars

\* What runs, runs on: the goroutines of an instance that is asked to end, and
\* a -stop command once it has begun.  Nobody must launch, ask, crash or stop.
Fairness ==
  /\ \A i \in Instances : /\ WF_vars(HandleSignal(i))
                          /\ WF_vars(MarkJob(i))
                          /\ WF_vars(Unlink(i))
                          /\ WF_vars(Close(i))
                          /\ WF_vars(Exit(i))
  /\ \A q \in Stops : WF_vars(Busy(q) /\ Stop(q))

FairSpec == Spec /\ Fairness

-------------------------------------------------------------------------------
(* Properties *)

\* A -stop command that takes the instance it read from web.pid for gone: it
\* says so, or is about to, as stale or as stopped.
SaysGone(q) == at[q] \in {"clear", "stale", "remove", "stopped"}

\* On Unix, a -stop command that reports the instance stopped, or long gone,
\* tells the truth: the instance it read from web.pid has ended, whatever was
\* started, crashed or reused its pid meanwhile (main.go:217-220, 238-246).
StopIsTrue ==
  ~windows => \A q \in Stops : SaysGone(q) => stage[info[q]] = "over"

\* Not satisfied by the code.  The same on every platform: what -stop reports as
\* 已不存在 does not exist (main.go:218).  On Windows a serving instance is
\* reported so (proc_windows.go:26).
GoneIsGone ==
  \A q \in Stops : SaysGone(q) => stage[info[q]] = "over"

\* On Unix, while an instance serves and nobody asked it to end, web.pid names
\* it: the only way -stop has to find it (web.go:201-208, main.go:206-216).
\* Only for an operator who gives one command at a time, but through crashes
\* and reused pids: a second -daemon beside a running instance overwrites the
\* file.  On Windows one -stop removes it.
RunningIsFindable ==
  (careful /\ ~windows) =>
    \A i \in Instances : (stage[i] = "serving" /\ i \notin asked) => file = i

\* An instance that went through its shutdown leaves no pid file that names it,
\* whenever the request came (web.go:235).
ShutdownLeavesNoFile ==
  \A i \in Instances : down[i] \in {"unlinked", "closed"} => file # i

\* web.pid names an instance as long as it is to be found by it (on Unix) and no
\* longer (everywhere; daemon.go:53, web.go:201, 235).
PidFileInv == RunningIsFindable /\ ShutdownLeavesNoFile

\* An instance whose shutdown has been requested ends, also if the request came
\* before it served and if its pid file is gone (web.go:226-240).
AskedEnds ==
  \A i \in Instances : (sig[i] = "pending" \/ i \in asked) ~> (stage[i] = "over")

\* A -stop command that began comes to a verdict.
StopAnswers ==
  \A q \in Stops : Busy(q) ~> (at[q] \in Verdicts)

\* Both: whoever asks for an end, the page, a signal or -stop, gets an answer.
EndsWhenAsked == AskedEnds /\ StopAnswers
=============================================================================
