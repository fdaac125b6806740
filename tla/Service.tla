------------------------------- MODULE Service -------------------------------
(***************************************************************************)
(* service_windows.go: the web mode as a Windows service.  -service        *)
(* install registers it, -service uninstall stops and deletes it, and      *)
(* Execute is its body: it opens the port in a goroutine and then waits    *)
(* for controls of the service control manager (SCM) or the end of the     *)
(* server.                                                                 *)
(*                                                                         *)
(* The SCM is external: it starts an installed service, sends one control  *)
(* at a time to a service that reports itself running, restarts one whose  *)
(* process ended without a report (a crash; an exit code in the report is  *)
(* none), and keeps the entry of a deleted service until it is stopped.    *)
(*                                                                         *)
(* Abstracted: elevation, addresses, directories and the log; the waits of *)
(* 15 s and 3 s may run out at any moment.                                 *)
(***************************************************************************)
EXTENDS Naturals

CONSTANTS MaxCrashes,   \* bound: crashes
          MaxRequests   \* bound: accepted POST /api/shutdown of one process

VARIABLES
  entry,     \* the SCM's entry of the service
  recovery,  \* it has recovery actions
  restart,   \* the SCM is about to restart it
  status,    \* what the service has reported
  control,   \* the control on its way to it
  exe,       \* where Execute stands
  http,      \* srv
  serveErr,  \* the channel
  job,       \* s.currentJob; "late" began after Execute has looked
  requests,  \* accepted shutdown requests: one in shutdownCh, a goroutine for each other
  crashes,
  cmd        \* where uninstallService stands

process == <<status, control, exe, http, serveErr, job, requests>>
scm     == <<entry, recovery, restart, crashes>>
vars    == <<scm, process, cmd>>

Init ==
  /\ entry = "none" /\ recovery = FALSE /\ restart = FALSE
  /\ status = "stopped" /\ control = "none"
  /\ exe = "gone" /\ http = "none" /\ serveErr = "empty"
  /\ job = "none"
  /\ requests = 0 /\ crashes = 0
  /\ cmd = "idle"

ServiceTypeOK ==
  /\ entry \in {"none", "installed", "marked"}
  /\ recovery \in BOOLEAN /\ restart \in BOOLEAN
  /\ status \in {"stopped", "start pending", "running", "stop pending"}
  /\ control \in {"none", "stop", "interrogate"}
  /\ exe \in {"gone", "begun", "opened", "loop", "marking", "closing", "waiting"}
  /\ http \in {"none", "opening", "open", "failed", "closed"}
  /\ serveErr \in {"empty", "failed", "closed"}
  /\ job \in {"none", "running", "late", "failed", "done"}
  /\ requests \in 0..MaxRequests /\ crashes \in 0..MaxCrashes
  /\ cmd \in {"idle", "control", "wait", "delete", "removed", "failed"}

-----------------------------------------------------------------------------
(* installService, and what the SCM does by itself *)

\* CreateService fails if there is an entry; the recovery actions may fail.
Install ==
  /\ entry = "none"
  /\ entry' = "installed"
  /\ recovery' \in BOOLEAN
  /\ UNCHANGED <<restart, crashes, process, cmd>>

Begin == status' = "start pending" /\ exe' = "begun"

\* At boot, or net start.
Start ==
  /\ entry = "installed" /\ status = "stopped"
  /\ Begin
  /\ restart' = FALSE
  /\ UNCHANGED <<entry, recovery, crashes, control, http, serveErr, job, requests, cmd>>

Restart == restart /\ Start

SendControl(c) ==
  /\ status = "running" /\ control = "none"
  /\ control' = c
  /\ UNCHANGED <<scm, status, exe, http, serveErr, job, requests, cmd>>

\* The process is gone, and with it what its memory held.
End ==
  /\ status' = "stopped" /\ control' = "none"
  /\ exe' = "gone" /\ http' = "none" /\ serveErr' = "empty"
  /\ job' = "none" /\ requests' = 0
  /\ entry' = IF entry = "marked" THEN "none" ELSE entry

Crash ==
  /\ exe # "gone" /\ crashes < MaxCrashes
  /\ crashes' = crashes + 1
  /\ restart' = (recovery /\ entry = "installed")
  /\ End
  /\ UNCHANGED <<recovery, cmd>>

-----------------------------------------------------------------------------
(* Execute *)

\* svc.Run reports the service stopped, with Execute's code.
Return == End /\ UNCHANGED <<recovery, restart, crashes, cmd>>

ExeTo(from, to) == exe = from /\ exe' = to

\* newWebServer fails, or the server's goroutine is started.
PrepareFails == exe = "begun" /\ Return
Prepare ==
  /\ ExeTo("begun", "opened")
  /\ http' = "opening"
  /\ UNCHANGED <<scm, status, control, serveErr, job, requests, cmd>>

\* Nobody has asked whether the port is open.
ReportRunning ==
  /\ ExeTo("opened", "loop")
  /\ status' = "running"
  /\ UNCHANGED <<scm, control, http, serveErr, job, requests, cmd>>

\* ListenAndServe: its error goes to the channel, which has room for it.
Listen ==
  /\ http = "opening"
  /\ \/ http' = "open" /\ UNCHANGED serveErr
     \/ http' = "failed" /\ serveErr' = "failed"
  /\ UNCHANGED <<scm, status, control, exe, job, requests, cmd>>

Interrogate ==
  /\ exe = "loop" /\ control = "interrogate"
  /\ control' = "none"
  /\ UNCHANGED <<scm, status, exe, http, serveErr, job, requests, cmd>>

StopPending ==
  /\ control = "stop"
  /\ ExeTo("loop", "marking")
  /\ control' = "none" /\ status' = "stop pending"
  /\ UNCHANGED <<scm, http, serveErr, job, requests, cmd>>

\* Mutant: only controls are waited for.
ServeEndsUnseen == FALSE /\ UNCHANGED vars

\* The select takes the error of the server instead of a control.
ServeEnds == exe = "loop" /\ serveErr # "empty" /\ Return

\* Mutant: the job is looked at when the server is closed.
MarkJobLate ==
  /\ ExeTo("marking", "closing")
  /\ UNCHANGED <<scm, status, control, http, serveErr, job, requests, cmd>>

MarkJob ==
  /\ ExeTo("marking", "closing")
  /\ job' = IF job = "running" THEN "failed" ELSE job
  /\ UNCHANGED <<scm, status, control, http, serveErr, requests, cmd>>

\* srv.Shutdown: the listener closes, or never opens.
Close ==
  /\ ExeTo("closing", "waiting")
  /\ http' = IF http \in {"open", "opening"} THEN "closed" ELSE http
  /\ serveErr' = IF http \in {"open", "opening"} THEN "closed" ELSE serveErr
  /\ UNCHANGED <<scm, status, control, job, requests, cmd>>

\* The connections have ended, or the 3 s.
Leave == exe = "waiting" /\ Return

Execute == \/ PrepareFails \/ Prepare \/ ReportRunning \/ Interrogate \/ StopPending \/ ServeEnds
           \/ MarkJob \/ Close \/ Leave

-----------------------------------------------------------------------------
(* Requests to the web server *)

RunJob ==
  /\ http = "open" /\ job \notin {"running", "late"}
  /\ job' = IF exe = "closing" THEN "late" ELSE "running"
  /\ UNCHANGED <<scm, status, control, exe, http, serveErr, requests, cmd>>

JobEnds ==
  /\ job \in {"running", "late"}
  /\ job' = "done"
  /\ UNCHANGED <<scm, status, control, exe, http, serveErr, requests, cmd>>

\* handleShutdown, with a session: the answer is ok, and a goroutine sends to
\* shutdownCh, which only runWeb receives from.
AskShutdown ==
  /\ http = "open" /\ requests < MaxRequests
  /\ requests' = requests + 1
  /\ UNCHANGED <<scm, status, control, exe, http, serveErr, job, cmd>>

-----------------------------------------------------------------------------
(* uninstallService *)

CmdTo(from, to) == cmd = from /\ cmd' = to

Open == (IF entry = "none" THEN CmdTo("idle", "failed") ELSE CmdTo("idle", "control"))
        /\ UNCHANGED <<scm, process>>

\* An error of Control is taken for a service that does not run.
Control ==
  /\ \/ status # "running" /\ CmdTo("control", "delete") /\ UNCHANGED control
     \/ status = "running" /\ control = "none" /\ CmdTo("control", "wait") /\ control' = "stop"
  /\ UNCHANGED <<scm, status, exe, http, serveErr, job, requests>>

\* Mutant: the wait for the stop has no deadline and asks for a running service.
WaitRunning ==
  /\ CmdTo("wait", "delete")
  /\ status = "running"
  /\ UNCHANGED <<scm, process>>

\* Stopped, or the 15 s are over.
Wait == CmdTo("wait", "delete") /\ UNCHANGED <<scm, process>>

Delete ==
  /\ \/ /\ entry = "installed" /\ CmdTo("delete", "removed")
        /\ entry' = IF status = "stopped" THEN "none" ELSE "marked"
        /\ restart' = FALSE
     \/ /\ entry # "installed" /\ CmdTo("delete", "failed")
        /\ UNCHANGED <<entry, restart>>
  /\ UNCHANGED <<recovery, crashes, process>>

Uninstall == Open \/ Control \/ Wait \/ Delete

Next ==
  \/ Install \/ Start \/ Crash \/ \E c \in {"stop", "interrogate"} : SendControl(c)
  \/ Execute \/ Listen
  \/ RunJob \/ JobEnds \/ AskShutdown
  \/ Uninstall

Spec == Init /\ [][Next]_vars

\* Execute and the server's goroutine run on, a select does not overlook the server
\* for ever, the SCM restarts what it is to restart and serves a command's controls too.
Fairness ==
  /\ WF_vars(Execute) /\ SF_vars(ServeEnds) /\ WF_vars(Listen) /\ WF_vars(Restart)
  /\ SF_vars(cmd # "idle" /\ Uninstall)

FairSpec == Spec /\ Fairness

-----------------------------------------------------------------------------
(* Properties *)

\* What the SCM believes fits the process: a service that reports itself stopped
\* holds no port, and one that still has to report runs (service_windows.go:204).
ReportFits ==
  /\ status = "stopped" => http = "none"
  /\ status = "running" => exe = "loop"
  /\ restart => status = "stopped" /\ entry = "installed"

\* A job that ran when the service was told to stop is told failed before its
\* process ends, unless it has ended (service_windows.go:215).
StoppedJobIsTold == exe \in {"closing", "waiting"} => job # "running"

ServiceInv == ServiceTypeOK /\ ReportFits /\ StoppedJobIsTold

\* A service that is told to stop stops, whatever else arrives; one whose port could
\* not be opened says so; one that crashed comes back; the command answers.
ServiceEnds ==
  /\ control = "stop" ~> status = "stopped"
  /\ http = "failed" ~> status = "stopped"
  /\ restart ~> ~restart
  /\ cmd = "control" ~> cmd \in {"removed", "failed"}

\* A shutdown that was granted ends the process (web.go:298).
\* Not satisfied by the code: in a service nobody receives from shutdownCh.
GrantedEnds == requests > 0 ~> exe = "gone"

\* A service that reports itself running can be reached.
\* Not satisfied by the code: the port is opened beside the report.
RunningIsOpen == status = "running" => http = "open"

\* No job that was let in vanishes without a word.
\* Not satisfied by the code: a run is let in until the listener is closed.
NoJobIsLost == exe = "waiting" => job # "late"

\* A removed service ends (service_windows.go:105).
\* Not satisfied by the code: one that still starts refuses the control.
RemovedEnds == entry = "marked" ~> entry = "none"
=============================================================================
