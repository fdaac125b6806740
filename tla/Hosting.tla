------------------------------- MODULE Hosting -------------------------------
(***************************************************************************)
(* The two ways to run the web mode in the background: as a process that   *)
(* web.pid names (Daemon), and as a Windows service (Service), which       *)
(* writes no web.pid.  A behaviour is about one of them.                   *)
(***************************************************************************)
EXTENDS Daemon, Naturals

CONSTANTS MaxCrashes, MaxRequests   \* of Service

ASSUME BoundsAssumption == MaxCrashes \in Nat /\ MaxRequests \in Nat

VARIABLES host,                     \* how the web mode runs
          entry, recovery, restart, status, control, exe, http, serveErr, job, requests, crashes, cmd

Serving == INSTANCE Service

serviceVars == <<entry, recovery, restart, status, control, exe, http, serveErr, job, requests,
                 crashes, cmd>>

HostingInit ==
  /\ host \in {"daemon", "service"}
  /\ Init /\ (host = "service" => ~windows /\ careful)
  /\ Serving!Init

HostingNext ==
  \/ host = "daemon" /\ Next /\ UNCHANGED <<host, serviceVars>>
  \/ host = "service" /\ Serving!Next /\ UNCHANGED <<host, vars>>

HostingSpec == HostingInit /\ [][HostingNext]_<<host, vars, serviceVars>>

\* Nothing in either can move before somebody launches, installs or stops it, so the
\* fairness of the one that is not there asks for nothing.
FairHostingSpec == HostingSpec /\ Fairness /\ Serving!Fairness

-----------------------------------------------------------------------------
(* Properties *)

\* What the SCM believes fits the process, and a job a stop ends is told so
\* (service_windows.go:204, 215).
ServiceInv == Serving!ServiceInv

\* A service told to stop stops, whatever else arrives; one whose port could not be
\* opened says so; one that crashed comes back; -service uninstall answers.
ServiceEnds == Serving!ServiceEnds

\* A shutdown that was granted ends the process (web.go:298 "优雅关闭：校验 token ->
\* 停任务 -> 关 HTTP -> 退进程").
\* Not satisfied by the code: in a service nobody receives from shutdownCh.
GrantedEnds == Serving!GrantedEnds
=============================================================================
