-------------------------------- MODULE WebJob --------------------------------
(***************************************************************************)
(* The life of a web run: POST /api/run (handleRun) lets one job in, a     *)
(* goroutine (runJob) takes it through its stages, and the deferred        *)
(* finisher writes the verdict, clears the two package-level globals       *)
(* runLog and webProjectID and moves the job to the history.               *)
(*                                                                         *)
(* Only the admission test and the archiving hold webServer.mu; every      *)
(* other write of runJob and its finisher is a step of its own, in the     *)
(* order of the code, because handlers of other requests and the shutdown  *)
(* goroutine run between them.  The archiving reads the configured length  *)
(* twice, once to test and once to cut, and the handler that writes the    *)
(* length takes no mutex: the two reads are two steps.                     *)
(*                                                                         *)
(* Abstracted: a profile is the set of the platform's projects that carry  *)
(* its project name; the outcome of I/O (configuration, cloud API, export) *)
(* is a choice; Done, Total and Progress belong to WorkerPool.             *)
(***************************************************************************)
EXTENDS Naturals, Sequences

CONSTANTS Jobs,        \* job ids newSessionID may hand out, one run each
          Projects,    \* project ids of the platform
          Requests,    \* the bodies POST /api/run may carry
          Sizes,       \* the values settings.HistorySize may take
          None         \* nil / the empty string

\* handleRun reads any mode but "check" as "run"; the profile stands for the set
\* of projects its name matches exactly.
RequestType == [mode : {"check", "run"}, projectId : Projects \cup {None},
                matches : SUBSET Projects]

ASSUME JobsAssumption     == None \notin Jobs
ASSUME ProjectsAssumption == None \notin Projects
ASSUME RequestsAssumption == Requests \subseteq RequestType
ASSUME SizesAssumption    == Sizes \subseteq Nat \ {0}

VARIABLES
  pc,            \* where the goroutine of each job stands
  req,           \* the request each job was made from
  status,        \* Job.Status, "" before the job exists
  error,         \* Job.Error # ""
  vms,           \* Job.VMs has been set
  excel,         \* Job.ExcelFile # ""
  chosen,        \* the project resolveProjects picked
  overlapped,    \* history: accepted while another finisher was still at work
  currentJob,    \* webServer.currentJob
  history,       \* webServer.history, newest first
  historySize,   \* settings.HistorySize
  raised,        \* history: the length grew past the list between test and cut
  jammed,        \* a handler panicked with webServer.mu locked
  webProjectID,  \* the package-level preselection
  runLog,        \* the job the package-level log callback publishes to
  stop           \* the shutdown goroutine

jobVars    == <<status, error, vms, excel>>
globalVars == <<webProjectID, runLog>>
serverVars == <<currentJob, history, historySize, raised, jammed>>
vars == <<pc, req, jobVars, chosen, overlapped, serverVars, globalVars, stop>>

-------------------------------------------------------------------------------
(* Stages of runJob, in program order. *)

Body     == {"load", "resolve", "collect", "once", "ssh", "export", "clearLog"}
Running  == {"preselect", "setLog"} \cup Body \cup {"readStatus", "markDone"}
Cleaning == {"markFailed", "clearProject"}
Archived == {"cut", "publish", "gone"}
Labels   == {"new", "archive"} \cup Running \cup Cleaning \cup Archived

TypeOK ==
  /\ pc           \in [Jobs -> Labels]
  /\ req          \in [Jobs -> Requests \cup {None}]
  /\ status       \in [Jobs -> {"", "running", "done", "failed"}]
  /\ error        \in [Jobs -> BOOLEAN]
  /\ vms          \in [Jobs -> BOOLEAN]
  /\ excel        \in [Jobs -> BOOLEAN]
  /\ chosen       \in [Jobs -> Projects \cup {None}]
  /\ overlapped   \subseteq Jobs
  /\ currentJob   \in Jobs \cup {None}
  /\ history      \in Seq(Jobs \cup {None})
  /\ historySize  \in Sizes
  /\ raised       \in BOOLEAN
  /\ jammed       \in BOOLEAN
  /\ webProjectID \in Projects \cup {None}
  /\ runLog       \in Jobs \cup {None}
  /\ stop         \in {"no", "marking", "marked", "exited", "panicked"}

Init ==
  /\ pc           = [j \in Jobs |-> "new"]
  /\ req          = [j \in Jobs |-> None]
  /\ status       = [j \in Jobs |-> ""]
  /\ error        = [j \in Jobs |-> FALSE]
  /\ vms          = [j \in Jobs |-> FALSE]
  /\ excel        = [j \in Jobs |-> FALSE]
  /\ chosen       = [j \in Jobs |-> None]
  /\ overlapped   = {}
  /\ currentJob   = None
  /\ history      = << >>
  /\ historySize  \in Sizes
  /\ raised       = FALSE
  /\ jammed       = FALSE
  /\ webProjectID = None
  /\ runLog       = None
  /\ stop         = "no"

\* Jobs whose finisher holds webServer.mu between the test of the length and the cut.
Cutting == {j \in Jobs : pc[j] = "cut"}

\* webServer.mu is free: neither the shutdown goroutine nor a finisher is inside its
\* section, and no handler has left it locked.
MuFree == stop # "marking" /\ Cutting = {} /\ ~jammed
Alive  == stop \notin {"exited", "panicked"}

Goto(j, from, to) == /\ Alive
                     /\ pc[j] = from
                     /\ pc' = [pc EXCEPT ![j] = to]

-------------------------------------------------------------------------------
(* handleRun *)

\* Jobs whose finisher has released the gate but not yet cleared the globals.
Lingering == {i \in Jobs : pc[i] \in Cleaning}

\* Mutant: a run that stored an error counts as over before its finisher ran.
GateOpenOnError == \A i \in Jobs : i = currentJob => status[i] # "running" \/ error[i]

GateOpen == \A i \in Jobs : i = currentJob => status[i] # "running"

Accept(j, r) ==
  /\ Goto(j, "new", "preselect")
  /\ MuFree
  /\ GateOpen
  /\ req'        = [req EXCEPT ![j] = r]
  /\ status'     = [status EXCEPT ![j] = "running"]
  /\ overlapped' = IF Lingering = {} THEN overlapped ELSE overlapped \cup {j}
  /\ currentJob' = j
  /\ UNCHANGED <<error, vms, excel, chosen, history, historySize, raised, jammed,
                 globalVars, stop>>

Preselect(j) ==
  /\ Goto(j, "preselect", "setLog")
  /\ webProjectID' = IF req[j].projectId = None THEN webProjectID
                                                ELSE req[j].projectId
  /\ UNCHANGED <<req, jobVars, chosen, overlapped, serverVars, runLog, stop>>

-------------------------------------------------------------------------------
(* runJob *)

SetRunLog(j) ==
  /\ Goto(j, "setLog", "load")
  /\ runLog' = j
  /\ UNCHANGED <<req, jobVars, chosen, overlapped, serverVars, webProjectID, stop>>

\* An early return of runJob: the error is stored and the finisher begins.
Fail(j, from) ==
  /\ Goto(j, from, "clearLog")
  /\ error' = [error EXCEPT ![j] = TRUE]
  /\ UNCHANGED <<req, status, vms, excel, chosen, overlapped, serverVars, globalVars, stop>>

Proceed(j, from, to) ==
  /\ Goto(j, from, to)
  /\ UNCHANGED <<req, jobVars, chosen, overlapped, serverVars, globalVars, stop>>

\* The profile may have been edited or deleted since handleRun looked.
LoadConfig(j) == Proceed(j, "load", "resolve") \/ Fail(j, "load")

\* exactMatchOne: one match is taken, several go to the web chooser, which
\* knows only the package-level preselection.
Ambiguous(m) == \E p, q \in m : p # q

Choice(j) == LET m == req[j].matches IN
             IF Ambiguous(m) THEN m \cap {webProjectID} ELSE m

Resolve(j) ==
  \/ /\ Goto(j, "resolve", "collect")
     /\ \E p \in Choice(j) : chosen' = [chosen EXCEPT ![j] = p]
     /\ UNCHANGED <<req, jobVars, overlapped, serverVars, globalVars, stop>>
  \/ Fail(j, "resolve")

\* Listing the hosts fails, finds none, or goes on; check mode skips the once
\* stage, and with it every local step.
Collect(j) ==
  \/ Proceed(j, "collect", IF req[j].mode = "check" THEN "ssh" ELSE "once")
  \/ Fail(j, "collect")

OncePipeline(j) == Proceed(j, "once", "ssh")

SSHTests(j) ==
  /\ Goto(j, "ssh", IF req[j].mode = "check" THEN "clearLog" ELSE "export")
  /\ vms' = [vms EXCEPT ![j] = TRUE]
  /\ UNCHANGED <<req, status, error, excel, chosen, overlapped, serverVars, globalVars, stop>>

\* output.dir is not configured, the export fails, or the file is written.
Export(j) ==
  \/ Proceed(j, "export", "clearLog")
  \/ Fail(j, "export")
  \/ /\ Goto(j, "export", "clearLog")
     /\ excel' = [excel EXCEPT ![j] = TRUE]
     /\ UNCHANGED <<req, status, error, vms, chosen, overlapped, serverVars, globalVars, stop>>

-------------------------------------------------------------------------------
(* The deferred finisher of runJob *)

ClearRunLog(j) ==
  /\ Goto(j, "clearLog", "readStatus")
  /\ runLog' = None
  /\ UNCHANGED <<req, jobVars, chosen, overlapped, serverVars, webProjectID, stop>>

ReadStatus(j) ==
  Proceed(j, "readStatus", IF status[j] = "running" THEN "markDone" ELSE "markFailed")

MarkDone(j) ==
  /\ Goto(j, "markDone", "markFailed")
  /\ status' = [status EXCEPT ![j] = "done"]
  /\ UNCHANGED <<req, error, vms, excel, chosen, overlapped, serverVars, globalVars, stop>>

\* Mutant: an error counts only while the status is still "running".
MarkFailedLate(j) ==
  /\ Goto(j, "markFailed", "clearProject")
  /\ status' = IF error[j] /\ status[j] = "running" THEN [status EXCEPT ![j] = "failed"] ELSE status
  /\ UNCHANGED <<req, error, vms, excel, chosen, overlapped, serverVars, globalVars, stop>>

MarkFailed(j) ==
  /\ Goto(j, "markFailed", "clearProject")
  /\ status' = IF error[j] THEN [status EXCEPT ![j] = "failed"] ELSE status
  /\ UNCHANGED <<req, error, vms, excel, chosen, overlapped, serverVars, globalVars, stop>>

\* Mutant: the preselection is never cleared.
KeepPreselection(j) == Proceed(j, "clearProject", "archive")

\* Mutant: only the current job clears it.
ClearIfCurrent(j) ==
  /\ Goto(j, "clearProject", "archive")
  /\ webProjectID' = IF currentJob = j THEN None ELSE webProjectID
  /\ UNCHANGED <<req, jobVars, chosen, overlapped, serverVars, runLog, stop>>

ClearPreselection(j) ==
  /\ Goto(j, "clearProject", "archive")
  /\ webProjectID' = None
  /\ UNCHANGED <<req, jobVars, chosen, overlapped, serverVars, runLog, stop>>

\* The slice of the first n entries.  Past the entries the Go runtime may have room
\* left, which holds nil.
Slice(h, n) == [k \in 1..n |-> IF k <= Len(h) THEN h[k] ELSE None]

\* The end of the critical section: the job is no longer current.
Release(j) == currentJob' = IF currentJob = j THEN None ELSE currentJob

\* Mutant: a finisher waits until its job is the current one.
ArchiveWhenCurrent(j) ==
  /\ pc[j] = "archive" /\ currentJob = j /\ MuFree
  /\ history' = <<j>> \o history
  /\ IF Len(history') > historySize
     THEN Goto(j, "archive", "cut") /\ UNCHANGED currentJob
     ELSE Goto(j, "archive", "publish") /\ Release(j)
  /\ UNCHANGED <<req, jobVars, chosen, overlapped, historySize, raised, jammed, globalVars, stop>>

\* Mutant: the archived job stays current.
ArchiveKeepCurrent(j) ==
  /\ pc[j] = "archive" /\ MuFree
  /\ history' = <<j>> \o history
  /\ Goto(j, "archive", IF Len(history') > historySize THEN "cut" ELSE "publish")
  /\ UNCHANGED <<req, jobVars, chosen, overlapped, currentJob, historySize, raised, jammed,
                 globalVars, stop>>

\* Mutant: the list is cut without the test of its length.
ArchiveUntested(j) ==
  /\ pc[j] = "archive" /\ MuFree
  /\ history' = <<j>> \o history
  /\ Goto(j, "archive", "cut")
  /\ UNCHANGED <<req, jobVars, chosen, overlapped, currentJob, historySize, raised, jammed,
                 globalVars, stop>>

\* The newest job in front; a list longer than the length that is configured now is
\* yet to be cut.
Archive(j) ==
  /\ pc[j] = "archive" /\ MuFree
  /\ history' = <<j>> \o history
  /\ IF Len(history') > historySize
     THEN Goto(j, "archive", "cut") /\ UNCHANGED currentJob
     ELSE Goto(j, "archive", "publish") /\ Release(j)
  /\ UNCHANGED <<req, jobVars, chosen, overlapped, historySize, raised, jammed, globalVars, stop>>

\* The cut reads the length again.  One that has grown past the list meanwhile shows
\* the nil entries of the room behind it, or, if there is too little, panics outside
\* of any recover.
Cut(j) ==
  /\ \/ /\ Goto(j, "cut", "publish")
        /\ history' = Slice(history, historySize)
        /\ Release(j)
        /\ UNCHANGED stop
     \/ /\ Alive /\ pc[j] = "cut"
        /\ historySize > Len(history)
        /\ stop' = "panicked"
        /\ UNCHANGED <<pc, history, currentJob>>
  /\ UNCHANGED <<req, jobVars, chosen, overlapped, historySize, raised, jammed, globalVars>>

\* Mutant: the log callback is cleared last instead of first.
PublishThenClearLog(j) ==
  /\ Goto(j, "publish", "gone")
  /\ runLog' = None
  /\ UNCHANGED <<req, jobVars, chosen, overlapped, serverVars, webProjectID, stop>>

\* Mutant: the results are released once the finish event is out.
PublishThenRelease(j) ==
  /\ Goto(j, "publish", "gone")
  /\ vms' = [vms EXCEPT ![j] = FALSE]
  /\ UNCHANGED <<req, status, error, excel, chosen, overlapped, serverVars, globalVars, stop>>

PublishFinish(j) == Proceed(j, "publish", "gone")

-------------------------------------------------------------------------------
(* The other actors *)

\* POST /api/settings changes the length without taking webServer.mu.
SetHistorySize ==
  /\ Alive
  /\ historySize' \in Sizes
  /\ raised' = (raised \/ (Cutting # {} /\ historySize' > Len(history)))
  /\ UNCHANGED <<pc, req, jobVars, chosen, overlapped, currentJob, history, jammed,
                 globalVars, stop>>

\* GET /api/history and a stream of an unknown job walk over the list under the mutex
\* and release it without a defer: net/http survives the panic of a nil entry, and the
\* mutex stays locked.  The other readings change nothing.
ReadHistory ==
  /\ Alive /\ MuFree
  /\ \E k \in 1..Len(history) : history[k] = None
  /\ jammed' = TRUE
  /\ UNCHANGED <<pc, req, jobVars, chosen, overlapped, currentJob, history, historySize, raised,
                 globalVars, stop>>

\* The shutdown goroutine: under mu it fails the running job in two writes
\* runJob does not synchronise with, and the process exits some time later.
ShutdownMark ==
  /\ stop = "no" /\ MuFree
  /\ IF GateOpen
     THEN stop' = "marked" /\ UNCHANGED status
     ELSE stop' = "marking" /\ status' = [status EXCEPT ![currentJob] = "failed"]
  /\ UNCHANGED <<pc, req, error, vms, excel, chosen, overlapped, serverVars, globalVars>>

ShutdownError ==
  /\ stop = "marking"
  /\ stop' = "marked"
  /\ error' = [error EXCEPT ![currentJob] = TRUE]
  /\ UNCHANGED <<pc, req, status, vms, excel, chosen, overlapped, serverVars, globalVars>>

Exit ==
  /\ stop = "marked"
  /\ stop' = "exited"
  /\ UNCHANGED <<pc, req, jobVars, chosen, overlapped, serverVars, globalVars>>

Finisher(j) == \/ ClearRunLog(j) \/ ReadStatus(j) \/ MarkDone(j) \/ MarkFailed(j)
               \/ ClearPreselection(j) \/ Archive(j) \/ Cut(j) \/ PublishFinish(j)

RunJob(j) == \/ Preselect(j) \/ SetRunLog(j) \/ LoadConfig(j) \/ Resolve(j)
             \/ Collect(j) \/ OncePipeline(j) \/ SSHTests(j) \/ Export(j)
             \/ Finisher(j)

JobNext == \/ \E j \in Jobs : (\E r \in Requests : Accept(j, r)) \/ RunJob(j)
           \/ SetHistorySize \/ ReadHistory

ShutdownNext == ShutdownMark \/ ShutdownError \/ Exit

\* A server nobody stops, and one that may be stopped at any moment.
Spec         == Init /\ [][JobNext]_vars
StoppingSpec == Init /\ [][JobNext \/ ShutdownNext]_vars

\* Goroutines are scheduled fairly.  That the ssh stage ends is an assumption
\* here; WorkerPool says when it is justified.
FairSpec == Spec /\ \A j \in Jobs : WF_vars(RunJob(j))

-------------------------------------------------------------------------------
(* Properties *)

InHistory(j) == \E k \in 1..Len(history) : history[k] = j

\* The admission test of handleRun lets no second run begin while one is
\* executing: the comments on runLog and webProjectID rely on it.
OneJobAtATime ==
  \A i, j \in Jobs : pc[i] \in Running /\ pc[j] \in Running => i = j

\* The log callback of a job under way is that job's own: no line of one run
\* reaches the page of another, and none is lost to stderr.
RunLogIsOwn == \A j \in Jobs : pc[j] \in Body => runLog = j

\* The history lists a job at most once, only jobs whose finisher has archived them,
\* and the current job only while the finisher that lists it still holds the mutex.
HistoryConsistent ==
  LET listed == {k \in 1..Len(history) : history[k] # None} IN
    /\ \A k, l \in listed : history[k] = history[l] => k = l
    /\ \A k \in listed : pc[history[k]] \in Archived
    /\ \A k \in listed : history[k] = currentJob => pc[history[k]] = "cut"

\* The history holds jobs and nothing else, no reader of it panics and neither does a
\* finisher, as long as no change of the settings raised the length past the list
\* between the test of it and the cut (web.go:462, 756, 757).
HistoryIsWhole ==
  \/ raised
  \/ ~jammed /\ stop # "panicked" /\ \A k \in 1..Len(history) : history[k] # None

\* The setting says how many runs the history keeps (settings.go:19): what it keeps
\* are runs, whenever the setting is changed.
\* Not satisfied by the code.
HistoryHoldsRuns == \A k \in 1..Len(history) : history[k] # None

\* Whoever gets the mutex after a job was archived finds no more entries than were
\* configured at the last reading of the length.
HistoryBounded == [][history' # history /\ MuFree' => Len(history') <= historySize]_vars

\* A preselection in force was asked for by a job that has not cleaned up yet:
\* none outlives every run that could have set it.
PreselectionHasOwner ==
  webProjectID # None =>
    \E j \in Jobs : /\ pc[j] \in (Running \ {"preselect"}) \cup Cleaning
                    /\ req[j].projectId = webProjectID

\* Which of several projects of the same name a run works on is the choice its
\* own request carried, unless it was let in while the finisher of an earlier
\* run was between publishing its status and clearing the preselection.
PreselectionIsOwn ==
  \A j \in Jobs \ overlapped :
    chosen[j] # None /\ Ambiguous(req[j].matches) => chosen[j] = req[j].projectId

\* What the globals of the package rely on: one run at a time, its log lines and the
\* choice of its project its own (project.go:88, sshcheck.go:33, web.go:730).
RunsAreApart == OneJobAtATime /\ RunLogIsOwn /\ PreselectionIsOwn

\* A job's way through the history, and what of its preselection is left when the
\* program is asked to end in the middle of it (web.go:753, 755).
LifeCycleInv == TypeOK /\ HistoryConsistent /\ HistoryIsWhole /\ PreselectionHasOwner

\* The claim at webProjectID ("one task at a time, globally safe") without
\* that exception: several projects of one name are told apart by the id the
\* run's own request preselected, never by what an earlier run has left there.
\* Not satisfied by the code.
PreselectionSafe ==
  \A j \in Jobs :
    chosen[j] # None /\ Ambiguous(req[j].matches) => chosen[j] = req[j].projectId

\* The same claim read the other way: what a request preselected is still there when
\* its run resolves the name, so that a run that asked for a project is not refused.
\* Not satisfied by the code.
PreselectionIsKept ==
  \A j \in Jobs : pc[j] = "resolve" /\ req[j].projectId # None => webProjectID = req[j].projectId

\* Once archived a job is final: nothing writes its status, error or result.
ArchivedIsFinal ==
  [][\A j \in Jobs : InHistory(j) =>
       /\ status'[j] = status[j] /\ error'[j] = error[j]
       /\ vms'[j] = vms[j]       /\ excel'[j] = excel[j]]_vars

\* The verdict a finished job is archived with agrees with its error.
VerdictMatchesError ==
  \A j \in Jobs : pc[j] \in Archived => status[j] = IF error[j] THEN "failed" ELSE "done"

\* What the run test polls for: the first status other than "running" that a
\* failing job shows is "failed".
\* Not satisfied by the code.
FailureNeverShowsDone == \A j \in Jobs : error[j] => status[j] # "done"

\* Every accepted run is eventually archived and its finish event published, unless
\* a length raised at the wrong moment has ended the process or left the mutex locked.
EveryRunFinishes ==
  \A j \in Jobs : pc[j] = "preselect" ~> pc[j] = "gone" \/ jammed \/ stop = "panicked"

(* The promise of RunGate, with the end of a run at the write of its status. *)
Gate == INSTANCE RunGate WITH
  phase   <- [j \in Jobs |-> IF pc[j] = "new" THEN "idle"
                             ELSE IF pc[j] \in Running THEN "running" ELSE "ended"],
  verdict <- [j \in Jobs |-> IF pc[j] = "new" \/ pc[j] \in Running THEN "open"
                             ELSE IF error[j] THEN "failed" ELSE "done"]

ImplementsGate == Gate!Spec
===============================================================================
