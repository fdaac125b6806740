---------------------------- MODULE HostingProofs ----------------------------
(***************************************************************************)
(* Proofs about Daemon and Hosting, for any number of crashes and of       *)
(* requests to end the program: on Unix -stop tells the truth, and for an  *)
(* operator who gives one command at a time web.pid names the instance     *)
(* that serves; what the service control manager believes of the service   *)
(* fits its process, a job that is stopped is told, and what is said of    *)
(* the daemon holds beside the service too.                                *)
(***************************************************************************)
EXTENDS Hosting, TLAPS

-------------------------------------------------------------------------------
(* Daemon *)

\* The actions of an instance leave the -stop commands alone.
LEMMA InstanceKeepsStops ==
  ASSUME NEW i \in Instances, Boot(i) \/ Shutdown(i)
  PROVE  UNCHANGED stopVars
BY DEF Boot, Shutdown, Launch, Truncate, WritePid, Listen, Crash, Notify,
       Terminate, HandleSignal, AskFromPage, MarkJob, Unlink, Close, Exit, stopVars

\* Neither the platform nor the operator's habit changes.
LEMMA SettingIsRigid == [Next]_vars => UNCHANGED setting
<1> SUFFICES ASSUME [Next]_vars PROVE UNCHANGED setting
  OBVIOUS
<1>1. ASSUME NEW i \in Instances, Boot(i) PROVE UNCHANGED setting
  BY <1>1 DEF Boot, Launch, Truncate, WritePid, Listen, Crash
<1>2. ASSUME NEW i \in Instances, Shutdown(i) PROVE UNCHANGED setting
  BY <1>2 DEF Shutdown, Notify, Terminate, HandleSignal, AskFromPage, MarkJob, Unlink,
              Close, Exit
<1>3. ASSUME NEW q \in Stops, Stop(q) PROVE UNCHANGED setting
  BY <1>3 DEF Stop, ReadFile, CheckAlive, ClearStale, SendSignal, Gone, TimeUp,
              RemoveFile
<1> QED BY <1>1, <1>2, <1>3 DEF Next, Others, OtherStarts, OtherEnds, vars

-------------------------------------------------------------------------------
(* Types *)

LEMMA InstanceTyped ==
  ASSUME DaemonTypeOK, NEW i \in Instances, Boot(i) \/ Shutdown(i)
  PROVE  DaemonTypeOK'
<1> USE DEF DaemonTypeOK, Starting, Verdicts, MainTo, DownTo, End, setting, stopVars
<1>1. CASE \E p \in Pids : Launch(i, p)
  BY <1>1 DEF Launch
<1>2. CASE Truncate(i)
  BY <1>2 DEF Truncate
<1>3. CASE WritePid(i)
  BY <1>3 DEF WritePid
<1>4. CASE Listen(i)
  <2>1. CASE MainTo(i, "noted", "serving") /\ UNCHANGED <<sig, asked>>
    BY <1>4, <2>1 DEF Listen
  <2>2. CASE End(i)
    BY <1>4, <2>2 DEF Listen
  <2> QED BY <1>4, <2>1, <2>2 DEF Listen
<1>5. CASE Crash(i)
  BY <1>5 DEF Crash
<1>6. CASE Notify(i)
  BY <1>6 DEF Notify
<1>7. CASE Terminate(i)
  BY <1>7 DEF Terminate, Deliver
<1>8. CASE HandleSignal(i)
  BY <1>8 DEF HandleSignal
<1>9. CASE AskFromPage(i)
  BY <1>9 DEF AskFromPage
<1>10. CASE MarkJob(i)
  BY <1>10 DEF MarkJob
<1>11. CASE Unlink(i)
  BY <1>11 DEF Unlink
<1>12. CASE Close(i)
  BY <1>12 DEF Close
<1>13. CASE Exit(i)
  BY <1>13 DEF Exit
<1> QED BY <1>1, <1>2, <1>3, <1>4, <1>5, <1>6, <1>7, <1>8, <1>9, <1>10,
           <1>11, <1>12, <1>13 DEF Boot, Shutdown

LEMMA StopTyped ==
  ASSUME DaemonTypeOK, NEW q \in Stops, Stop(q)
  PROVE  DaemonTypeOK'
<1> USE DEF DaemonTypeOK, Verdicts, StopTo, setting, instanceVars
<1>1. CASE ReadFile(q)
  BY <1>1 DEF ReadFile
<1>2. CASE CheckAlive(q)
  BY <1>2 DEF CheckAlive
<1>3. CASE ClearStale(q)
  BY <1>3 DEF ClearStale
<1>4. CASE SendSignal(q)
  <2>1. at' \in [Stops -> {"idle", "check", "ask", "wait", "clear", "remove"} \cup Verdicts]
    BY <1>4 DEF SendSignal
  <2>3. /\ stage' \in [Instances -> {"unborn", "serving", "over"} \cup Starting]
        /\ sig' \in [Instances -> {"default", "caught", "pending", "used"}]
        /\ asked' \subseteq Instances
    <3>1. CASE UNCHANGED <<stage, sig, asked>>
      BY <3>1
    <3>2. CASE \E i \in Instances : Deliver(i)
      BY <3>2 DEF Deliver, End
    <3> QED BY <1>4, <3>1, <3>2 DEF SendSignal, Holders
  <2> QED BY <1>4, <2>1, <2>3 DEF SendSignal
<1>6. CASE Gone(q)
  BY <1>6 DEF Gone
<1>7. CASE TimeUp(q)
  BY <1>7 DEF TimeUp
<1>8. CASE RemoveFile(q)
  BY <1>8 DEF RemoveFile
<1> QED BY <1>1, <1>2, <1>3, <1>4, <1>6, <1>7, <1>8 DEF Stop

LEMMA DaemonTypedInit == Init => DaemonTypeOK
BY DEF Init, DaemonTypeOK, Verdicts

LEMMA DaemonTypedStep == DaemonTypeOK /\ [Next]_vars => DaemonTypeOK'
<1> SUFFICES ASSUME DaemonTypeOK, [Next]_vars PROVE DaemonTypeOK'
  OBVIOUS
<1>1. CASE \E i \in Instances : Boot(i) \/ Shutdown(i)
  BY <1>1, InstanceTyped
<1>2. CASE \E q \in Stops : Stop(q)
  BY <1>2, StopTyped
<1>3. CASE Others
  BY <1>3 DEF Others, OtherStarts, OtherEnds, DaemonTypeOK, setting, instanceVars, stopVars
<1>4. CASE UNCHANGED vars
  BY <1>4 DEF vars, DaemonTypeOK, setting, instanceVars, stopVars
<1> QED BY <1>1, <1>2, <1>3, <1>4 DEF Next

\* Every variable keeps its type, for any number of launches, pids and commands.
THEOREM DaemonTyped == Spec => []DaemonTypeOK
BY DaemonTypedInit, DaemonTypedStep, PTL DEF Spec

-------------------------------------------------------------------------------
(* -stop tells the truth *)

\* What a command or web.pid names has been launched.
Born(i) == stage[i] # "unborn"

StopInv ==
  /\ DaemonTypeOK
  /\ file \in Instances => Born(file)
  /\ \A q \in Stops : at[q] \in {"check", "ask", "wait", "clear", "remove", "stale", "stopped"}
       => info[q] \in Instances /\ Born(info[q])
  /\ StopIsTrue

\* No instance is unborn or lives again.
LEMMA StagesAdvance ==
  ASSUME DaemonTypeOK, Next, NEW j \in Instances
  PROVE  /\ Born(j) => Born(j)'
         /\ stage[j] = "over" => stage'[j] = "over"
<1> USE DEF DaemonTypeOK, Starting, Born, MainTo, DownTo, End
<1>1. CASE \E i \in Instances : Boot(i)
  <2> PICK i \in Instances : Boot(i)
    BY <1>1
  <2> QED BY DEF Boot, Launch, Truncate, WritePid, Listen, Crash, Live
<1>2. CASE \E i \in Instances : Shutdown(i)
  <2> PICK i \in Instances : Shutdown(i)
    BY <1>2
  <2> QED BY DEF Shutdown, Notify, Terminate, Deliver, HandleSignal, AskFromPage,
                 MarkJob, Unlink, Close, Exit, Live, Up
<1>3. CASE \E q \in Stops : Stop(q)
  <2> PICK q \in Stops : Stop(q)
    BY <1>3
  <2>1. CASE SendSignal(q)
    BY <2>1 DEF SendSignal, Holders, Live, Deliver
  <2>2. CASE ~SendSignal(q)
    BY <2>2 DEF Stop, ReadFile, CheckAlive, ClearStale, Gone, TimeUp,
                RemoveFile, instanceVars
  <2> QED BY <2>1, <2>2
<1>4. CASE Others
  BY <1>4 DEF Others, OtherStarts, OtherEnds, instanceVars
<1> QED BY <1>1, <1>2, <1>3, <1>4 DEF Next

\* A process that is launched and whose pid nobody holds has ended.
LEMMA NoPidIsOver ==
  ASSUME DaemonTypeOK, NEW i \in Instances, Born(i), ~PidAlive(pid[i])
  PROVE  stage[i] = "over"
BY DEF PidAlive, Holders, Live, Born

LEMMA StopStep ==
  ASSUME StopInv, NEW q \in Stops, Stop(q)
  PROVE  StopInv'
<1>1. DaemonTypeOK /\ DaemonTypeOK'
  BY StopTyped DEF StopInv
<1>2. \A j \in Instances : (Born(j) => Born(j)') /\ (stage[j] = "over" => stage'[j] = "over")
  BY <1>1, StagesAdvance DEF Next
<1>3. file' \in {file, None}
  BY DEF Stop, ReadFile, CheckAlive, ClearStale, SendSignal, Gone, TimeUp, RemoveFile
<1>4. file' \in Instances => Born(file)'
  BY <1>2, <1>3, DaemonAssumption DEF StopInv, Born
<1>5. ASSUME NEW p \in Stops, p # q
      PROVE  at'[p] = at[p] /\ info'[p] = info[p]
  BY <1>1, <1>5 DEF DaemonTypeOK, StopTo, Stop, ReadFile, CheckAlive, ClearStale, SendSignal,
                    Gone, TimeUp, RemoveFile
<1>6. at'[q] \in {"check", "ask", "wait", "clear", "remove", "stale", "stopped"}
        => info'[q] \in Instances /\ Born(info'[q])
  <2>1. CASE ReadFile(q)
    BY <1>1, <2>1 DEF ReadFile, StopInv, StopTo, DaemonTypeOK
  <2>2. CASE ~ReadFile(q)
    BY <1>1, <2>2 DEF Stop, CheckAlive, ClearStale, SendSignal, Gone, TimeUp, RemoveFile,
                      StopInv, StopTo, DaemonTypeOK
  <2> QED BY <2>1, <2>2
<1>7. ~windows /\ SaysGone(q)' => stage[info'[q]] = "over"
  <2> USE DEF SaysGone
  <2>1. CASE CheckAlive(q)
    BY <1>1, <2>1, NoPidIsOver DEF CheckAlive, SeenAlive, StopInv, StopTo, DaemonTypeOK
  <2>2. CASE Gone(q)
    BY <1>1, <2>2, NoPidIsOver DEF Gone, SeenAlive, StopInv, StopTo, DaemonTypeOK
  <2>3. CASE ClearStale(q) \/ RemoveFile(q)
    BY <1>1, <2>3 DEF ClearStale, RemoveFile, StopInv, StopIsTrue, StopTo, DaemonTypeOK
  <2>4. CASE ReadFile(q) \/ SendSignal(q) \/ TimeUp(q)
    BY <1>1, <2>4 DEF ReadFile, SendSignal, TimeUp, StopTo, DaemonTypeOK
  <2> QED BY <2>1, <2>2, <2>3, <2>4 DEF Stop
<1>8. \A p \in Stops : at'[p] \in {"check", "ask", "wait", "clear", "remove", "stale", "stopped"}
        => info'[p] \in Instances /\ stage'[info'[p]] # "unborn"
  BY <1>2, <1>5, <1>6 DEF StopInv, Born
<1>9. StopIsTrue'
  <2>a. windows' = windows
    BY <1>1, SettingIsRigid DEF Next, setting
  <2> SUFFICES ASSUME ~windows, NEW p \in Stops, SaysGone(p)'
               PROVE  stage'[info'[p]] = "over"
    BY <2>a DEF StopIsTrue
  <2>1. info'[p] \in Instances
    BY <1>8 DEF SaysGone
  <2>2. stage[info'[p]] = "over"
    BY <1>5, <1>7 DEF StopInv, StopIsTrue, SaysGone
  <2> QED BY <1>2, <2>1, <2>2
<1> QED BY <1>1, <1>4, <1>8, <1>9 DEF StopInv, Born

\* The other steps do not touch what the commands hold, and no instance revives.
LEMMA OtherStep ==
  ASSUME StopInv, Next, DaemonTypeOK', UNCHANGED stopVars, file' \in Instances => Born(file')
  PROVE  StopInv'
<1>1. \A j \in Instances : (Born(j) => Born(j)') /\ (stage[j] = "over" => stage'[j] = "over")
  BY StagesAdvance DEF StopInv
<1>2. windows' = windows
  BY SettingIsRigid DEF setting
<1> QED BY <1>1, <1>2 DEF StopInv, StopIsTrue, SaysGone, stopVars, Born

LEMMA FileIsBorn ==
  ASSUME StopInv, NEW i \in Instances, Boot(i) \/ Shutdown(i)
  PROVE  file' \in Instances => Born(file')
<1>1. CASE WritePid(i)
  BY <1>1 DEF WritePid, MainTo, Born
<1>2. CASE ~WritePid(i)
  BY <1>2, DaemonAssumption
     DEF StopInv, Boot, Shutdown, Launch, Truncate, Listen, Crash, Notify, Terminate, HandleSignal,
         AskFromPage, MarkJob, Unlink, Close, Exit
<1> QED BY <1>1, <1>2

LEMMA StopInvInit == Init => StopInv
BY DaemonTypedInit, DaemonAssumption DEF Init, StopInv, StopIsTrue, SaysGone

LEMMA StopInvStep == StopInv /\ [Next]_vars => StopInv'
<1> SUFFICES ASSUME StopInv, [Next]_vars PROVE StopInv'
  OBVIOUS
<1>1. ASSUME NEW i \in Instances, Boot(i) \/ Shutdown(i) PROVE StopInv'
  <2>1. Next
    BY <1>1 DEF Next
  <2> QED BY <1>1, <2>1, InstanceTyped, InstanceKeepsStops, FileIsBorn, OtherStep DEF StopInv
<1>2. CASE \E q \in Stops : Stop(q)
  BY <1>2, StopStep
<1>3. CASE Others
  <2>1. Next /\ UNCHANGED <<instanceVars, file, stopVars>>
    BY <1>3 DEF Next, Others, OtherStarts, OtherEnds
  <2>2. DaemonTypeOK'
    BY <1>3, DaemonTypedStep DEF StopInv, Next
  <2> QED BY <2>1, <2>2, OtherStep DEF StopInv, Born, instanceVars
<1>4. CASE UNCHANGED vars
  BY <1>4 DEF vars, StopInv, StopIsTrue, SaysGone, Born, DaemonTypeOK, setting, instanceVars, stopVars
<1> QED BY <1>1, <1>2, <1>3, <1>4 DEF Next

\* A -stop command that reports its instance stopped or gone is right, with any
\* number of instances, pids and commands, on Unix.
THEOREM StopTellsTruth == Spec => []StopIsTrue
<1>1. StopInv => StopIsTrue
  BY DEF StopInv
<1> QED BY <1>1, StopInvInit, StopInvStep, PTL DEF Spec

-------------------------------------------------------------------------------
(* The pid file of an instance that shut down *)

\* A shutdown begins after the instance wrote its file, which it does once.
UnlinkedInv == \A i \in Instances :
  /\ down[i] # "waiting" => stage[i] \notin {"unborn", "booted", "noting"}
  /\ down[i] \in {"unlinked", "closed"} => file # i

LEMMA UnlinkedStep ==
  ASSUME DaemonTypeOK, UnlinkedInv, [Next]_vars
  PROVE  UnlinkedInv'
<1> USE DEF DaemonTypeOK, UnlinkedInv, Starting, MainTo, DownTo, StopTo, End, Live, Up
<1>1. ASSUME NEW i \in Instances, Boot(i) PROVE UnlinkedInv'
  <2>1. CASE WritePid(i)
    BY <2>1 DEF WritePid
  <2>2. CASE Truncate(i)
    BY <2>2, DaemonAssumption DEF Truncate
  <2>3. CASE (\E p \in Pids : Launch(i, p)) \/ Listen(i) \/ Crash(i)
    BY <2>3 DEF Launch, Listen, Crash
  <2> QED BY <1>1, <2>1, <2>2, <2>3 DEF Boot
<1>2. ASSUME NEW i \in Instances, Shutdown(i) PROVE UnlinkedInv'
  <2>1. CASE Unlink(i)
    BY <2>1, DaemonAssumption DEF Unlink
  <2>2. CASE MarkJob(i) \/ Close(i)
    BY <2>2 DEF MarkJob, Close
  <2>3. CASE ~(Unlink(i) \/ MarkJob(i) \/ Close(i))
    BY <1>2, <2>3 DEF Shutdown, Notify, Terminate, Deliver, HandleSignal, AskFromPage, Exit
  <2> QED BY <2>1, <2>2, <2>3
<1>3. ASSUME NEW q \in Stops, Stop(q) PROVE UnlinkedInv'
  <2>1. file' \in {file, None} /\ UNCHANGED down
    BY <1>3 DEF Stop, ReadFile, CheckAlive, ClearStale, SendSignal, Gone, TimeUp,
                RemoveFile, instanceVars
  <2>2. UNCHANGED stage \/ \E i \in Instances : stage' = [stage EXCEPT ![i] = "over"]
    BY <1>3 DEF Stop, ReadFile, CheckAlive, ClearStale, SendSignal, Deliver, Holders,
                Gone, TimeUp, RemoveFile, instanceVars
  <2> QED BY <2>1, <2>2, DaemonAssumption
<1>4. CASE Others \/ UNCHANGED vars
  BY <1>4 DEF Others, OtherStarts, OtherEnds, vars, instanceVars
<1> QED BY <1>1, <1>2, <1>3, <1>4 DEF Next

\* No instance that went through its shutdown is named by web.pid, however its
\* end overlaps other launches and -stop commands.
THEOREM ShutdownCleansUp == Spec => []ShutdownLeavesNoFile
<1>1. Init => UnlinkedInv
  BY DEF Init, UnlinkedInv
<1>2. DaemonTypeOK /\ UnlinkedInv /\ [Next]_vars => UnlinkedInv'
  BY UnlinkedStep
<1>3. UnlinkedInv => ShutdownLeavesNoFile
  BY DEF UnlinkedInv, ShutdownLeavesNoFile
<1> QED BY <1>1, <1>2, <1>3, DaemonTyped, PTL DEF Spec

-------------------------------------------------------------------------------
(* One command at a time *)

\* One instance at most is alive.
AloneInv == \A i, j \in Instances : Live(i) /\ Live(j) => i = j

\* Until its shutdown removes it, the file is the one the live instance wrote.
FileInv == \A i \in Instances :
  Up(i) /\ down[i] \in {"waiting", "marked"} => file = i

\* A shutdown that began was asked for, of an instance that wrote its file.
AskedInv == \A i \in Instances : down[i] # "waiting" =>
  stage[i] \notin {"unborn", "booted", "noting"} /\ (Live(i) => i \in asked)

\* A command under way found the live instance in the file, or its file gone.
CommandInv == \A q \in Stops, i \in Instances :
  Busy(q) /\ Live(i) =>
    stage[i] = "serving" /\ (info[q] = i \/ down[i] \in {"unlinked", "closed"})

CarefulInv == StopInv /\ AloneInv /\ FileInv /\ AskedInv /\ CommandInv

LEMMA BootStep ==
  ASSUME careful, ~windows, CarefulInv, StopInv', NEW i \in Instances, Boot(i)
  PROVE  CarefulInv'
<1> USE DEF CarefulInv, StopInv, DaemonTypeOK, Starting, MainTo, Live, Up
<1>1. UNCHANGED <<down, at, info>>
  BY InstanceKeepsStops DEF Boot, Launch, Truncate, WritePid, Listen, Crash, stopVars
<1>2. \A j \in Instances : j # i => stage'[j] = stage[j] /\ (j \in asked' <=> j \in asked)
  BY DEF Boot, Launch, Truncate, WritePid, Listen, Crash, End
<1>3. CASE \E p \in Pids : Launch(i, p)
  <2>1. stage[i] = "unborn" /\ stage' = [stage EXCEPT ![i] = "booted"] /\ UNCHANGED <<file, asked>>
    BY <1>3 DEF Launch
  <2>2. (\A j \in Instances : ~Live(j)) /\ (\A q \in Stops : ~Busy(q))
    BY <1>3 DEF Launch
  <2> QED BY <1>1, <2>1, <2>2 DEF AloneInv, FileInv, AskedInv, CommandInv, Busy
<1>4. CASE Truncate(i) \/ WritePid(i) \/ Listen(i)
  <2>1. Live(i) /\ \A j \in Instances : j # i => ~Live(j)
    BY <1>4 DEF Truncate, WritePid, Listen, AloneInv
  <2>2. \A q \in Stops : ~Busy(q)
    BY <1>4 DEF Truncate, WritePid, Listen, CommandInv
  <2>3. AloneInv' /\ CommandInv'
    BY <1>1, <1>2, <2>1, <2>2 DEF AloneInv, CommandInv, Busy
  <2>4. FileInv'
    BY <1>1, <1>2, <1>4, <2>1 DEF Truncate, WritePid, Listen, End, FileInv, AskedInv
  <2>5. AskedInv'
    BY <1>1, <1>2, <1>4 DEF Truncate, WritePid, Listen, End, AskedInv
  <2> QED BY <2>3, <2>4, <2>5
<1>5. CASE Crash(i)
  <2>1. stage' = [stage EXCEPT ![i] = "over"] /\ UNCHANGED file
    BY <1>5 DEF Crash, End
  <2> QED BY <1>1, <1>2, <2>1 DEF AloneInv, FileInv, AskedInv, CommandInv, Busy
<1> QED BY <1>3, <1>4, <1>5 DEF Boot

LEMMA ShutdownStep ==
  ASSUME careful, ~windows, CarefulInv, StopInv', NEW i \in Instances, Shutdown(i)
  PROVE  CarefulInv'
<1> USE DEF CarefulInv, StopInv, DaemonTypeOK, Starting, Live, Up
<1>1. UNCHANGED <<at, info>>
  BY InstanceKeepsStops DEF stopVars
<1>2. CASE Unlink(i)
  <2>1. /\ UNCHANGED <<stage, asked>>
        /\ down[i] = "marked" /\ down' = [down EXCEPT ![i] = "unlinked"]
    BY <1>2 DEF Unlink, DownTo
  <2>2. Live(i) /\ \A j \in Instances : j # i => ~Live(j)
    BY <1>2 DEF Unlink, DownTo, AloneInv
  <2> QED BY <1>1, <2>1, <2>2 DEF AloneInv, FileInv, AskedInv, CommandInv, Busy
<1>3. CASE MarkJob(i) \/ Close(i)
  <2>1. /\ UNCHANGED <<stage, asked, file>> /\ Up(i)
        /\ \/ /\ down[i] = "waiting" /\ i \in asked
              /\ down' = [down EXCEPT ![i] = "marked"]
           \/ down[i] = "unlinked" /\ down' = [down EXCEPT ![i] = "closed"]
    BY <1>3 DEF MarkJob, Close, DownTo
  <2> QED BY <1>1, <2>1 DEF AloneInv, FileInv, AskedInv, CommandInv, Busy
<1>4. CASE \E j \in Instances : End(j) /\ UNCHANGED <<down, file>>
  BY <1>1, <1>4 DEF End, AloneInv, FileInv, AskedInv, CommandInv, Busy
<1>5. CASE UNCHANGED <<stage, down, file>> /\ asked \subseteq asked'
  BY <1>1, <1>5 DEF AloneInv, FileInv, AskedInv, CommandInv, Busy
<1> QED BY <1>2, <1>3, <1>4, <1>5
        DEF Shutdown, Notify, Terminate, Deliver, HandleSignal, AskFromPage, Exit

LEMMA CommandStep ==
  ASSUME careful, ~windows, CarefulInv, StopInv', NEW q \in Stops, Stop(q)
  PROVE  CarefulInv'
<1> USE DEF CarefulInv, StopInv, DaemonTypeOK, Starting, Verdicts, Live, Up, StopTo
<1>1. CASE ReadFile(q)
  <2>1. UNCHANGED <<stage, down, asked, file>>
    BY <1>1 DEF ReadFile, instanceVars
  <2>2. \A i \in Instances : Live(i) =>
          stage[i] = "serving" /\ (file = i \/ down[i] \in {"unlinked", "closed"})
    BY <1>1 DEF ReadFile, FileInv
  <2>3. CommandInv'
    BY <1>1, <2>1, <2>2 DEF ReadFile, CommandInv, Busy
  <2> QED BY <2>1, <2>3 DEF AloneInv, FileInv, AskedInv
<1>2. CASE ClearStale(q) \/ RemoveFile(q)
  <2>1. UNCHANGED <<stage, down, asked, info>>
    BY <1>2 DEF ClearStale, RemoveFile, instanceVars
  <2>2. \A i \in Instances : Live(i) => down[i] \in {"unlinked", "closed"}
    BY <1>2 DEF ClearStale, RemoveFile, CommandInv, Busy, StopIsTrue, SaysGone
  <2>3. CommandInv'
    BY <1>2, <2>1 DEF ClearStale, RemoveFile, CommandInv, Busy
  <2> QED BY <2>1, <2>2, <2>3 DEF AloneInv, FileInv, AskedInv
<1>3. CASE CheckAlive(q) \/ SendSignal(q) \/ Gone(q) \/ TimeUp(q)
  <2>1. UNCHANGED <<down, file, info>>
    BY <1>3 DEF CheckAlive, SendSignal, Gone, TimeUp, instanceVars
  <2>2. Busy(q) /\ \A p \in Stops : p # q => at'[p] = at[p]
    BY <1>3 DEF CheckAlive, SendSignal, Gone, TimeUp, Busy
  <2>3. \A p \in Stops : Busy(p)' => Busy(p)
    BY <2>2 DEF Busy
  <2>4. CASE \E i \in Instances : End(i)
    BY <2>1, <2>3, <2>4 DEF End, AloneInv, FileInv, AskedInv, CommandInv
  <2>5. CASE UNCHANGED stage /\ asked \subseteq asked'
    BY <2>1, <2>3, <2>5 DEF AloneInv, FileInv, AskedInv, CommandInv
  <2> QED BY <1>3, <2>4, <2>5
          DEF CheckAlive, SendSignal, Deliver, Holders, Gone, TimeUp, instanceVars
<1> QED BY <1>1, <1>2, <1>3 DEF Stop

\* On Unix and in sequential use web.pid names every instance that serves and has not been
\* asked to end: through crashes, reused pids and commands that gave up.
THEOREM CarefulIsFindable == Spec => []RunningIsFindable
<1> DEFINE Findable == StopInv /\ ((careful /\ ~windows) => CarefulInv)
<1>1. Init => Findable
  BY StopInvInit DEF Init, CarefulInv, AloneInv, FileInv, AskedInv, CommandInv, Live, Up, Busy
<1>2. Findable /\ [Next]_vars => Findable'
  <2> SUFFICES ASSUME StopInv, (careful /\ ~windows) => CarefulInv, [Next]_vars,
                      careful', ~windows'
               PROVE  CarefulInv'
    BY StopInvStep
  <2>1. StopInv'
    BY StopInvStep
  <2>2. careful /\ ~windows /\ CarefulInv
    <3>1. careful' = careful /\ windows' = windows
      BY SettingIsRigid DEF setting
    <3>2. careful /\ ~windows
      BY <3>1
    <3> QED BY <3>2
  <2>3. CASE \E i \in Instances : Boot(i) \/ Shutdown(i)
    BY <2>1, <2>2, <2>3, BootStep, ShutdownStep
  <2>4. CASE \E q \in Stops : Stop(q)
    BY <2>1, <2>2, <2>4, CommandStep
  <2>5. CASE Others \/ UNCHANGED vars
    <3>1. UNCHANGED <<stage, down, asked, file, at, info>>
      BY <2>5 DEF Others, OtherStarts, OtherEnds, vars, instanceVars, stopVars
    <3> QED BY <2>1, <2>2, <3>1 DEF CarefulInv, AloneInv, FileInv, AskedInv, CommandInv, Live, Up, Busy
  <2> QED BY <2>3, <2>4, <2>5 DEF Next
<1>3. Findable => RunningIsFindable
  BY DEF CarefulInv, FileInv, AskedInv, RunningIsFindable, Up, Live, StopInv, DaemonTypeOK
<1> QED BY <1>1, <1>2, <1>3, PTL DEF Spec

\* web.pid names an instance as long as it is to be found by it, on Unix, and
\* no longer, anywhere.
THEOREM PidFileCorrect == Spec => []PidFileInv
<1>1. RunningIsFindable /\ ShutdownLeavesNoFile => PidFileInv
  BY DEF PidFileInv
<1> QED
  BY <1>1, CarefulIsFindable, ShutdownCleansUp, PTL
-------------------------------------------------------------------------------
(* The service, and both *)

\* What the service has reported is what its process is at.
Reported ==
  /\ status = "stopped"       <=> exe = "gone"
  /\ status = "start pending" <=> exe \in {"begun", "opened"}
  /\ status = "running"       <=> exe = "loop"
  /\ status = "stop pending"  <=> exe \in {"marking", "closing", "waiting"}

\* Only a process holds the port, and one that waits for the end has let it go.
PortInv == /\ exe = "gone" => http = "none"
           /\ exe = "waiting" => http \notin {"opening", "open"}

\* What is about to be restarted has stopped and is still installed.
RestartInv == restart = FALSE \/ (status = "stopped" /\ entry = "installed")

FitInv == Reported /\ PortInv /\ RestartInv /\ Serving!StoppedJobIsTold

LEMMA ServiceInit == Serving!Init => Serving!ServiceTypeOK /\ FitInv
<1> SUFFICES ASSUME Serving!Init PROVE Serving!ServiceTypeOK /\ FitInv
  OBVIOUS
<1>1. 0 \in 0..MaxCrashes /\ 0 \in 0..MaxRequests
  BY BoundsAssumption
<1>2. Serving!ServiceTypeOK
  BY <1>1 DEF Serving!Init, Serving!ServiceTypeOK
<1>3. Reported /\ PortInv
  BY DEF Serving!Init, Reported, PortInv
<1>4. RestartInv /\ Serving!StoppedJobIsTold
  BY DEF Serving!Init, RestartInv, Serving!StoppedJobIsTold
<1> QED BY <1>2, <1>3, <1>4 DEF FitInv

\* One more is counted towards a bound that was not reached.
LEMMA CountFacts ==
  ASSUME NEW b \in Nat, NEW n \in 0..b, n < b
  PROVE  n + 1 \in 0..b
OBVIOUS

\* The types in three parts: what is a word, what is a flag, what is a count.
Outside == /\ entry \in {"none", "installed", "marked"}
           /\ status \in {"stopped", "start pending", "running", "stop pending"}
           /\ control \in {"none", "stop", "interrogate"}
           /\ cmd \in {"idle", "control", "wait", "delete", "removed", "failed"}
Inside == /\ exe \in {"gone", "begun", "opened", "loop", "marking", "closing", "waiting"}
          /\ http \in {"none", "opening", "open", "failed", "closed"}
          /\ serveErr \in {"empty", "failed", "closed"}
          /\ job \in {"none", "running", "late", "failed", "done"}
Words  == Outside /\ Inside
Flags  == recovery \in BOOLEAN /\ restart \in BOOLEAN
Counts == requests \in 0..MaxRequests /\ crashes \in 0..MaxCrashes

LEMMA TypesAreParts == Serving!ServiceTypeOK <=> Words /\ Flags /\ Counts
BY Zenon DEF Serving!ServiceTypeOK, Words, Outside, Inside, Flags, Counts

LEMMA ServiceTypedStep ==
  Words /\ Flags /\ Counts /\ [Serving!Next]_serviceVars => Words' /\ Flags' /\ Counts'
<1> SUFFICES ASSUME Words, Flags, Counts, [Serving!Next]_serviceVars
             PROVE  Words' /\ Flags' /\ Counts'
  OBVIOUS
<1> DEFINE Good == Words' /\ Flags' /\ Counts'
           Still == UNCHANGED <<recovery, restart, requests, crashes>>
<1>a. 0 \in 0..MaxRequests
  BY BoundsAssumption
<1>b. Still => Flags' /\ Counts'
  BY DEF Flags, Counts
<1> USE DEF Serving!process, Serving!scm, Serving!vars, Serving!ExeTo, Serving!CmdTo
<1>1. ASSUME Serving!Install PROVE Good
  <2>1. Words'
    <3>1. Outside'
      BY <1>1 DEF Serving!Install, Words, Outside
    <3>2. Inside'
      BY <1>1 DEF Serving!Install, Words, Inside
    <3> QED BY <3>1, <3>2 DEF Words
  <2>2. Flags' /\ Counts'
    BY <1>1 DEF Serving!Install, Flags, Counts
  <2> QED BY <2>1, <2>2
<1>2. ASSUME Serving!Start PROVE Good
  <2>1. Words'
    <3>1. Outside'
      BY <1>2 DEF Serving!Start, Serving!Begin, Words, Outside
    <3>2. Inside'
      BY <1>2 DEF Serving!Start, Serving!Begin, Words, Inside
    <3> QED BY <3>1, <3>2 DEF Words
  <2>2. Flags' /\ Counts'
    BY <1>2 DEF Serving!Start, Flags, Counts
  <2> QED BY <2>1, <2>2
<1>3. ASSUME Serving!Crash PROVE Good
  <2>1. Serving!End /\ UNCHANGED <<recovery, cmd>>
    BY <1>3 DEF Serving!Crash
  <2>2. Words'
    <3>1. Outside'
      BY <2>1 DEF Serving!End, Words, Outside
    <3>2. Inside'
      BY <2>1 DEF Serving!End, Words, Inside
    <3> QED BY <3>1, <3>2 DEF Words
  <2>3. crashes' \in 0..MaxCrashes
    <3>1. crashes \in 0..MaxCrashes /\ crashes < MaxCrashes /\ crashes' = crashes + 1
      BY <1>3 DEF Serving!Crash, Counts
    <3> QED BY ONLY <3>1, CountFacts, BoundsAssumption
  <2>4. Counts'
    BY <1>a, <2>1, <2>3 DEF Serving!End, Counts
  <2>5. restart' \in BOOLEAN
    BY <1>3, Zenon DEF Serving!Crash
  <2> QED BY <2>1, <2>2, <2>4, <2>5 DEF Flags
<1>4. ASSUME NEW c \in {"stop", "interrogate"}, Serving!SendControl(c) PROVE Good
  <2>1. Words' /\ Still
    <3>1. Outside'
      BY <1>4 DEF Serving!SendControl, Words, Outside
    <3>2. Inside'
      BY <1>4 DEF Serving!SendControl, Words, Inside
    <3>3. Still
      BY <1>4 DEF Serving!SendControl
    <3> QED BY <3>1, <3>2, <3>3 DEF Words
  <2> QED BY <1>b, <2>1
<1>5. ASSUME Serving!PrepareFails \/ Serving!ServeEnds \/ Serving!Leave PROVE Good
  <2>1. Serving!End /\ UNCHANGED <<recovery, restart, crashes, cmd>>
    BY <1>5 DEF Serving!PrepareFails, Serving!ServeEnds, Serving!Leave, Serving!Return
  <2>2. Words'
    <3>1. Outside'
      BY <2>1 DEF Serving!End, Words, Outside
    <3>2. Inside'
      BY <2>1 DEF Serving!End, Words, Inside
    <3> QED BY <3>1, <3>2 DEF Words
  <2>3. Flags' /\ Counts'
    BY <1>a, <2>1 DEF Serving!End, Flags, Counts
  <2> QED BY <2>2, <2>3
<1>6. ASSUME Serving!Prepare \/ Serving!ReportRunning \/ Serving!Interrogate PROVE Good
  <2>1. Words' /\ Still
    <3>1. Outside'
      BY <1>6 DEF Serving!Prepare, Serving!ReportRunning, Serving!Interrogate, Words, Outside
    <3>2. Inside'
      BY <1>6 DEF Serving!Prepare, Serving!ReportRunning, Serving!Interrogate, Words, Inside
    <3>3. Still
      BY <1>6 DEF Serving!Prepare, Serving!ReportRunning, Serving!Interrogate
    <3> QED BY <3>1, <3>2, <3>3 DEF Words
  <2> QED BY <1>b, <2>1
<1>7. ASSUME Serving!StopPending \/ Serving!MarkJob \/ Serving!Close PROVE Good
  <2>1. Words' /\ Still
    <3>1. Outside'
      BY <1>7 DEF Serving!StopPending, Serving!MarkJob, Serving!Close, Words, Outside
    <3>2. Inside'
      BY <1>7 DEF Serving!StopPending, Serving!MarkJob, Serving!Close, Words, Inside
    <3>3. Still
      BY <1>7 DEF Serving!StopPending, Serving!MarkJob, Serving!Close
    <3> QED BY <3>1, <3>2, <3>3 DEF Words
  <2> QED BY <1>b, <2>1
<1>8. ASSUME Serving!Listen \/ Serving!RunJob \/ Serving!JobEnds PROVE Good
  <2>1. Words' /\ Still
    <3>1. Outside'
      BY <1>8 DEF Serving!Listen, Serving!RunJob, Serving!JobEnds, Words, Outside
    <3>2. Inside'
      BY <1>8 DEF Serving!Listen, Serving!RunJob, Serving!JobEnds, Words, Inside
    <3>3. Still
      BY <1>8 DEF Serving!Listen, Serving!RunJob, Serving!JobEnds
    <3> QED BY <3>1, <3>2, <3>3 DEF Words
  <2> QED BY <1>b, <2>1
<1>9. ASSUME Serving!AskShutdown PROVE Good
  <2>1. Words'
    <3>1. Outside'
      BY <1>9 DEF Serving!AskShutdown, Words, Outside
    <3>2. Inside'
      BY <1>9 DEF Serving!AskShutdown, Words, Inside
    <3> QED BY <3>1, <3>2 DEF Words
  <2>2. requests' \in 0..MaxRequests
    <3>1. requests \in 0..MaxRequests /\ requests < MaxRequests /\ requests' = requests + 1
      BY <1>9 DEF Serving!AskShutdown, Counts
    <3> QED BY ONLY <3>1, CountFacts, BoundsAssumption
  <2>3. UNCHANGED <<recovery, restart, crashes>>
    BY <1>9 DEF Serving!AskShutdown
  <2> QED BY <2>1, <2>2, <2>3 DEF Flags, Counts
<1>10. ASSUME Serving!Open \/ Serving!Control \/ Serving!Wait PROVE Good
  <2>1. Words' /\ Still
    <3>1. Outside'
      BY <1>10 DEF Serving!Open, Serving!Control, Serving!Wait, Words, Outside
    <3>2. Inside'
      BY <1>10 DEF Serving!Open, Serving!Control, Serving!Wait, Words, Inside
    <3>3. Still
      BY <1>10 DEF Serving!Open, Serving!Control, Serving!Wait
    <3> QED BY <3>1, <3>2, <3>3 DEF Words
  <2> QED BY <1>b, <2>1
<1>11. ASSUME Serving!Delete PROVE Good
  <2>1. Words'
    <3>1. Outside'
      BY <1>11 DEF Serving!Delete, Words, Outside
    <3>2. Inside'
      BY <1>11 DEF Serving!Delete, Words, Inside
    <3> QED BY <3>1, <3>2 DEF Words
  <2>2. Flags' /\ Counts'
    BY <1>11 DEF Serving!Delete, Flags, Counts
  <2> QED BY <2>1, <2>2
<1>12. ASSUME UNCHANGED serviceVars PROVE Good
  <2>1. Words' /\ Still
    <3>1. Outside'
      BY <1>12 DEF serviceVars, Words, Outside
    <3>2. Inside'
      BY <1>12 DEF serviceVars, Words, Inside
    <3>3. Still
      BY <1>12 DEF serviceVars
    <3> QED BY <3>1, <3>2, <3>3 DEF Words
  <2> QED BY <1>b, <2>1
<1> QED
  BY <1>1, <1>2, <1>3, <1>4, <1>5, <1>6, <1>7, <1>8, <1>9, <1>10, <1>11, <1>12
     DEF Serving!Next, Serving!Execute, Serving!Uninstall

\* The process ends, by itself or not.
LEMMA EndStep ==
  ASSUME Serving!End, restart' = FALSE \/ entry = "installed"
  PROVE  FitInv'
BY DEF Serving!End, FitInv, Reported, PortInv, RestartInv, Serving!StoppedJobIsTold

LEMMA FitStep == FitInv /\ [Serving!Next]_serviceVars => FitInv'
<1> SUFFICES ASSUME FitInv, [Serving!Next]_serviceVars PROVE FitInv'
  OBVIOUS
<1> USE DEF Serving!process, Serving!scm, Serving!vars, Serving!ExeTo, Serving!CmdTo,
            FitInv, Reported, PortInv, RestartInv, Serving!StoppedJobIsTold
<1>1. CASE Serving!Install
  BY <1>1 DEF Serving!Install
<1>2. CASE Serving!Start
  BY <1>2 DEF Serving!Start, Serving!Begin
<1>3. CASE Serving!Crash
  <2>1. restart' = FALSE \/ entry = "installed"
    BY <1>3, Zenon DEF Serving!Crash
  <2> QED BY <1>3, <2>1, EndStep DEF Serving!Crash
<1>4. ASSUME NEW c \in {"stop", "interrogate"}, Serving!SendControl(c) PROVE FitInv'
  BY <1>4 DEF Serving!SendControl
<1>5. CASE Serving!PrepareFails \/ Serving!ServeEnds \/ Serving!Leave
  <2>1. exe # "gone" /\ Serving!End /\ restart' = restart
    BY <1>5 DEF Serving!PrepareFails, Serving!ServeEnds, Serving!Leave, Serving!Return
  <2>2. restart' = FALSE
    BY <2>1
  <2> QED BY <2>1, <2>2, EndStep
<1>6. CASE Serving!Prepare \/ Serving!ReportRunning \/ Serving!Interrogate
  BY <1>6 DEF Serving!Prepare, Serving!ReportRunning, Serving!Interrogate
<1>7. CASE Serving!StopPending \/ Serving!MarkJob \/ Serving!Close
  BY <1>7 DEF Serving!StopPending, Serving!MarkJob, Serving!Close
<1>8. CASE Serving!Listen
  BY <1>8 DEF Serving!Listen
<1>9. CASE Serving!RunJob \/ Serving!JobEnds \/ Serving!AskShutdown
  BY <1>9 DEF Serving!RunJob, Serving!JobEnds, Serving!AskShutdown
<1>10. CASE Serving!Open \/ Serving!Control \/ Serving!Wait
  BY <1>10 DEF Serving!Open, Serving!Control, Serving!Wait
<1>11. CASE Serving!Delete
  BY <1>11 DEF Serving!Delete
<1>12. CASE UNCHANGED serviceVars
  BY <1>12 DEF serviceVars
<1> QED
  BY <1>1, <1>2, <1>3, <1>4, <1>5, <1>6, <1>7, <1>8, <1>9, <1>10, <1>11, <1>12
     DEF Serving!Next, Serving!Execute, Serving!Uninstall

\* The service does not move while the web mode is a daemon, nor the daemon while it
\* is a service.
LEMMA EitherMoves == [HostingNext]_<<host, vars, serviceVars>> =>
                       [Next]_vars /\ [Serving!Next]_serviceVars
BY DEF HostingNext

\* What the SCM believes fits the process, and a job a stop ends is told so.
THEOREM ServiceCorrect == HostingSpec => []ServiceInv
<1>1. Serving!ServiceTypeOK /\ FitInv => ServiceInv
  <2> SUFFICES ASSUME Serving!ServiceTypeOK, FitInv PROVE ServiceInv
    OBVIOUS
  <2>1. restart => status = "stopped" /\ entry = "installed"
    BY Zenon DEF FitInv, RestartInv
  <2>2. Serving!ReportFits
    BY <2>1 DEF FitInv, Reported, PortInv, Serving!ReportFits
  <2> QED BY <2>2 DEF FitInv, ServiceInv, Serving!ServiceInv
<1>2. HostingInit => Words /\ Flags /\ Counts /\ FitInv
  BY ServiceInit, TypesAreParts DEF HostingInit
<1> QED
  BY <1>1, <1>2, TypesAreParts, ServiceTypedStep, FitStep, EitherMoves, PTL DEF HostingSpec

\* A daemon's steps are those of Daemon, whatever hosts the web mode.
LEMMA HostingIsDaemon == HostingSpec => Spec
<1>1. HostingInit => Init
  BY DEF HostingInit
<1> QED
  BY <1>1, EitherMoves, PTL DEF HostingSpec, Spec

\* What is said of -stop and of web.pid holds beside the service too.
THEOREM DaemonCorrect == HostingSpec => [](StopIsTrue /\ PidFileInv)
BY HostingIsDaemon, StopTellsTruth, PidFileCorrect, PTL
=============================================================================
