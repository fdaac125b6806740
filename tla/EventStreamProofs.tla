-------------------------- MODULE EventStreamProofs --------------------------
(***************************************************************************)
(* Proofs about WebJob and about the EventStream built on it, for any      *)
(* number of jobs, requests and projects, pages and capacity of channels.  *)
(* Of the jobs: type correctness, the history and the ownership of the     *)
(* preselection are proved of StoppingSpec, where a shutdown may come at   *)
(* any moment; that runs exclude each other holds only of Spec, the server *)
(* nobody stops.  Of the streams: the hub holds the channels of the        *)
(* handlers at work, a channel carries its own job's events with the true  *)
(* verdict last, and no page takes a run for over that is not.             *)
(***************************************************************************)
EXTENDS EventStream, SequenceTheorems, TLAPS

-----------------------------------------------------------------------------
(* WebJob: the jobs, their history and the preselection.                      *)

StopNext == JobNext \/ ShutdownNext

\* A job in front of a list: what the new one holds, place by place.
LEMMA PrependFacts ==
  ASSUME NEW j \in Jobs, NEW h \in Seq(Jobs \cup {None})
  PROVE  /\ <<j>> \o h \in Seq(Jobs \cup {None})
         /\ Len(<<j>> \o h) = Len(h) + 1
         /\ \A k \in 1..Len(<<j>> \o h) : (<<j>> \o h)[k] = IF k = 1 THEN j ELSE h[k - 1]
OBVIOUS

\* Cutting a list: as many places as were asked for.
LEMMA SliceFacts ==
  ASSUME NEW h \in Seq(Jobs \cup {None}), NEW n \in Nat \ {0}
  PROVE  /\ Slice(h, n) \in Seq(Jobs \cup {None})
         /\ Len(Slice(h, n)) = n
         /\ \A k \in 1..n : Slice(h, n)[k] = IF k <= Len(h) THEN h[k] ELSE None
<1>1. \A k \in 1..n : k <= Len(h) => h[k] \in Jobs \cup {None}
  OBVIOUS
<1>2. Slice(h, n) \in [1..n -> Jobs \cup {None}]
  BY <1>1 DEF Slice
<1> QED
  BY <1>2 DEF Slice

\* A job that exists was made from one of the requests.
Requested == \A j \in Jobs : pc[j] # "new" => req[j] \in Requests

Typed == TypeOK /\ Requested

LEMMA RequestFields ==
  ASSUME NEW r \in Requests
  PROVE  /\ r.projectId \in Projects \cup {None}
         /\ r.matches \subseteq Projects
         /\ r.mode \in {"check", "run"}
BY RequestsAssumption DEF RequestType

\* The steps that only move a goroutine from one label to another, and the
\* early returns that also store an error, keep the types.
LEMMA TypedMoves ==
  ASSUME Typed, NEW j \in Jobs, NEW from \in Labels \ {"new"}, NEW to \in Labels \ {"new"}
  PROVE  /\ Proceed(j, from, to) => Typed'
         /\ Fail(j, from) => Typed'
<1> USE DEF Typed, TypeOK, Requested, jobVars, serverVars, globalVars
<1>1. "clearLog" \in Labels \ {"new"}
  BY DEF Labels, Running, Body
<1>2. ASSUME Proceed(j, from, to) PROVE Typed'
  BY <1>2 DEF Proceed, Goto
<1>3. ASSUME Fail(j, from) PROVE Typed'
  BY <1>1, <1>3 DEF Fail, Goto
<1> QED
  BY <1>2, <1>3

\* Every variable keeps its type through every step of runs and shutdown.
LEMMA TypedStep == Typed /\ [StopNext]_vars => Typed'
<1> SUFFICES ASSUME Typed, [StopNext]_vars PROVE Typed'
  OBVIOUS
<1> DEFINE L == {"new", "archive", "preselect", "setLog", "load", "resolve", "collect",
                 "once", "ssh", "export", "clearLog", "readStatus", "markDone",
                 "markFailed", "clearProject", "cut", "publish", "gone"}
<1>a. Labels = L
  BY DEF Labels, Running, Body, Cleaning, Archived
<1>b. TypeOK /\ Requested
  BY DEF Typed
<1> USE <1>b DEF Typed, TypeOK, Requested, jobVars, serverVars, globalVars
<1>1. ASSUME NEW j \in Jobs, NEW r \in Requests, Accept(j, r) PROVE Typed'
  BY <1>1, <1>a DEF Accept, Goto
<1>2. ASSUME NEW j \in Jobs, Preselect(j) PROVE Typed'
  <2>1. req[j] \in Requests
    BY <1>2, <1>a DEF Preselect, Goto
  <2> QED BY <1>2, <1>a, <2>1, RequestFields DEF Preselect, Goto
<1>3. ASSUME NEW j \in Jobs, SetRunLog(j) PROVE Typed'
  BY <1>3, <1>a DEF SetRunLog, Goto
<1>4. ASSUME NEW j \in Jobs, LoadConfig(j) PROVE Typed'
  BY <1>4, <1>a, TypedMoves DEF LoadConfig
<1>5. ASSUME NEW j \in Jobs, Resolve(j) PROVE Typed'
  <2>1. CASE Fail(j, "resolve")
    BY <2>1, <1>a, TypedMoves
  <2>2. CASE ~Fail(j, "resolve")
    <3>1. PICK p \in Choice(j) : chosen' = [chosen EXCEPT ![j] = p]
      BY <1>5, <2>2 DEF Resolve
    <3>2. req[j] \in Requests
      BY <1>5, <2>2, <1>a DEF Resolve, Goto
    <3>3. p \in Projects
      BY <3>2, RequestFields DEF Choice
    <3> QED BY <1>5, <2>2, <3>1, <3>3, <1>a DEF Resolve, Goto
  <2> QED BY <2>1, <2>2
<1>6. ASSUME NEW j \in Jobs, Collect(j) PROVE Typed'
  BY <1>6, <1>a, TypedMoves DEF Collect
<1>7. ASSUME NEW j \in Jobs, OncePipeline(j) PROVE Typed'
  BY <1>7, <1>a, TypedMoves DEF OncePipeline
<1>8. ASSUME NEW j \in Jobs, SSHTests(j) PROVE Typed'
  BY <1>8, <1>a DEF SSHTests, Goto
<1>9. ASSUME NEW j \in Jobs, Export(j) PROVE Typed'
  <2>1. CASE Proceed(j, "export", "clearLog") \/ Fail(j, "export")
    BY <2>1, <1>a, TypedMoves
  <2>2. CASE ~(Proceed(j, "export", "clearLog") \/ Fail(j, "export"))
    BY <1>9, <2>2, <1>a DEF Export, Goto
  <2> QED BY <2>1, <2>2
<1>10. ASSUME NEW j \in Jobs, ClearRunLog(j) PROVE Typed'
  BY <1>10, <1>a DEF ClearRunLog, Goto
<1>11. ASSUME NEW j \in Jobs, ReadStatus(j) PROVE Typed'
  BY <1>11, <1>a, TypedMoves DEF ReadStatus
<1>12. ASSUME NEW j \in Jobs, MarkDone(j) PROVE Typed'
  BY <1>12, <1>a DEF MarkDone, Goto
<1>13. ASSUME NEW j \in Jobs, MarkFailed(j) PROVE Typed'
  BY <1>13, <1>a DEF MarkFailed, Goto
<1>14. ASSUME NEW j \in Jobs, ClearPreselection(j) PROVE Typed'
  BY <1>14, <1>a DEF ClearPreselection, Goto
<1>15. ASSUME NEW j \in Jobs, Archive(j) PROVE Typed'
  <2>1. history' \in Seq(Jobs \cup {None})
    BY <1>15, PrependFacts DEF Archive
  <2>2. currentJob' \in Jobs \cup {None}
    BY <1>15 DEF Archive, Release
  <2>3. pc' \in [Jobs -> Labels] /\ \A i \in Jobs : pc'[i] # "new" => pc[i] # "new"
    BY <1>15, <1>a DEF Archive, Goto
  <2> QED BY <1>15, <2>1, <2>2, <2>3 DEF Archive
<1>22. ASSUME NEW j \in Jobs, Cut(j) PROVE Typed'
  <2>1. historySize \in Nat \ {0}
    BY SizesAssumption
  <2>2. Slice(history, historySize) \in Seq(Jobs \cup {None})
    BY <2>1, SliceFacts
  <2>3. history' \in Seq(Jobs \cup {None}) /\ currentJob' \in Jobs \cup {None}
    BY <1>22, <2>2 DEF Cut, Release
  <2>4. pc' \in [Jobs -> Labels] /\ \A i \in Jobs : pc'[i] # "new" => pc[i] # "new"
    BY <1>22, <1>a DEF Cut, Goto
  <2>5. stop' \in {"no", "marking", "marked", "exited", "panicked"}
    BY <1>22 DEF Cut
  <2> QED BY <1>22, <2>3, <2>4, <2>5 DEF Cut
<1>23. ASSUME ReadHistory PROVE Typed'
  BY <1>23 DEF ReadHistory
<1>16. ASSUME NEW j \in Jobs, PublishFinish(j) PROVE Typed'
  BY <1>16, <1>a, TypedMoves DEF PublishFinish
<1>17. ASSUME SetHistorySize PROVE Typed'
  BY <1>17 DEF SetHistorySize
<1>18. ASSUME ShutdownMark PROVE Typed'
  BY <1>18 DEF ShutdownMark
<1>19. ASSUME ShutdownError PROVE Typed'
  BY <1>19 DEF ShutdownError
<1>20. ASSUME Exit PROVE Typed'
  BY <1>20 DEF Exit
<1>21. CASE UNCHANGED vars
  BY <1>21 DEF vars
<1> QED
  BY <1>1, <1>2, <1>3, <1>4, <1>5, <1>6, <1>7, <1>8, <1>9, <1>10, <1>11, <1>12, <1>13,
     <1>14, <1>15, <1>16, <1>17, <1>18, <1>19, <1>20, <1>21, <1>22, <1>23
     DEF StopNext, JobNext, RunJob, Finisher, ShutdownNext

LEMMA TypedInit == Init => Typed
<1> SUFFICES ASSUME Init PROVE Typed
  OBVIOUS
<1>1. "new" \in Labels
  BY DEF Labels
<1>2. history \in Seq(Jobs \cup {None})
  <2>1. history = << >>
    BY DEF Init
  <2>2. << >> \in Seq(Jobs \cup {None})
    OBVIOUS
  <2> QED BY <2>1, <2>2, Zenon
<1>7. historySize \in Sizes
  BY DEF Init
<1>3. /\ pc \in [Jobs -> Labels]
      /\ status \in [Jobs -> {"", "running", "done", "failed"}]
      /\ error \in [Jobs -> BOOLEAN]
      /\ vms \in [Jobs -> BOOLEAN]
      /\ excel \in [Jobs -> BOOLEAN]
  BY <1>1 DEF Init
<1>4. /\ req \in [Jobs -> Requests \cup {None}]
      /\ chosen \in [Jobs -> Projects \cup {None}]
      /\ overlapped \subseteq Jobs
      /\ currentJob \in Jobs \cup {None}
      /\ webProjectID \in Projects \cup {None}
      /\ runLog \in Jobs \cup {None}
      /\ raised \in BOOLEAN /\ jammed \in BOOLEAN
      /\ stop \in {"no", "marking", "marked", "exited", "panicked"}
  BY DEF Init
<1>5. TypeOK
  BY <1>2, <1>7, <1>3, <1>4 DEF TypeOK
<1>6. Requested
  BY DEF Init, Requested
<1> QED
  BY <1>5, <1>6 DEF Typed

\* Type correctness of the web run, shutdown included.
THEOREM TypeCorrect == StoppingSpec => []TypeOK
<1>1. Typed => TypeOK
  BY DEF Typed
<1> QED
  BY TypedInit, TypedStep, <1>1, PTL DEF StoppingSpec, StopNext

-------------------------------------------------------------------------------
(* Exclusion.  A job whose goroutine has not yet written its verdict is the   *)
(* current job and still shows "running", so the admission test refuses; the  *)
(* job that executes its body is then the only one that could have set        *)
(* runLog.  Shutdown breaks the first conjunct, which is why the theorem is   *)
(* about Spec.                                                                *)

Exclusive ==
  /\ \A j \in Jobs : pc[j] \in Running => currentJob = j /\ status[j] = "running"
  /\ \A j \in Jobs : pc[j] \in Body => runLog = j

LEMMA ExclusiveStep == Typed /\ Exclusive /\ [JobNext]_vars => Exclusive'
<1> SUFFICES ASSUME Typed, Exclusive, [JobNext]_vars PROVE Exclusive'
  OBVIOUS
<1>a. TypeOK
  BY DEF Typed
<1> USE <1>a DEF TypeOK, Exclusive, Running, Body, jobVars, serverVars, globalVars
<1>1. ASSUME NEW j \in Jobs, NEW r \in Requests, Accept(j, r) PROVE Exclusive'
  BY <1>1 DEF Accept, Goto, GateOpen
<1>2. ASSUME NEW j \in Jobs, Preselect(j) PROVE Exclusive'
  BY <1>2 DEF Preselect, Goto
<1>3. ASSUME NEW j \in Jobs, SetRunLog(j) PROVE Exclusive'
  BY <1>3 DEF SetRunLog, Goto
<1>4. ASSUME NEW j \in Jobs, LoadConfig(j) PROVE Exclusive'
  BY <1>4 DEF LoadConfig, Proceed, Fail, Goto
<1>5. ASSUME NEW j \in Jobs, Resolve(j) PROVE Exclusive'
  BY <1>5 DEF Resolve, Fail, Goto
<1>6. ASSUME NEW j \in Jobs, Collect(j) PROVE Exclusive'
  BY <1>6 DEF Collect, Proceed, Fail, Goto
<1>7. ASSUME NEW j \in Jobs, OncePipeline(j) PROVE Exclusive'
  BY <1>7 DEF OncePipeline, Proceed, Goto
<1>8. ASSUME NEW j \in Jobs, SSHTests(j) PROVE Exclusive'
  BY <1>8 DEF SSHTests, Goto
<1>9. ASSUME NEW j \in Jobs, Export(j) PROVE Exclusive'
  BY <1>9 DEF Export, Proceed, Fail, Goto
<1>10. ASSUME NEW j \in Jobs, ClearRunLog(j) PROVE Exclusive'
  BY <1>10 DEF ClearRunLog, Goto
<1>11. ASSUME NEW j \in Jobs, ReadStatus(j) PROVE Exclusive'
  BY <1>11 DEF ReadStatus, Proceed, Goto
<1>12. ASSUME NEW j \in Jobs, MarkDone(j) PROVE Exclusive'
  BY <1>12 DEF MarkDone, Goto
<1>13. ASSUME NEW j \in Jobs, MarkFailed(j) PROVE Exclusive'
  BY <1>13 DEF MarkFailed, Goto
<1>14. ASSUME NEW j \in Jobs, ClearPreselection(j) PROVE Exclusive'
  BY <1>14 DEF ClearPreselection, Goto
<1>15. ASSUME NEW j \in Jobs, Archive(j) PROVE Exclusive'
  <2>1. pc' = [pc EXCEPT ![j] = "cut"] \/ pc' = [pc EXCEPT ![j] = "publish"]
    BY <1>15 DEF Archive, Goto
  <2>2. currentJob' = currentJob \/ (currentJob = j /\ currentJob' = None)
    BY <1>15 DEF Archive, Release
  <2>3. pc[j] = "archive" /\ status' = status /\ runLog' = runLog
    BY <1>15 DEF Archive
  <2> QED BY <2>1, <2>2, <2>3
<1>19. ASSUME NEW j \in Jobs, Cut(j) PROVE Exclusive'
  BY <1>19 DEF Cut, Release, Goto
<1>20. ASSUME ReadHistory PROVE Exclusive'
  BY <1>20 DEF ReadHistory
<1>16. ASSUME NEW j \in Jobs, PublishFinish(j) PROVE Exclusive'
  BY <1>16 DEF PublishFinish, Proceed, Goto
<1>17. ASSUME SetHistorySize PROVE Exclusive'
  BY <1>17 DEF SetHistorySize
<1>18. CASE UNCHANGED vars
  BY <1>18 DEF vars
<1> QED
  BY <1>1, <1>2, <1>3, <1>4, <1>5, <1>6, <1>7, <1>8, <1>9, <1>10, <1>11, <1>12, <1>13,
     <1>14, <1>15, <1>16, <1>17, <1>18, <1>19, <1>20 DEF JobNext, RunJob, Finisher

LEMMA ExclusiveInit == Init => Exclusive
BY DEF Init, Exclusive, Running, Body

LEMMA ExclusiveAlways == Spec => [](Typed /\ Exclusive)
<1>1. Typed /\ [JobNext]_vars => Typed'
  BY TypedStep DEF StopNext
<1> QED
  BY TypedInit, ExclusiveInit, <1>1, ExclusiveStep, PTL DEF Spec

\* On a server nobody stops, two runs are never under way together.
THEOREM RunsExclude == Spec => []OneJobAtATime
<1>1. Exclusive => OneJobAtATime
  BY DEF Exclusive, OneJobAtATime
<1> QED
  BY <1>1, ExclusiveAlways, PTL

\* There, a run's log lines go to its own page from its first to its last.
THEOREM RunLogOwned == Spec => []RunLogIsOwn
<1>1. Exclusive => RunLogIsOwn
  BY DEF Exclusive, RunLogIsOwn
<1> QED
  BY <1>1, ExclusiveAlways, PTL

-------------------------------------------------------------------------------
(* The history.  Archive and Cut are the only steps that write it.  Between   *)
(* the two a finisher holds the mutex, which keeps every other finisher and   *)
(* the shutdown goroutine out; the label "archive" is not one of those a      *)
(* listed job can have; and a list that waits for its cut is longer than the  *)
(* length that is configured, unless that was raised.                         *)

MutexInv == /\ \A i, j \in Cutting : i = j
            /\ Cutting # {} => stop # "marking" /\ ~jammed

CutInv == Cutting # {} /\ ~raised => historySize <= Len(history)

HistoryInv == MutexInv /\ HistoryConsistent /\ HistoryIsWhole /\ CutInv

\* A step that leaves the list, its length and the mutex alone.
LEMMA HistoryKept ==
  ASSUME Typed, HistoryInv, UNCHANGED <<history, historySize, raised, jammed>>,
         \A i \in Jobs : /\ pc'[i] = "cut" <=> pc[i] = "cut"
                         /\ pc[i] \in Archived => pc'[i] \in Archived,
         currentJob' = currentJob \/ (currentJob' \in Jobs /\ pc'[currentJob'] \notin Archived),
         stop' = stop \/ (stop' # "panicked" /\ (stop' = "marking" => Cutting = {}))
  PROVE  HistoryInv'
<1>a. /\ history \in Seq(Jobs \cup {None}) /\ None \notin Jobs
      /\ \A k \in 1..Len(history) : history[k] \in Jobs \cup {None}
  <2>1. history \in Seq(Jobs \cup {None})
    BY DEF Typed, TypeOK
  <2> QED BY <2>1, JobsAssumption
<1>b. history' = history /\ historySize' = historySize /\ raised' = raised /\ jammed' = jammed
  OBVIOUS
<1>1. Cutting' = Cutting
  BY DEF Cutting
<1>2. MutexInv'
  BY <1>b, <1>1 DEF HistoryInv, MutexInv
<1>3. CutInv'
  BY <1>b, <1>1 DEF HistoryInv, CutInv
<1>4. HistoryIsWhole'
  BY <1>b DEF HistoryInv, HistoryIsWhole
<1>5. HistoryConsistent'
  <2>1. \A k, l \in 1..Len(history) : history[k] # None /\ history[l] # None /\ history[k] = history[l] => k = l
    BY DEF HistoryInv, HistoryConsistent
  <2>2. \A k \in 1..Len(history) : history[k] # None => pc[history[k]] \in Archived /\ history[k] \in Jobs
    BY <1>a DEF HistoryInv, HistoryConsistent
  <2>3. \A k \in 1..Len(history) : history[k] # None => pc'[history[k]] \in Archived
    BY <2>2
  <2>4. \A k \in 1..Len(history) : history[k] # None /\ history[k] = currentJob' => pc'[history[k]] = "cut"
    <3> SUFFICES ASSUME NEW k \in 1..Len(history), history[k] # None, history[k] = currentJob'
                 PROVE  pc'[history[k]] = "cut"
      OBVIOUS
    <3>1. currentJob' = currentJob
      BY <2>3
    <3>2. pc[history[k]] = "cut"
      BY <3>1 DEF HistoryInv, HistoryConsistent
    <3> QED BY <2>2, <3>2
  <2> QED BY <1>b, <2>1, <2>3, <2>4 DEF HistoryConsistent
<1> QED BY <1>2, <1>3, <1>4, <1>5 DEF HistoryInv

LEMMA HistoryStep == Typed /\ HistoryInv /\ [StopNext]_vars => HistoryInv'
<1> SUFFICES ASSUME Typed, HistoryInv, [StopNext]_vars PROVE HistoryInv'
  OBVIOUS
<1>a. TypeOK
  BY DEF Typed
<1>b. /\ history \in Seq(Jobs \cup {None}) /\ Len(history) \in Nat
      /\ \A k \in 1..Len(history) : history[k] \in Jobs \cup {None}
  <2>1. history \in Seq(Jobs \cup {None})
    BY <1>a DEF TypeOK
  <2> QED BY <2>1
<1>c. /\ pc \in [Jobs -> Labels] /\ None \notin Jobs /\ currentJob \in Jobs \cup {None}
      /\ historySize \in Nat \ {0} /\ raised \in BOOLEAN /\ jammed \in BOOLEAN
  BY <1>a, JobsAssumption, SizesAssumption DEF TypeOK
<1> DEFINE Kept == /\ UNCHANGED <<history, historySize, raised, jammed>>
                   /\ \A i \in Jobs : /\ pc'[i] = "cut" <=> pc[i] = "cut"
                                      /\ pc[i] \in Archived => pc'[i] \in Archived
                   /\ \/ currentJob' = currentJob
                      \/ currentJob' \in Jobs /\ pc'[currentJob'] \notin Archived
                   /\ \/ stop' = stop
                      \/ stop' # "panicked" /\ (stop' = "marking" => Cutting = {})
<1>d. Kept => HistoryInv'
  BY HistoryKept
<1> USE <1>c DEF Archived, jobVars, serverVars, globalVars
<1>1. ASSUME NEW j \in Jobs, NEW r \in Requests, Accept(j, r) PROVE Kept
  BY <1>1 DEF Accept, Goto
<1>2. ASSUME NEW j \in Jobs, Preselect(j) PROVE Kept
  BY <1>2 DEF Preselect, Goto
<1>3. ASSUME NEW j \in Jobs, SetRunLog(j) PROVE Kept
  BY <1>3 DEF SetRunLog, Goto
<1>4. ASSUME NEW j \in Jobs, LoadConfig(j) PROVE Kept
  BY <1>4 DEF LoadConfig, Proceed, Fail, Goto
<1>5. ASSUME NEW j \in Jobs, Resolve(j) PROVE Kept
  BY <1>5 DEF Resolve, Fail, Goto
<1>6. ASSUME NEW j \in Jobs, Collect(j) PROVE Kept
  BY <1>6 DEF Collect, Proceed, Fail, Goto
<1>7. ASSUME NEW j \in Jobs, OncePipeline(j) PROVE Kept
  BY <1>7 DEF OncePipeline, Proceed, Goto
<1>8. ASSUME NEW j \in Jobs, SSHTests(j) PROVE Kept
  BY <1>8 DEF SSHTests, Goto
<1>9. ASSUME NEW j \in Jobs, Export(j) PROVE Kept
  BY <1>9 DEF Export, Proceed, Fail, Goto
<1>10. ASSUME NEW j \in Jobs, ClearRunLog(j) PROVE Kept
  BY <1>10 DEF ClearRunLog, Goto
<1>11. ASSUME NEW j \in Jobs, ReadStatus(j) PROVE Kept
  BY <1>11 DEF ReadStatus, Proceed, Goto
<1>12. ASSUME NEW j \in Jobs, MarkDone(j) PROVE Kept
  BY <1>12 DEF MarkDone, Goto
<1>13. ASSUME NEW j \in Jobs, MarkFailed(j) PROVE Kept
  BY <1>13 DEF MarkFailed, Goto
<1>14. ASSUME NEW j \in Jobs, ClearPreselection(j) PROVE Kept
  BY <1>14 DEF ClearPreselection, Goto
<1>16. ASSUME NEW j \in Jobs, PublishFinish(j) PROVE Kept
  BY <1>16 DEF PublishFinish, Proceed, Goto
<1>18. ASSUME ShutdownMark PROVE Kept
  BY <1>18 DEF ShutdownMark, MuFree
<1>19. ASSUME ShutdownError PROVE Kept
  BY <1>19 DEF ShutdownError
<1>20. ASSUME Exit PROVE Kept
  BY <1>20 DEF Exit
<1>21. ASSUME UNCHANGED vars PROVE Kept
  BY <1>21 DEF vars
<1> HIDE DEF Kept
<1> DEFINE Listed(k) == k \in 1..Len(history) /\ history[k] # None
<1>e. /\ \A k, l : Listed(k) /\ Listed(l) /\ history[k] = history[l] => k = l
      /\ \A k : Listed(k) => history[k] \in Jobs /\ pc[history[k]] \in Archived
      /\ \A k : Listed(k) /\ history[k] = currentJob => pc[history[k]] = "cut"
  BY <1>b DEF HistoryInv, HistoryConsistent
<1>15. ASSUME NEW j \in Jobs, Archive(j) PROVE HistoryInv'
  <2> DEFINE new == <<j>> \o history
  <2>1. /\ Len(new) = Len(history) + 1
        /\ \A k \in 1..Len(new) : new[k] = IF k = 1 THEN j ELSE history[k - 1]
    BY <1>b, PrependFacts
  <2>2. /\ history' = new /\ pc[j] = "archive" /\ Cutting = {} /\ stop # "marking" /\ ~jammed
        /\ UNCHANGED <<historySize, raised, jammed, stop>>
    BY <1>15 DEF Archive, MuFree
  <2>3. \/ /\ pc' = [pc EXCEPT ![j] = "cut"] /\ currentJob' = currentJob
           /\ Len(new) > historySize
        \/ /\ pc' = [pc EXCEPT ![j] = "publish"]
           /\ currentJob' = IF currentJob = j THEN None ELSE currentJob
    BY <1>15 DEF Archive, Goto, Release
  <2> HIDE DEF new
  <2>4. Cutting' \subseteq {j} /\ (Cutting' # {} => Len(new) > historySize)
    BY <2>2, <2>3 DEF Cutting
  <2>5. MutexInv'
    BY <2>2, <2>4 DEF MutexInv
  <2>6. CutInv'
    BY <1>b, <2>1, <2>2, <2>4 DEF CutInv
  <2>7. \A k \in 1..Len(new) : k # 1 => k - 1 \in 1..Len(history)
    BY <1>b, <2>1
  <2>8. \A k \in 1..Len(history) : history[k] # j
    BY <1>e, <2>2
  <2>9. HistoryIsWhole'
    <3>1. CASE raised
      BY <2>2, <3>1 DEF HistoryIsWhole
    <3>2. CASE ~raised
      <4>1. stop # "panicked" /\ \A k \in 1..Len(history) : history[k] # None
        BY <3>2 DEF HistoryInv, HistoryIsWhole
      <4>2. \A k \in 1..Len(new) : new[k] # None
        BY <2>1, <2>7, <4>1
      <4> QED BY <2>2, <4>1, <4>2 DEF HistoryIsWhole
    <3> QED BY <3>1, <3>2
  <2>10. HistoryConsistent'
    <3>1. \A k, l \in 1..Len(new) : new[k] # None /\ new[l] # None /\ new[k] = new[l] => k = l
      <4> SUFFICES ASSUME NEW k \in 1..Len(new), NEW l \in 1..Len(new),
                          new[k] # None, new[k] = new[l]
                   PROVE  k = l
        OBVIOUS
      <4>1. CASE k = 1 \/ l = 1
        BY <2>1, <2>7, <2>8, <4>1
      <4>2. CASE k # 1 /\ l # 1
        <5>1. k - 1 \in 1..Len(history) /\ l - 1 \in 1..Len(history)
          BY <2>7, <4>2
        <5>2. history[k - 1] = history[l - 1] /\ history[k - 1] # None
          BY <2>1, <4>2
        <5>3. k - 1 = l - 1
          BY <1>e, <5>1, <5>2
        <5> QED BY <5>3, <2>1, <1>b
      <4> QED BY <4>1, <4>2
    <3>a. pc'[j] \in Archived /\ \A i \in Jobs : i # j => pc'[i] = pc[i]
      BY <2>3
    <3>2. \A k \in 1..Len(new) : new[k] # None => pc'[new[k]] \in Archived
      <4> SUFFICES ASSUME NEW k \in 1..Len(new), new[k] # None PROVE pc'[new[k]] \in Archived
        OBVIOUS
      <4>1. CASE k = 1
        BY <2>1, <3>a, <4>1
      <4>2. CASE k # 1
        <5>1. Listed(k - 1) /\ new[k] = history[k - 1]
          BY <2>1, <2>7, <4>2
        <5>2. history[k - 1] \in Jobs /\ history[k - 1] # j /\ pc[history[k - 1]] \in Archived
          BY <1>e, <2>8, <5>1
        <5> QED BY <3>a, <5>1, <5>2
      <4> QED BY <4>1, <4>2
    <3>3. \A k \in 1..Len(new) : new[k] # None /\ new[k] = currentJob' => pc'[new[k]] = "cut"
      <4> SUFFICES ASSUME NEW k \in 1..Len(new), new[k] # None, new[k] = currentJob'
                   PROVE  pc'[new[k]] = "cut"
        OBVIOUS
      <4>1. CASE k = 1
        BY <2>1, <2>3, <4>1
      <4>2. CASE k # 1
        <5>1. Listed(k - 1) /\ new[k] = history[k - 1]
          BY <2>1, <2>7, <4>2
        <5>2. history[k - 1] = currentJob
          BY <2>3, <5>1
        <5>3. history[k - 1] \in Jobs /\ pc[history[k - 1]] = "cut"
          BY <1>e, <5>1, <5>2
        <5> QED BY <2>2, <5>3 DEF Cutting
      <4> QED BY <4>1, <4>2
    <3> QED BY <2>2, <3>1, <3>2, <3>3 DEF HistoryConsistent
  <2> QED BY <2>5, <2>6, <2>9, <2>10 DEF HistoryInv
<1>17. ASSUME NEW j \in Jobs, Cut(j) PROVE HistoryInv'
  <2>1. /\ pc[j] = "cut" /\ j \in Cutting /\ \A i \in Jobs : pc[i] = "cut" => i = j
        /\ stop # "marking" /\ ~jammed
        /\ UNCHANGED <<historySize, raised, jammed>>
    <3>1. pc[j] = "cut" /\ UNCHANGED <<historySize, raised, jammed>>
      BY <1>17 DEF Cut, Goto
    <3>2. j \in Cutting
      BY <3>1 DEF Cutting
    <3> QED BY <3>1, <3>2 DEF HistoryInv, MutexInv, Cutting
  <2>2. CASE stop' = "panicked" /\ historySize > Len(history) /\ UNCHANGED <<pc, history, currentJob>>
    <3>1. raised
      BY <1>b, <2>1, <2>2 DEF HistoryInv, CutInv
    <3>2. Cutting' = Cutting
      BY <2>2 DEF Cutting
    <3>3. MutexInv' /\ CutInv' /\ HistoryIsWhole'
      BY <2>1, <2>2, <3>1, <3>2 DEF HistoryInv, MutexInv, CutInv, HistoryIsWhole
    <3>4. HistoryConsistent'
      BY <2>2 DEF HistoryInv, HistoryConsistent
    <3> QED BY <3>3, <3>4 DEF HistoryInv
  <2>3. CASE Goto(j, "cut", "publish") /\ history' = Slice(history, historySize) /\ Release(j)
             /\ stop' = stop
    <3> DEFINE new == Slice(history, historySize)
    <3>1. /\ Len(new) = historySize
          /\ \A k \in 1..Len(new) : new[k] = IF k <= Len(history) THEN history[k] ELSE None
      BY <1>b, <1>c, SliceFacts
    <3>2. /\ history' = new /\ stop' = stop /\ pc' = [pc EXCEPT ![j] = "publish"]
          /\ currentJob' = IF currentJob = j THEN None ELSE currentJob
      BY <2>3 DEF Goto, Release
    <3> HIDE DEF new
    <3>3. Cutting' = {}
      BY <2>1, <3>2 DEF Cutting
    <3>4. MutexInv' /\ CutInv'
      BY <3>3 DEF MutexInv, CutInv
    <3>5. \A k \in 1..Len(new) : new[k] # None => Listed(k) /\ new[k] = history[k]
      BY <1>b, <1>c, <3>1
    <3>6. HistoryIsWhole'
      <4>1. CASE raised
        BY <2>1, <4>1 DEF HistoryIsWhole
      <4>2. CASE ~raised
        <5>1. stop # "panicked" /\ \A k \in 1..Len(history) : history[k] # None
          BY <4>2 DEF HistoryInv, HistoryIsWhole
        <5>2. historySize <= Len(history)
          BY <2>1, <4>2 DEF HistoryInv, CutInv
        <5>3. \A k \in 1..Len(new) : new[k] # None
          BY <1>b, <1>c, <3>1, <5>1, <5>2
        <5> QED BY <2>1, <3>2, <5>1, <5>3 DEF HistoryIsWhole
      <4> QED BY <4>1, <4>2
    <3>7. HistoryConsistent'
      <4>1. \A k, l \in 1..Len(new) : new[k] # None /\ new[l] # None /\ new[k] = new[l] => k = l
        BY <1>e, <3>5
      <4>2. \A k \in 1..Len(new) : new[k] # None => pc'[new[k]] \in Archived
        BY <1>e, <3>2, <3>5
      <4>3. \A k \in 1..Len(new) : new[k] # None => new[k] # currentJob'
        <5> SUFFICES ASSUME NEW k \in 1..Len(new), new[k] # None, new[k] = currentJob' PROVE FALSE
          OBVIOUS
        <5>1. currentJob = history[k] /\ currentJob # j /\ Listed(k)
          BY <3>2, <3>5
        <5>2. pc[history[k]] = "cut" /\ history[k] \in Jobs
          BY <1>e, <5>1
        <5> QED BY <2>1, <5>1, <5>2
      <4> QED BY <3>2, <4>1, <4>2, <4>3 DEF HistoryConsistent
    <3> QED BY <3>4, <3>6, <3>7 DEF HistoryInv
  <2> QED BY <1>17, <2>2, <2>3 DEF Cut
<1>22. ASSUME SetHistorySize PROVE HistoryInv'
  <2>1. /\ UNCHANGED <<pc, history, currentJob, jammed, stop>>
        /\ raised' = (raised \/ (Cutting # {} /\ historySize' > Len(history)))
        /\ historySize' \in Nat
    BY <1>22, SizesAssumption DEF SetHistorySize
  <2>2. Cutting' = Cutting
    BY <2>1 DEF Cutting
  <2>3. MutexInv' /\ HistoryIsWhole'
    BY <2>1, <2>2 DEF HistoryInv, MutexInv, HistoryIsWhole
  <2>4. CutInv'
    <3> SUFFICES ASSUME Cutting' # {}, ~raised' PROVE historySize' <= Len(history')
      BY DEF CutInv
    <3>1. ~(historySize' > Len(history))
      BY <2>1, <2>2
    <3> QED BY <1>b, <2>1, <3>1
  <2>5. HistoryConsistent'
    BY <2>1 DEF HistoryInv, HistoryConsistent
  <2> QED BY <2>3, <2>4, <2>5 DEF HistoryInv
<1>23. ASSUME ReadHistory PROVE HistoryInv'
  <2>1. /\ UNCHANGED <<pc, history, historySize, currentJob, raised, stop>> /\ Cutting = {}
        /\ \E k \in 1..Len(history) : history[k] = None
    BY <1>23 DEF ReadHistory, MuFree
  <2>2. Cutting' = {}
    BY <2>1 DEF Cutting
  <2>3. raised
    BY <2>1 DEF HistoryInv, HistoryIsWhole
  <2>4. MutexInv' /\ CutInv' /\ HistoryIsWhole'
    BY <2>1, <2>2, <2>3 DEF MutexInv, CutInv, HistoryIsWhole
  <2>5. HistoryConsistent'
    BY <2>1 DEF HistoryInv, HistoryConsistent
  <2> QED BY <2>4, <2>5 DEF HistoryInv
<1>24. Kept \/ HistoryInv'
  BY <1>1, <1>2, <1>3, <1>4, <1>5, <1>6, <1>7, <1>8, <1>9, <1>10, <1>11, <1>12, <1>13,
     <1>14, <1>15, <1>16, <1>17, <1>18, <1>19, <1>20, <1>21, <1>22, <1>23
     DEF StopNext, JobNext, RunJob, Finisher, ShutdownNext
<1> QED
  BY <1>d, <1>24

LEMMA HistoryAlways == StoppingSpec => [](Typed /\ HistoryInv)
<1>1. Init => HistoryInv
  <2>1. 1..Len(<< >>) = {}
    OBVIOUS
  <2> QED BY <2>1 DEF Init, HistoryInv, MutexInv, CutInv, Cutting, HistoryConsistent, HistoryIsWhole
<1> QED
  BY <1>1, TypedInit, TypedStep, HistoryStep, PTL DEF StoppingSpec, StopNext

\* However runs, changes of the length and a shutdown come together: the history lists
\* each job once, archived ones only, and not the current one but under the mutex.
THEOREM HistoryCorrect == StoppingSpec => []HistoryConsistent
<1>1. HistoryInv => HistoryConsistent
  BY DEF HistoryInv
<1> QED
  BY <1>1, HistoryAlways, PTL

\* Entries that are no job, the panic of a finisher and a mutex left locked all take a
\* length that was raised past the list between the test of it and the cut.
THEOREM HistoryStaysWhole == StoppingSpec => []HistoryIsWhole
<1>1. HistoryInv => HistoryIsWhole
  BY DEF HistoryInv
<1> QED
  BY <1>1, HistoryAlways, PTL

-------------------------------------------------------------------------------
(* The preselection.  Whoever set it is still on the way to the step that     *)
(* clears it, so it never outlives all its possible owners - even when runs   *)
(* overlap and clear one another's.                                           *)

LEMMA OwnerStep == Typed /\ PreselectionHasOwner /\ [StopNext]_vars => PreselectionHasOwner'
<1> SUFFICES ASSUME Typed, PreselectionHasOwner, [StopNext]_vars
             PROVE  PreselectionHasOwner'
  OBVIOUS
<1>a. /\ pc \in [Jobs -> Labels]
      /\ req \in [Jobs -> Requests \cup {None}]
  BY DEF Typed, TypeOK
<1> USE <1>a DEF PreselectionHasOwner, Running, Body, Cleaning, jobVars, serverVars, globalVars
<1>1. ASSUME NEW j \in Jobs, NEW r \in Requests, Accept(j, r) PROVE PreselectionHasOwner'
  BY <1>1 DEF Accept, Goto
<1>2. ASSUME NEW j \in Jobs, Preselect(j) PROVE PreselectionHasOwner'
  BY <1>2 DEF Preselect, Goto
<1>3. ASSUME NEW j \in Jobs, SetRunLog(j) PROVE PreselectionHasOwner'
  BY <1>3 DEF SetRunLog, Goto
<1>4. ASSUME NEW j \in Jobs, LoadConfig(j) PROVE PreselectionHasOwner'
  BY <1>4 DEF LoadConfig, Proceed, Fail, Goto
<1>5. ASSUME NEW j \in Jobs, Resolve(j) PROVE PreselectionHasOwner'
  BY <1>5 DEF Resolve, Fail, Goto
<1>6. ASSUME NEW j \in Jobs, Collect(j) PROVE PreselectionHasOwner'
  BY <1>6 DEF Collect, Proceed, Fail, Goto
<1>7. ASSUME NEW j \in Jobs, OncePipeline(j) PROVE PreselectionHasOwner'
  BY <1>7 DEF OncePipeline, Proceed, Goto
<1>8. ASSUME NEW j \in Jobs, SSHTests(j) PROVE PreselectionHasOwner'
  BY <1>8 DEF SSHTests, Goto
<1>9. ASSUME NEW j \in Jobs, Export(j) PROVE PreselectionHasOwner'
  BY <1>9 DEF Export, Proceed, Fail, Goto
<1>10. ASSUME NEW j \in Jobs, ClearRunLog(j) PROVE PreselectionHasOwner'
  BY <1>10 DEF ClearRunLog, Goto
<1>11. ASSUME NEW j \in Jobs, ReadStatus(j) PROVE PreselectionHasOwner'
  BY <1>11 DEF ReadStatus, Proceed, Goto
<1>12. ASSUME NEW j \in Jobs, MarkDone(j) PROVE PreselectionHasOwner'
  BY <1>12 DEF MarkDone, Goto
<1>13. ASSUME NEW j \in Jobs, MarkFailed(j) PROVE PreselectionHasOwner'
  BY <1>13 DEF MarkFailed, Goto
<1>14. ASSUME NEW j \in Jobs, ClearPreselection(j) PROVE PreselectionHasOwner'
  BY <1>14 DEF ClearPreselection, Goto
<1>15. ASSUME NEW j \in Jobs, Archive(j) PROVE PreselectionHasOwner'
  BY <1>15 DEF Archive, Goto
<1>22. ASSUME NEW j \in Jobs, Cut(j) PROVE PreselectionHasOwner'
  BY <1>22 DEF Cut, Goto
<1>23. ASSUME ReadHistory PROVE PreselectionHasOwner'
  BY <1>23 DEF ReadHistory
<1>16. ASSUME NEW j \in Jobs, PublishFinish(j) PROVE PreselectionHasOwner'
  BY <1>16 DEF PublishFinish, Proceed, Goto
<1>17. ASSUME SetHistorySize PROVE PreselectionHasOwner'
  BY <1>17 DEF SetHistorySize
<1>18. ASSUME ShutdownMark PROVE PreselectionHasOwner'
  BY <1>18 DEF ShutdownMark
<1>19. ASSUME ShutdownError PROVE PreselectionHasOwner'
  BY <1>19 DEF ShutdownError
<1>20. ASSUME Exit PROVE PreselectionHasOwner'
  BY <1>20 DEF Exit
<1>21. CASE UNCHANGED vars
  BY <1>21 DEF vars
<1> QED
  BY <1>1, <1>2, <1>3, <1>4, <1>5, <1>6, <1>7, <1>8, <1>9, <1>10, <1>11, <1>12,
     <1>13, <1>14, <1>15, <1>16, <1>17, <1>18, <1>19, <1>20, <1>21, <1>22, <1>23
     DEF StopNext, JobNext, RunJob, Finisher, ShutdownNext

\* No preselection outlives every run that could have set it.
THEOREM PreselectionOwned == StoppingSpec => []PreselectionHasOwner
<1>1. Init => PreselectionHasOwner
  BY DEF Init, PreselectionHasOwner
<1>2. StoppingSpec => [](Typed /\ PreselectionHasOwner)
  BY <1>1, TypedInit, TypedStep, OwnerStep, PTL DEF StoppingSpec, StopNext
<1> QED
  BY <1>2, PTL

-------------------------------------------------------------------------------
(* The verdict.  Without a shutdown the finisher always finds "running", so   *)
(* it writes "done" and then, for a failed job only, "failed".                *)

Verdict == \A j \in Jobs :
  /\ pc[j] = "markFailed" => status[j] = "done"
  /\ pc[j] \in {"clearProject", "archive"} \cup Archived =>
       status[j] = IF error[j] THEN "failed" ELSE "done"

LEMMA VerdictStep == Typed /\ Exclusive /\ Verdict /\ [JobNext]_vars => Verdict'
<1> SUFFICES ASSUME Typed, Exclusive, Verdict, [JobNext]_vars PROVE Verdict'
  OBVIOUS
<1>a. TypeOK
  BY DEF Typed
<1> USE <1>a DEF TypeOK, Verdict, Archived, jobVars, serverVars, globalVars
<1>1. ASSUME NEW j \in Jobs, NEW r \in Requests, Accept(j, r) PROVE Verdict'
  BY <1>1 DEF Accept, Goto
<1>2. ASSUME NEW j \in Jobs, Preselect(j) PROVE Verdict'
  BY <1>2 DEF Preselect, Goto
<1>3. ASSUME NEW j \in Jobs, SetRunLog(j) PROVE Verdict'
  BY <1>3 DEF SetRunLog, Goto
<1>4. ASSUME NEW j \in Jobs, LoadConfig(j) PROVE Verdict'
  BY <1>4 DEF LoadConfig, Proceed, Fail, Goto
<1>5. ASSUME NEW j \in Jobs, Resolve(j) PROVE Verdict'
  BY <1>5 DEF Resolve, Fail, Goto
<1>6. ASSUME NEW j \in Jobs, Collect(j) PROVE Verdict'
  BY <1>6 DEF Collect, Proceed, Fail, Goto
<1>7. ASSUME NEW j \in Jobs, OncePipeline(j) PROVE Verdict'
  BY <1>7 DEF OncePipeline, Proceed, Goto
<1>8. ASSUME NEW j \in Jobs, SSHTests(j) PROVE Verdict'
  BY <1>8 DEF SSHTests, Goto
<1>9. ASSUME NEW j \in Jobs, Export(j) PROVE Verdict'
  BY <1>9 DEF Export, Proceed, Fail, Goto
<1>10. ASSUME NEW j \in Jobs, ClearRunLog(j) PROVE Verdict'
  BY <1>10 DEF ClearRunLog, Goto
<1>11. ASSUME NEW j \in Jobs, ReadStatus(j) PROVE Verdict'
  <2>1. status[j] = "running"
    BY <1>11 DEF ReadStatus, Proceed, Goto, Exclusive, Running
  <2> QED BY <1>11, <2>1 DEF ReadStatus, Proceed, Goto
<1>12. ASSUME NEW j \in Jobs, MarkDone(j) PROVE Verdict'
  BY <1>12 DEF MarkDone, Goto
<1>13. ASSUME NEW j \in Jobs, MarkFailed(j) PROVE Verdict'
  BY <1>13 DEF MarkFailed, Goto
<1>14. ASSUME NEW j \in Jobs, ClearPreselection(j) PROVE Verdict'
  BY <1>14 DEF ClearPreselection, Goto
<1>15. ASSUME NEW j \in Jobs, Archive(j) PROVE Verdict'
  BY <1>15 DEF Archive, Goto
<1>19. ASSUME NEW j \in Jobs, Cut(j) PROVE Verdict'
  BY <1>19 DEF Cut, Goto
<1>20. ASSUME ReadHistory PROVE Verdict'
  BY <1>20 DEF ReadHistory
<1>16. ASSUME NEW j \in Jobs, PublishFinish(j) PROVE Verdict'
  BY <1>16 DEF PublishFinish, Proceed, Goto
<1>17. ASSUME SetHistorySize PROVE Verdict'
  BY <1>17 DEF SetHistorySize
<1>18. CASE UNCHANGED vars
  BY <1>18 DEF vars
<1> QED
  BY <1>1, <1>2, <1>3, <1>4, <1>5, <1>6, <1>7, <1>8, <1>9, <1>10, <1>11, <1>12,
     <1>13, <1>14, <1>15, <1>16, <1>17, <1>18, <1>19, <1>20
     DEF JobNext, RunJob, Finisher

\* On a server nobody stops, a job is archived as "failed" exactly when it
\* carries an error.
THEOREM VerdictCorrect == Spec => []VerdictMatchesError
<1>1. Init => Verdict
  BY DEF Init, Verdict, Archived
<1>2. Spec => [](Typed /\ Exclusive /\ Verdict)
  BY <1>1, ExclusiveAlways, VerdictStep, PTL DEF Spec
<1>3. Verdict => VerdictMatchesError
  BY DEF Verdict, VerdictMatchesError
<1> QED
  BY <1>2, <1>3, PTL

-------------------------------------------------------------------------------
(* Refinement: accepting a job starts it in RunGate, writing "done" ends it   *)
(* with the verdict its error already determines, every other step stutters.  *)

Phase(j) == IF pc[j] = "new" THEN "idle" ELSE IF pc[j] \in Running THEN "running" ELSE "ended"
Outcome(j) == IF pc[j] = "new" \/ pc[j] \in Running THEN "open"
              ELSE IF error[j] THEN "failed" ELSE "done"

\* A step that leaves the phase and the outcome of every job alone stutters.
LEMMA Stutter ==
  ASSUME \A i \in Jobs : Phase(i)' = Phase(i) /\ Outcome(i)' = Outcome(i)
  PROVE  UNCHANGED Gate!vars
BY DEF Phase, Outcome, Gate!vars

LEMMA GateStep == Typed /\ Exclusive /\ [JobNext]_vars => [Gate!Next]_(Gate!vars)
<1> SUFFICES ASSUME Typed, Exclusive, [JobNext]_vars PROVE [Gate!Next]_(Gate!vars)
  OBVIOUS
<1>a. /\ pc \in [Jobs -> Labels]
      /\ error \in [Jobs -> BOOLEAN]
      /\ currentJob \in Jobs \cup {None}
  BY DEF Typed, TypeOK
<1> DEFINE Still == \A i \in Jobs : Phase(i)' = Phase(i) /\ Outcome(i)' = Outcome(i)
<1> USE <1>a DEF Running, Body, jobVars, serverVars, globalVars
<1>1. ASSUME NEW j \in Jobs, NEW r \in Requests, Accept(j, r) PROVE Gate!Start(j)
  <2>1. \A i \in Jobs : pc[i] \notin Running
    BY <1>1 DEF Accept, GateOpen, Exclusive
  <2>2. pc[j] = "new" /\ pc' = [pc EXCEPT ![j] = "preselect"] /\ error' = error
    BY <1>1 DEF Accept, Goto
  <2> QED BY <2>1, <2>2 DEF Gate!Start
<1>2. ASSUME NEW j \in Jobs, MarkDone(j) PROVE Gate!End(j)
  <2>1. pc[j] = "markDone" /\ pc' = [pc EXCEPT ![j] = "markFailed"] /\ error' = error
    BY <1>2 DEF MarkDone, Goto
  <2>2. CASE error[j]
    BY <2>1, <2>2 DEF Gate!End
  <2>3. CASE ~error[j]
    BY <2>1, <2>3 DEF Gate!End
  <2> QED BY <2>2, <2>3
<1>3. ASSUME NEW j \in Jobs, Preselect(j) PROVE Still
  BY <1>3 DEF Preselect, Goto, Phase, Outcome
<1>4. ASSUME NEW j \in Jobs, SetRunLog(j) PROVE Still
  BY <1>4 DEF SetRunLog, Goto, Phase, Outcome
<1>5. ASSUME NEW j \in Jobs, LoadConfig(j) PROVE Still
  BY <1>5 DEF LoadConfig, Proceed, Fail, Goto, Phase, Outcome
<1>6. ASSUME NEW j \in Jobs, Resolve(j) PROVE Still
  BY <1>6 DEF Resolve, Fail, Goto, Phase, Outcome
<1>7. ASSUME NEW j \in Jobs, Collect(j) PROVE Still
  BY <1>7 DEF Collect, Proceed, Fail, Goto, Phase, Outcome
<1>8. ASSUME NEW j \in Jobs, OncePipeline(j) PROVE Still
  BY <1>8 DEF OncePipeline, Proceed, Goto, Phase, Outcome
<1>9. ASSUME NEW j \in Jobs, SSHTests(j) PROVE Still
  BY <1>9 DEF SSHTests, Goto, Phase, Outcome
<1>10. ASSUME NEW j \in Jobs, Export(j) PROVE Still
  BY <1>10 DEF Export, Proceed, Fail, Goto, Phase, Outcome
<1>11. ASSUME NEW j \in Jobs, ClearRunLog(j) PROVE Still
  BY <1>11 DEF ClearRunLog, Goto, Phase, Outcome
<1>12. ASSUME NEW j \in Jobs, ReadStatus(j) PROVE Still
  <2>1. status[j] = "running"
    BY <1>12 DEF ReadStatus, Proceed, Goto, Exclusive
  <2> QED BY <1>12, <2>1 DEF ReadStatus, Proceed, Goto, Phase, Outcome
<1>13. ASSUME NEW j \in Jobs, MarkFailed(j) PROVE Still
  BY <1>13 DEF MarkFailed, Goto, Phase, Outcome
<1>14. ASSUME NEW j \in Jobs, ClearPreselection(j) PROVE Still
  BY <1>14 DEF ClearPreselection, Goto, Phase, Outcome
<1>15. ASSUME NEW j \in Jobs, Archive(j) PROVE Still
  BY <1>15 DEF Archive, Goto, Phase, Outcome
<1>20. ASSUME NEW j \in Jobs, Cut(j) PROVE Still
  BY <1>20 DEF Cut, Goto, Phase, Outcome
<1>21. ASSUME ReadHistory PROVE Still
  BY <1>21 DEF ReadHistory, Phase, Outcome
<1>16. ASSUME NEW j \in Jobs, PublishFinish(j) PROVE Still
  BY <1>16 DEF PublishFinish, Proceed, Goto, Phase, Outcome
<1>17. ASSUME SetHistorySize PROVE Still
  BY <1>17 DEF SetHistorySize, Phase, Outcome
<1>18. ASSUME UNCHANGED vars PROVE Still
  BY <1>18 DEF vars, Phase, Outcome
<1> HIDE DEF Still
<1>19. Still \/ Gate!Next
  BY <1>1, <1>2,
     <1>3, <1>4, <1>5, <1>6, <1>7, <1>8, <1>9, <1>10, <1>11, <1>12, <1>13, <1>14,
     <1>15, <1>16, <1>17, <1>18, <1>20, <1>21
     DEF JobNext, RunJob, Finisher, Gate!Next
<1> QED
  BY <1>19, Stutter DEF Still

\* The server nobody stops implements RunGate: one run at a time, each ending
\* once, with a verdict that never changes.
THEOREM WebJobImplementsGate == Spec => ImplementsGate
<1>1. Init => Gate!Init
  BY DEF Init, Gate!Init, Running, Body
<1>2. Spec => []([Gate!Next]_(Gate!vars))
  BY ExclusiveAlways, GateStep, PTL DEF Spec
<1> QED
  BY <1>1, <1>2, PTL DEF ImplementsGate, Gate!Spec, Spec

-------------------------------------------------------------------------------
(* The choice of project.  A job let in while no finisher lingers finds the   *)
(* preselection cleared (PreselectionHasOwner), and until it resolves no job  *)
(* exists that could write it: the others are not running (Exclusive) and     *)
(* none can begin to clean up without having run.                             *)

Undisturbed == \A j \in Jobs :
  /\ pc[j] = "new" => chosen[j] = None
  /\ j \notin overlapped =>
       /\ pc[j] \in Running => \A i \in Jobs : pc[i] \notin Cleaning
       /\ pc[j] = "preselect" => webProjectID = None
       /\ pc[j] \in {"setLog", "load", "resolve"} => webProjectID = req[j].projectId
       /\ chosen[j] # None /\ Ambiguous(req[j].matches) => chosen[j] = req[j].projectId

LEMMA UndisturbedStep ==
  Typed /\ Exclusive /\ PreselectionHasOwner /\ Undisturbed /\ [JobNext]_vars => Undisturbed'
<1> SUFFICES ASSUME Typed, Exclusive, PreselectionHasOwner, Undisturbed, [JobNext]_vars
             PROVE  Undisturbed'
  OBVIOUS
<1>a. /\ pc \in [Jobs -> Labels]
      /\ req \in [Jobs -> Requests \cup {None}]
      /\ chosen \in [Jobs -> Projects \cup {None}]
  BY DEF Typed, TypeOK
<1> USE <1>a DEF Running, Body, Cleaning, jobVars, serverVars, globalVars
<1>1. ASSUME NEW j \in Jobs, NEW r \in Requests, Accept(j, r) PROVE Undisturbed'
  <2>1. \A i \in Jobs : pc[i] \notin Running
    BY <1>1 DEF Accept, GateOpen, Exclusive
  <2>2. CASE Lingering = {}
    <3>1. webProjectID = None
      BY <2>1, <2>2 DEF PreselectionHasOwner, Lingering
    <3> QED BY <1>1, <2>1, <2>2, <3>1 DEF Accept, Goto, Undisturbed, Lingering
  <2>3. CASE Lingering # {}
    <3>1. overlapped' = overlapped \cup {j}
      BY <1>1, <2>3 DEF Accept
    <3> QED BY <1>1, <2>1, <3>1 DEF Accept, Goto, Undisturbed
  <2> QED BY <2>2, <2>3
<1>2. ASSUME NEW j \in Jobs, Preselect(j) PROVE Undisturbed'
  <2>1. req[j] \in Requests
    BY <1>2 DEF Preselect, Goto, Typed, Requested
  <2>2. \A i \in Jobs : pc[i] \in Running => i = j
    BY <1>2 DEF Preselect, Goto, Exclusive
  <2> QED BY <1>2, <2>1, <2>2 DEF Preselect, Goto, Undisturbed
<1>3. ASSUME NEW j \in Jobs, SetRunLog(j) PROVE Undisturbed'
  BY <1>3 DEF SetRunLog, Goto, Undisturbed
<1>4. ASSUME NEW j \in Jobs, LoadConfig(j) PROVE Undisturbed'
  BY <1>4 DEF LoadConfig, Proceed, Fail, Goto, Undisturbed
<1>5. ASSUME NEW j \in Jobs, Resolve(j) PROVE Undisturbed'
  <2>1. CASE Fail(j, "resolve")
    BY <2>1 DEF Fail, Goto, Undisturbed
  <2>2. CASE ~Fail(j, "resolve")
    <3>1. PICK p \in Choice(j) : chosen' = [chosen EXCEPT ![j] = p]
      BY <1>5, <2>2 DEF Resolve
    <3>2. Ambiguous(req[j].matches) => p = webProjectID
      BY <3>1 DEF Choice
    <3>3. pc[j] = "resolve" /\ pc' = [pc EXCEPT ![j] = "collect"]
      BY <1>5, <2>2 DEF Resolve, Goto
    <3>4. UNCHANGED <<req, overlapped, webProjectID>>
      BY <1>5, <2>2 DEF Resolve
    <3> QED BY <3>1, <3>2, <3>3, <3>4 DEF Undisturbed
  <2> QED BY <2>1, <2>2
<1>6. ASSUME NEW j \in Jobs, Collect(j) PROVE Undisturbed'
  BY <1>6 DEF Collect, Proceed, Fail, Goto, Undisturbed
<1>7. ASSUME NEW j \in Jobs, OncePipeline(j) PROVE Undisturbed'
  BY <1>7 DEF OncePipeline, Proceed, Goto, Undisturbed
<1>8. ASSUME NEW j \in Jobs, SSHTests(j) PROVE Undisturbed'
  BY <1>8 DEF SSHTests, Goto, Undisturbed
<1>9. ASSUME NEW j \in Jobs, Export(j) PROVE Undisturbed'
  BY <1>9 DEF Export, Proceed, Fail, Goto, Undisturbed
<1>10. ASSUME NEW j \in Jobs, ClearRunLog(j) PROVE Undisturbed'
  BY <1>10 DEF ClearRunLog, Goto, Undisturbed
<1>11. ASSUME NEW j \in Jobs, ReadStatus(j) PROVE Undisturbed'
  <2>1. status[j] = "running"
    BY <1>11 DEF ReadStatus, Proceed, Goto, Exclusive
  <2> QED BY <1>11, <2>1 DEF ReadStatus, Proceed, Goto, Undisturbed
<1>12. ASSUME NEW j \in Jobs, MarkDone(j) PROVE Undisturbed'
  <2>1. \A i \in Jobs : pc[i] \in Running => i = j
    BY <1>12 DEF MarkDone, Goto, Exclusive
  <2> QED BY <1>12, <2>1 DEF MarkDone, Goto, Undisturbed
<1>13. ASSUME NEW j \in Jobs, MarkFailed(j) PROVE Undisturbed'
  BY <1>13 DEF MarkFailed, Goto, Undisturbed
<1>14. ASSUME NEW j \in Jobs, ClearPreselection(j) PROVE Undisturbed'
  BY <1>14 DEF ClearPreselection, Goto, Undisturbed
<1>15. ASSUME NEW j \in Jobs, Archive(j) PROVE Undisturbed'
  BY <1>15 DEF Archive, Goto, Undisturbed
<1>19. ASSUME NEW j \in Jobs, Cut(j) PROVE Undisturbed'
  BY <1>19 DEF Cut, Goto, Undisturbed
<1>20. ASSUME ReadHistory PROVE Undisturbed'
  BY <1>20 DEF ReadHistory, Undisturbed
<1>16. ASSUME NEW j \in Jobs, PublishFinish(j) PROVE Undisturbed'
  BY <1>16 DEF PublishFinish, Proceed, Goto, Undisturbed
<1>17. ASSUME SetHistorySize PROVE Undisturbed'
  BY <1>17 DEF SetHistorySize, Undisturbed
<1>18. CASE UNCHANGED vars
  BY <1>18 DEF vars, Undisturbed
<1> QED
  BY <1>1, <1>2, <1>3, <1>4, <1>5, <1>6, <1>7, <1>8, <1>9, <1>10, <1>11, <1>12,
     <1>13, <1>14, <1>15, <1>16, <1>17, <1>18, <1>19, <1>20
     DEF JobNext, RunJob, Finisher

\* A run accepted while no earlier finisher lingers works on the project its
\* own request preselected.
THEOREM OwnPreselection == Spec => []PreselectionIsOwn
<1>1. Init => PreselectionHasOwner /\ Undisturbed
  BY DEF Init, PreselectionHasOwner, Undisturbed, Running, Body
<1>2. Typed /\ PreselectionHasOwner /\ [JobNext]_vars => PreselectionHasOwner'
  BY OwnerStep DEF StopNext
<1>3. Spec => [](Undisturbed)
  BY <1>1, <1>2, ExclusiveAlways, UndisturbedStep, PTL DEF Spec
<1>4. Undisturbed => PreselectionIsOwn
  BY DEF Undisturbed, PreselectionIsOwn
<1> QED
  BY <1>3, <1>4, PTL

\* Whoever gets the mutex after a job was archived finds no more entries than were
\* configured when the length was read for the last time.
THEOREM HistoryStaysBounded == StoppingSpec => HistoryBounded
<1> DEFINE Bounded == history' # history /\ MuFree' => Len(history') <= historySize
<1>1. Typed /\ [StopNext]_vars => [Bounded]_vars
  <2> SUFFICES ASSUME Typed, StopNext, history' # history, MuFree' PROVE Len(history') <= historySize
    BY DEF StopNext
  <2>1. PICK j \in Jobs : Archive(j) \/ Cut(j)
    BY DEF StopNext, JobNext, ShutdownNext, RunJob, Finisher, Accept, Preselect, SetRunLog,
           LoadConfig, Resolve, Collect, OncePipeline, SSHTests, Export, ClearRunLog,
           ReadStatus, MarkDone, MarkFailed, ClearPreselection, PublishFinish, Proceed, Fail,
           SetHistorySize, ReadHistory, ShutdownMark, ShutdownError, Exit, serverVars
  <2>2. /\ history \in Seq(Jobs \cup {None}) /\ historySize \in Nat \ {0}
        /\ pc \in [Jobs -> Labels]
    BY SizesAssumption DEF Typed, TypeOK
  <2>3. CASE Archive(j)
    <3>1. \A i \in Jobs : pc'[i] # "cut"
      BY DEF MuFree, Cutting
    <3>2. ~(Len(history') > historySize)
      BY <2>2, <2>3, <3>1 DEF Archive, Goto
    <3>3. Len(history') \in Nat
      BY <2>2, <2>3, PrependFacts DEF Archive
    <3> QED BY <2>2, <3>2, <3>3
  <2>4. CASE Cut(j)
    <3>1. history' = Slice(history, historySize)
      BY <2>4 DEF Cut
    <3>2. Len(Slice(history, historySize)) = historySize
      BY <2>2, SliceFacts
    <3> QED BY <2>2, <3>1, <3>2
  <2> QED BY <2>1, <2>3, <2>4
<1> QED
  BY <1>1, TypedInit, TypedStep, PTL DEF StoppingSpec, StopNext, HistoryBounded

\* The globals of the package belong to the one run under way.
THEOREM RunsStayApart == Spec => []RunsAreApart
<1>1. OneJobAtATime /\ RunLogIsOwn /\ PreselectionIsOwn => RunsAreApart
  BY DEF RunsAreApart
<1> QED
  BY <1>1, RunsExclude, RunLogOwned, OwnPreselection, PTL

\* A job's way through the history, also with the program being asked to end.
THEOREM LifeCycleCorrect == StoppingSpec => []LifeCycleInv
<1>1. TypeOK /\ HistoryConsistent /\ HistoryIsWhole /\ PreselectionHasOwner => LifeCycleInv
  BY DEF LifeCycleInv
<1> QED
  BY <1>1, TypeCorrect, HistoryCorrect, HistoryStaysWhole, PreselectionOwned, PTL

\* A step writes the status, the error or the results of a run that is under way, or
\* under the mutex of the current one.
LEMMA FinalStep ==
  Typed /\ HistoryInv /\ [StopNext]_vars =>
    \A j \in Jobs : InHistory(j) =>
      /\ status'[j] = status[j] /\ error'[j] = error[j]
      /\ vms'[j] = vms[j]       /\ excel'[j] = excel[j]
<1> SUFFICES ASSUME Typed, HistoryInv, [StopNext]_vars, NEW j \in Jobs, InHistory(j)
             PROVE  /\ status'[j] = status[j] /\ error'[j] = error[j]
                    /\ vms'[j] = vms[j]       /\ excel'[j] = excel[j]
  OBVIOUS
<1> DEFINE Final == /\ status'[j] = status[j] /\ error'[j] = error[j]
                    /\ vms'[j] = vms[j]       /\ excel'[j] = excel[j]
<1>1. pc[j] \in Archived /\ (j = currentJob => j \in Cutting)
  BY JobsAssumption DEF InHistory, HistoryInv, HistoryConsistent, Cutting
<1>2. /\ status \in [Jobs -> {"", "running", "done", "failed"}]
      /\ error \in [Jobs -> BOOLEAN] /\ vms \in [Jobs -> BOOLEAN] /\ excel \in [Jobs -> BOOLEAN]
  BY DEF Typed, TypeOK
<1>3. pc[j] \in {"cut", "publish", "gone"}
  BY <1>1 DEF Archived
<1>4. \A from, to : \A i \in Jobs : Proceed(i, from, to) => Final
  BY DEF Proceed, jobVars
<1>5. \A from : \A i \in Jobs : Fail(i, from) /\ from \notin {"cut", "publish", "gone"} => Final
  BY <1>2, <1>3 DEF Fail, Goto
<1>6. ASSUME NEW i \in Jobs, NEW r \in Requests, Accept(i, r) PROVE Final
  BY <1>2, <1>3, <1>6 DEF Accept, Goto
<1>7. ASSUME NEW i \in Jobs, RunJob(i) PROVE Final
  <2>1. Preselect(i) \/ SetRunLog(i) \/ ClearRunLog(i) \/ ClearPreselection(i)
          \/ Archive(i) \/ Cut(i) => Final
    BY DEF Preselect, SetRunLog, ClearRunLog, ClearPreselection, Archive, Cut, jobVars
  <2>2. LoadConfig(i) \/ Collect(i) \/ OncePipeline(i) \/ ReadStatus(i) \/ PublishFinish(i) => Final
    BY <1>4, <1>5 DEF LoadConfig, Collect, OncePipeline, ReadStatus, PublishFinish
  <2>3. Resolve(i) => Final
    BY <1>5 DEF Resolve, jobVars
  <2>4. SSHTests(i) => Final
    BY <1>2, <1>3 DEF SSHTests, Goto
  <2>5. Export(i) => Final
    <3>1. Proceed(i, "export", "clearLog") \/ Fail(i, "export") => Final
      BY <1>4, <1>5
    <3> QED BY <1>2, <1>3, <3>1 DEF Export, Goto
  <2>6. MarkDone(i) => Final
    BY <1>2, <1>3 DEF MarkDone, Goto
  <2>7. MarkFailed(i) => Final
    BY <1>2, <1>3 DEF MarkFailed, Goto
  <2> QED BY <1>7, <2>1, <2>2, <2>3, <2>4, <2>5, <2>6, <2>7 DEF RunJob, Finisher
<1>8. SetHistorySize \/ ReadHistory \/ Exit \/ UNCHANGED vars => Final
  BY DEF SetHistorySize, ReadHistory, Exit, vars, jobVars
<1>9. ShutdownMark => Final
  BY <1>1, <1>2 DEF ShutdownMark, MuFree
<1>10. ShutdownError => Final
  BY <1>1, <1>2 DEF ShutdownError, HistoryInv, MutexInv
<1> QED BY <1>6, <1>7, <1>8, <1>9, <1>10 DEF StopNext, JobNext, ShutdownNext

\* Once archived a job is final, whenever the program is asked to end: what the page
\* shows of an old run is what it ended with (web.go:753).
THEOREM ArchivedStaysFinal == StoppingSpec => ArchivedIsFinal
<1> QED BY HistoryAlways, FinalStep, PTL DEF StoppingSpec, StopNext, ArchivedIsFinal

-----------------------------------------------------------------------------
(* EventStream: the hub, the channels and the pages.                          *)

\* A page follows a job that exists, and only such a page has a handler.
Watched ==
  \A c \in Pages : /\ tab[c] # "idle" => watch[c] \in Jobs /\ pc[watch[c]] # "new"
                   /\ at[c] # "off" => tab[c] # "idle"

HubInv == StreamTypeOK /\ Watched /\ SubscribersAreHandlers

\* A channel nobody is subscribed with is empty, and a finish event in one
\* comes from a job whose goroutine is through.
ChannelInv ==
  /\ ChannelIsOwn
  /\ \A c \in Pages : at[c] \notin Subscribed => queue[c] = << >>
  /\ \A c \in Pages : \A k \in 1..Len(queue[c]) :
       queue[c][k].type = "finish" => pc[watch[c]] = "gone"

\* A snapshot that reads as the end was taken of a job that is over.
SnapshotIsTrue ==
  \A c \in Pages : at[c] \in {"snapshot", "reread"} =>
    /\ snap[c] \in {"done", "failed"} => Over(watch[c])
    /\ snap[c] = "failed" => error[watch[c]]

TruthInv == SnapshotIsTrue /\ EndIsReal

JobInv == Typed /\ Exclusive /\ Verdict

SInv == JobInv /\ HubInv /\ ChannelInv /\ TruthInv

-------------------------------------------------------------------------------
(* The runs below *)

\* Every step of the stream is a step of the runs or leaves them alone.
LEMMA StreamStepIsJobStep == [StreamNext]_allVars => [JobNext]_vars
<1> SUFFICES ASSUME [StreamNext]_allVars PROVE [JobNext]_vars
  OBVIOUS
<1>1. ASSUME NEW j \in Jobs, Run(j) PROVE JobNext
  BY <1>1 DEF Run, JobNext
<1>2. ASSUME NEW j \in Jobs, Say(j) PROVE UNCHANGED vars
  BY <1>2 DEF Say
<1>3. ASSUME NEW j \in Jobs, NEW r \in Requests, Accept(j, r) PROVE JobNext
  BY <1>3 DEF JobNext
<1>4. ASSUME NEW c \in Pages, Handler(c) \/ Lose(c) \/ Reconnect(c) PROVE UNCHANGED vars
  BY <1>4 DEF Handler, Subscribe, Lookup, Marshal, Snapshot, Reread, Deliver, Hangup,
              Unsubscribe, Lose, Reconnect
<1>5. ASSUME NEW c \in Pages, NEW j \in Jobs, Open(c, j) PROVE UNCHANGED vars
  BY <1>5 DEF Open
<1>6. CASE UNCHANGED allVars
  BY <1>6 DEF allVars
<1> QED
  BY <1>1, <1>2, <1>3, <1>4, <1>5, <1>6 DEF StreamNext

LEMMA JobInvStep == JobInv /\ [StreamNext]_allVars => JobInv'
<1> SUFFICES ASSUME JobInv, [StreamNext]_allVars PROVE JobInv'
  OBVIOUS
<1>1. [JobNext]_vars
  BY StreamStepIsJobStep
<1>2. [StopNext]_vars
  BY <1>1 DEF StopNext
<1> QED
  BY <1>1, <1>2, TypedStep, ExclusiveStep, VerdictStep DEF JobInv

\* A job that exists goes on existing, one that is over stays over with the
\* error it has, and one that is gone stays gone.
Settled(j) == /\ pc[j] # "new" => pc'[j] # "new"
              /\ Over(j) => /\ pc'[j] \in Cleaning \cup {"archive"} \cup Archived
                            /\ error'[j] = error[j]
              /\ pc[j] = "gone" => pc'[j] = "gone"

LEMMA JobsSettle == Typed /\ [JobNext]_vars => \A j \in Jobs : Settled(j)
<1> SUFFICES ASSUME Typed, [JobNext]_vars, NEW i \in Jobs PROVE Settled(i)
  OBVIOUS
<1>a. pc \in [Jobs -> Labels] /\ error \in [Jobs -> BOOLEAN]
  BY DEF Typed, TypeOK
<1> USE <1>a DEF Settled, Over, Cleaning, Archived
<1>1. ASSUME NEW j \in Jobs, NEW r \in Requests, Accept(j, r) PROVE Settled(i)
  BY <1>1 DEF Accept, Goto
<1>2. ASSUME NEW j \in Jobs,
             Preselect(j) \/ SetRunLog(j) \/ OncePipeline(j) \/ SSHTests(j)
               \/ ClearRunLog(j) \/ MarkDone(j)
      PROVE  Settled(i)
  BY <1>2 DEF Preselect, SetRunLog, OncePipeline, SSHTests, ClearRunLog, MarkDone,
              Proceed, Goto, jobVars
<1>3. ASSUME NEW j \in Jobs, LoadConfig(j) \/ Resolve(j) \/ Collect(j) \/ Export(j)
      PROVE  Settled(i)
  BY <1>3 DEF LoadConfig, Resolve, Collect, Export, Proceed, Fail, Goto, jobVars
<1>4. ASSUME NEW j \in Jobs, ReadStatus(j) PROVE Settled(i)
  BY <1>4 DEF ReadStatus, Proceed, Goto, jobVars
<1>5. ASSUME NEW j \in Jobs,
             \/ MarkFailed(j) \/ ClearPreselection(j) \/ Archive(j) \/ Cut(j)
             \/ PublishFinish(j)
      PROVE  Settled(i)
  BY <1>5 DEF MarkFailed, ClearPreselection, Archive, Cut, PublishFinish, Proceed, Goto, jobVars
<1>6. ASSUME SetHistorySize \/ ReadHistory PROVE Settled(i)
  BY <1>6 DEF SetHistorySize, ReadHistory, jobVars
<1>7. CASE UNCHANGED vars
  BY <1>7 DEF vars, jobVars
<1> QED
  BY <1>1, <1>2, <1>3, <1>4, <1>5, <1>6, <1>7 DEF JobNext, RunJob, Finisher

\* A job that exists and no longer shows "running" is over, and a failure it
\* shows is its own.
LEMMA ShownIsTrue ==
  ASSUME JobInv, NEW j \in Jobs, pc[j] # "new"
  PROVE  /\ status[j] # "running" => Over(j)
         /\ status[j] = "failed" => error[j]
<1>1. pc[j] \in Labels
  BY DEF JobInv, Typed, TypeOK
<1>2. CASE pc[j] \in Running
  BY <1>2 DEF JobInv, Exclusive
<1>3. CASE pc[j] \notin Running
  <2>1. pc[j] \in {"archive"} \cup Cleaning \cup Archived
    BY <1>1, <1>3 DEF Labels
  <2>2. Over(j)
    BY <2>1 DEF Over, Cleaning, Archived
  <2>3. status[j] = "failed" => error[j]
    BY <2>1 DEF JobInv, Verdict, Cleaning, Archived
  <2> QED BY <2>2, <2>3
<1> QED BY <1>2, <1>3

-------------------------------------------------------------------------------
(* The hub *)

\* What a channel holds after an event was handed out: what it held, and for
\* a subscriber with room the event behind it.
LEMMA BroadcastFacts ==
  ASSUME queue \in [Pages -> Seq(Event)], NEW j \in Jobs, NEW e \in Event, Broadcast(j, e),
         NEW c \in Pages
  PROVE  /\ queue' \in [Pages -> Seq(Event)]
         /\ \/ queue'[c] = queue[c]
            \/ /\ c \in subs[j]
               /\ Len(queue[c]) < Buffer
               /\ Len(queue'[c]) = Len(queue[c]) + 1
               /\ \A k \in 1..Len(queue[c]) : queue'[c][k] = queue[c][k]
               /\ queue'[c][Len(queue[c]) + 1] = e
<1> DEFINE full == {d \in subs[j] : Len(queue[d]) >= Buffer}
<1>1. queue' = [d \in Pages |-> IF d \in subs[j] \ full THEN Append(queue[d], e) ELSE queue[d]]
  BY DEF Broadcast
<1>2. \A d \in Pages : Append(queue[d], e) \in Seq(Event)
  BY AppendProperties
<1>3. queue' \in [Pages -> Seq(Event)]
  BY <1>1, <1>2
<1>4. CASE c \in subs[j] \ full
  <2>1. queue'[c] = Append(queue[c], e) /\ queue[c] \in Seq(Event)
    BY <1>1, <1>4
  <2>2. Len(queue[c]) \in Nat
    BY <2>1, LenProperties
  <2>3. Len(queue[c]) < Buffer
    BY <1>4, <2>2, BufferAssumption
  <2> QED BY <1>3, <1>4, <2>1, <2>3, AppendProperties
<1>5. CASE c \notin subs[j] \ full
  BY <1>1, <1>3, <1>5
<1> QED BY <1>4, <1>5

\* Handing out an event of a job keeps the hub and its channels in order: a line
\* while the job is not gone, the finish event with the verdict as it goes.
LEMMA BroadcastStep ==
  ASSUME HubInv, ChannelInv, NEW j \in Jobs, NEW e \in Event, Broadcast(j, e),
         e.of = j, pc[j] # "gone",
         e.type = "finish" => /\ pc'[j] = "gone"
                              /\ e.status = IF error'[j] THEN "failed" ELSE "done",
         \A i \in Jobs : Settled(i),
         noise' \in 0..MaxNoise, UNCHANGED <<subs, handlerVars, pageVars>>
  PROVE  HubInv' /\ ChannelInv'
<1> USE DEF handlerVars, pageVars
<1>a. /\ queue \in [Pages -> Seq(Event)]
      /\ \A c \in Pages : Len(queue[c]) <= Buffer
      /\ subs \in [Jobs -> SUBSET Pages]
      /\ watch \in [Pages -> Jobs \cup {None}]
      /\ dropped \subseteq Pages
  BY DEF HubInv, StreamTypeOK
<1>b. \A c \in Pages : queue[c] \in Seq(Event) /\ Len(queue[c]) \in Nat
  BY <1>a, LenProperties
<1>1. queue' \in [Pages -> Seq(Event)]
  BY <1>a, BroadcastFacts DEF Broadcast
<1>2. \A c \in Pages : c \in subs[j] => watch[c] = j /\ at[c] \in Subscribed
  BY DEF HubInv, SubscribersAreHandlers
<1>3. HubInv'
  <2>1. ASSUME NEW c \in Pages PROVE Len(queue'[c]) <= Buffer
    <3>1. CASE queue'[c] = queue[c]
      BY <1>a, <3>1
    <3>2. CASE queue'[c] # queue[c]
      <4>1. Len(queue[c]) < Buffer /\ Len(queue'[c]) = Len(queue[c]) + 1
        BY <1>a, <3>2, BroadcastFacts
      <4> QED BY <1>b, <4>1, BufferAssumption
    <3> QED BY <3>1, <3>2
  <2>2. dropped' \subseteq Pages
    BY <1>a DEF Broadcast
  <2>3. Watched'
    BY <1>a DEF HubInv, Watched, Settled
  <2>4. SubscribersAreHandlers'
    BY DEF HubInv, SubscribersAreHandlers
  <2>5. StreamTypeOK'
    BY <1>1, <2>1, <2>2 DEF HubInv, StreamTypeOK
  <2> QED BY <2>3, <2>4, <2>5 DEF HubInv
<1>4. ASSUME NEW c \in Pages, at[c] \notin Subscribed PROVE queue'[c] = << >>
  BY <1>a, <1>2, <1>4, BroadcastFacts DEF ChannelInv
<1>5. ASSUME NEW c \in Pages, NEW k \in 1..Len(queue'[c])
      PROVE  /\ queue'[c][k].of = watch[c]
             /\ queue'[c][k].type = "finish" =>
                  /\ k = Len(queue'[c])
                  /\ queue'[c][k].status = IF error'[watch[c]] THEN "failed" ELSE "done"
                  /\ pc'[watch[c]] = "gone"
  <2>1. ASSUME NEW m \in 1..Len(queue[c]), queue[c][m].type = "finish"
        PROVE  /\ pc[watch[c]] = "gone" /\ watch[c] \in Jobs /\ m = Len(queue[c])
               /\ queue[c][m].status = IF error[watch[c]] THEN "failed" ELSE "done"
    <3>1. queue[c][m] \in Event /\ queue[c][m].of = watch[c]
      BY <1>a, <2>1, ElementOfSeq DEF ChannelInv, ChannelIsOwn
    <3> QED BY <2>1, <3>1 DEF ChannelInv, ChannelIsOwn, Event
  <2>2. CASE queue'[c] = queue[c]
    <3>1. k \in 1..Len(queue[c])
      BY <2>2
    <3>2. queue[c][k].of = watch[c]
      BY <3>1 DEF ChannelInv, ChannelIsOwn
    <3>3. CASE queue[c][k].type = "finish"
      <4>a. watch[c] \in Jobs /\ pc[watch[c]] = "gone"
        BY <2>1, <3>1, <3>3
      <4>b. Over(watch[c])
        BY <4>a DEF Over
      <4>1. Settled(watch[c])
        BY <4>a
      <4> QED BY <2>1, <2>2, <3>1, <3>2, <3>3, <4>a, <4>b, <4>1 DEF Settled
    <3> QED BY <2>2, <3>2, <3>3
  <2>3. CASE queue'[c] # queue[c]
    <3>1. /\ c \in subs[j] /\ watch[c] = j
          /\ Len(queue'[c]) = Len(queue[c]) + 1
          /\ \A m \in 1..Len(queue[c]) : queue'[c][m] = queue[c][m]
          /\ queue'[c][Len(queue[c]) + 1] = e
      BY <1>a, <1>2, <2>3, BroadcastFacts
    <3>2. CASE k = Len(queue[c]) + 1
      BY <3>1, <3>2
    <3>3. CASE k # Len(queue[c]) + 1
      <4>1. k \in 1..Len(queue[c])
        BY <1>b, <3>1, <3>3
      <4>2. queue'[c][k] = queue[c][k] /\ queue[c][k].of = watch[c]
        BY <3>1, <4>1 DEF ChannelInv, ChannelIsOwn
      <4>3. queue[c][k].type # "finish"
        BY <2>1, <3>1, <4>1
      <4> QED BY <4>2, <4>3
    <3> QED BY <3>2, <3>3
  <2> QED BY <2>2, <2>3
<1>6. ChannelInv'
  <2>1. ASSUME NEW c \in Pages, NEW k \in 1..Len(queue'[c]), queue'[c][k].type = "finish"
        PROVE  queue'[c][k].status = IF error'[queue'[c][k].of] THEN "failed" ELSE "done"
    BY <1>5, <2>1
  <2> QED BY <1>4, <1>5, <2>1 DEF ChannelInv, ChannelIsOwn
<1> QED BY <1>3, <1>6

-------------------------------------------------------------------------------
(* The goroutines of the jobs *)

\* What the pages were told stays true as the jobs go on.
LEMMA TruthKept ==
  ASSUME HubInv, TruthInv, \A i \in Jobs : Settled(i), UNCHANGED <<handlerVars, pageVars>>
  PROVE  TruthInv'
<1> USE DEF handlerVars, pageVars
<1>1. ASSUME NEW c \in Pages, at[c] # "off" \/ tab[c] # "idle", Over(watch[c])
      PROVE  Over(watch[c])' /\ error'[watch[c]] = error[watch[c]]
  <2>1. watch[c] \in Jobs
    BY <1>1 DEF HubInv, Watched
  <2>2. Settled(watch[c])
    BY <2>1
  <2> QED BY <1>1, <2>2 DEF Settled, Over, Cleaning, Archived
<1>2. SnapshotIsTrue'
  <2>1. ASSUME NEW c \in Pages, at[c] \in {"snapshot", "reread"}, snap[c] \in {"done", "failed"}
        PROVE  Over(watch[c])' /\ (snap[c] = "failed" => error'[watch[c]])
    BY <1>1, <2>1 DEF TruthInv, SnapshotIsTrue
  <2> QED BY <2>1 DEF SnapshotIsTrue
<1>3. EndIsReal'
  <2>1. ASSUME NEW c \in Pages, tab[c] = "ended"
        PROVE  Over(watch[c])' /\ (view[c] = "failed" => error'[watch[c]])
    BY <1>1, <2>1 DEF TruthInv, EndIsReal
  <2> QED BY <2>1 DEF EndIsReal
<1> QED BY <1>2, <1>3 DEF TruthInv

\* So do the hub and its channels while nothing is published.
LEMMA StreamKept ==
  ASSUME HubInv, ChannelInv, TruthInv, \A i \in Jobs : Settled(i), UNCHANGED streamVars
  PROVE  HubInv' /\ ChannelInv' /\ TruthInv'
<1> USE DEF streamVars, hubVars, handlerVars, pageVars
<1>1. HubInv'
  BY DEF HubInv, StreamTypeOK, Watched, SubscribersAreHandlers, Settled
<1>2. ASSUME NEW c \in Pages, NEW k \in 1..Len(queue[c]), queue[c][k].type = "finish"
      PROVE  error'[watch[c]] = error[watch[c]] /\ pc'[watch[c]] = "gone"
  <2>1. c \in Pages /\ queue[c] # << >>
    BY <1>2, EmptySeq
  <2>2. at[c] # "off"
    BY <2>1 DEF ChannelInv, Subscribed
  <2>3. watch[c] \in Jobs /\ pc[watch[c]] = "gone"
    BY <1>2, <2>2 DEF HubInv, Watched, ChannelInv
  <2>4. Settled(watch[c])
    BY <2>3
  <2> QED BY <2>3, <2>4 DEF Settled, Over
<1>3. ChannelIsOwn'
  <2>1. ASSUME NEW c \in Pages, NEW k \in 1..Len(queue[c])
        PROVE  /\ queue[c][k].of = watch[c]
               /\ queue[c][k].type = "finish" =>
                    /\ k = Len(queue[c])
                    /\ queue[c][k].status = IF error'[watch[c]] THEN "failed" ELSE "done"
    BY <1>2 DEF ChannelInv, ChannelIsOwn
  <2> QED BY <2>1 DEF ChannelIsOwn
<1>4. ChannelInv'
  BY <1>2, <1>3 DEF ChannelInv
<1> QED BY <1>1, <1>4, TruthKept

LEMMA RunStep ==
  ASSUME SInv, NEW j \in Jobs, Run(j)
  PROVE  HubInv' /\ ChannelInv' /\ TruthInv'
<1>a. RunJob(j) /\ UNCHANGED <<subs, handlerVars, pageVars, noise>>
  BY DEF Run
<1>b. \A i \in Jobs : Settled(i)
  BY <1>a, JobsSettle DEF JobNext, SInv, JobInv
<1>1. CASE pc[j] = "publish"
  <2>1. Broadcast(j, Finish(j))
    BY <1>1 DEF Run
  <2>2. Finish(j) \in Event /\ Finish(j).of = j /\ Finish(j).status = status[j]
    BY DEF Finish, Event, SInv, JobInv, Typed, TypeOK
  <2>3. PublishFinish(j)
    BY <1>a, <1>1 DEF RunJob, Finisher, Preselect, SetRunLog, LoadConfig, Resolve, Collect,
       OncePipeline, SSHTests, Export, ClearRunLog, ReadStatus, MarkDone, MarkFailed,
       ClearPreselection, Archive, Cut, Proceed, Fail, Goto
  <2>4. pc'[j] = "gone" /\ error' = error
    BY <2>3 DEF PublishFinish, Proceed, Goto, jobVars, SInv, JobInv, Typed, TypeOK
  <2>5. status[j] = IF error'[j] THEN "failed" ELSE "done"
    BY <1>1, <2>4 DEF SInv, JobInv, Verdict, Archived
  <2>6. noise' \in 0..MaxNoise
    BY <1>a DEF SInv, HubInv, StreamTypeOK
  <2>7. HubInv' /\ ChannelInv'
    BY <1>a, <1>b, <1>1, <2>1, <2>2, <2>4, <2>5, <2>6, BroadcastStep DEF SInv
  <2> QED BY <1>a, <1>b, <2>7, TruthKept DEF SInv
<1>2. CASE pc[j] # "publish"
  <2>1. UNCHANGED streamVars
    BY <1>a, <1>2 DEF Run, streamVars, hubVars
  <2> QED BY <1>b, <2>1, StreamKept DEF SInv
<1> QED BY <1>1, <1>2

\* The line of a job under way goes to that job, since the log callback is its own.
LEMMA SayStep ==
  ASSUME SInv, NEW j \in Jobs, Say(j)
  PROVE  HubInv' /\ ChannelInv' /\ TruthInv'
<1>1. runLog = j /\ pc[j] = "ssh"
  BY DEF Say, SInv, JobInv, Exclusive, Body
<1>2. Broadcast(j, Line(j))
  BY <1>1 DEF Say
<1>3. UNCHANGED vars /\ UNCHANGED <<subs, handlerVars, pageVars>>
  BY DEF Say
<1>4. \A i \in Jobs : Settled(i)
  BY <1>3, JobsSettle DEF SInv, JobInv
<1>5. noise' \in 0..MaxNoise
  <2>1. noise \in 0..MaxNoise
    BY DEF SInv, HubInv, StreamTypeOK
  <2>2. noise < MaxNoise /\ noise' = noise + 1
    BY DEF Say
  <2> QED BY <2>1, <2>2, BoundAssumption
<1>6. Line(j) \in Event /\ Line(j).of = j /\ Line(j).type # "finish"
  BY DEF Line, Event
<1>7. HubInv' /\ ChannelInv'
  BY <1>1, <1>2, <1>3, <1>4, <1>5, <1>6, BroadcastStep DEF SInv
<1> QED BY <1>3, <1>4, <1>7, TruthKept DEF SInv

LEMMA AcceptStep ==
  ASSUME SInv, NEW j \in Jobs, NEW r \in Requests, Accept(j, r), UNCHANGED streamVars
  PROVE  HubInv' /\ ChannelInv' /\ TruthInv'
<1>1. \A i \in Jobs : Settled(i)
  BY JobsSettle DEF JobNext, SInv, JobInv
<1> QED BY <1>1, StreamKept DEF SInv

-------------------------------------------------------------------------------
(* The pages and their handlers *)

PageStep(c) == Handler(c) \/ Lose(c) \/ Reconnect(c) \/ \E j \in Jobs : Open(c, j)

\* One more line counts towards a bound that was not reached.
LEMMA NoiseFacts ==
  ASSUME NEW n \in 0..MaxNoise, n < MaxNoise
  PROVE  n + 1 \in 0..MaxNoise
BY BoundAssumption

\* What is left of a channel after its first event was taken.
LEMMA TailFacts ==
  ASSUME NEW q \in Seq(Event), q # << >>, Len(q) <= Buffer
  PROVE  /\ Tail(q) \in Seq(Event)
         /\ Len(Tail(q)) <= Buffer
         /\ Head(q).status \in {"", "running", "done", "failed"}
<1>1. Tail(q) \in Seq(Event) /\ Len(Tail(q)) = Len(q) - 1 /\ Head(q) \in Event
  BY HeadTailProperties
<1>2. Len(q) \in Nat
  BY LenProperties
<1>3. Len(Tail(q)) <= Buffer
  BY <1>1, <1>2, BufferAssumption
<1>4. Head(q).status \in {"", "running", "done", "failed"}
  BY <1>1 DEF Event
<1> QED BY <1>1, <1>3, <1>4

\* A step of one page keeps the types, the jobs, and every other page.
LEMMA PageStepFrame ==
  ASSUME JobInv, HubInv, NEW c \in Pages, PageStep(c)
  PROVE  /\ StreamTypeOK'
         /\ UNCHANGED <<pc, error, status>>
         /\ \A d \in Pages \ {c} : /\ at'[d] = at[d] /\ queue'[d] = queue[d]
                                   /\ snap'[d] = snap[d] /\ watch'[d] = watch[d]
                                   /\ tab'[d] = tab[d] /\ view'[d] = view[d]
<1> DEFINE Frame == \A d \in Pages \ {c} : /\ at'[d] = at[d] /\ queue'[d] = queue[d]
                                           /\ snap'[d] = snap[d] /\ watch'[d] = watch[d]
                                           /\ tab'[d] = tab[d] /\ view'[d] = view[d]
<1>a. UNCHANGED vars
  BY DEF PageStep, Handler, Subscribe, Lookup, Marshal, Snapshot, Reread, Deliver, Hangup,
         Unsubscribe, Lose, Reconnect, Open
<1>b. UNCHANGED <<pc, error, status>>
  BY <1>a DEF vars, jobVars
<1>c. << >> \in Seq(Event) /\ Len(<< >>) = 0 /\ 0 <= Buffer
  BY EmptySeq, BufferAssumption
<1>d. StreamTypeOK /\ (at[c] # "off" => watch[c] \in Jobs)
  BY DEF HubInv, Watched
<1>e. \A s \in {"", "running", "done", "failed"} : ShowFinish(c, s) \/ ShowSnapshot(c) =>
        /\ tab' \in [Pages -> {"idle", "open", "lost", "ended"}]
        /\ view' \in [Pages -> {"", "running", "done", "failed"}]
        /\ \A d \in Pages \ {c} : tab'[d] = tab[d] /\ view'[d] = view[d]
  <2>1. ASSUME NEW s \in {"", "running", "done", "failed"}, ShowFinish(c, s)
        PROVE  /\ tab' \in [Pages -> {"idle", "open", "lost", "ended"}]
               /\ view' \in [Pages -> {"", "running", "done", "failed"}]
               /\ \A d \in Pages \ {c} : tab'[d] = tab[d] /\ view'[d] = view[d]
    BY <1>d, <2>1 DEF StreamTypeOK, ShowFinish
  <2>2. ASSUME ShowSnapshot(c)
        PROVE  /\ tab' \in [Pages -> {"idle", "open", "lost", "ended"}]
               /\ view' \in [Pages -> {"", "running", "done", "failed"}]
               /\ \A d \in Pages \ {c} : tab'[d] = tab[d] /\ view'[d] = view[d]
    BY <1>d, <2>2 DEF StreamTypeOK, ShowSnapshot
  <2> QED BY <2>1, <2>2
<1> USE <1>d DEF StreamTypeOK, Subscribed, Step, hubVars, handlerVars, pageVars
<1>1. CASE Subscribe(c)
  <2>1. /\ subs' \in [Jobs -> SUBSET Pages]
        /\ queue' \in [Pages -> Seq(Event)] /\ \A d \in Pages : Len(queue'[d]) <= Buffer
    BY <1>1, <1>c DEF Subscribe
  <2> QED BY <1>1, <1>b, <2>1 DEF Subscribe
<1>2. CASE Lookup(c)
  BY <1>2, <1>b DEF Lookup
<1>3. CASE Marshal(c)
  <2>1. status[watch[c]] \in {"", "running", "done", "failed"}
    BY <1>3 DEF Marshal, JobInv, Typed, TypeOK
  <2> QED BY <1>3, <1>b, <2>1 DEF Marshal
<1>4. CASE Snapshot(c)
  BY <1>4, <1>b, <1>e DEF Snapshot
<1>5. CASE Reread(c)
  <2>1. snap[c] \in {"", "running", "done", "failed"}
    OBVIOUS
  <2>2. CASE status[watch[c]] # "running"
    BY <1>5, <1>b, <1>e, <2>1, <2>2 DEF Reread
  <2>3. CASE status[watch[c]] = "running"
    BY <1>5, <1>b, <2>3 DEF Reread
  <2> QED BY <2>2, <2>3
<1>6. CASE Deliver(c)
  <2>1. queue[c] \in Seq(Event) /\ queue[c] # << >> /\ Len(queue[c]) <= Buffer
    BY <1>6 DEF Deliver
  <2>2. /\ Tail(queue[c]) \in Seq(Event)
        /\ Len(Tail(queue[c])) <= Buffer
        /\ Head(queue[c]).status \in {"", "running", "done", "failed"}
    BY ONLY <2>1, TailFacts
  <2>3. /\ queue' = [queue EXCEPT ![c] = Tail(queue[c])]
        /\ UNCHANGED <<subs, at, snap, watch, dropped, noise>>
    BY <1>6 DEF Deliver
  <2>5. /\ queue' \in [Pages -> Seq(Event)] /\ \A d \in Pages : Len(queue'[d]) <= Buffer
        /\ \A d \in Pages \ {c} : queue'[d] = queue[d]
    BY <2>2, <2>3
  <2>6. ShowFinish(c, Head(queue[c]).status) \/ UNCHANGED <<tab, view>>
    BY <1>6 DEF Deliver
  <2>7. /\ tab' \in [Pages -> {"idle", "open", "lost", "ended"}]
        /\ view' \in [Pages -> {"", "running", "done", "failed"}]
        /\ \A d \in Pages \ {c} : tab'[d] = tab[d] /\ view'[d] = view[d]
    BY <1>e, <2>2, <2>6
  <2> QED BY <1>b, <2>3, <2>5, <2>7
<1>7. CASE Hangup(c)
  BY <1>7, <1>b DEF Hangup
<1>8. CASE Unsubscribe(c)
  <2>1. /\ subs' \in [Jobs -> SUBSET Pages]
        /\ queue' \in [Pages -> Seq(Event)] /\ \A d \in Pages : Len(queue'[d]) <= Buffer
    BY <1>8, <1>c DEF Unsubscribe
  <2> QED BY <1>8, <1>b, <2>1 DEF Unsubscribe
<1>9. CASE Lose(c)
  <2>1. noise \in 0..MaxNoise /\ noise < MaxNoise /\ noise' = noise + 1
    BY <1>9 DEF Lose
  <2>2. noise' \in 0..MaxNoise
    BY ONLY <2>1, NoiseFacts
  <2> QED BY <1>9, <1>b, <2>2 DEF Lose
<1>10. CASE Reconnect(c)
  BY <1>10, <1>b DEF Reconnect
<1>11. ASSUME NEW j \in Jobs, Open(c, j) PROVE StreamTypeOK' /\ UNCHANGED <<pc, error, status>> /\ Frame
  BY <1>11, <1>b DEF Open
<1> QED
  BY <1>1, <1>2, <1>3, <1>4, <1>5, <1>6, <1>7, <1>8, <1>9, <1>10, <1>11
     DEF PageStep, Handler

\* Every way into a handler subscribes it, every way out takes it off the hub.
LEMMA PageStepHub ==
  ASSUME JobInv, HubInv, NEW c \in Pages, PageStep(c)
  PROVE  HubInv'
<1>a. /\ StreamTypeOK'
      /\ UNCHANGED pc
      /\ \A d \in Pages \ {c} : at'[d] = at[d] /\ watch'[d] = watch[d] /\ tab'[d] = tab[d]
  BY PageStepFrame
<1>b. /\ subs \in [Jobs -> SUBSET Pages]
      /\ at \in [Pages -> {"off", "subscribe"} \cup Subscribed]
      /\ watch \in [Pages -> Jobs \cup {None}]
      /\ tab \in [Pages -> {"idle", "open", "lost", "ended"}]
  BY DEF HubInv, StreamTypeOK
<1>c. /\ tab[c] # "idle" => watch[c] \in Jobs /\ pc[watch[c]] # "new"
      /\ at[c] # "off" => tab[c] # "idle"
      /\ \A j \in Jobs : subs[j] = {d \in Pages : watch[d] = j /\ at[d] \in Subscribed}
  BY DEF HubInv, Watched, SubscribersAreHandlers
<1> DEFINE WatchedHere == /\ tab'[c] # "idle" => watch'[c] \in Jobs /\ pc[watch'[c]] # "new"
                          /\ at'[c] # "off" => tab'[c] # "idle"
           \* What the hub holds changes for this page alone.
           HubHere == \A j \in Jobs, d \in Pages :
             d \in subs'[j] <=> IF d = c THEN watch'[c] = j /\ at'[c] \in Subscribed
                                         ELSE d \in subs[j]
           Good == WatchedHere /\ HubHere
<1> USE <1>b, <1>c DEF Step, hubVars, handlerVars, pageVars
<1>1. ASSUME Subscribe(c) PROVE Good
  BY <1>1 DEF Subscribe, Subscribed
<1>2. ASSUME Lookup(c) \/ Marshal(c) \/ Hangup(c) PROVE Good
  BY <1>2 DEF Lookup, Marshal, Hangup, Subscribed
<1>3. ASSUME Snapshot(c) PROVE Good
  BY <1>3 DEF Snapshot, ShowSnapshot, Subscribed
<1>4. ASSUME Reread(c) PROVE Good
  BY <1>4 DEF Reread, ShowFinish, Subscribed
<1>5. ASSUME Deliver(c) PROVE Good
  BY <1>5 DEF Deliver, ShowFinish, Subscribed
<1>6. ASSUME Unsubscribe(c) PROVE Good
  BY <1>6 DEF Unsubscribe, Subscribed
<1>7. ASSUME Lose(c) \/ Reconnect(c) PROVE Good
  BY <1>7 DEF Lose, Reconnect, Subscribed
<1>8. ASSUME NEW j \in Jobs, Open(c, j) PROVE Good
  BY <1>8 DEF Open, Subscribed
<1>9. Good
  BY <1>1, <1>2, <1>3, <1>4, <1>5, <1>6, <1>7, <1>8 DEF PageStep, Handler
<1>10. Watched'
  BY <1>a, <1>9 DEF HubInv, Watched
<1>11. SubscribersAreHandlers'
  <2>1. ASSUME NEW j \in Jobs, NEW d \in Pages
        PROVE  d \in subs'[j] <=> watch'[d] = j /\ at'[d] \in Subscribed
    BY <1>a, <1>9
  <2>2. \A j \in Jobs : subs'[j] \subseteq Pages
    BY <1>a DEF StreamTypeOK
  <2> QED BY <2>1, <2>2 DEF SubscribersAreHandlers
<1> QED BY <1>a, <1>10, <1>11 DEF HubInv

\* A handler empties its channel from the front, and with its subscription.
LEMMA PageStepChannel ==
  ASSUME JobInv, HubInv, ChannelInv, NEW c \in Pages, PageStep(c)
  PROVE  ChannelInv'
<1>a. /\ UNCHANGED <<pc, error>>
      /\ \A d \in Pages \ {c} : at'[d] = at[d] /\ watch'[d] = watch[d] /\ queue'[d] = queue[d]
  BY PageStepFrame
<1>b. /\ queue \in [Pages -> Seq(Event)]
      /\ at \in [Pages -> {"off", "subscribe"} \cup Subscribed]
      /\ watch \in [Pages -> Jobs \cup {None}]
      /\ at[c] # "off" => tab[c] # "idle"
  BY DEF HubInv, StreamTypeOK, Watched
<1>c. at[c] \notin Subscribed => queue[c] = << >>
  BY DEF ChannelInv
<1>d. 1..Len(<< >>) = {}
  BY EmptySeq
<1> DEFINE Quiet == at'[c] \notin Subscribed => queue'[c] = << >>
           Same  == queue'[c] = queue[c] /\ (watch'[c] = watch[c] \/ queue[c] = << >>)
           Rest  == /\ at[c] = "loop" /\ watch'[c] = watch[c]
                    /\ queue[c] # << >> /\ queue'[c] = Tail(queue[c])
           Good  == Quiet /\ (Same \/ queue'[c] = << >> \/ Rest)
<1> USE <1>b, <1>c DEF Step, hubVars, handlerVars, pageVars
<1>1. ASSUME Subscribe(c) \/ Unsubscribe(c) PROVE Good
  BY <1>1 DEF Subscribe, Unsubscribe
<1>2. ASSUME Lookup(c) \/ Marshal(c) \/ Snapshot(c) \/ Hangup(c) PROVE Good
  BY <1>2 DEF Lookup, Marshal, Snapshot, Hangup, Subscribed
<1>3. ASSUME Reread(c) PROVE Good
  BY <1>3 DEF Reread, Subscribed
<1>4. ASSUME Deliver(c) PROVE Good
  BY <1>4 DEF Deliver, Subscribed
<1>5. ASSUME Lose(c) \/ Reconnect(c) PROVE Good
  BY <1>5 DEF Lose, Reconnect, Subscribed
<1>6. ASSUME NEW j \in Jobs, Open(c, j) PROVE Good
  BY <1>6 DEF Open, Subscribed
<1>7. Good
  BY <1>1, <1>2, <1>3, <1>4, <1>5, <1>6 DEF PageStep, Handler
<1>8. ASSUME NEW k \in 1..Len(queue'[c])
      PROVE  /\ queue'[c][k].of = watch'[c]
             /\ queue'[c][k].type = "finish" =>
                  /\ k = Len(queue'[c])
                  /\ queue'[c][k].status = IF error[queue'[c][k].of] THEN "failed" ELSE "done"
                  /\ pc[watch'[c]] = "gone"
  <2>1. CASE queue'[c] = << >>
    BY <1>d, <2>1
  <2>2. CASE Same /\ queue'[c] # << >>
    BY <2>2 DEF ChannelInv, ChannelIsOwn
  <2>3. CASE Rest
    <3>1. /\ Len(queue'[c]) = Len(queue[c]) - 1 /\ Len(queue[c]) \in Nat
          /\ \A m \in 1..Len(queue'[c]) : queue'[c][m] = queue[c][m + 1]
      BY <2>3, HeadTailProperties, LenProperties
    <3>2. k + 1 \in 1..Len(queue[c]) /\ queue'[c][k] = queue[c][k + 1]
      BY <3>1
    <3>3. queue[c][k + 1].type = "finish" => k = Len(queue'[c])
      BY <3>1, <3>2 DEF ChannelInv, ChannelIsOwn
    <3> QED BY <2>3, <3>2, <3>3 DEF ChannelInv, ChannelIsOwn
  <2> QED BY <1>7, <2>1, <2>2, <2>3
<1>9. ASSUME NEW d \in Pages, NEW k \in 1..Len(queue'[d])
      PROVE  /\ queue'[d][k].of = watch'[d]
             /\ queue'[d][k].type = "finish" =>
                  /\ k = Len(queue'[d])
                  /\ queue'[d][k].status = IF error[queue'[d][k].of] THEN "failed" ELSE "done"
                  /\ pc[watch'[d]] = "gone"
  <2>1. CASE d = c
    BY <1>8, <2>1
  <2>2. CASE d # c
    BY <1>a, <2>2 DEF ChannelInv, ChannelIsOwn
  <2> QED BY <2>1, <2>2
<1>10. ASSUME NEW d \in Pages, at'[d] \notin Subscribed PROVE queue'[d] = << >>
  BY <1>a, <1>7, <1>10 DEF ChannelInv
<1> QED BY <1>a, <1>9, <1>10 DEF ChannelInv, ChannelIsOwn

\* What a page ends on is a snapshot or a finish event of a run that is over.
LEMMA PageStepTruth ==
  ASSUME SInv, NEW c \in Pages, PageStep(c)
  PROVE  TruthInv'
<1>a. /\ UNCHANGED <<pc, error, status>>
      /\ \A d \in Pages \ {c} : /\ at'[d] = at[d] /\ snap'[d] = snap[d] /\ watch'[d] = watch[d]
                                /\ tab'[d] = tab[d] /\ view'[d] = view[d]
  BY PageStepFrame DEF SInv
<1>b. /\ queue \in [Pages -> Seq(Event)]
      /\ at \in [Pages -> {"off", "subscribe"} \cup Subscribed]
      /\ snap \in [Pages -> {"", "running", "done", "failed"}]
      /\ watch \in [Pages -> Jobs \cup {None}]
      /\ tab \in [Pages -> {"idle", "open", "lost", "ended"}]
      /\ view \in [Pages -> {"", "running", "done", "failed"}]
  BY DEF SInv, HubInv, StreamTypeOK
<1>c. ASSUME at[c] # "off"
      PROVE  /\ status[watch[c]] # "running" => Over(watch[c])
             /\ status[watch[c]] = "failed" => error[watch[c]]
  <2>1. watch[c] \in Jobs /\ pc[watch[c]] # "new"
    BY <1>c DEF SInv, HubInv, Watched
  <2> QED BY <2>1, ShownIsTrue DEF SInv
<1>d. /\ at[c] \in {"snapshot", "reread"} =>
           /\ snap[c] \in {"done", "failed"} => Over(watch[c])
           /\ snap[c] = "failed" => error[watch[c]]
      /\ tab[c] = "ended" => Over(watch[c]) /\ (view[c] = "failed" => error[watch[c]])
  BY DEF SInv, TruthInv, SnapshotIsTrue, EndIsReal
<1> DEFINE SnapshotHere == at'[c] \in {"snapshot", "reread"} =>
                             /\ snap'[c] \in {"done", "failed"} => Over(watch'[c])
                             /\ snap'[c] = "failed" => error[watch'[c]]
           EndHere == tab'[c] = "ended" => Over(watch'[c]) /\ (view'[c] = "failed" => error[watch'[c]])
           Good == SnapshotHere /\ EndHere
<1> USE <1>b, <1>c, <1>d DEF Step, hubVars, handlerVars, pageVars
<1>1. ASSUME Subscribe(c) \/ Lookup(c) \/ Hangup(c) \/ Unsubscribe(c) PROVE Good
  BY <1>1 DEF Subscribe, Lookup, Hangup, Unsubscribe
<1>2. ASSUME Marshal(c) PROVE Good
  BY <1>2 DEF Marshal
<1>3. ASSUME Snapshot(c) PROVE Good
  BY <1>3 DEF Snapshot, ShowSnapshot
<1>4. ASSUME Reread(c) PROVE Good
  BY <1>4 DEF Reread, ShowFinish
<1>5. ASSUME Deliver(c) PROVE Good
  <2>1. ASSUME Head(queue[c]).type = "finish"
        PROVE  /\ pc[watch[c]] = "gone"
               /\ Head(queue[c]).status = IF error[watch[c]] THEN "failed" ELSE "done"
    <3>1. queue[c] \in Seq(Event) /\ queue[c] # << >>
      BY <1>5 DEF Deliver
    <3>2. 1 \in 1..Len(queue[c]) /\ Head(queue[c]) = queue[c][1]
      BY ONLY <3>1, EmptySeq
    <3>3. ChannelIsOwn /\ pc[watch[c]] = "gone"
      BY <2>1, <3>2 DEF SInv, ChannelInv
    <3>4. /\ queue[c][1].of = watch[c]
          /\ queue[c][1].status = IF error[queue[c][1].of] THEN "failed" ELSE "done"
      BY ONLY <2>1, <3>2, <3>3, c \in Pages DEF ChannelIsOwn
    <3> QED BY ONLY <3>2, <3>3, <3>4
  <2> QED BY <1>5, <2>1 DEF Deliver, ShowFinish, Over
<1>6. ASSUME Lose(c) \/ Reconnect(c) PROVE Good
  BY <1>6 DEF Lose, Reconnect
<1>7. ASSUME NEW j \in Jobs, Open(c, j) PROVE Good
  BY <1>7 DEF Open
<1>8. Good
  BY <1>1, <1>2, <1>3, <1>4, <1>5, <1>6, <1>7 DEF PageStep, Handler
<1>9. SnapshotIsTrue'
  <2>1. ASSUME NEW d \in Pages, at'[d] \in {"snapshot", "reread"}
        PROVE  /\ snap'[d] \in {"done", "failed"} => Over(watch'[d])
               /\ snap'[d] = "failed" => error[watch'[d]]
    BY <1>a, <1>8, <2>1 DEF SInv, TruthInv, SnapshotIsTrue
  <2> QED BY <1>a, <2>1 DEF SnapshotIsTrue, Over
<1>10. EndIsReal'
  <2>1. ASSUME NEW d \in Pages, tab'[d] = "ended"
        PROVE  Over(watch'[d]) /\ (view'[d] = "failed" => error[watch'[d]])
    BY <1>a, <1>8, <2>1 DEF SInv, TruthInv, EndIsReal
  <2> QED BY <1>a, <2>1 DEF EndIsReal, Over
<1> QED BY <1>9, <1>10 DEF TruthInv

-------------------------------------------------------------------------------
(* The theorem *)

LEMMA SInvInit == StreamInit => SInv
<1> SUFFICES ASSUME StreamInit PROVE SInv
  OBVIOUS
<1>1. JobInv
  BY TypedInit, ExclusiveInit DEF StreamInit, JobInv, Init, Verdict, Archived
<1>2. << >> \in Seq(Event) /\ Len(<< >>) = 0 /\ 1..Len(<< >>) = {} /\ 0 <= Buffer
  BY EmptySeq, BufferAssumption
<1>3. HubInv
  <2>1. StreamTypeOK
    <3>1. 0 \in 0..MaxNoise
      BY BoundAssumption
    <3> QED BY <1>2, <3>1 DEF StreamInit, StreamTypeOK
  <2>2. Watched /\ SubscribersAreHandlers
    BY DEF StreamInit, Watched, SubscribersAreHandlers, Subscribed
  <2> QED BY <2>1, <2>2 DEF HubInv
<1>4. ChannelInv
  BY <1>2 DEF StreamInit, ChannelInv, ChannelIsOwn
<1>5. TruthInv
  BY DEF StreamInit, TruthInv, SnapshotIsTrue, EndIsReal
<1> QED BY <1>1, <1>3, <1>4, <1>5 DEF SInv

LEMMA SInvStep == SInv /\ [StreamNext]_allVars => SInv'
<1> SUFFICES ASSUME SInv, [StreamNext]_allVars PROVE SInv'
  OBVIOUS
<1>1. JobInv'
  BY JobInvStep DEF SInv
<1>2. CASE UNCHANGED allVars
  <2>1. UNCHANGED vars /\ UNCHANGED streamVars
    BY <1>2 DEF allVars
  <2>2. \A i \in Jobs : Settled(i)
    BY <2>1, JobsSettle DEF SInv, JobInv
  <2> QED BY <1>1, <2>1, <2>2, StreamKept DEF SInv
<1>3. ASSUME NEW c \in Pages, PageStep(c) PROVE SInv'
  BY <1>1, <1>3, PageStepHub, PageStepChannel, PageStepTruth DEF SInv
<1>4. ASSUME NEW j \in Jobs, Run(j) PROVE SInv'
  BY <1>1, <1>4, RunStep DEF SInv
<1>5. ASSUME NEW j \in Jobs, Say(j) PROVE SInv'
  BY <1>1, <1>5, SayStep DEF SInv
<1>6. ASSUME NEW j \in Jobs, NEW r \in Requests, Accept(j, r), UNCHANGED streamVars PROVE SInv'
  BY <1>1, <1>6, AcceptStep DEF SInv
<1> QED
  BY <1>2, <1>3, <1>4, <1>5, <1>6 DEF StreamNext, PageStep

\* The hub, its channels and what the pages make of them are in order, however
\* many pages come, go and reconnect and however small the channels are.
THEOREM StreamCorrect == StreamSpec => []StreamInv
<1>1. SInv => StreamInv
  BY DEF SInv, HubInv, ChannelInv, TruthInv, StreamInv
<1> QED
  BY <1>1, SInvInit, SInvStep, PTL DEF StreamSpec

\* No page takes its run for over while it is at work, nor for failed if it is not.
THEOREM PagesEndOnTruth == StreamSpec => []EndIsReal
<1>1. StreamInv => EndIsReal
  BY DEF StreamInv
<1> QED
  BY <1>1, StreamCorrect, PTL
==============================================================================
