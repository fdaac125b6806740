--------------------------- MODULE WorkerPoolProofs ---------------------------
(***************************************************************************)
(* Proofs about WorkerPool for any hosts, any addresses (shared ones too)  *)
(* and any number of workers, none included.                               *)
(***************************************************************************)
EXTENDS WorkerPool, FiniteSetTheorems, TLAPS

\* A worker has a host in hand from the receive to the end of end().
InHand == \A w \in Workers :
  /\ at[w] \in {"begin", "test", "echo", "report", "end"} => holds[w] \in Hosts
  /\ at[w] \in {"idle", "exited"} => holds[w] = NoHost
  /\ at[w] \in {"read", "store"} => (holds[w] = NoHost <=> back[w] = "idle")

Typed == TypeOK /\ InHand

LEMMA TypedInit == Init => Typed
BY HostsAssumption DEF Init, Typed, TypeOK, InHand, Places

LEMMA TypedStep == Typed /\ [Next]_vars => Typed'
<1> SUFFICES ASSUME Typed, [Next]_vars PROVE Typed'
  OBVIOUS
<1>a. TypeOK /\ InHand
  BY DEF Typed
<1> USE <1>a, HostsAssumption, AddrAssumption
    DEF Typed, TypeOK, InHand, Places, progressVars, sinkVars
<1>1. ASSUME NEW w \in Workers, NEW h \in Hosts, Send(w, h) PROVE Typed'
  BY <1>1 DEF Send, Move
<1>2. ASSUME CloseJobs PROVE Typed'
  BY <1>2 DEF CloseJobs, Move
<1>3. ASSUME Return PROVE Typed'
  BY <1>3 DEF Return, Move
<1>4. ASSUME NEW w \in Workers, Begin(w) PROVE Typed'
  BY <1>4 DEF Begin, Refresh, Move
<1>5. ASSUME NEW w \in Workers, SinkRead(w) PROVE Typed'
  BY <1>5 DEF SinkRead, Move
<1>6. ASSUME NEW w \in Workers, SinkStore(w) PROVE Typed'
  BY <1>6 DEF SinkStore, Move
<1>7. ASSUME NEW w \in Workers, Test(w) PROVE Typed'
  BY <1>7 DEF Test, Move
<1>8. ASSUME NEW w \in Workers, EchoFailures(w) PROVE Typed'
  BY <1>8 DEF EchoFailures, Refresh, Move
<1>9. ASSUME NEW w \in Workers, NothingToEcho(w) PROVE Typed'
  BY <1>9 DEF NothingToEcho, Move
<1>10. ASSUME NEW w \in Workers, OnVM(w) PROVE Typed'
  BY <1>10 DEF OnVM, Move
<1>11. ASSUME NEW w \in Workers, End(w) PROVE Typed'
  BY <1>11 DEF End, Refresh, Move
<1>12. ASSUME NEW w \in Workers, WorkerDone(w) PROVE Typed'
  BY <1>12 DEF WorkerDone, Move
<1>13. CASE UNCHANGED vars
  BY <1>13 DEF vars
<1> QED
  BY <1>1, <1>2, <1>3, <1>4, <1>5, <1>6, <1>7, <1>8, <1>9, <1>10, <1>11, <1>12, <1>13 DEF Next, Worker

\* Type correctness of the pool.
THEOREM PoolTypeCorrect == Spec => []TypeOK
<1>1. Typed => TypeOK
  BY DEF Typed
<1> QED
  BY TypedInit, TypedStep, <1>1, PTL DEF Spec

-------------------------------------------------------------------------------
(* Hosts and hands.  The unbuffered send moves a host from the list into one  *)
(* hand in one step, and the count grows in the step that lets it go.         *)

LEMMA SharedInit == Init => NoSharedHost
BY HostsAssumption DEF Init, NoSharedHost, Holding

LEMMA SharedStep == Typed /\ NoSharedHost /\ [Next]_vars => NoSharedHost'
<1> SUFFICES ASSUME Typed, NoSharedHost, [Next]_vars PROVE NoSharedHost'
  OBVIOUS
<1>a. TypeOK /\ InHand
  BY DEF Typed
<1> USE <1>a, HostsAssumption DEF TypeOK, InHand, NoSharedHost, Holding, progressVars, sinkVars
<1>1. ASSUME NEW w \in Workers, NEW h \in Hosts, Send(w, h) PROVE NoSharedHost'
  BY <1>1 DEF Send, Move
<1>2. ASSUME CloseJobs PROVE NoSharedHost'
  BY <1>2 DEF CloseJobs, Move
<1>3. ASSUME Return PROVE NoSharedHost'
  BY <1>3 DEF Return, Move
<1>4. ASSUME NEW w \in Workers, Begin(w) PROVE NoSharedHost'
  BY <1>4 DEF Begin, Refresh, Move
<1>5. ASSUME NEW w \in Workers, SinkRead(w) PROVE NoSharedHost'
  BY <1>5 DEF SinkRead, Move
<1>6. ASSUME NEW w \in Workers, SinkStore(w) PROVE NoSharedHost'
  BY <1>6 DEF SinkStore, Move
<1>7. ASSUME NEW w \in Workers, Test(w) PROVE NoSharedHost'
  BY <1>7 DEF Test, Move
<1>8. ASSUME NEW w \in Workers, EchoFailures(w) PROVE NoSharedHost'
  BY <1>8 DEF EchoFailures, Refresh, Move
<1>9. ASSUME NEW w \in Workers, NothingToEcho(w) PROVE NoSharedHost'
  BY <1>9 DEF NothingToEcho, Move
<1>10. ASSUME NEW w \in Workers, OnVM(w) PROVE NoSharedHost'
  BY <1>10 DEF OnVM, Move
<1>11. ASSUME NEW w \in Workers, End(w) PROVE NoSharedHost'
  BY <1>11 DEF End, Refresh, Move
<1>12. ASSUME NEW w \in Workers, WorkerDone(w) PROVE NoSharedHost'
  BY <1>12 DEF WorkerDone, Move
<1>13. CASE UNCHANGED vars
  BY <1>13 DEF vars
<1> QED
  BY <1>1, <1>2, <1>3, <1>4, <1>5, <1>6, <1>7, <1>8, <1>9, <1>10, <1>11, <1>12, <1>13 DEF Next, Worker

\* No host is ever in two hands, nor in a hand and still to be sent.
THEOREM PoolNoSharedHost == Spec => []NoSharedHost
BY TypedInit, TypedStep, SharedInit, SharedStep, PTL DEF Spec

Finished == {h \in Hosts : h \notin unsent /\ \A w \in Workers : holds[w] # h}

LEMMA CountStep ==
  Typed /\ NoSharedHost /\ DoneCountsHosts /\ [Next]_vars => DoneCountsHosts'
<1> SUFFICES ASSUME Typed, NoSharedHost, done = Cardinality(Finished), [Next]_vars
             PROVE  done' = Cardinality(Finished')
  BY DEF DoneCountsHosts, Finished
<1>a. TypeOK /\ InHand
  BY DEF Typed
<1>b. ASSUME Finished' = Finished, done' = done PROVE done' = Cardinality(Finished')
  BY <1>b
<1> USE <1>a, HostsAssumption DEF TypeOK, InHand, progressVars, sinkVars
<1>1. ASSUME NEW w \in Workers, NEW h \in Hosts, Send(w, h) PROVE done' = Cardinality(Finished')
  <2>1. unsent' = unsent \ {h} /\ holds' = [holds EXCEPT ![w] = h] /\ done' = done
    BY <1>1 DEF Send
  <2>2. holds[w] = NoHost /\ h \in unsent
    BY <1>1 DEF Send, Move
  <2>3. Finished' = Finished
    BY <2>1, <2>2 DEF Finished
  <2> QED BY <2>1, <2>3, <1>b
<1>2. ASSUME CloseJobs PROVE done' = Cardinality(Finished')
  BY <1>2, <1>b DEF CloseJobs, Move, Finished
<1>3. ASSUME Return PROVE done' = Cardinality(Finished')
  BY <1>3, <1>b DEF Return, Move, Finished
<1>4. ASSUME NEW w \in Workers, Begin(w) PROVE done' = Cardinality(Finished')
  BY <1>4, <1>b DEF Begin, Refresh, Move, Finished
<1>5. ASSUME NEW w \in Workers, SinkRead(w) PROVE done' = Cardinality(Finished')
  BY <1>5, <1>b DEF SinkRead, Move, Finished
<1>6. ASSUME NEW w \in Workers, SinkStore(w) PROVE done' = Cardinality(Finished')
  BY <1>6, <1>b DEF SinkStore, Move, Finished
<1>7. ASSUME NEW w \in Workers, Test(w) PROVE done' = Cardinality(Finished')
  BY <1>7, <1>b DEF Test, Move, Finished
<1>8. ASSUME NEW w \in Workers, EchoFailures(w) PROVE done' = Cardinality(Finished')
  BY <1>8, <1>b DEF EchoFailures, Refresh, Move, Finished
<1>9. ASSUME NEW w \in Workers, NothingToEcho(w) PROVE done' = Cardinality(Finished')
  BY <1>9, <1>b DEF NothingToEcho, Move, Finished
<1>10. ASSUME NEW w \in Workers, OnVM(w) PROVE done' = Cardinality(Finished')
  BY <1>10, <1>b DEF OnVM, Move, Finished
<1>11. ASSUME NEW w \in Workers, End(w) PROVE done' = Cardinality(Finished')
  <2> DEFINE h == holds[w]
  <2>1. h \in Hosts /\ at[w] = "end"
    BY <1>11 DEF End, Refresh, Move
  <2>2. holds' = [holds EXCEPT ![w] = NoHost] /\ unsent' = unsent /\ done' = done + 1
    BY <1>11 DEF End
  <2>3. \A v \in Workers : v # w => holds[v] # h
    BY <2>1 DEF NoSharedHost, Holding
  <2>4. h \notin unsent
    BY DEF NoSharedHost
  <2>5. Finished' = Finished \cup {h}
    BY <2>1, <2>2, <2>3, <2>4 DEF Finished
  <2>6. h \notin Finished
    BY DEF Finished
  <2>7. IsFiniteSet(Finished)
    BY FS_Subset DEF Finished
  <2>8. Cardinality(Finished \cup {h}) = Cardinality(Finished) + 1
    BY <2>6, <2>7, FS_AddElement
  <2> QED BY <2>2, <2>5, <2>8
<1>12. ASSUME NEW w \in Workers, WorkerDone(w) PROVE done' = Cardinality(Finished')
  BY <1>12, <1>b DEF WorkerDone, Move, Finished
<1>13. CASE UNCHANGED vars
  BY <1>13 DEF vars, Finished
<1> QED
  BY <1>1, <1>2, <1>3, <1>4, <1>5, <1>6, <1>7, <1>8, <1>9, <1>10, <1>11, <1>12, <1>13 DEF Next, Worker

\* Concurrent end() calls lose no increment: the count is the number of hosts
\* let go, at every moment.
THEOREM PoolCount == Spec => []DoneCountsHosts
<1>1. Init => DoneCountsHosts
  <2> SUFFICES ASSUME Init PROVE done = Cardinality(Finished)
    BY DEF DoneCountsHosts, Finished
  <2>1. Finished = {}
    BY DEF Init, Finished
  <2> QED BY <2>1, FS_EmptySet DEF Init
<1> QED
  BY <1>1, TypedInit, TypedStep, SharedInit, SharedStep, CountStep, PTL DEF Spec

-------------------------------------------------------------------------------
(* What the caller finds.  A host's result and its log line follow the place  *)
(* of the worker that has it in hand; the wait on the group adds that no hand *)
(* is left.                                                                   *)

Reporting(w) == at[w] \in {"echo", "report"} \/ (at[w] \in {"read", "store"} /\ back[w] = "report")

Progress ==
  /\ \A h \in unsent : result[h] = "none" /\ logged[h] = 0
  /\ \A w \in Workers : holds[w] \in Hosts =>
       /\ logged[holds[w]] = IF at[w] = "end" THEN 1 ELSE 0
       /\ result[holds[w]] = "none" <=> ~(Reporting(w) \/ at[w] = "end")
  /\ \A h \in Finished : result[h] # "none" /\ logged[h] = 1
  /\ feeder # "feed" => unsent = {}
  /\ feeder = "returned" => \A w \in Workers : at[w] = "exited"

LEMMA ProgressInit == Init => Progress
BY HostsAssumption DEF Init, Progress, Finished

LEMMA ProgressStep == Typed /\ NoSharedHost /\ Progress /\ [Next]_vars => Progress'
<1> SUFFICES ASSUME Typed, NoSharedHost, Progress, [Next]_vars PROVE Progress'
  OBVIOUS
<1>a. TypeOK /\ InHand
  BY DEF Typed
<1> USE <1>a, HostsAssumption
    DEF TypeOK, InHand, NoSharedHost, Holding, Progress, Reporting, Finished,
        progressVars, sinkVars
<1>1. ASSUME NEW w \in Workers, NEW h \in Hosts, Send(w, h) PROVE Progress'
  BY <1>1 DEF Send, Move
<1>2. ASSUME CloseJobs PROVE Progress'
  BY <1>2 DEF CloseJobs, Move
<1>3. ASSUME Return PROVE Progress'
  BY <1>3 DEF Return, Move
<1>4. ASSUME NEW w \in Workers, Begin(w) PROVE Progress'
  BY <1>4 DEF Begin, Refresh, Move
<1>5. ASSUME NEW w \in Workers, SinkRead(w) PROVE Progress'
  BY <1>5 DEF SinkRead, Move
<1>6. ASSUME NEW w \in Workers, SinkStore(w) PROVE Progress'
  BY <1>6 DEF SinkStore, Move
<1>7. ASSUME NEW w \in Workers, Test(w) PROVE Progress'
  BY <1>7 DEF Test, Move
<1>8. ASSUME NEW w \in Workers, EchoFailures(w) PROVE Progress'
  BY <1>8 DEF EchoFailures, Refresh, Move
<1>9. ASSUME NEW w \in Workers, NothingToEcho(w) PROVE Progress'
  BY <1>9 DEF NothingToEcho, Move
<1>10. ASSUME NEW w \in Workers, OnVM(w) PROVE Progress'
  BY <1>10 DEF OnVM, Move
<1>11. ASSUME NEW w \in Workers, End(w) PROVE Progress'
  BY <1>11 DEF End, Refresh, Move
<1>12. ASSUME NEW w \in Workers, WorkerDone(w) PROVE Progress'
  BY <1>12 DEF WorkerDone, Move
<1>13. CASE UNCHANGED vars
  BY <1>13 DEF vars
<1> QED
  BY <1>1, <1>2, <1>3, <1>4, <1>5, <1>6, <1>7, <1>8, <1>9, <1>10, <1>11, <1>12, <1>13 DEF Next, Worker

\* The map of running hosts has only keys of hosts in hand, shared addresses or
\* not: every begin is followed by the end of the same worker.
LEMMA ShownStep == Typed /\ ShownIsHeld /\ [Next]_vars => ShownIsHeld'
<1> SUFFICES ASSUME Typed, ShownIsHeld, [Next]_vars PROVE ShownIsHeld'
  OBVIOUS
<1>a. TypeOK /\ InHand
  BY DEF Typed
<1> USE <1>a, HostsAssumption, AddrAssumption
    DEF TypeOK, InHand, ShownIsHeld, Shown, Holding, progressVars, sinkVars
<1>1. ASSUME NEW w \in Workers, NEW h \in Hosts, Send(w, h) PROVE ShownIsHeld'
  BY <1>1 DEF Send, Move
<1>2. ASSUME CloseJobs PROVE ShownIsHeld'
  BY <1>2 DEF CloseJobs, Move
<1>3. ASSUME Return PROVE ShownIsHeld'
  BY <1>3 DEF Return, Move
<1>4. ASSUME NEW w \in Workers, Begin(w) PROVE ShownIsHeld'
  BY <1>4 DEF Begin, Refresh, Move
<1>5. ASSUME NEW w \in Workers, SinkRead(w) PROVE ShownIsHeld'
  BY <1>5 DEF SinkRead, Move
<1>6. ASSUME NEW w \in Workers, SinkStore(w) PROVE ShownIsHeld'
  BY <1>6 DEF SinkStore, Move
<1>7. ASSUME NEW w \in Workers, Test(w) PROVE ShownIsHeld'
  BY <1>7 DEF Test, Move
<1>8. ASSUME NEW w \in Workers, EchoFailures(w) PROVE ShownIsHeld'
  BY <1>8 DEF EchoFailures, Refresh, Move
<1>9. ASSUME NEW w \in Workers, NothingToEcho(w) PROVE ShownIsHeld'
  BY <1>9 DEF NothingToEcho, Move
<1>10. ASSUME NEW w \in Workers, OnVM(w) PROVE ShownIsHeld'
  BY <1>10 DEF OnVM, Move
<1>11. ASSUME NEW w \in Workers, End(w) PROVE ShownIsHeld'
  BY <1>11 DEF End, Refresh, Move
<1>12. ASSUME NEW w \in Workers, WorkerDone(w) PROVE ShownIsHeld'
  BY <1>12 DEF WorkerDone, Move
<1>13. CASE UNCHANGED vars
  BY <1>13 DEF vars
<1> QED
  BY <1>1, <1>2, <1>3, <1>4, <1>5, <1>6, <1>7, <1>8, <1>9, <1>10, <1>11, <1>12, <1>13 DEF Next, Worker

\* The progress line never names a host nobody has in hand.
THEOREM PoolShownIsHeld == Spec => []ShownIsHeld
<1>1. Init => ShownIsHeld
  BY DEF Init, ShownIsHeld
<1> QED
  BY <1>1, TypedInit, TypedStep, ShownStep, PTL DEF Spec

LEMMA PoolInvariant ==
  Spec => [](Typed /\ NoSharedHost /\ DoneCountsHosts /\ Progress /\ ShownIsHeld)
BY TypedInit, TypedStep, SharedInit, SharedStep, PoolCount, ProgressInit, ProgressStep,
   PoolShownIsHeld, PTL DEF Spec

\* Whatever the interleaving, a batch that returns has a result and exactly one
\* report for every host, an empty map and a full count.
THEOREM PoolReturnIsComplete == Spec => []ReturnIsComplete
<1>1. Typed /\ DoneCountsHosts /\ Progress /\ ShownIsHeld => ReturnIsComplete
  <2> SUFFICES ASSUME Typed, DoneCountsHosts, Progress, ShownIsHeld, feeder = "returned"
               PROVE  /\ \A h \in Hosts : result[h] # "none" /\ logged[h] = 1
                      /\ \A a \in Addresses : active[a] = NoHost
                      /\ done = Cardinality(Hosts)
    BY DEF ReturnIsComplete
  <2>1. \A w \in Workers : holds[w] = NoHost
    BY DEF Progress, Typed, InHand
  <2>2. unsent = {}
    BY DEF Progress
  <2>3. Finished = Hosts
    BY <2>1, <2>2, HostsAssumption DEF Finished
  <2>4. \A a \in Addresses : active[a] = NoHost
    BY <2>1 DEF ShownIsHeld, Shown, Holding
  <2>5. done = Cardinality(Hosts)
    BY <2>3 DEF DoneCountsHosts, Finished
  <2> QED BY <2>3, <2>4, <2>5 DEF Progress
<1> QED
  BY <1>1, PoolInvariant, PTL

-------------------------------------------------------------------------------
(* Refinement: a send claims a host, the call of onVM reports it.             *)

Stage(h) == IF h \in unsent THEN "waiting" ELSE IF logged[h] = 0 THEN "testing" ELSE "reported"

Shows(h) == IF logged[h] = 0 THEN "none" ELSE result[h]

LEMMA BatchStutter ==
  ASSUME \A h \in Hosts : Stage(h)' = Stage(h) /\ Shows(h)' = Shows(h),
         (feeder = "returned")' = (feeder = "returned")
  PROVE  UNCHANGED Batch!vars
BY DEF Stage, Shows, Batch!vars

LEMMA BatchStep ==
  Typed /\ NoSharedHost /\ Progress /\ [Next]_vars => [Batch!Next]_(Batch!vars)
<1> SUFFICES ASSUME Typed, NoSharedHost, Progress, [Next]_vars
             PROVE  [Batch!Next]_(Batch!vars)
  OBVIOUS
<1>a. TypeOK /\ InHand
  BY DEF Typed
<1> DEFINE Still == /\ \A h \in Hosts : Stage(h)' = Stage(h) /\ Shows(h)' = Shows(h)
                    /\ (feeder = "returned")' = (feeder = "returned")
           Good  == Still \/ Batch!Next
<1> USE <1>a, HostsAssumption DEF TypeOK, InHand, progressVars, sinkVars
<1>1. ASSUME NEW w \in Workers, NEW h \in Hosts, Send(w, h) PROVE Good
  <2>1. unsent' = unsent \ {h} /\ h \in unsent /\ logged' = logged /\ result' = result
    BY <1>1 DEF Send
  <2>2. logged[h] = 0 /\ feeder' = feeder
    BY <1>1 DEF Send, Progress
  <2>3. Batch!Claim(h)
    BY <2>1, <2>2 DEF Batch!Claim
  <2> QED BY <2>3 DEF Batch!Next
<1>2. ASSUME CloseJobs PROVE Good
  BY <1>2 DEF CloseJobs, Move, Stage, Shows
<1>3. ASSUME Return PROVE Good
  <2>1. \A w \in Workers : holds[w] = NoHost
    BY <1>3 DEF Return
  <2>2. Finished = Hosts
    BY <1>3, <2>1 DEF Finished, Progress, Return
  <2>3. feeder = "wait" /\ feeder' = "returned" /\ UNCHANGED <<unsent, logged, result>>
    BY <1>3 DEF Return
  <2>4. Batch!Return
    BY <2>2, <2>3 DEF Progress, Finished, Batch!Return
  <2> QED BY <2>4 DEF Batch!Next
<1>4. ASSUME NEW w \in Workers, Begin(w) PROVE Good
  BY <1>4 DEF Begin, Refresh, Move, Stage, Shows
<1>5. ASSUME NEW w \in Workers, SinkRead(w) PROVE Good
  BY <1>5 DEF SinkRead, Move, Stage, Shows
<1>6. ASSUME NEW w \in Workers, SinkStore(w) PROVE Good
  BY <1>6 DEF SinkStore, Move, Stage, Shows
<1>7. ASSUME NEW w \in Workers, Test(w) PROVE Good
  <2> DEFINE h == holds[w]
  <2>1. h \in Hosts /\ logged[h] = 0
    BY <1>7 DEF Test, Move, Progress
  <2>2. PICK r \in {"ok", "failed"} : result' = [result EXCEPT ![h] = r]
    BY <1>7 DEF Test
  <2>3. UNCHANGED <<feeder, unsent, logged>>
    BY <1>7 DEF Test
  <2> QED BY <2>1, <2>2, <2>3 DEF Stage, Shows
<1>8. ASSUME NEW w \in Workers, EchoFailures(w) PROVE Good
  BY <1>8 DEF EchoFailures, Refresh, Move, Stage, Shows
<1>9. ASSUME NEW w \in Workers, NothingToEcho(w) PROVE Good
  BY <1>9 DEF NothingToEcho, Move, Stage, Shows
<1>10. ASSUME NEW w \in Workers, OnVM(w) PROVE Good
  <2>1. PICK h \in Hosts : h = holds[w]
    BY <1>10 DEF OnVM, Move
  <2>2. h \notin unsent /\ logged[h] = 0 /\ result[h] \in {"ok", "failed"}
    BY <1>10, <2>1 DEF OnVM, Move, Progress, Reporting, NoSharedHost
  <2>3. /\ logged' = [logged EXCEPT ![h] = 1]
        /\ UNCHANGED <<feeder, unsent, result>>
    BY <1>10, <2>1, <2>2 DEF OnVM
  <2>4. \A i \in Hosts : logged'[i] = IF i = h THEN 1 ELSE logged[i]
    BY <2>3
  <2>5. logged'[h] # 0 /\ \A i \in Hosts : i # h => logged'[i] = logged[i]
    BY <2>1, <2>4
  <2> HIDE <1>a DEF TypeOK, InHand
  <2>6. Batch!Report(h)
    <3>1. /\ \A i \in Hosts : Stage(i)' = IF i = h THEN "reported" ELSE Stage(i)
          /\ \A i \in Hosts : Shows(i)' = IF i = h THEN result[h] ELSE Shows(i)
          /\ Stage(h) = "testing" /\ (feeder = "returned")' = (feeder = "returned")
      BY <2>1, <2>2, <2>3, <2>5 DEF Stage, Shows
    <3> QED BY <2>1, <2>2, <3>1 DEF Batch!Report, Stage, Shows
  <2>7. Batch!Next
    BY <2>1, <2>6 DEF Batch!Next
  <2> QED BY <2>7
<1>11. ASSUME NEW w \in Workers, End(w) PROVE Good
  BY <1>11 DEF End, Refresh, Move, Stage, Shows
<1>12. ASSUME NEW w \in Workers, WorkerDone(w) PROVE Good
  BY <1>12 DEF WorkerDone, Move, Stage, Shows
<1>13. ASSUME UNCHANGED vars PROVE Good
  BY <1>13 DEF vars, Stage, Shows
<1> HIDE <1>a, HostsAssumption DEF TypeOK, InHand, Good
<1>14. Good
  BY <1>1, <1>2, <1>3, <1>4, <1>5, <1>6, <1>7, <1>8, <1>9, <1>10, <1>11, <1>12, <1>13 DEF Next, Worker
<1> QED
  BY <1>14, BatchStutter DEF Good

\* The pool implements HostBatch.
THEOREM WorkerPoolImplementsBatch == Spec => ImplementsBatch
<1>1. Init => Batch!Init
  BY DEF Init, Batch!Init
<1>2. Spec => []([Batch!Next]_(Batch!vars))
  BY PoolInvariant, BatchStep, PTL DEF Spec
<1> QED
  BY <1>1, <1>2, PTL DEF ImplementsBatch, Batch!Spec, Spec

\* What the workers share agrees with the hosts it stands for.
THEOREM PoolIsConsistent == Spec => []PoolInv
<1>1. DoneCountsHosts /\ ShownIsHeld /\ ReturnIsComplete => PoolInv
  BY DEF PoolInv
<1> QED
  BY <1>1, PoolCount, PoolShownIsHeld, PoolReturnIsComplete, PTL
=============================================================================
