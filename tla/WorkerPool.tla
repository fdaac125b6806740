------------------------------ MODULE WorkerPool ------------------------------
(***************************************************************************)
(* runSSHTests: cfg.SSH.Workers goroutines take hosts from an unbuffered   *)
(* channel, test them and report them, while progressMgr keeps the number  *)
(* of finished hosts and the map of hosts being worked on.                 *)
(*                                                                         *)
(* progressMgr's own fields are written under its mutex, one step per      *)
(* critical section.  The web sink it calls is not under any lock: it      *)
(* reads the count and later stores it in Job.Done, two steps here.        *)
(*                                                                         *)
(* Abstracted: the order of the hosts (any waiting host may be next), what *)
(* a test does (Pipeline), and the text of the progress line.              *)
(***************************************************************************)
EXTENDS Integers, FiniteSets

CONSTANTS Hosts,       \* the hosts collected for the run
          Addresses,   \* internal addresses, "" included
          Addr,        \* Addr[h]: the internal address of host h
          SSHWorkers,  \* cfg.SSH.Workers as loadConfig leaves it
          NoHost

ASSUME HostsAssumption   == IsFiniteSet(Hosts) /\ NoHost \notin Hosts
ASSUME AddrAssumption    == Addr \in [Hosts -> Addresses]
ASSUME WorkersAssumption == SSHWorkers \in Int

Workers == 1..SSHWorkers

VARIABLES
  feeder,   \* the calling goroutine: "feed", "wait" on the group, "returned"
  unsent,   \* hosts not yet sent on the channel
  at,       \* where each worker stands
  back,     \* where it continues after the sink
  holds,    \* the host it has in hand
  result,   \* VM.SSHResult, "none" until written
  logged,   \* how often onVM was called for a host
  active,   \* progressMgr.active, by address
  done,     \* progressMgr.done
  seen,     \* the count a worker read in the sink
  jobDone   \* Job.Done

progressVars == <<active, done>>
sinkVars     == <<seen, jobDone>>
vars == <<feeder, unsent, at, back, holds, result, logged, progressVars, sinkVars>>

Places == {"idle", "begin", "read", "store", "test", "echo", "report", "end", "exited"}

TypeOK ==
  /\ feeder  \in {"feed", "wait", "returned"}
  /\ unsent  \subseteq Hosts
  /\ at      \in [Workers -> Places]
  /\ back    \in [Workers -> {"idle", "test", "report"}]
  /\ holds   \in [Workers -> Hosts \cup {NoHost}]
  /\ result  \in [Hosts -> {"none", "ok", "failed"}]
  /\ logged  \in [Hosts -> Nat]
  /\ active  \in [Addresses -> Hosts \cup {NoHost}]
  /\ done    \in Nat
  /\ seen    \in [Workers -> Nat]
  /\ jobDone \in Nat

Init ==
  /\ feeder  = "feed"
  /\ unsent  = Hosts
  /\ at      = [w \in Workers |-> "idle"]
  /\ back    = [w \in Workers |-> "idle"]
  /\ holds   = [w \in Workers |-> NoHost]
  /\ result  = [h \in Hosts |-> "none"]
  /\ logged  = [h \in Hosts |-> 0]
  /\ active  = [a \in Addresses |-> NoHost]
  /\ done    = 0
  /\ seen    = [w \in Workers |-> 0]
  /\ jobDone = 0

Move(w, from, to) == at[w] = from /\ at' = [at EXCEPT ![w] = to]

\* refresh() calls the sink and then comes back to the caller.
Refresh(w, from, to) == Move(w, from, "read") /\ back' = [back EXCEPT ![w] = to]

-------------------------------------------------------------------------------
(* The feeder *)

\* Mutant: a host that is sent stays on the list.
SendKeeps(w, h) ==
  /\ feeder = "feed"
  /\ h \in unsent
  /\ Move(w, "idle", "begin")
  /\ holds'  = [holds EXCEPT ![w] = h]
  /\ UNCHANGED <<feeder, unsent, back, result, logged, progressVars, sinkVars>>

\* `jobs <- vm` meets a worker's receive: the channel has no buffer.
Send(w, h) ==
  /\ feeder = "feed"
  /\ h \in unsent
  /\ Move(w, "idle", "begin")
  /\ unsent' = unsent \ {h}
  /\ holds'  = [holds EXCEPT ![w] = h]
  /\ UNCHANGED <<feeder, back, result, logged, progressVars, sinkVars>>

CloseJobs ==
  /\ feeder = "feed"
  /\ unsent = {}
  /\ feeder' = "wait"
  /\ UNCHANGED <<unsent, at, back, holds, result, logged, progressVars, sinkVars>>

\* Mutant: the caller does not wait for the workers.
ReturnAtOnce ==
  /\ feeder = "wait"
  /\ feeder' = "returned"
  /\ UNCHANGED <<unsent, at, back, holds, result, logged, progressVars, sinkVars>>

\* wg.Wait
Return ==
  /\ feeder = "wait"
  /\ \A w \in Workers : at[w] = "exited"
  /\ feeder' = "returned"
  /\ UNCHANGED <<unsent, at, back, holds, result, logged, progressVars, sinkVars>>

-------------------------------------------------------------------------------
(* A worker *)

Begin(w) ==
  /\ Refresh(w, "begin", "test")
  /\ active' = [active EXCEPT ![Addr[holds[w]]] = holds[w]]
  /\ UNCHANGED <<feeder, unsent, holds, result, logged, done, sinkVars>>

SinkRead(w) ==
  /\ Move(w, "read", "store")
  /\ seen' = [seen EXCEPT ![w] = done]
  /\ UNCHANGED <<feeder, unsent, back, holds, result, logged, progressVars, jobDone>>

SinkStore(w) ==
  /\ Move(w, "store", back[w])
  /\ jobDone' = seen[w]
  /\ UNCHANGED <<feeder, unsent, back, holds, result, logged, progressVars, seen>>

Test(w) ==
  /\ Move(w, "test", "echo")
  /\ \E r \in {"ok", "failed"} : result' = [result EXCEPT ![holds[w]] = r]
  /\ UNCHANGED <<feeder, unsent, back, holds, logged, progressVars, sinkVars>>

\* Failed steps are echoed through progressPrint, which refreshes; a host may
\* have none, and the calls of several collapse to one.
EchoFailures(w) ==
  /\ Refresh(w, "echo", "report")
  /\ UNCHANGED <<feeder, unsent, holds, result, logged, progressVars, sinkVars>>

NothingToEcho(w) ==
  /\ Move(w, "echo", "report")
  /\ UNCHANGED <<feeder, unsent, back, holds, result, logged, progressVars, sinkVars>>

OnVM(w) ==
  /\ Move(w, "report", "end")
  /\ logged' = [logged EXCEPT ![holds[w]] = @ + 1]
  /\ UNCHANGED <<feeder, unsent, back, holds, result, progressVars, sinkVars>>

\* Mutant: the count is a read and a write without the mutex.
EndLosesUpdate(w) ==
  /\ Refresh(w, "end", "idle")
  /\ active' = [active EXCEPT ![Addr[holds[w]]] = NoHost]
  /\ done'   = seen[w] + 1
  /\ holds'  = [holds EXCEPT ![w] = NoHost]
  /\ UNCHANGED <<feeder, unsent, result, logged, sinkVars>>

\* Mutant: the entry of the finished host stays.
EndKeepsEntry(w) ==
  /\ Refresh(w, "end", "idle")
  /\ done'   = done + 1
  /\ holds'  = [holds EXCEPT ![w] = NoHost]
  /\ UNCHANGED <<feeder, unsent, result, logged, active, sinkVars>>

End(w) ==
  /\ Refresh(w, "end", "idle")
  /\ active' = [active EXCEPT ![Addr[holds[w]]] = NoHost]
  /\ done'   = done + 1
  /\ holds'  = [holds EXCEPT ![w] = NoHost]
  /\ UNCHANGED <<feeder, unsent, result, logged, sinkVars>>

\* Mutant: the channel is closed only after the wait.
WorkerDoneLate(w) ==
  /\ feeder = "returned"
  /\ Move(w, "idle", "exited")
  /\ UNCHANGED <<feeder, unsent, back, holds, result, logged, progressVars, sinkVars>>

\* The closed channel ends the worker's loop.
WorkerDone(w) ==
  /\ feeder # "feed"
  /\ Move(w, "idle", "exited")
  /\ UNCHANGED <<feeder, unsent, back, holds, result, logged, progressVars, sinkVars>>

Worker(w) == \/ Begin(w) \/ SinkRead(w) \/ SinkStore(w) \/ Test(w) \/ EchoFailures(w)
             \/ NothingToEcho(w) \/ OnVM(w) \/ End(w) \/ WorkerDone(w)

Next == \/ CloseJobs
        \/ Return
        \/ \E w \in Workers : Worker(w) \/ \E h \in Hosts : Send(w, h)

Spec == Init /\ [][Next]_vars

\* The goroutines are scheduled fairly, and testOne is assumed to return.
Feeder == CloseJobs \/ Return \/ \E w \in Workers, h \in Hosts : Send(w, h)
FairSpec == Spec /\ WF_vars(Feeder) /\ \A w \in Workers : WF_vars(Worker(w))

-------------------------------------------------------------------------------
(* Properties *)

Holding(w) == holds[w] # NoHost
Shown(w)   == Holding(w) /\ at[w] # "begin"

\* No host is in two hands, and none in hand is still waiting to be sent.
NoSharedHost ==
  /\ \A v, w \in Workers : Holding(v) /\ holds[v] = holds[w] => v = w
  /\ \A w \in Workers : holds[w] \notin unsent

\* The count is the number of hosts that are neither waiting nor in hand:
\* concurrent end() calls lose no increment and no host counts twice.
DoneCountsHosts ==
  done = Cardinality({h \in Hosts : h \notin unsent /\ \A w \in Workers : holds[w] # h})

\* When runSSHTests returns every host has a result, was reported to onVM
\* exactly once, and nothing is left in the map of running hosts.
ReturnIsComplete ==
  feeder = "returned" =>
    /\ \A h \in Hosts : result[h] # "none" /\ logged[h] = 1
    /\ \A a \in Addresses : active[a] = NoHost
    /\ done = Cardinality(Hosts)

\* The progress line names no host that no worker has in hand: a finished host
\* does not linger there, even when several hosts share an address.
ShownIsHeld ==
  \A a \in Addresses : active[a] # NoHost =>
    \E w \in Workers : Shown(w) /\ Addr[holds[w]] = a

\* The counters and the map the workers share agree with the hosts they stand for,
\* and are settled when the batch returns (sshcheck.go:86, 288).
PoolInv == DoneCountsHosts /\ ShownIsHeld /\ ReturnIsComplete

\* A host a worker has taken is shown as running until the worker is done with
\* it, provided the addresses tell the hosts apart.
\* Not satisfied when two hosts share one.
HeldIsShown == \A w \in Workers : Shown(w) => active[Addr[holds[w]]] = holds[w]

\* The last progress the sink stored says that all hosts are done.
\* Not satisfied by the code.
FinalProgressComplete == feeder = "returned" => jobDone = Cardinality(Hosts)

\* The batch returns.
BatchReturns == <>(feeder = "returned")

(* Each host claimed, reported and returned as HostBatch promises. *)
Batch == INSTANCE HostBatch WITH
  stage    <- [h \in Hosts |-> IF h \in unsent THEN "waiting"
                               ELSE IF logged[h] = 0 THEN "testing" ELSE "reported"],
  outcome  <- [h \in Hosts |-> IF logged[h] = 0 THEN "none" ELSE result[h]],
  returned <- feeder = "returned"

ImplementsBatch == Batch!Spec
===============================================================================
