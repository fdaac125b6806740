--------------------------- MODULE PipelineProofs ---------------------------
(***************************************************************************)
(* Proofs about Pipeline, for any exec lists, hosts and addresses: what is *)
(* skipped is what the failure policies say, every step runs as often as   *)
(* its mode says, the results are complete, and the whole implements       *)
(* ExecList.                                                               *)
(***************************************************************************)
EXTENDS Pipeline, SequenceTheorems, TLAPS

\* A host with a connection to open or to use came by it through an address.
Typed ==
  /\ TypeOK
  /\ \A h \in Hosts : at[h] \in {"dial", "handshake", "session", "verify"} => candidates[h] # << >>

\* Phase one has run the once steps it has passed and no others, and the flag
\* says whether one of them ended it.
PhaseOneInv ==
  /\ mode = "check" => cursor > Len(steps) /\ ~globalStopped
  /\ \A i \in 1..Len(steps) :
       /\ onceResults[i] # "nil" <=> mode = "run" /\ i < cursor /\ InPhaseOne(steps[i])
       /\ runs[Nowhere][i] = IF onceResults[i] = "nil" THEN 0 ELSE 1
       /\ onceResults[i] = "failure" /\ OnError(steps[i]) = "stop" => globalStopped
  /\ globalStopped => \E i \in 1..Len(steps) : onceResults[i] = "failure" /\ OnError(steps[i]) = "stop"

\* Hosts wait for phase one, and have results only after a login.
PlaceInv(h) ==
  /\ at[h] # "waiting" => PhaseOneOver
  /\ at[h] \notin {"steps", "finished"} => login[h] = "none"
  /\ at[h] = "steps" => login[h] = "ok" /\ mode = "run"
  /\ at[h] = "finished" => login[h] # "none"
  /\ login[h] # "ok" \/ mode = "check" => results[h] = << >>
  /\ at[h] = "finished" /\ login[h] = "ok" /\ mode = "run" => Len(results[h]) = Len(steps)

StoppedBefore(h, i) == globalStopped \/ \E j \in 1..(i - 1) : Stops(steps[j], results[h][j])

\* The flag of a host says what its results say, and what ran is what they had
\* not yet stopped.
ListInv(h) ==
  /\ Len(results[h]) <= Len(steps)
  /\ login[h] = "ok" => (stopped[h] <=> StoppedBefore(h, Len(results[h]) + 1))
  /\ \A i \in 1..Len(results[h]) :
       /\ onceResults[i] # "nil" => results[h][i] = onceResults[i]
       /\ results[h][i] = "skipped" => StoppedBefore(h, i)
  /\ \A i \in 1..Len(steps) :
       /\ runs[h][i] <= 1
       /\ runs[h][i] > 0 => i <= Len(results[h]) /\ ~InPhaseOne(steps[i]) /\ ~StoppedBefore(h, i)

HostInv(h) == PlaceInv(h) /\ ListInv(h)

IInv == Typed /\ PhaseOneInv /\ \A h \in Hosts : HostInv(h)

-----------------------------------------------------------------------------
(* Types *)

\* What is left of a sequence of two or more is not empty.
LEMMA RestOfSeq ==
  ASSUME NEW S, NEW s \in Seq(S), s # << >>
  PROVE  Tail(s) \in Seq(S) /\ (Len(s) > 1 => Tail(s) # << >>)
<1>1. Tail(s) \in Seq(S) /\ Len(Tail(s)) = Len(s) - 1 /\ Len(s) \in Nat
  BY HeadTailProperties, LenProperties
<1>2. Tail(s) = << >> => Len(Tail(s)) = 0
  BY EmptySeq
<1> QED BY <1>1, <1>2

\* One more is counted for one of the things counted.
LEMMA CountIsTyped ==
  ASSUME NEW S, NEW f \in [S -> Nat], NEW x \in S
  PROVE  [f EXCEPT ![x] = @ + 1] \in [S -> Nat]
OBVIOUS

\* A step is a step.
LEMMA StepsAreSteps ==
  ASSUME steps \in Pipelines
  PROVE  /\ Len(steps) \in Nat
         /\ DOMAIN steps = 1..Len(steps)
         /\ \A i \in 1..Len(steps) : steps[i] \in StepType
BY PipelinesAssumption

\* What a host may try is a sequence of addresses.
LEMMA CandidatesTyped == \A h \in Hosts : Candidates(h) \in Seq({"internal", "eip"})
<1> TAKE h \in Hosts
<1> DEFINE internal == IF h \in HasIP  THEN <<"internal">> ELSE << >>
           eip      == IF h \in HasEIP THEN <<"eip">>      ELSE << >>
<1>1. internal \in Seq({"internal", "eip"}) /\ eip \in Seq({"internal", "eip"})
  <2>1. /\ <<"internal">> \in Seq({"internal", "eip"}) /\ <<"eip">> \in Seq({"internal", "eip"})
        /\ << >> \in Seq({"internal", "eip"})
    OBVIOUS
  <2> QED BY <2>1
<1> HIDE DEF internal, eip
<1>2. internal \o eip \in Seq({"internal", "eip"})
  BY <1>1
<1>3. Candidates(h) \in {internal, eip, internal \o eip}
  BY DEF Candidates, internal, eip
<1> QED BY <1>1, <1>2, <1>3

\* What a host may do next, by the statements its actions share.
LEMMA HostSteps ==
  ASSUME NEW h \in Hosts, HostNext(h)
  PROVE  \/ Claim(h)
         \/ \E from \in {"dial", "handshake", "session", "verify"} : Refused(h, from)
         \/ \E from, to \in {"dial", "handshake", "session", "verify"} : Advance(h, from, to)
         \/ Enter(h)
         \/ SkipStep(h) \/ ReuseStep(h) \/ ExecStep(h) \/ Finish(h)
BY Zenon DEF HostNext, Dial, Handshake, Session, Verify

\* The variables keep their types.
LEMMA TypesAreKept == Typed /\ [Next]_vars => Typed'
<1> SUFFICES ASSUME Typed, [Next]_vars PROVE Typed'
  OBVIOUS
<1>0. steps \in Pipelines /\ Len(steps) \in Nat /\ \A i \in 1..Len(steps) : steps[i] \in StepType
  BY StepsAreSteps DEF Typed, TypeOK
<1> USE DEF Typed, TypeOK, config, onceVars, hostVars
<1>1. CASE PassOver
  BY <1>0, <1>1 DEF PassOver, PhaseOneOver
<1>2. CASE OnceStep
  <2> USE <1>2 DEF OnceStep, PhaseOneOver
  <2>1. cursor \in 1..Len(steps)
    BY <1>0
  <2>2. globalStopped' \in BOOLEAN
    BY DEF Stops, Ok
  <2>3. runs' \in [Hosts \cup {Nowhere} -> [1..Len(steps) -> Nat]]
    <3>1. runs[Nowhere] \in [1..Len(steps) -> Nat]
      OBVIOUS
    <3>2. [runs[Nowhere] EXCEPT ![cursor] = @ + 1] \in [1..Len(steps) -> Nat]
      BY <3>1, <2>1, CountIsTyped
    <3> QED BY <3>2
  <2> QED BY <1>0, <2>1, <2>2, <2>3
<1>3. ASSUME NEW h \in Hosts, HostNext(h) PROVE Typed'
  <2>1. CASE Claim(h)
    BY <2>1, CandidatesTyped DEF Claim
  <2>2. ASSUME NEW from \in {"dial", "handshake", "session", "verify"}, Refused(h, from) PROVE Typed'
    <3> USE <2>2 DEF Refused
    <3>1. candidates[h] \in Seq({"internal", "eip"}) /\ candidates[h] # << >>
      OBVIOUS
    <3>2. /\ Tail(candidates[h]) \in Seq({"internal", "eip"})
          /\ Len(candidates[h]) > 1 => Tail(candidates[h]) # << >>
      BY <3>1, RestOfSeq
    <3> QED BY <3>2
  <2>3. ASSUME NEW from \in {"dial", "handshake", "session", "verify"},
               NEW to \in {"dial", "handshake", "session", "verify"}, Advance(h, from, to)
        PROVE  Typed'
    BY <2>3 DEF Advance
  <2>4. CASE Enter(h)
    BY <2>4 DEF Enter
  <2>5. CASE SkipStep(h)
    BY <2>5 DEF SkipStep
  <2>6. CASE ReuseStep(h)
    <3> USE <2>6 DEF ReuseStep, Reuses, Next1
    <3>1. Next1(h) \in 1..Len(steps)
      BY <1>0
    <3>2. onceResults[Next1(h)] \in {"success", "failure", "skipped"}
      BY <3>1
    <3>3. stopped' \in [Hosts -> BOOLEAN]
      BY DEF Stops, Ok
    <3> QED BY <3>2, <3>3
  <2>7. CASE ExecStep(h)
    <3> USE <2>7 DEF ExecStep, Next1
    <3>1. Next1(h) \in 1..Len(steps)
      BY <1>0
    <3>2. stopped' \in [Hosts -> BOOLEAN]
      BY DEF Stops, Ok
    <3>3. runs' \in [Hosts \cup {Nowhere} -> [1..Len(steps) -> Nat]]
      BY <1>0, <3>1
    <3> QED BY <3>2, <3>3
  <2>8. CASE Finish(h)
    BY <2>8 DEF Finish, Advance
  <2> QED BY <1>3, <2>1, <2>2, <2>3, <2>4, <2>5, <2>6, <2>7, <2>8, HostSteps
<1>4. CASE UNCHANGED vars
  BY <1>4 DEF vars
<1> QED BY <1>1, <1>2, <1>3, <1>4 DEF Next

\* The variables begin with their types.
LEMMA InitIsTyped == Init => Typed
<1> SUFFICES ASSUME Init PROVE Typed
  OBVIOUS
<1>1. Len(steps) \in Nat
  BY StepsAreSteps DEF Init
<1>2. \A S : << >> \in Seq(S)
  OBVIOUS
<1>3. candidates \in [Hosts -> Seq({"internal", "eip"})] /\ results \in [Hosts -> Seq({"success", "failure", "skipped"})]
  BY <1>2 DEF Init
<1>4. runs \in [Hosts \cup {Nowhere} -> [1..Len(steps) -> Nat]] /\ cursor \in 1..(Len(steps) + 1)
  BY <1>1 DEF Init
<1> QED BY <1>1, <1>3, <1>4 DEF Init, Typed, TypeOK

-----------------------------------------------------------------------------
(* What a host's results say *)

\* A result that is reported comes after those there are.
LEMMA OneMore ==
  ASSUME TypeOK, NEW h \in Hosts, NEW r \in {"success", "failure", "skipped"},
         results' = [results EXCEPT ![h] = Append(@, r)]
  PROVE  /\ Len(results[h]) \in Nat
         /\ Len(results'[h]) = Len(results[h]) + 1
         /\ results'[h][Len(results[h]) + 1] = r
         /\ \A i \in 1..Len(results[h]) : results'[h][i] = results[h][i]
         /\ \A k \in Hosts \ {h} : results'[k] = results[k]
<1>1. results[h] \in Seq({"success", "failure", "skipped"}) /\ results'[h] = Append(results[h], r)
  BY DEF TypeOK
<1>2. \A k \in Hosts \ {h} : results'[k] = results[k]
  BY DEF TypeOK
<1> QED BY <1>1, <1>2, AppendProperties

\* A step that only moves a host or adds to its list says nothing of the others.
LEMMA OthersAreKept ==
  ASSUME IInv, NEW h \in Hosts, NEW k \in Hosts, k # h, HostNext(h)
  PROVE  HostInv(k)'
<1>1. /\ UNCHANGED <<config, onceVars>>
      /\ at'[k] = at[k] /\ login'[k] = login[k] /\ stopped'[k] = stopped[k]
      /\ results'[k] = results[k] /\ runs'[k] = runs[k]
  <2> USE DEF IInv, Typed, TypeOK
  <2>1. CASE Claim(h)                  BY <2>1 DEF Claim
  <2>2. CASE \E from \in {"dial", "handshake", "session", "verify"} : Refused(h, from)
    BY <2>2 DEF Refused
  <2>3. CASE \E from, to \in {"dial", "handshake", "session", "verify"} : Advance(h, from, to)
    BY <2>3 DEF Advance
  <2>4. CASE Enter(h)                  BY <2>4 DEF Enter
  <2>5. CASE SkipStep(h)               BY <2>5 DEF SkipStep
  <2>6. CASE ReuseStep(h)              BY <2>6 DEF ReuseStep
  <2>7. CASE ExecStep(h)               BY <2>7 DEF ExecStep
  <2>8. CASE Finish(h)                 BY <2>8 DEF Finish, Advance
  <2> QED BY <2>1, <2>2, <2>3, <2>4, <2>5, <2>6, <2>7, <2>8, HostSteps
<1>2. HostInv(k)
  BY DEF IInv
<1> QED BY <1>1, <1>2 DEF HostInv, PlaceInv, ListInv, StoppedBefore, PhaseOneOver, config, onceVars

\* The list a host is at goes on while phase one is over, and as far as it is
\* not stopped every once step before its end has a result.
LEMMA PhaseOneIsOver ==
  ASSUME IInv, NEW h \in Hosts, at[h] = "steps", NEW i \in 1..Len(steps)
  PROVE  /\ mode = "run" /\ login[h] = "ok" /\ PhaseOneOver
         /\ onceResults[i] # "nil" => InPhaseOne(steps[i])
         /\ ~globalStopped /\ InPhaseOne(steps[i]) => onceResults[i] # "nil"
<1>1. HostInv(h) /\ PhaseOneInv /\ cursor \in 1..(Len(steps) + 1) /\ Len(steps) \in Nat
  BY StepsAreSteps DEF IInv, Typed, TypeOK
<1>2. mode = "run" /\ login[h] = "ok" /\ PhaseOneOver
  BY <1>1 DEF HostInv, PlaceInv
<1>3. onceResults[i] # "nil" <=> mode = "run" /\ i < cursor /\ InPhaseOne(steps[i])
  BY <1>1 DEF PhaseOneInv
<1> QED BY <1>1, <1>2, <1>3 DEF PhaseOneOver

-----------------------------------------------------------------------------
(* Every step keeps the invariant *)

\* Phase one, one step further, keeps the results of no host from being right:
\* no host has any.
LEMMA PhaseOneKeepsInv == IInv /\ (PassOver \/ OnceStep) => PhaseOneInv' /\ \A h \in Hosts : HostInv(h)'
<1> SUFFICES ASSUME IInv, PassOver \/ OnceStep PROVE PhaseOneInv' /\ \A h \in Hosts : HostInv(h)'
  OBVIOUS
<1>0. /\ TypeOK /\ PhaseOneInv /\ ~PhaseOneOver /\ mode # "check"
      /\ Len(steps) \in Nat /\ cursor \in 1..Len(steps) /\ ~globalStopped
  BY StepsAreSteps, ModesAssumption DEF IInv, Typed, TypeOK, PassOver, OnceStep, PhaseOneOver, PhaseOneInv
<1>1. ASSUME NEW h \in Hosts
      PROVE  at[h] = "waiting" /\ login[h] = "none" /\ results[h] = << >> /\ \A i \in 1..Len(steps) : runs[h][i] = 0
  <2>1. HostInv(h)
    BY DEF IInv
  <2>2. at[h] = "waiting" /\ login[h] = "none" /\ results[h] = << >>
    BY <1>0, <2>1 DEF HostInv, PlaceInv
  <2>3. \A i \in 1..Len(steps) : runs[h][i] \in Nat
    BY <1>0 DEF TypeOK
  <2> QED BY <1>0, <2>1, <2>2, <2>3 DEF HostInv, ListInv
<1>2. ASSUME NEW h \in Hosts PROVE HostInv(h)'
  <2>1. steps' = steps /\ mode' = mode /\ at' = at /\ login' = login /\ results' = results /\ runs'[h] = runs[h]
    <3>1. h # Nowhere
      BY NowhereAssumption
    <3> QED BY <1>0, <3>1 DEF PassOver, OnceStep, config, hostVars, TypeOK
  <2> QED BY <1>0, <1>1, <2>1 DEF HostInv, PlaceInv, ListInv
<1>3. CASE PassOver
  <2>1. PhaseOneInv'
    BY <1>0, <1>3 DEF PassOver, PhaseOneInv, config, TypeOK
  <2> QED BY <1>2, <2>1
<1>4. CASE OnceStep
  <2>1. PICK r \in {"success", "failure"} :
          /\ onceResults'   = [onceResults EXCEPT ![cursor] = r]
          /\ globalStopped' = Stops(steps[cursor], r)
    BY <1>4 DEF OnceStep
  <2>2. /\ InPhaseOne(steps[cursor]) /\ cursor' = cursor + 1 /\ steps' = steps /\ mode' = mode
        /\ runs' = [runs EXCEPT ![Nowhere][cursor] = @ + 1]
    BY <1>4 DEF OnceStep, config
  <2>3. onceResults[cursor] = "nil" /\ runs[Nowhere][cursor] = 0
    BY <1>0 DEF PhaseOneInv
  <2>4. \A i \in 1..Len(steps) : /\ onceResults'[i] = IF i = cursor THEN r ELSE onceResults[i]
                                 /\ runs'[Nowhere][i] = IF i = cursor THEN 1 ELSE runs[Nowhere][i]
    BY <1>0, <2>1, <2>2, <2>3 DEF TypeOK
  <2>5. globalStopped' <=> r = "failure" /\ OnError(steps[cursor]) = "stop"
    BY <2>1 DEF Stops, Ok
  <2>6. PhaseOneInv'
    <3>1. mode' # "check"
      BY <1>0, <2>2
    <3>2. ASSUME NEW i \in 1..Len(steps)
          PROVE  /\ onceResults'[i] # "nil" <=> mode' = "run" /\ i < cursor' /\ InPhaseOne(steps[i])
                 /\ runs'[Nowhere][i] = IF onceResults'[i] = "nil" THEN 0 ELSE 1
                 /\ onceResults'[i] = "failure" /\ OnError(steps[i]) = "stop" => globalStopped'
      <4>1. mode = "run"
        BY <1>0, ModesAssumption DEF TypeOK
      <4>2. CASE i = cursor
        BY <1>0, <2>2, <2>4, <2>5, <4>1, <4>2
      <4>3. CASE i # cursor
        <5>1. onceResults'[i] = onceResults[i] /\ runs'[Nowhere][i] = runs[Nowhere][i] /\ (i < cursor' <=> i < cursor)
          BY <1>0, <2>2, <2>4, <4>3
        <5> QED BY <1>0, <2>2, <5>1 DEF PhaseOneInv
      <4> QED BY <4>2, <4>3
    <3>3. globalStopped' => \E i \in 1..Len(steps) : onceResults'[i] = "failure" /\ OnError(steps[i]) = "stop"
      BY <1>0, <2>4, <2>5
    <3> QED BY <2>2, <3>1, <3>2, <3>3 DEF PhaseOneInv, OnError, InPhaseOne, IsLocal, RunMode
  <2> QED BY <1>2, <2>6
<1> QED BY <1>3, <1>4

\* What a host has before a step: its types and its part of the invariant.
LEMMA HostBefore ==
  ASSUME IInv, NEW h \in Hosts
  PROVE  /\ TypeOK /\ HostInv(h) /\ Len(steps) \in Nat /\ Len(results[h]) \in Nat
         /\ \A i \in 1..Len(steps) : runs[h][i] \in Nat
<1>1. TypeOK /\ HostInv(h)
  BY DEF IInv, Typed
<1> QED BY <1>1, StepsAreSteps DEF TypeOK

\* On the way to a login a host has nothing to show, and a finished one no more.
LEMMA MovesKeepInv ==
  ASSUME IInv, NEW h \in Hosts,
         \/ Claim(h)
         \/ \E from \in {"dial", "handshake", "session", "verify"} : Refused(h, from)
         \/ \E from, to \in {"dial", "handshake", "session", "verify"} : Advance(h, from, to)
         \/ Finish(h)
  PROVE  HostInv(h)'
<1>1. /\ TypeOK /\ HostInv(h) /\ Len(steps) \in Nat /\ Len(results[h]) \in Nat
      /\ \A i \in 1..Len(steps) : runs[h][i] \in Nat
  BY HostBefore
<1>2. /\ UNCHANGED <<config, onceVars>> /\ UNCHANGED <<stopped, results, runs>>
      /\ PlaceInv(h)' /\ (login'[h] = "ok" => login[h] = "ok")
  <2> USE <1>1 DEF TypeOK, HostInv, PlaceInv, config, onceVars, PhaseOneOver
  <2>1. CASE Claim(h)
    BY <2>1 DEF Claim
  <2>2. CASE \E from \in {"dial", "handshake", "session", "verify"} : Refused(h, from)
    BY <2>2 DEF Refused
  <2>3. CASE \E from, to \in {"dial", "handshake", "session", "verify"} : Advance(h, from, to)
    BY <2>3 DEF Advance
  <2>4. CASE Finish(h)
    BY <2>4 DEF Finish, Advance
  <2> QED BY <2>1, <2>2, <2>3, <2>4
<1> QED BY <1>1, <1>2 DEF HostInv, ListInv, StoppedBefore, config, onceVars

\* A login begins the list with what phase one has left.
LEMMA EnterKeepsInv == ASSUME IInv, NEW h \in Hosts, Enter(h) PROVE HostInv(h)'
<1>1. /\ TypeOK /\ HostInv(h) /\ Len(steps) \in Nat /\ Len(results[h]) \in Nat
      /\ \A i \in 1..Len(steps) : runs[h][i] \in Nat
  BY HostBefore
<1>2. results[h] = << >> /\ PhaseOneOver /\ mode \in {"run", "check"}
  BY <1>1, ModesAssumption DEF HostInv, PlaceInv, Enter, TypeOK
<1>3. /\ UNCHANGED <<config, onceVars>> /\ UNCHANGED <<results, runs>>
      /\ login'[h] = "ok" /\ stopped'[h] = globalStopped
      /\ at'[h] = IF mode = "check" THEN "finished" ELSE "steps"
  BY <1>1 DEF Enter, TypeOK
<1>4. PlaceInv(h)'
  BY <1>1, <1>2, <1>3 DEF PlaceInv, HostInv, PhaseOneOver, config, onceVars
<1>5. StoppedBefore(h, Len(results[h]) + 1)' <=> globalStopped
  BY <1>2, <1>3 DEF StoppedBefore, onceVars
<1>6. ListInv(h)'
  BY <1>1, <1>2, <1>3, <1>5 DEF ListInv, HostInv, StoppedBefore, config, onceVars
<1> QED BY <1>4, <1>6 DEF HostInv

\* What holds of a host's list holds of the list with one more result, if the
\* new result is right.
LEMMA ReportKeepsInv ==
  ASSUME IInv, NEW h \in Hosts, NEW r \in {"success", "failure", "skipped"},
         at[h] = "steps", Next1(h) <= Len(steps),
         results' = [results EXCEPT ![h] = Append(@, r)],
         UNCHANGED <<config, onceVars, at, login>>,
         stopped'[h] <=> stopped[h] \/ Stops(steps[Next1(h)], r),
         onceResults[Next1(h)] # "nil" => r = onceResults[Next1(h)],
         r = "skipped" => stopped[h],
         \/ runs' = runs
         \/ /\ runs' = [runs EXCEPT ![h][Next1(h)] = @ + 1]
            /\ ~stopped[h] /\ ~InPhaseOne(steps[Next1(h)])
  PROVE  HostInv(h)'
<1>1. /\ TypeOK /\ HostInv(h) /\ Len(steps) \in Nat /\ Len(results[h]) \in Nat
      /\ \A j \in 1..Len(steps) : runs[h][j] \in Nat
  BY HostBefore
<1>2. /\ Len(results'[h]) = Len(results[h]) + 1 /\ results'[h][Len(results[h]) + 1] = r
      /\ \A j \in 1..Len(results[h]) : results'[h][j] = results[h][j]
  BY <1>1, OneMore
<1>3. PICK i \in 1..Len(steps) : i = Next1(h) /\ i = Len(results[h]) + 1
  BY <1>1 DEF Next1
<1>4. steps' = steps /\ mode' = mode /\ onceResults' = onceResults /\ globalStopped' = globalStopped /\ cursor' = cursor
  BY DEF config, onceVars
<1>5. login[h] = "ok" /\ mode = "run" /\ PhaseOneOver
  BY <1>3, PhaseOneIsOver
<1>6. stopped[h] <=> StoppedBefore(h, i)
  BY <1>1, <1>3, <1>5 DEF HostInv, ListInv
<1>7. \A j \in 1..i : StoppedBefore(h, j)' <=> StoppedBefore(h, j)
  BY <1>1, <1>2, <1>3, <1>4 DEF StoppedBefore
<1>8. StoppedBefore(h, i + 1)' <=> StoppedBefore(h, i) \/ Stops(steps[i], r)
  <2>1. StoppedBefore(h, i + 1)' <=> StoppedBefore(h, i)' \/ Stops(steps[i], results'[h][i])
    BY <1>1, <1>3, <1>4 DEF StoppedBefore
  <2> QED BY <1>2, <1>3, <1>7, <2>1
<1>9. PlaceInv(h)'
  BY <1>1, <1>4, <1>5 DEF HostInv, PlaceInv, PhaseOneOver
<1>10. \A j \in 1..Len(results'[h]) : /\ onceResults[j] # "nil" => results'[h][j] = onceResults[j]
                                      /\ results'[h][j] = "skipped" => StoppedBefore(h, j)'
  <2> TAKE j \in 1..Len(results'[h])
  <2>1. CASE j = i
    BY <1>2, <1>3, <1>6, <1>7, <2>1
  <2>2. CASE j # i
    BY <1>1, <1>2, <1>3, <1>7, <2>2 DEF HostInv, ListInv
  <2> QED BY <2>1, <2>2
<1>11. \A j \in 1..Len(steps) : /\ runs'[h][j] <= 1
                                /\ runs'[h][j] > 0 => j <= Len(results'[h]) /\ ~InPhaseOne(steps[j]) /\ ~StoppedBefore(h, j)'
  <2> TAKE j \in 1..Len(steps)
  <2>0. runs[h][j] <= 1 /\ (runs[h][j] > 0 => j <= Len(results[h]) /\ ~InPhaseOne(steps[j]) /\ ~StoppedBefore(h, j))
    BY <1>1 DEF HostInv, ListInv
  <2>1. CASE runs' = runs
    BY <1>1, <1>2, <1>3, <1>7, <2>0, <2>1
  <2>2. CASE /\ runs' = [runs EXCEPT ![h][i] = @ + 1]
             /\ ~stopped[h] /\ ~InPhaseOne(steps[i])
    <3>1. runs'[h][j] = IF j = i THEN runs[h][j] + 1 ELSE runs[h][j]
      BY <1>1, <1>3, <2>2 DEF TypeOK
    <3>2. runs[h][i] = 0
      BY <1>1, <1>3 DEF HostInv, ListInv
    <3> QED BY <1>1, <1>2, <1>3, <1>6, <1>7, <2>0, <2>2, <3>1, <3>2
  <2> QED BY <1>3, <2>1, <2>2
<1>12. ListInv(h)'
  <2>1. Len(results'[h]) <= Len(steps)
    BY <1>1, <1>2, <1>3
  <2>2. stopped'[h] <=> StoppedBefore(h, Len(results[h]) + 1)'
    BY <1>2, <1>3, <1>6, <1>8
  <2> QED BY <1>4, <1>10, <1>11, <2>1, <2>2 DEF ListInv, InPhaseOne, IsLocal, RunMode
<1> QED BY <1>9, <1>12 DEF HostInv

\* Every action of a host keeps what holds of it.
LEMMA HostKeepsInv == ASSUME IInv, NEW h \in Hosts, HostNext(h) PROVE HostInv(h)'
<1>1. TypeOK /\ HostInv(h) /\ Len(steps) \in Nat /\ Len(results[h]) \in Nat
  BY HostBefore
<1>2. ASSUME at[h] = "steps", Next1(h) <= Len(steps)
      PROVE  /\ Next1(h) \in 1..Len(steps)
             /\ mode = "run" /\ login[h] = "ok"
             /\ onceResults[Next1(h)] # "nil" => InPhaseOne(steps[Next1(h)])
             /\ ~globalStopped /\ InPhaseOne(steps[Next1(h)]) => onceResults[Next1(h)] # "nil"
             /\ globalStopped => stopped[h]
  <2>1. Next1(h) \in 1..Len(steps)
    BY <1>1, <1>2 DEF Next1
  <2>2. /\ mode = "run" /\ login[h] = "ok"
        /\ onceResults[Next1(h)] # "nil" => InPhaseOne(steps[Next1(h)])
        /\ ~globalStopped /\ InPhaseOne(steps[Next1(h)]) => onceResults[Next1(h)] # "nil"
    BY <1>2, <2>1, PhaseOneIsOver
  <2>3. globalStopped => stopped[h]
    BY <1>1, <2>2 DEF HostInv, ListInv, StoppedBefore
  <2> QED BY <2>1, <2>2, <2>3
<1>3. CASE SkipStep(h)
  <2> USE <1>3 DEF SkipStep
  <2>1. /\ onceResults[Next1(h)] = "nil"
        /\ stopped'[h] <=> stopped[h] \/ Stops(steps[Next1(h)], "skipped")
    BY <1>2 DEF Reuses, Stops, Ok
  <2> QED BY <2>1, ReportKeepsInv
<1>4. CASE ReuseStep(h)
  <2> USE <1>4 DEF ReuseStep, Reuses
  <2>1. onceResults[Next1(h)] \in {"success", "failure"}
    BY <1>1, <1>2 DEF TypeOK
  <2>2. stopped'[h] <=> stopped[h] \/ Stops(steps[Next1(h)], onceResults[Next1(h)])
    BY <1>1 DEF TypeOK
  <2> QED BY <2>1, <2>2, ReportKeepsInv
<1>5. CASE ExecStep(h)
  <2>1. PICK r \in {"success", "failure"} :
          /\ results' = [results EXCEPT ![h] = Append(@, r)]
          /\ stopped' = [stopped EXCEPT ![h] = Stops(steps[Next1(h)], r)]
    BY <1>5 DEF ExecStep
  <2> USE <1>5 DEF ExecStep, Reuses
  <2>2. ~InPhaseOne(steps[Next1(h)]) /\ onceResults[Next1(h)] = "nil"
    BY <1>2
  <2>3. stopped'[h] <=> stopped[h] \/ Stops(steps[Next1(h)], r)
    BY <1>1, <2>1 DEF TypeOK
  <2> QED BY <2>1, <2>2, <2>3, ReportKeepsInv
<1> QED BY <1>3, <1>4, <1>5, HostSteps, MovesKeepInv, EnterKeepsInv

\* Hosts leave phase one as it is.
LEMMA HostKeepsPhaseOne == ASSUME IInv, NEW h \in Hosts, HostNext(h) PROVE PhaseOneInv'
<1>1. UNCHANGED <<config, onceVars>> /\ runs'[Nowhere] = runs[Nowhere]
  <2>0. h # Nowhere
    BY NowhereAssumption
  <2> USE DEF IInv, Typed, TypeOK
  <2>1. CASE Claim(h)                  BY <2>1 DEF Claim
  <2>2. CASE \E from \in {"dial", "handshake", "session", "verify"} : Refused(h, from)
    BY <2>2 DEF Refused
  <2>3. CASE \E from, to \in {"dial", "handshake", "session", "verify"} : Advance(h, from, to)
    BY <2>3 DEF Advance
  <2>4. CASE Enter(h)                  BY <2>4 DEF Enter
  <2>5. CASE SkipStep(h)               BY <2>5 DEF SkipStep
  <2>6. CASE ReuseStep(h)              BY <2>6 DEF ReuseStep
  <2>7. CASE ExecStep(h)               BY <2>0, <2>7 DEF ExecStep
  <2>8. CASE Finish(h)                 BY <2>8 DEF Finish, Advance
  <2> QED BY <2>1, <2>2, <2>3, <2>4, <2>5, <2>6, <2>7, <2>8, HostSteps
<1>2. PhaseOneInv
  BY DEF IInv
<1> QED BY <1>1, <1>2 DEF PhaseOneInv, config, onceVars

\* Every step keeps the invariant.
LEMMA StepKeepsInv == IInv /\ [Next]_vars => IInv'
<1> SUFFICES ASSUME IInv, [Next]_vars PROVE IInv'
  OBVIOUS
<1>1. Typed'
  BY TypesAreKept DEF IInv
<1>2. CASE PassOver \/ OnceStep
  BY <1>1, <1>2, PhaseOneKeepsInv DEF IInv
<1>3. ASSUME NEW h \in Hosts, HostNext(h) PROVE IInv'
  <2>1. \A k \in Hosts : HostInv(k)'
    BY <1>3, HostKeepsInv, OthersAreKept
  <2>2. PhaseOneInv'
    BY <1>3, HostKeepsPhaseOne
  <2> QED BY <1>1, <2>1, <2>2 DEF IInv
<1>4. CASE UNCHANGED vars
  BY <1>1, <1>4 DEF vars, config, onceVars, hostVars, IInv, PhaseOneInv, HostInv, PlaceInv, ListInv,
                    StoppedBefore, PhaseOneOver
<1> QED BY <1>2, <1>3, <1>4 DEF Next

\* The invariant holds in every behavior.
LEMMA InvHolds == Spec => []IInv
<1>1. Init => IInv
  <2> SUFFICES ASSUME Init PROVE IInv
    OBVIOUS
  <2>1. Len(steps) \in Nat
    BY StepsAreSteps DEF Init
  <2>2. PhaseOneInv
    BY <2>1 DEF Init, PhaseOneInv
  <2>3. ASSUME NEW h \in Hosts PROVE HostInv(h)
    BY <2>1 DEF Init, HostInv, PlaceInv, ListInv
  <2>4. Typed
    BY InitIsTyped
  <2> QED BY <2>2, <2>3, <2>4 DEF IInv
<1> QED BY <1>1, StepKeepsInv, PTL DEF Spec

-----------------------------------------------------------------------------
(* What it implies *)

\* On a host, and on all of them after phase one, nothing runs after a failed
\* step that says stop, and nothing is skipped without one (sshcheck.go:470, 528).
THEOREM StopsAreKept == Spec => []SkipInv
<1>1. IInv => SkipInv
  <2> SUFFICES ASSUME IInv PROVE SkipInv
    OBVIOUS
  <2>1. \A h \in Hosts : /\ HostInv(h) /\ Len(results[h]) \in Nat /\ Len(steps) \in Nat
                         /\ \A i \in 1..Len(steps) : runs[h][i] \in Nat
    BY HostBefore
  <2>2. StopIsFinal
    BY <2>1 DEF StopIsFinal, FailedStop, Executed, HostInv, ListInv, StoppedBefore
  <2>3. GlobalStopStopsAll
    BY <2>1 DEF GlobalStopStopsAll, HostInv, ListInv, StoppedBefore
  <2>4. SkippedForAReason
    <3> SUFFICES ASSUME NEW h \in Hosts, NEW k \in 1..Len(results[h]), results[h][k] = "skipped", ~globalStopped
                 PROVE  \E i \in 1..(k - 1) : FailedStop(h, i)
      BY DEF SkippedForAReason
    <3>1. PICK i \in 1..(k - 1) : Stops(steps[i], results[h][i])
      BY <2>1 DEF HostInv, ListInv, StoppedBefore
    <3> QED BY <2>1, <3>1 DEF FailedStop
  <2> QED BY <2>2, <2>3, <2>4 DEF SkipInv
<1> QED BY <1>1, InvHolds, PTL

\* A once step runs once, for nobody in particular; no step runs twice for one
\* host; a check runs nothing (sshcheck.go:438, 480).
THEOREM OnceIsKept == Spec => []OnceInv
<1>1. IInv => OnceInv
  <2> SUFFICES ASSUME IInv PROVE OnceInv
    OBVIOUS
  <2>1. \A h \in Hosts : /\ HostInv(h) /\ Len(results[h]) \in Nat /\ Len(steps) \in Nat
                         /\ \A i \in 1..Len(steps) : runs[h][i] \in Nat
    BY HostBefore
  <2>2. PhaseOneInv /\ TypeOK
    BY DEF IInv, Typed
  <2>3. OnceStepsRunOnce
    <3> SUFFICES ASSUME NEW i \in 1..Len(steps), InPhaseOne(steps[i])
                 PROVE  /\ runs[Nowhere][i] <= 1
                        /\ \A h \in Hosts : runs[h][i] = 0
                        /\ PhaseOneOver /\ mode = "run" /\ ~globalStopped => runs[Nowhere][i] = 1
      BY DEF OnceStepsRunOnce
    <3>1. runs[Nowhere][i] <= 1
      BY <2>2 DEF PhaseOneInv
    <3>2. ASSUME NEW h \in Hosts PROVE runs[h][i] = 0
      <4>1. runs[h][i] \in Nat /\ ListInv(h)
        BY <2>1 DEF HostInv
      <4>2. ~(runs[h][i] > 0)
        BY <4>1 DEF ListInv
      <4> QED BY <4>1, <4>2
    <3>3. PhaseOneOver /\ mode = "run" /\ ~globalStopped => runs[Nowhere][i] = 1
      <4>1. Len(steps) \in Nat
        BY <2>2, StepsAreSteps DEF TypeOK
      <4> QED BY <2>2, <4>1 DEF PhaseOneInv, PhaseOneOver, TypeOK
    <3> QED BY <3>1, <3>2, <3>3
  <2>4. NoStepTwice
    BY <2>1 DEF NoStepTwice, HostInv, ListInv
  <2>5. CheckRunsNothing
    <3> SUFFICES ASSUME mode = "check", NEW x \in DOMAIN runs, NEW i \in 1..Len(steps) PROVE runs[x][i] = 0
      BY DEF CheckRunsNothing
    <3>1. CASE x = Nowhere
      BY <2>2, <3>1 DEF PhaseOneInv
    <3>2. CASE x \in Hosts
      <4>1. results[x] = << >>
        BY <2>1, <3>2 DEF HostInv, PlaceInv
      <4> QED BY <2>1, <3>2, <4>1 DEF HostInv, ListInv
    <3> QED BY <2>2, <3>1, <3>2 DEF TypeOK
  <2> QED BY <2>3, <2>4, <2>5 DEF OnceInv
<1> QED BY <1>1, InvHolds, PTL

\* A host that logged in has, in a full run, one result per step, those of phase
\* one unchanged; one that did not has none (sshcheck.go:480-560).
THEOREM ResultsAreComplete == Spec => []ResultsInv
<1>1. IInv => ResultsInv
  <2> SUFFICES ASSUME IInv PROVE ResultsInv
    OBVIOUS
  <2>1. \A h \in Hosts : /\ TypeOK /\ HostInv(h) /\ Len(results[h]) \in Nat /\ Len(steps) \in Nat
                         /\ \A i \in 1..Len(steps) : runs[h][i] \in Nat
    BY HostBefore
  <2>2. ASSUME NEW h \in Hosts, at[h] = "finished", login[h] = "failed"
        PROVE  results[h] = << >> /\ \A i \in 1..Len(steps) : runs[h][i] = 0
    <3>1. results[h] = << >>
      BY <2>1, <2>2 DEF HostInv, PlaceInv
    <3> QED BY <2>1, <3>1 DEF HostInv, ListInv
  <2>3. ASSUME NEW h \in Hosts, at[h] = "finished", login[h] = "ok", mode = "run"
        PROVE  /\ Len(results[h]) = Len(steps)
               /\ \A i \in 1..Len(steps) : onceResults[i] # "nil" => results[h][i] = onceResults[i]
    BY <2>1, <2>3 DEF HostInv, PlaceInv, ListInv
  <2>4. ResultsComplete
    BY <2>2, <2>3 DEF ResultsComplete
  <2> QED BY <2>4 DEF ResultsInv, IInv, Typed
<1> QED BY <1>1, InvHolds, PTL

-----------------------------------------------------------------------------
(* Pipeline implements ExecList *)

\* How the turn of a host has ended, as the promise sees it.
OverOf(h) == IF at[h] # "finished" THEN "no" ELSE IF login[h] = "failed" THEN "refused" ELSE "done"

PromisedStep(s) == [once |-> InPhaseOne(s), stop |-> OnError(s) = "stop"]
Promised        == [i \in DOMAIN steps |-> PromisedStep(steps[i])]

\* The promise sees a list as long as the one there is.
LEMMA PromisedList ==
  ASSUME steps \in Pipelines
  PROVE  /\ Len(steps) \in Nat /\ DOMAIN Promised = 1..Len(steps) /\ Len(Promised) = Len(steps)
         /\ \A i \in 1..Len(steps) : /\ Promised[i].once = InPhaseOne(steps[i])
                                     /\ Promised[i].stop = (OnError(steps[i]) = "stop")
<1>1. Len(steps) \in Nat /\ DOMAIN steps = 1..Len(steps)
  BY StepsAreSteps
<1>2. /\ DOMAIN Promised = 1..Len(steps)
      /\ \A i \in 1..Len(steps) : Promised[i] = PromisedStep(steps[i])
  BY <1>1 DEF Promised
<1>3. Promised \in [1..Len(steps) -> {PromisedStep(steps[i]) : i \in 1..Len(steps)}]
  BY <1>1 DEF Promised
<1>4. Promised \in Seq({PromisedStep(steps[i]) : i \in 1..Len(steps)})
  BY <1>1, <1>3, SeqDef
<1>5. Len(Promised) \in Nat /\ DOMAIN Promised = 1..Len(Promised)
  BY <1>4, LenProperties
<1>6. Len(Promised) = Len(steps)
  BY <1>1, <1>2, <1>5
<1> QED BY <1>1, <1>2, <1>6 DEF PromisedStep

\* What the promise speaks of stays as it is while nothing is shared, reported
\* or ended.
LEMMA PromiseStutters ==
  ASSUME UNCHANGED <<steps, mode, onceResults, results>>, \A h \in Hosts : OverOf(h)' = OverOf(h)
  PROVE  UNCHANGED Promise!vars
BY DEF Promise!vars, OverOf

\* A stop that the flags remember is a stop the results show, and only those.
LEMMA StopsAreShown ==
  ASSUME IInv
  PROVE  /\ globalStopped <=> Promise!SharedStop
         /\ \A h \in Hosts : at[h] = "steps" => (stopped[h] <=> Promise!Stopped(h))
<1>0. /\ TypeOK /\ PhaseOneInv /\ steps \in Pipelines
      /\ Len(steps) \in Nat /\ DOMAIN Promised = 1..Len(steps)
      /\ \A i \in 1..Len(steps) : Promised[i].stop = (OnError(steps[i]) = "stop")
  BY PromisedList DEF IInv, Typed, TypeOK
<1>1. globalStopped <=> Promise!SharedStop
  <2>1. Promise!SharedStop <=> \E i \in DOMAIN Promised : onceResults[i] = "failure" /\ Promised[i].stop
    BY DEF Promise!SharedStop, Promised, PromisedStep
  <2> QED BY <1>0, <2>1 DEF PhaseOneInv
<1>2. ASSUME NEW h \in Hosts, at[h] = "steps" PROVE stopped[h] <=> Promise!Stopped(h)
  <2>1. HostInv(h) /\ Len(results[h]) \in Nat
    BY HostBefore
  <2>2. login[h] = "ok" /\ Len(results[h]) <= Len(steps)
    BY <1>2, <2>1 DEF HostInv, PlaceInv, ListInv
  <2>3. DOMAIN results[h] = 1..Len(results[h]) /\ \A i \in 1..Len(results[h]) : results[h][i] \in {"success", "failure", "skipped"}
    BY <1>0 DEF TypeOK
  <2>4. Promise!Stopped(h) <=> \/ globalStopped
                               \/ \E i \in DOMAIN results[h] : results[h][i] = "failure" /\ Promised[i].stop
    BY <1>1 DEF Promise!Stopped, Promised, PromisedStep
  <2>5. \A i \in 1..Len(results[h]) : results[h][i] = "failure" /\ Promised[i].stop <=> Stops(steps[i], results[h][i])
    <3> TAKE i \in 1..Len(results[h])
    <3>1. i \in 1..Len(steps)
      BY <1>0, <2>1, <2>2
    <3>2. Promised[i].stop = (OnError(steps[i]) = "stop")
      BY <1>0, <3>1
    <3>3. results[h][i] = "failure" <=> ~Ok(results[h][i])
      BY <2>3 DEF Ok
    <3> QED BY Zenon, <3>2, <3>3 DEF Stops
  <2>6. stopped[h] <=> globalStopped \/ \E i \in 1..Len(results[h]) : Stops(steps[i], results[h][i])
    BY <2>1, <2>2 DEF HostInv, ListInv, StoppedBefore
  <2> QED BY <2>3, <2>4, <2>5, <2>6
<1> QED BY <1>1, <1>2

\* What phase one does is a stutter, or the sharing of one result.
LEMMA PhaseOneIsPromised == ASSUME IInv, PassOver \/ OnceStep PROVE [Promise!Next]_(Promise!vars)
<1>1. CASE PassOver
  <2>1. UNCHANGED <<steps, mode, onceResults, results>> /\ \A h \in Hosts : OverOf(h)' = OverOf(h)
    BY <1>1 DEF PassOver, config, hostVars, OverOf
  <2> QED BY <2>1, PromiseStutters
<1>2. CASE OnceStep
  <2>0. /\ TypeOK /\ PhaseOneInv /\ steps \in Pipelines /\ ~globalStopped /\ cursor \in 1..Len(steps)
        /\ Len(steps) \in Nat /\ DOMAIN Promised = 1..Len(steps)
        /\ \A i \in 1..Len(steps) : Promised[i].once = InPhaseOne(steps[i])
    BY <1>2, PromisedList DEF IInv, Typed, TypeOK, OnceStep, PhaseOneOver
  <2>1. ~(mode = "check") /\ ~Promise!SharedStop
    BY <1>2, <2>0, StopsAreShown DEF OnceStep, PhaseOneInv, PhaseOneOver
  <2>2. Promised[cursor].once /\ onceResults[cursor] = "nil"
    BY <1>2, <2>0 DEF OnceStep, PhaseOneInv
  <2>3. \A j \in 1..(cursor - 1) : Promised[j].once => onceResults[j] # "nil"
    <3> SUFFICES ASSUME NEW j \in 1..(cursor - 1), Promised[j].once PROVE onceResults[j] # "nil"
      OBVIOUS
    <3>1. j \in 1..Len(steps) /\ j < cursor /\ mode = "run"
      BY <2>0, <2>1, ModesAssumption DEF TypeOK
    <3> QED BY <2>0, <3>1 DEF PhaseOneInv
  <2>4. \A h \in Hosts : at[h] = "waiting" /\ results[h] = << >>
    <3> TAKE h \in Hosts
    <3>1. HostInv(h) /\ ~PhaseOneOver
      BY <1>2 DEF IInv, OnceStep
    <3> QED BY <3>1 DEF HostInv, PlaceInv
  <2>5. \E r \in {"success", "failure"} : onceResults' = [onceResults EXCEPT ![cursor] = r]
    BY <1>2 DEF OnceStep
  <2>6. /\ steps' = steps /\ mode' = mode /\ results' = results /\ at' = at /\ login' = login
    BY <1>2 DEF OnceStep, config, hostVars
  <2>7. Promise!Share(cursor)
    BY <2>1, <2>2, <2>3, <2>4, <2>5, <2>6 DEF Promise!Share, Promised, PromisedStep
  <2> QED BY <2>0, <2>7 DEF Promise!Next, Promised
<1> QED BY <1>1, <1>2

\* A result that is reported is one the promise leaves open.
LEMMA ReportIsPromised ==
  ASSUME IInv, NEW h \in Hosts, NEW r \in {"success", "failure", "skipped"},
         at[h] = "steps", Next1(h) <= Len(steps),
         results' = [results EXCEPT ![h] = Append(@, r)],
         UNCHANGED <<config, onceVars, at, login>>,
         \/ onceResults[Next1(h)] # "nil" /\ r = onceResults[Next1(h)]
         \/ onceResults[Next1(h)] = "nil" /\ stopped[h] /\ r = "skipped"
         \/ /\ onceResults[Next1(h)] = "nil" /\ ~stopped[h] /\ ~InPhaseOne(steps[Next1(h)])
            /\ r \in {"success", "failure"}
  PROVE  Promise!Next
<1>1. /\ TypeOK /\ HostInv(h) /\ steps \in Pipelines /\ Len(results[h]) \in Nat
      /\ Len(steps) \in Nat /\ DOMAIN Promised = 1..Len(steps)
      /\ \A i \in 1..Len(steps) : Promised[i].once = InPhaseOne(steps[i])
  BY HostBefore, PromisedList DEF TypeOK
<1>2. PICK i \in 1..Len(steps) : i = Next1(h) /\ i = Len(results[h]) + 1
  BY <1>1 DEF Next1
<1>3. ~(mode = "check")
  BY <1>1 DEF HostInv, PlaceInv
<1>4. stopped[h] <=> Promise!Stopped(h)
  BY StopsAreShown
<1>5. r \in Promise!Outcomes(h, i)
  <2>1. Promise!Outcomes(h, i) = IF onceResults[i] # "nil" THEN {onceResults[i]}
                                 ELSE IF Promised[i].once \/ Promise!Stopped(h) THEN {"skipped"}
                                 ELSE {"success", "failure"}
    BY DEF Promise!Outcomes, Promised, PromisedStep
  <2>2. Promised[i].once = InPhaseOne(steps[i])
    BY <1>1
  <2> QED BY <1>2, <1>4, <2>1, <2>2
<1>6. steps' = steps /\ mode' = mode /\ onceResults' = onceResults /\ at' = at /\ login' = login
  BY DEF config, onceVars
<1>7. Promise!Report(h)
  BY <1>1, <1>2, <1>3, <1>5, <1>6 DEF Promise!Report, Promised, PromisedStep
<1> QED BY <1>7 DEF Promise!Next

\* What becomes of a host's turn, when it ends.
LEMMA EndIsPromised ==
  ASSUME IInv, NEW h \in Hosts, at[h] # "finished",
         at' = [at EXCEPT ![h] = "finished"],
         UNCHANGED <<config, onceVars, results>>,
         \/ login' = [login EXCEPT ![h] = "failed"] /\ results[h] = << >>
         \/ /\ login' = [login EXCEPT ![h] = "ok"] \/ (login' = login /\ login[h] = "ok")
            /\ mode = "check" \/ Len(results[h]) = Len(steps)
  PROVE  Promise!Next
<1>1. TypeOK /\ steps \in Pipelines /\ Len(Promised) = Len(steps)
  BY PromisedList DEF IInv, Typed, TypeOK
<1>2. steps' = steps /\ mode' = mode /\ onceResults' = onceResults /\ results' = results
  BY DEF config, onceVars
<1> DEFINE over == [k \in Hosts |-> OverOf(k)]
<1>3. over[h] = "no"
  BY DEF OverOf
<1>4. CASE login' = [login EXCEPT ![h] = "failed"] /\ results[h] = << >>
  <2>1. over' = [over EXCEPT ![h] = "refused"]
    BY <1>1, <1>4 DEF OverOf, TypeOK
  <2>2. Promise!Refuse(h)
    BY <1>2, <1>3, <1>4, <2>1 DEF Promise!Refuse, OverOf
  <2> QED BY <2>2 DEF Promise!Next
<1>5. CASE /\ login' = [login EXCEPT ![h] = "ok"] \/ (login' = login /\ login[h] = "ok")
           /\ mode = "check" \/ Len(results[h]) = Len(steps)
  <2>1. over' = [over EXCEPT ![h] = "done"]
    BY <1>1, <1>5 DEF OverOf, TypeOK
  <2>2. Promise!Close(h)
    BY <1>1, <1>2, <1>3, <1>5, <2>1 DEF Promise!Close, OverOf, Promised, PromisedStep
  <2> QED BY <2>2 DEF Promise!Next
<1> QED BY <1>4, <1>5

\* What a host does is a stutter, a report, a refusal or the end of its turn.
LEMMA HostIsPromised == ASSUME IInv, NEW h \in Hosts, HostNext(h) PROVE [Promise!Next]_(Promise!vars)
<1>1. /\ TypeOK /\ PhaseOneInv /\ HostInv(h) /\ Len(steps) \in Nat /\ Len(results[h]) \in Nat
  BY HostBefore DEF IInv
<1>2. CASE Claim(h)
  <2>1. at[h] = "waiting" /\ results[h] = << >> /\ UNCHANGED <<config, onceVars, results>>
    BY <1>1, <1>2 DEF Claim, HostInv, PlaceInv
  <2>2. CASE at' = [at EXCEPT ![h] = "finished"] /\ login' = [login EXCEPT ![h] = "failed"]
    BY <2>1, <2>2, EndIsPromised
  <2>3. CASE at' = [at EXCEPT ![h] = "dial"] /\ login' = login
    BY <1>1, <2>1, <2>3, PromiseStutters DEF OverOf, TypeOK, config, onceVars
  <2> QED BY <1>2, <2>2, <2>3 DEF Claim
<1>3. ASSUME NEW from \in {"dial", "handshake", "session", "verify"}, Refused(h, from) PROVE [Promise!Next]_(Promise!vars)
  <2>1. at[h] = from /\ results[h] = << >> /\ UNCHANGED <<config, onceVars, results>>
    BY <1>1, <1>3 DEF Refused, HostInv, PlaceInv
  <2>2. CASE at' = [at EXCEPT ![h] = "finished"] /\ login' = [login EXCEPT ![h] = "failed"]
    BY <2>1, <2>2, EndIsPromised
  <2>3. CASE at' = [at EXCEPT ![h] = "dial"] /\ login' = login
    BY <1>1, <2>1, <2>3, PromiseStutters DEF OverOf, TypeOK, config, onceVars
  <2> QED BY <1>3, <2>2, <2>3 DEF Refused
<1>4. ASSUME NEW from \in {"dial", "handshake", "session", "verify"},
             NEW to \in {"dial", "handshake", "session", "verify"}, Advance(h, from, to)
      PROVE  [Promise!Next]_(Promise!vars)
  BY <1>1, <1>4, PromiseStutters DEF Advance, OverOf, TypeOK, config, onceVars
<1>5. CASE Enter(h)
  <2>1. /\ at[h] = "verify" /\ UNCHANGED <<config, onceVars, results>>
        /\ login' = [login EXCEPT ![h] = "ok"]
        /\ at' = [at EXCEPT ![h] = IF mode = "check" THEN "finished" ELSE "steps"]
    BY <1>5 DEF Enter
  <2>2. CASE mode = "check"
    <3>1. at' = [at EXCEPT ![h] = "finished"] /\ at[h] # "finished"
      BY <2>1, <2>2
    <3>2. UNCHANGED <<config, onceVars, results>>
      BY <2>1
    <3>3. /\ login' = [login EXCEPT ![h] = "ok"] \/ (login' = login /\ login[h] = "ok")
          /\ mode = "check" \/ Len(results[h]) = Len(steps)
      BY <2>1, <2>2
    <3> QED BY <3>1, <3>2, <3>3, EndIsPromised
  <2>3. CASE mode # "check"
    BY <1>1, <2>1, <2>3, PromiseStutters DEF OverOf, TypeOK, config, onceVars
  <2> QED BY <2>2, <2>3
<1>6. CASE SkipStep(h)
  <2>1. /\ at[h] = "steps" /\ Next1(h) <= Len(steps) /\ Next1(h) \in 1..Len(steps)
        /\ stopped[h] /\ ~Reuses(h) /\ UNCHANGED <<config, onceVars, at, login>>
        /\ results' = [results EXCEPT ![h] = Append(@, "skipped")]
    BY <1>1, <1>6 DEF SkipStep, Next1
  <2>2. onceResults[Next1(h)] = "nil"
    BY <2>1, PhaseOneIsOver DEF Reuses
  <2> QED BY <2>1, <2>2, ReportIsPromised
<1>7. CASE ReuseStep(h)
  <2>1. /\ at[h] = "steps" /\ Next1(h) <= Len(steps) /\ Next1(h) \in 1..Len(steps)
        /\ onceResults[Next1(h)] # "nil" /\ UNCHANGED <<config, onceVars, at, login>>
        /\ results' = [results EXCEPT ![h] = Append(@, onceResults[Next1(h)])]
    BY <1>1, <1>7 DEF ReuseStep, Reuses, Next1
  <2>2. onceResults[Next1(h)] \in {"success", "failure", "skipped"}
    BY <1>1, <2>1 DEF TypeOK
  <2> QED BY <2>1, <2>2, ReportIsPromised
<1>8. CASE ExecStep(h)
  <2>1. /\ at[h] = "steps" /\ Next1(h) <= Len(steps) /\ Next1(h) \in 1..Len(steps)
        /\ ~stopped[h] /\ ~Reuses(h) /\ UNCHANGED <<config, onceVars, at, login>>
    BY <1>1, <1>8 DEF ExecStep, Next1
  <2>2. PICK r \in {"success", "failure"} : results' = [results EXCEPT ![h] = Append(@, r)]
    BY <1>8 DEF ExecStep
  <2>3. login[h] = "ok" /\ ~globalStopped
    BY <1>1, <2>1 DEF HostInv, PlaceInv, ListInv, StoppedBefore
  <2>4. ~InPhaseOne(steps[Next1(h)]) /\ onceResults[Next1(h)] = "nil"
    BY <2>1, <2>3, PhaseOneIsOver DEF Reuses
  <2> QED BY <2>1, <2>2, <2>4, ReportIsPromised
<1>9. CASE Finish(h)
  <2>1. /\ at[h] = "steps" /\ at' = [at EXCEPT ![h] = "finished"] /\ login' = login /\ login[h] = "ok"
        /\ Len(results[h]) = Len(steps) /\ UNCHANGED <<config, onceVars, results>>
    BY <1>1, <1>9 DEF Finish, Advance, HostInv, PlaceInv
  <2> QED BY <2>1, EndIsPromised
<1> QED BY <1>2, <1>3, <1>4, <1>5, <1>6, <1>7, <1>8, <1>9, HostSteps

\* Phases, logins, the reuse of results and the flags that remember a stop
\* implement what an exec list promises (sshcheck.go:438, 457).
THEOREM PipelineImplementsExecList == Spec => ImplementsExecList
<1>1. Init => Promise!Init
  <2> SUFFICES ASSUME Init PROVE Promise!Init
    OBVIOUS
  <2>1. DOMAIN steps = 1..Len(steps) /\ mode \in Modes
    BY StepsAreSteps DEF Init
  <2> QED BY <2>1 DEF Init, Promise!Init
<1>2. IInv /\ [Next]_vars => [Promise!Next]_(Promise!vars)
  <2> SUFFICES ASSUME IInv, [Next]_vars PROVE [Promise!Next]_(Promise!vars)
    OBVIOUS
  <2>1. CASE PassOver \/ OnceStep
    BY <2>1, PhaseOneIsPromised
  <2>2. CASE \E h \in Hosts : HostNext(h)
    BY <2>2, HostIsPromised
  <2>3. CASE UNCHANGED vars
    BY <2>3, PromiseStutters DEF vars, config, onceVars, hostVars, OverOf
  <2> QED BY <2>1, <2>2, <2>3 DEF Next
<1> QED BY <1>1, <1>2, InvHolds, PTL DEF Spec, ImplementsExecList, Promise!Spec
=============================================================================
