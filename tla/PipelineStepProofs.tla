-------------------------- MODULE PipelineStepProofs --------------------------
(***************************************************************************)
(* Proofs about PipelineStep and the commands it is made of, for any set   *)
(* of child processes, whichever hold the pipe or have left the process    *)
(* group, and for any hosts, paths, rules and sizes of files: a killed     *)
(* command is a timeout and its output whole, a remote verdict never says  *)
(* more than is known, and a files step that reports success has delivered *)
(* every file or was not asked to.                                         *)
(***************************************************************************)
EXTENDS PipelineStep, SequenceTheorems, TLAPS

-------------------------------------------------------------------------------
(* The script on this machine *)

\* The kill is traced back to the deadline: a watchdog that has decided to kill
\* while the command is running decided so at the deadline, the context being
\* canceled only by the step's return, after its command is over.
KillHasCause ==
  /\ shell = "none"     => pc = "start" \/ verdict = "error"
  /\ DoneClosed         => \/ ShellOver /\ PipeClosed
                           \/ verdict = "error" /\ shell = "none"
  /\ dog = "kill"       => ctx # "live"
  /\ ctx = "canceled"   => pc = "returned"
  /\ shell = "killed"   => ctx = "deadline"
  /\ verdict = "none"  <=> pc # "returned"
  /\ verdict = "error"  => shell = "none"
  /\ pc \in {"start"}   => shell = "none" /\ dog = "none"
  /\ \A k \in Kids : shell = "none" => kids[k] = "unborn"

CauseInv == LocalCommandTypeOK /\ KillHasCause /\ KilledIsTimeout

\* The variables keep their types in every behavior.
THEOREM LocalCommandTyped == Spec => []LocalCommandTypeOK
<1>1. Init => LocalCommandTypeOK
  BY DEF Init, LocalCommandTypeOK
<1>2. LocalCommandTypeOK /\ [Next]_vars => LocalCommandTypeOK'
  <2> SUFFICES ASSUME LocalCommandTypeOK, [Next]_vars PROVE LocalCommandTypeOK'
    OBVIOUS
  <2> USE DEF LocalCommandTypeOK, Wakes
  <2>1. CASE Refuse              BY <2>1 DEF Refuse
  <2>2. CASE Start               BY <2>2 DEF Start
  <2>3. CASE Wait                BY <2>3 DEF Wait
  <2>4. CASE Classify            BY <2>4 DEF Classify, Verdict
  <2>5. CASE Expire              BY <2>5 DEF Expire
  <2>6. CASE Select              BY <2>6 DEF Select
  <2>7. CASE Kill                BY <2>7 DEF Kill
  <2>8. CASE ShellExits          BY <2>8 DEF ShellExits
  <2>9. CASE \E k \in Kids : Spawn(k) \/ KidEnds(k)
    BY <2>9 DEF Spawn, KidEnds
  <2>10. CASE UNCHANGED vars     BY <2>10 DEF vars
  <2> QED BY <2>1, <2>2, <2>3, <2>4, <2>5, <2>6, <2>7, <2>8, <2>9, <2>10 DEF Next
<1> QED BY <1>1, <1>2, PTL DEF Spec

\* Every step keeps the cause of a kill on record.
LEMMA KillKeepsCause == CauseInv /\ [Next]_vars => CauseInv'
<1> SUFFICES ASSUME CauseInv, [Next]_vars PROVE CauseInv'
  OBVIOUS
<1> USE KidsAssumption DEF CauseInv, KillHasCause, KilledIsTimeout, LocalCommandTypeOK,
                           DoneClosed, ShellOver, PipeClosed, Alive, Wakes
<1>1. CASE Refuse              BY <1>1 DEF Refuse
<1>2. CASE Start               BY <1>2 DEF Start
<1>3. CASE Wait                BY <1>3 DEF Wait
<1>4. CASE Classify            BY <1>4 DEF Classify, Verdict
<1>5. CASE Expire              BY <1>5 DEF Expire
<1>6. CASE Select              BY <1>6 DEF Select
<1>7. CASE Kill                BY <1>7 DEF Kill
<1>8. CASE ShellExits          BY <1>8 DEF ShellExits
<1>9. ASSUME NEW k \in Kids, Spawn(k) PROVE CauseInv'
  BY <1>9 DEF Spawn
<1>10. ASSUME NEW k \in Kids, KidEnds(k) PROVE CauseInv'
  BY <1>10 DEF KidEnds
<1>11. CASE UNCHANGED vars     BY <1>11 DEF vars
<1> QED BY <1>1, <1>2, <1>3, <1>4, <1>5, <1>6, <1>7, <1>8, <1>9, <1>10, <1>11 DEF Next

\* The inductive invariant holds in every behavior.
LEMMA CauseIsKept == Spec => []CauseInv
<1>1. Init => CauseInv
  BY DEF Init, CauseInv, KillHasCause, KilledIsTimeout, LocalCommandTypeOK,
         DoneClosed, ShellOver, PipeClosed, Alive
<1> QED BY <1>1, KillKeepsCause, PTL DEF Spec

\* A killed command is reported as a timeout and a success exited 0
\* (sshcheck.go:1007-1022).
THEOREM KillIsReported == Spec => []KilledIsTimeout
<1>1. CauseInv => KilledIsTimeout
  BY DEF CauseInv
<1> QED BY <1>1, CauseIsKept, PTL

\* No process can write to the buffers the step reads (sshcheck.go:1003-1006).
THEOREM OutputStaysWhole == Spec => []OutputIsWhole
<1>1. CauseInv => OutputIsWhole
  BY KidsAssumption DEF CauseInv, KillHasCause, OutputIsWhole, PipeClosed, Alive, DoneClosed
<1> QED BY <1>1, CauseIsKept, PTL

\* What a step reports of its command is the whole of it and the truth.
THEOREM CommandIsTold == Spec => []CommandInv
<1>1. OutputIsWhole /\ KilledIsTimeout => CommandInv
  BY DEF CommandInv
<1> QED
  BY <1>1, KillIsReported, OutputStaysWhole, PTL

-------------------------------------------------------------------------------
(* A step is a step of its type *)

LEMMA StepMoves ==
  [StepNext]_stepVars => /\ [Next]_vars
                         /\ [Remote!Next]_(Remote!vars)
                         /\ [Files!Next]_(Files!vars)
<1>1. Local(Next) => [Next]_vars /\ UNCHANGED Remote!vars /\ UNCHANGED Files!vars
  BY DEF Local, remoteVars, filesVars, Remote!vars, Files!vars, Files!config
<1>2. OnHost(Remote!Next) => Remote!Next /\ UNCHANGED vars /\ UNCHANGED Files!vars
  BY DEF OnHost, filesVars, Files!vars, Files!config
<1>3. Files!Next /\ UNCHANGED <<type, vars, remoteVars>>
        => Files!Next /\ UNCHANGED vars /\ UNCHANGED Remote!vars
  BY DEF remoteVars, Remote!vars
<1>4. UNCHANGED stepVars => UNCHANGED vars /\ UNCHANGED Remote!vars /\ UNCHANGED Files!vars
  BY DEF stepVars, remoteVars, filesVars, Remote!vars, Files!vars, Files!config
<1> QED BY <1>1, <1>2, <1>3, <1>4 DEF StepNext

\* A step of the list behaves as the command of its type, and as no other
\* (sshcheck.go:498).
THEOREM StepIsItsType == StepSpec => Spec /\ Remote!Spec /\ Files!Spec
<1>1. StepInit => Init /\ Remote!Init /\ Files!Init
  BY DEF StepInit
<1> QED BY <1>1, StepMoves, PTL DEF StepSpec, Spec, Remote!Spec, Files!Spec

\* What a step reports of its command is the whole of it and the truth, also in
\* the list.
THEOREM StepTellsCommand == StepSpec => []CommandInv
BY StepIsItsType, CommandIsTold, PTL

-------------------------------------------------------------------------------
(* The script on the host *)

\* What the runner brings back is what the host has told: an exit status of zero
\* is there for good, and the host runs nothing that it was not asked to run.
RemoteKnown ==
  /\ rpc # "returned" => rverdict = "none"
  /\ rpc = "start" => runner = "none"
  /\ runner = "none" => remote = "none"
  /\ rverdict = "error" => runner = "none"
  /\ rpc = "grace" => late
  /\ runner = "zero" \/ done = <<"zero">> => remote = "zero"

RemoteKnownInv == Remote!RemoteCommandTypeOK /\ RemoteKnown /\ Remote!VerdictIsHonest

LEMMA RemoteTyped == Remote!RemoteCommandTypeOK /\ [Remote!Next]_(Remote!vars) => Remote!RemoteCommandTypeOK'
<1> SUFFICES ASSUME Remote!RemoteCommandTypeOK, [Remote!Next]_(Remote!vars)
             PROVE  Remote!RemoteCommandTypeOK'
  OBVIOUS
<1> USE DEF Remote!RemoteCommandTypeOK, Remote!Return, Remote!Returned
<1>1. CASE Remote!Refuse       BY <1>1 DEF Remote!Refuse
<1>2. CASE Remote!SessionFails BY <1>2 DEF Remote!SessionFails
<1>3. CASE Remote!OpenSession  BY <1>3 DEF Remote!OpenSession
<1>4. CASE Remote!Take         BY <1>4 DEF Remote!Take, Remote!Verdict
<1>5. CASE Remote!TimerFires   BY <1>5 DEF Remote!TimerFires
<1>6. CASE Remote!TimeOut      BY <1>6 DEF Remote!TimeOut
<1>7. CASE Remote!Grace        BY <1>7 DEF Remote!Grace
<1>8. CASE Remote!CloseClient  BY <1>8 DEF Remote!CloseClient
<1>9. CASE Remote!Send         BY <1>9 DEF Remote!Send
<1>10. ASSUME NEW e \in Remote!Returned, Remote!Run(e) PROVE Remote!RemoteCommandTypeOK'
  BY <1>10 DEF Remote!Run
<1>11. CASE Remote!HostStarts  BY <1>11 DEF Remote!HostStarts
<1>12. CASE Remote!HostEnds    BY <1>12 DEF Remote!HostEnds
<1>13. CASE Remote!LinkFails   BY <1>13 DEF Remote!LinkFails
<1>14. CASE UNCHANGED Remote!vars BY <1>14 DEF Remote!vars
<1> QED BY <1>1, <1>2, <1>3, <1>4, <1>5, <1>6, <1>7, <1>8, <1>9, <1>10, <1>11, <1>12,
           <1>13, <1>14 DEF Remote!Next

\* What is taken from the channel as a success is an exit status of zero.
LEMMA TakenIsTold ==
  ASSUME Remote!RemoteCommandTypeOK, done # << >>
  PROVE  /\ Remote!Verdict(Head(done)) = "success" => done = <<"zero">>
         /\ Remote!Verdict(Head(done)) \notin {"error", "timeout"}
BY DEF Remote!RemoteCommandTypeOK, Remote!Verdict, Remote!Returned

LEMMA KnownIsKept == RemoteKnownInv /\ [Remote!Next]_(Remote!vars) => RemoteKnownInv'
<1> SUFFICES ASSUME RemoteKnownInv, [Remote!Next]_(Remote!vars)
             PROVE  (RemoteKnown /\ Remote!VerdictIsHonest)'
  BY RemoteTyped DEF RemoteKnownInv
<1>T. Remote!RemoteCommandTypeOK
  BY DEF RemoteKnownInv
<1> USE DEF RemoteKnownInv, RemoteKnown, Remote!VerdictIsHonest, Remote!Return
<1>1. CASE Remote!Refuse       BY <1>1 DEF Remote!Refuse
<1>2. CASE Remote!SessionFails BY <1>2 DEF Remote!SessionFails
<1>3. CASE Remote!OpenSession  BY <1>3 DEF Remote!OpenSession
<1>4. CASE Remote!Take         BY <1>4, <1>T, TakenIsTold DEF Remote!Take
<1>5. CASE Remote!TimerFires   BY <1>5 DEF Remote!TimerFires
<1>6. CASE Remote!TimeOut      BY <1>6 DEF Remote!TimeOut
<1>7. CASE Remote!Grace        BY <1>7 DEF Remote!Grace
<1>8. CASE Remote!CloseClient  BY <1>8 DEF Remote!CloseClient
<1>9. CASE Remote!Send         BY <1>9 DEF Remote!Send, Remote!Returned
<1>10. ASSUME NEW e \in Remote!Returned, Remote!Run(e)
       PROVE  (RemoteKnown /\ Remote!VerdictIsHonest)'
  BY <1>10 DEF Remote!Run, Remote!Hears, Remote!Returned
<1>11. CASE Remote!HostStarts  BY <1>11 DEF Remote!HostStarts
<1>12. CASE Remote!HostEnds    BY <1>12 DEF Remote!HostEnds
<1>13. CASE Remote!LinkFails   BY <1>13 DEF Remote!LinkFails
<1>14. CASE UNCHANGED Remote!vars BY <1>14 DEF Remote!vars
<1> QED BY <1>1, <1>2, <1>3, <1>4, <1>5, <1>6, <1>7, <1>8, <1>9, <1>10, <1>11, <1>12,
           <1>13, <1>14 DEF Remote!Next

\* A success exited 0 on the host, an error never reached it, a timeout waited its
\* time (sshcheck.go:874), whatever the host and the network do.
THEOREM RemoteVerdictIsHonest == StepSpec => []RemoteInv
<1>1. Remote!Init => RemoteKnownInv
  <2>1. Remote!Init => Remote!RemoteCommandTypeOK
    BY DEF Remote!Init, Remote!RemoteCommandTypeOK
  <2>2. Remote!Init => RemoteKnown /\ Remote!VerdictIsHonest
    BY DEF Remote!Init, RemoteKnown, Remote!VerdictIsHonest
  <2> QED BY <2>1, <2>2 DEF RemoteKnownInv
<1>2. RemoteKnownInv => RemoteInv
  BY DEF RemoteKnownInv, RemoteInv
<1> QED BY <1>1, <1>2, KnownIsKept, StepIsItsType, PTL DEF Remote!Spec

-------------------------------------------------------------------------------
(* Files to and from the hosts *)

FilesTyped ==
  /\ step    \in [target : Targets, overwrite : Files!Setting, rules : RuleLists]
  /\ before  \in [Files!Machines -> [Paths -> Files!Contents \cup {NoEntry}]]
  /\ fs      \in [Files!Machines -> [Paths -> Files!Contents \cup {NoEntry}]]
  /\ at      \in [Hosts -> {"session", "rule", "stat", "open", "copy", "done"}]
  /\ rule    \in [Hosts -> Nat \ {0}]
  /\ file    \in [Hosts -> Nat \ {0}]
  /\ existed \in [Hosts -> BOOLEAN]
  /\ pos     \in [Hosts -> 0..Chunks]
  /\ results \in [Hosts -> Seq({"success", "overwritten", "skipped", "error"})]
  /\ state   \in [Hosts -> {"none", "success", "error"}]

AtFile(h) == at[h] \in {"stat", "open", "copy"}

\* Where a host stands there is a rule and a file of it.
Located(h) ==
  /\ rule[h] <= Len(step.rules) + 1
  /\ AtFile(h) => rule[h] <= Len(step.rules) /\ file[h] <= Len(step.rules[rule[h]])

\* What is written to was not there before the step, or a rule asks for it, and it
\* is there while it is written.
WritesWhatIsAsked(h) ==
  /\ at[h] \in {"open", "copy"} =>
       before[Files!Machine(h)][Files!File(h).path] = NoEntry \/ Files!Asked(Files!File(h))
  /\ at[h] = "copy" => fs[Files!Machine(h)][Files!File(h).path] # NoEntry

Finished(h) ==
  state[h] = "success" => at[h] = "done" /\ ~Files!HasError(h) /\ rule[h] > Len(step.rules)

\* The file that is being copied.
InHand(h, p) == at[h] = "copy" /\ p = Files!File(h).path

Past(h, r, i) == r < rule[h] \/ (r = rule[h] /\ AtFile(h) /\ i < file[h])

Delivered(h, f) ==
  \/ fs[Files!Machine(h)][f.path] = Files!Whole(h)
  \/ /\ ~Files!Asked(f)
     /\ before[Files!Machine(h)][f.path] # NoEntry
     /\ fs[Files!Machine(h)][f.path] = before[Files!Machine(h)][f.path]

\* A host that nobody disturbs and that has met no error: a file is what it was, or
\* whole, or in hand and as long as what has been copied; and the files it has
\* passed are delivered.
Progress(h) ==
  Files!Undisturbed(h) /\ ~Files!HasError(h) =>
    /\ \A p \in Paths :
         InHand(h, p) \/ fs[Files!Machine(h)][p] \in {before[Files!Machine(h)][p], Files!Whole(h)}
    /\ at[h] = "copy" => fs[Files!Machine(h)][Files!File(h).path] = [i \in 1..pos[h] |-> h]
    /\ \A r \in 1..Len(step.rules) : \A i \in 1..Len(step.rules[r]) :
         Past(h, r, i) => InHand(h, step.rules[r][i].path) \/ Delivered(h, step.rules[r][i])

HostInv(h) == Located(h) /\ WritesWhatIsAsked(h) /\ Finished(h) /\ Progress(h)

\* No file is removed.
NothingVanishes ==
  \A m \in Files!Machines, p \in Paths : before[m][p] # NoEntry => fs[m][p] # NoEntry

DeliveryInv == /\ FilesTyped
               /\ NothingVanishes
               /\ Files!UnaskedIsUntouched
               /\ \A h \in Hosts : HostInv(h)

-------------------------------------------------------------------------------

RuleSet == [path : Paths, overwrite : Files!Setting]

LEMMA RuleFacts ==
  ASSUME FilesTyped
  PROVE  /\ step.rules \in Seq(Seq(RuleSet))
         /\ Len(step.rules) \in Nat
         /\ DOMAIN step.rules = 1..Len(step.rules)
         /\ \A r \in 1..Len(step.rules) :
              /\ step.rules[r] \in Seq(RuleSet)
              /\ Len(step.rules[r]) \in Nat
              /\ DOMAIN step.rules[r] = 1..Len(step.rules[r])
              /\ \A i \in 1..Len(step.rules[r]) : step.rules[r][i] \in RuleSet
<1>1. step.rules \in Seq(Seq(RuleSet))
  BY FilesAssumption DEF FilesTyped, RuleSet
<1>2. Len(step.rules) \in Nat /\ DOMAIN step.rules = 1..Len(step.rules)
  BY <1>1, LenProperties
<1>3. \A r \in 1..Len(step.rules) : step.rules[r] \in Seq(RuleSet)
  BY <1>1, <1>2, ElementOfSeq
<1>4. ASSUME NEW r \in 1..Len(step.rules)
      PROVE  /\ Len(step.rules[r]) \in Nat /\ DOMAIN step.rules[r] = 1..Len(step.rules[r])
             /\ \A i \in 1..Len(step.rules[r]) : step.rules[r][i] \in RuleSet
  <2>1. step.rules[r] \in Seq(RuleSet)
    BY <1>3
  <2> QED BY <2>1, LenProperties, ElementOfSeq
<1> QED BY <1>1, <1>2, <1>3, <1>4

\* The file a host is at is one of its rule's.
LEMMA FileFacts ==
  ASSUME FilesTyped, NEW h \in Hosts, Located(h), AtFile(h)
  PROVE  /\ rule[h] \in 1..Len(step.rules)
         /\ file[h] \in 1..Len(step.rules[rule[h]])
         /\ Files!File(h) = step.rules[rule[h]][file[h]]
         /\ Files!File(h).path \in Paths
         /\ Files!Machine(h) \in Files!Machines
<1>1. rule[h] \in Nat \ {0} /\ file[h] \in Nat \ {0}
  BY DEF FilesTyped
<1>2. rule[h] \in 1..Len(step.rules)
  BY <1>1, RuleFacts DEF Located
<1>3. file[h] \in 1..Len(step.rules[rule[h]])
  BY <1>1, <1>2, RuleFacts DEF Located
<1>4. Files!File(h) \in RuleSet
  BY <1>2, <1>3, RuleFacts DEF Files!File
<1> QED BY <1>2, <1>3, <1>4 DEF Files!File, Files!Machine, Files!Machines, RuleSet

LEMMA MachineIsOne ==
  ASSUME NEW h \in Hosts PROVE Files!Machine(h) \in Files!Machines
BY DEF Files!Machine, Files!Machines

\* An empty file is a file, and the beginning of any.
LEMMA EmptyFile ==
  /\ << >> \in Files!Contents
  /\ \A h \in Hosts : << >> = [i \in 1..0 |-> h]
<1>1. << >> \in [1..0 -> Hosts \cup {Files!Old, Files!Hole}]
  BY SMT
<1>2. 0 \in 0..Chunks
  BY FilesAssumption
<1> QED BY <1>1, <1>2 DEF Files!Contents

\* A chunk that is written leaves a file.
LEMMA WrittenIsContent ==
  ASSUME NEW c \in Files!Contents, NEW h \in Hosts, NEW k \in 0..Chunks, k < Chunks
  PROVE  Files!WrittenAt(c, k + 1, h) \in Files!Contents
<1> DEFINE S == Hosts \cup {Files!Old, Files!Hole}
<1>1. PICK n \in 0..Chunks : c \in [1..n -> S]
  BY DEF Files!Contents
<1>2. n \in Nat /\ Chunks \in Nat /\ k \in Nat
  BY FilesAssumption
<1>3. c \in Seq(S) /\ Len(c) = n
  BY <1>1, <1>2
<1> DEFINE m == IF k + 1 > n THEN k + 1 ELSE n
<1>4. m \in 0..Chunks
  BY <1>2
<1>5. Files!WrittenAt(c, k + 1, h) \in [1..m -> S]
  BY <1>1, <1>2, <1>3 DEF Files!WrittenAt
<1> QED BY <1>4, <1>5 DEF Files!Contents

\* Chunks that are written one after the other make a whole.
LEMMA WrittenInOrder ==
  ASSUME NEW h \in Hosts, NEW k \in 0..Chunks
  PROVE  Files!WrittenAt([i \in 1..k |-> h], k + 1, h) = [i \in 1..(k + 1) |-> h]
<1>1. k \in Nat
  BY FilesAssumption
<1>2. Len([i \in 1..k |-> h]) = k
  BY <1>1
<1> QED BY <1>1, <1>2 DEF Files!WrittenAt

-------------------------------------------------------------------------------
(* What a step of one host does to the others *)

Writing(h) == at[h] \in {"open", "copy"}
Away(h)    == at[h] \in {"session", "rule", "done"}

Moves(g) ==
  /\ UNCHANGED <<step, before>>
  /\ \A h \in Hosts \ {g} : /\ at'[h] = at[h] /\ rule'[h] = rule[h] /\ file'[h] = file[h]
                            /\ pos'[h] = pos[h] /\ results'[h] = results[h] /\ state'[h] = state[h]
  /\ \A m \in Files!Machines, p \in Paths :
       \/ fs'[m][p] = fs[m][p]
       \/ Writing(g) /\ m = Files!Machine(g) /\ p = Files!File(g).path /\ fs'[m][p] # NoEntry
  /\ results'[g] = << >> /\ at'[g] \in {"session", "rule", "done"} =>
       results[g] = << >> /\ Away(g) /\ fs' = fs

LEMMA WritersAreAsked ==
  ASSUME DeliveryInv, NEW g \in Hosts, Moves(g)
  PROVE  NothingVanishes' /\ Files!UnaskedIsUntouched'
<1>1. step' = step /\ before' = before
  BY DEF Moves
<1>2. ASSUME NEW m \in Files!Machines, NEW p \in Paths
      PROVE  (before[m][p] # NoEntry => fs'[m][p] # NoEntry)
  BY DEF Moves, DeliveryInv, NothingVanishes
<1>3. \A p : Files!AskedAt(p)' <=> Files!AskedAt(p)
  BY <1>1 DEF Files!AskedAt, Files!Rules, Files!Asked
<1>4. ASSUME NEW m \in Files!Machines, NEW p \in Paths
      PROVE  before[m][p] = NoEntry \/ fs'[m][p] = before[m][p] \/ Files!AskedAt(p)
  <2>1. CASE fs'[m][p] = fs[m][p]
    BY <2>1 DEF DeliveryInv, Files!UnaskedIsUntouched
  <2>2. CASE Writing(g) /\ m = Files!Machine(g) /\ p = Files!File(g).path
    <3>1. before[m][p] = NoEntry \/ Files!Asked(Files!File(g))
      BY <2>2 DEF DeliveryInv, HostInv, WritesWhatIsAsked, Writing
    <3>2. /\ rule[g] \in 1..Len(step.rules) /\ file[g] \in 1..Len(step.rules[rule[g]])
          /\ Files!File(g) = step.rules[rule[g]][file[g]]
      BY <2>2, FileFacts DEF DeliveryInv, HostInv, Writing, AtFile
    <3>3. /\ rule[g] \in DOMAIN step.rules
          /\ file[g] \in DOMAIN step.rules[rule[g]]
      BY <3>2, RuleFacts DEF DeliveryInv
    <3>4. Files!Asked(Files!File(g)) => Files!AskedAt(p)
      BY <2>2, <3>2, <3>3 DEF Files!AskedAt, Files!Rules
    <3> QED BY <3>1, <3>4
  <2> QED BY <2>1, <2>2 DEF Moves
<1> QED BY <1>1, <1>2, <1>3, <1>4 DEF NothingVanishes, Files!UnaskedIsUntouched

LEMMA OthersAreLeftAlone ==
  ASSUME DeliveryInv, FilesTyped', NEW g \in Hosts, NEW h \in Hosts \ {g}, Moves(g)
  PROVE  HostInv(h)'
<1>1. step' = step /\ before' = before
  BY DEF Moves
<1>2. /\ at'[h] = at[h] /\ rule'[h] = rule[h] /\ file'[h] = file[h]
      /\ pos'[h] = pos[h] /\ results'[h] = results[h] /\ state'[h] = state[h]
  BY DEF Moves
<1>3. HostInv(h) /\ FilesTyped
  BY DEF DeliveryInv
<1>4. Files!Machine(h) \in Files!Machines
  BY MachineIsOne
<1>5. Files!Machine(h)' = Files!Machine(h) /\ Files!File(h)' = Files!File(h)
  BY <1>1, <1>2 DEF Files!Machine, Files!File
<1>6. Located(h)'
  BY <1>1, <1>2, <1>3 DEF HostInv, Located, AtFile
<1>7. Finished(h)'
  BY <1>1, <1>2, <1>3 DEF HostInv, Finished, Files!HasError
<1>8. WritesWhatIsAsked(h)'
  <2>1. at[h] = "copy" => Files!File(h).path \in Paths
    BY <1>3, FileFacts DEF HostInv, AtFile
  <2>2. at[h] = "copy" => fs'[Files!Machine(h)][Files!File(h).path] # NoEntry
    BY <1>3, <1>4, <2>1 DEF HostInv, WritesWhatIsAsked, Moves
  <2>3. \A f : Files!Asked(f)' <=> Files!Asked(f)
    BY <1>1 DEF Files!Asked
  <2> QED BY <1>1, <1>2, <1>3, <1>5, <2>2, <2>3 DEF HostInv, WritesWhatIsAsked
<1>9. Progress(h)'
  <2>1. SUFFICES ASSUME Files!Undisturbed(h)', ~Files!HasError(h)' PROVE Progress(h)'
    BY DEF Progress
  <2>2. Files!Undisturbed(h) /\ (step.target # "push" => fs' = fs)
    <3>1. CASE step.target = "push"
      BY <3>1 DEF Files!Undisturbed
    <3>2. CASE step.target # "push"
      <4>1. \A o \in Hosts \ {h} : results'[o] = << >> /\ at'[o] \in {"session", "rule", "done"}
        BY <1>1, <2>1, <3>2 DEF Files!Undisturbed
      <4>2. \A o \in Hosts \ {h} : results[o] = << >> /\ at[o] \in {"session", "rule", "done"}
        BY <4>1 DEF Moves, Away
      <4>3. fs' = fs
        BY <4>1 DEF Moves
      <4> QED BY <4>2, <4>3 DEF Files!Undisturbed
    <3> QED BY <3>1, <3>2
  <2>3. ~Files!HasError(h)
    BY <1>2, <2>1 DEF Files!HasError
  <2>4. \A p \in Paths : fs'[Files!Machine(h)][p] = fs[Files!Machine(h)][p]
    <3>1. CASE step.target = "push"
      <4>1. Files!Machine(h) # Files!Machine(g)
        BY <3>1 DEF Files!Machine
      <4> QED BY <1>4, <4>1 DEF Moves
    <3> QED BY <2>2, <3>1
  <2>5. at[h] = "copy" => Files!File(h).path \in Paths
    BY <1>3, FileFacts DEF HostInv, AtFile
  <2>6. /\ \A p \in Paths :
             InHand(h, p) \/ fs[Files!Machine(h)][p] \in {before[Files!Machine(h)][p], Files!Whole(h)}
        /\ at[h] = "copy" => fs[Files!Machine(h)][Files!File(h).path] = [i \in 1..pos[h] |-> h]
        /\ \A r \in 1..Len(step.rules) : \A i \in 1..Len(step.rules[r]) :
             Past(h, r, i) => InHand(h, step.rules[r][i].path) \/ Delivered(h, step.rules[r][i])
    BY <1>3, <2>2, <2>3 DEF HostInv, Progress
  <2>7. \A p : InHand(h, p)' <=> InHand(h, p)
    BY <1>2, <1>5 DEF InHand
  <2>8. \A r, i : Past(h, r, i)' <=> Past(h, r, i)
    BY <1>2 DEF Past, AtFile
  <2>10. \A r \in 1..Len(step.rules) : \A i \in 1..Len(step.rules[r]) : step.rules[r][i].path \in Paths
    BY <1>3, RuleFacts DEF RuleSet
  <2>11. \A p \in Paths :
           InHand(h, p)' \/ fs'[Files!Machine(h)'][p] \in {before'[Files!Machine(h)'][p], Files!Whole(h)'}
    BY <1>1, <1>5, <2>4, <2>6, <2>7 DEF Files!Whole
  <2>12. at'[h] = "copy" => fs'[Files!Machine(h)'][Files!File(h).path'] = [i \in 1..pos'[h] |-> h]
    BY <1>2, <1>5, <2>4, <2>5, <2>6
  <2>13. ASSUME NEW r \in 1..Len(step.rules), NEW i \in 1..Len(step.rules[r])
         PROVE  Past(h, r, i)' => InHand(h, step.rules[r][i].path)' \/ Delivered(h, step.rules[r][i])'
    <3>1. step.rules[r][i].path \in Paths
      BY <2>10
    <3>2. (step.rules[r][i])' = step.rules[r][i]
      BY <1>1
    <3>3. Past(h, r, i) => InHand(h, step.rules[r][i].path) \/ Delivered(h, step.rules[r][i])
      BY <2>6
    <3>4. InHand(h, step.rules[r][i].path)' <=> InHand(h, step.rules[r][i].path)
      BY <1>2, <1>5, <3>2 DEF InHand
    <3>5. Delivered(h, step.rules[r][i])' <=> Delivered(h, step.rules[r][i])
      BY <1>1, <1>5, <2>4, <3>1, <3>2 DEF Delivered, Files!Asked, Files!Whole
    <3> QED BY <2>8, <3>3, <3>4, <3>5
  <2> QED BY <1>1, <2>11, <2>12, <2>13 DEF Progress
<1> QED BY <1>6, <1>7, <1>8, <1>9 DEF HostInv

-------------------------------------------------------------------------------
(* What a step of a host makes of its own transfer *)

Outcomes == {"success", "overwritten", "skipped", "error"}

LEMMA OutcomeAdded ==
  ASSUME NEW s \in Seq(Outcomes), NEW e \in Outcomes
  PROVE  /\ Append(s, e) \in Seq(Outcomes) /\ Append(s, e) # << >>
         /\ (\E i \in DOMAIN Append(s, e) : Append(s, e)[i] = "error")
              <=> ((\E i \in DOMAIN s : s[i] = "error") \/ e = "error")
<1>1. /\ Append(s, e) \in Seq(Outcomes) /\ Append(s, e) # << >>
      /\ Len(Append(s, e)) = Len(s) + 1 /\ Append(s, e)[Len(s) + 1] = e
      /\ \A i \in 1..Len(s) : Append(s, e)[i] = s[i]
  BY AppendProperties
<1>2. /\ Len(s) \in Nat /\ DOMAIN s = 1..Len(s)
      /\ DOMAIN Append(s, e) = 1..(Len(s) + 1)
  BY <1>1, LenProperties
<1>3. \A i \in 1..(Len(s) + 1) : i \in 1..Len(s) \/ i = Len(s) + 1
  BY <1>2
<1>4. Len(s) + 1 \in 1..(Len(s) + 1) /\ \A i \in 1..Len(s) : i \in 1..(Len(s) + 1)
  BY <1>2
<1> QED BY <1>1, <1>2, <1>3, <1>4

\* The goroutine adds a line and goes on to the next file or the next rule: the
\* only file it has passed in addition is the one it was at.
LEMMA ReportFacts ==
  ASSUME FilesTyped, NEW g \in Hosts, Located(g), AtFile(g), NEW e \in Outcomes,
         Files!Report(g, e), step' = step
  PROVE  /\ rule'    \in [Hosts -> Nat \ {0}]
         /\ file'    \in [Hosts -> Nat \ {0}]
         /\ at'      \in [Hosts -> {"session", "rule", "stat", "open", "copy", "done"}]
         /\ results' \in [Hosts -> Seq(Outcomes)]
         /\ \A h \in Hosts \ {g} : /\ at'[h] = at[h] /\ rule'[h] = rule[h]
                                   /\ file'[h] = file[h] /\ results'[h] = results[h]
         /\ results'[g] # << >>
         /\ Files!HasError(g)' <=> (Files!HasError(g) \/ e = "error")
         /\ at'[g] \in {"rule", "stat"}
         /\ Located(g)'
         /\ \A r \in 1..Len(step.rules) : \A i \in 1..Len(step.rules[r]) :
              Past(g, r, i)' => Past(g, r, i) \/ (r = rule[g] /\ i = file[g])
<1>1. /\ rule[g] \in 1..Len(step.rules) /\ file[g] \in 1..Len(step.rules[rule[g]])
      /\ Len(step.rules) \in Nat /\ Len(step.rules[rule[g]]) \in Nat
  BY FileFacts, RuleFacts
<1>2. rule[g] \in Nat \ {0} /\ file[g] \in Nat \ {0}
  BY DEF FilesTyped
<1>3. results' = [results EXCEPT ![g] = Append(@, e)]
  BY DEF Files!Report
<1>4. results[g] \in Seq(Outcomes)
  BY DEF FilesTyped, Outcomes
<1>5. /\ results' \in [Hosts -> Seq(Outcomes)] /\ results'[g] = Append(results[g], e)
      /\ \A h \in Hosts \ {g} : results'[h] = results[h]
  BY <1>3, <1>4, OutcomeAdded DEF FilesTyped, Outcomes
<1>6. results'[g] # << >> /\ (Files!HasError(g)' <=> (Files!HasError(g) \/ e = "error"))
  <2>1. /\ Append(results[g], e) # << >>
        /\ (\E i \in DOMAIN Append(results[g], e) : Append(results[g], e)[i] = "error")
             <=> ((\E i \in DOMAIN results[g] : results[g][i] = "error") \/ e = "error")
    BY <1>4, OutcomeAdded
  <2>2. Files!HasError(g)' <=> \E i \in DOMAIN results'[g] : results'[g][i] = "error"
    BY DEF Files!HasError
  <2>3. Files!HasError(g) <=> \E i \in DOMAIN results[g] : results[g][i] = "error"
    BY DEF Files!HasError
  <2> QED BY <1>5, <2>1, <2>2, <2>3
<1>7. CASE file[g] < Len(step.rules[rule[g]])
  <2>1. /\ file' = [file EXCEPT ![g] = @ + 1] /\ at' = [at EXCEPT ![g] = "stat"] /\ rule' = rule
    BY <1>7 DEF Files!Report
  <2>2. /\ file' \in [Hosts -> Nat \ {0}] /\ file'[g] = file[g] + 1 /\ at'[g] = "stat"
        /\ rule' \in [Hosts -> Nat \ {0}]
        /\ at' \in [Hosts -> {"session", "rule", "stat", "open", "copy", "done"}]
        /\ \A h \in Hosts \ {g} : at'[h] = at[h] /\ rule'[h] = rule[h] /\ file'[h] = file[h]
    BY <1>2, <2>1 DEF FilesTyped
  <2>3. Located(g)'
    BY <1>1, <1>2, <1>7, <2>1, <2>2 DEF Located, AtFile
  <2>4. ASSUME NEW r \in 1..Len(step.rules), NEW i \in 1..Len(step.rules[r])
        PROVE  Past(g, r, i)' => Past(g, r, i) \/ (r = rule[g] /\ i = file[g])
    <3>1. i \in Nat
      BY RuleFacts
    <3> QED BY <1>1, <1>2, <2>1, <2>2, <3>1 DEF Past, AtFile
  <2> QED BY <1>5, <1>6, <2>2, <2>3, <2>4
<1>8. CASE ~(file[g] < Len(step.rules[rule[g]]))
  <2>1. /\ rule' = [rule EXCEPT ![g] = @ + 1] /\ at' = [at EXCEPT ![g] = "rule"] /\ file' = file
    BY <1>8 DEF Files!Report
  <2>2. /\ rule' \in [Hosts -> Nat \ {0}] /\ rule'[g] = rule[g] + 1 /\ at'[g] = "rule"
        /\ file' \in [Hosts -> Nat \ {0}]
        /\ at' \in [Hosts -> {"session", "rule", "stat", "open", "copy", "done"}]
        /\ \A h \in Hosts \ {g} : at'[h] = at[h] /\ rule'[h] = rule[h] /\ file'[h] = file[h]
    BY <1>2, <2>1 DEF FilesTyped
  <2>3. Located(g)'
    BY <1>1, <1>2, <1>8, <2>1, <2>2 DEF Located, AtFile
  <2>4. ASSUME NEW r \in 1..Len(step.rules), NEW i \in 1..Len(step.rules[r])
        PROVE  Past(g, r, i)' => Past(g, r, i) \/ (r = rule[g] /\ i = file[g])
    <3>1. i \in 1..Len(step.rules[r]) /\ r \in Nat /\ i \in Nat
      BY RuleFacts
    <3> QED BY <1>1, <1>2, <1>8, <2>1, <2>2, <3>1 DEF Past, AtFile
  <2> QED BY <1>5, <1>6, <2>2, <2>3, <2>4
<1> QED BY <1>7, <1>8

\* A host does not disturb itself.
LEMMA SelfIsNoDisturbance ==
  ASSUME NEW g \in Hosts, Moves(g)
  PROVE  Files!Undisturbed(g)' <=> Files!Undisturbed(g)
BY DEF Moves, Files!Undisturbed

\* Where nothing is written and nothing in hand, what was delivered stays so.
LEMMA NothingWritten ==
  ASSUME FilesTyped, NEW g \in Hosts, Progress(g), Moves(g), fs' = fs,
         at[g] # "copy", at'[g] # "copy",
         ~Files!HasError(g)' => ~Files!HasError(g),
         ~Files!HasError(g)' /\ Files!Undisturbed(g) =>
           \A r \in 1..Len(step.rules) : \A i \in 1..Len(step.rules[r]) :
             Past(g, r, i)' => Past(g, r, i) \/ Delivered(g, step.rules[r][i])
  PROVE  Progress(g)'
<1>1. step' = step /\ before' = before
  BY DEF Moves
<1>2. SUFFICES ASSUME Files!Undisturbed(g)', ~Files!HasError(g)' PROVE Progress(g)'
  BY DEF Progress
<1>3. Files!Undisturbed(g) /\ ~Files!HasError(g)
  BY <1>2, SelfIsNoDisturbance
<1>4. Files!Machine(g)' = Files!Machine(g)
  BY <1>1 DEF Files!Machine
<1>5. \A p \in Paths : fs'[Files!Machine(g)'][p] \in {before'[Files!Machine(g)'][p], Files!Whole(g)'}
  BY <1>1, <1>3, <1>4 DEF Progress, InHand, Files!Whole
<1>6. ASSUME NEW r \in 1..Len(step.rules), NEW i \in 1..Len(step.rules[r]), Past(g, r, i)'
      PROVE  Delivered(g, step.rules[r][i])'
  <2>1. (step.rules[r][i])' = step.rules[r][i]
    BY <1>1
  <2>2. Delivered(g, step.rules[r][i])
    BY <1>2, <1>3, <1>6 DEF Progress, InHand
  <2> QED BY <1>1, <1>4, <2>1, <2>2 DEF Delivered, Files!Asked, Files!Whole
<1> QED BY <1>1, <1>5, <1>6 DEF Progress

OwnInv(g) == FilesTyped' /\ Moves(g) /\ HostInv(g)'

LEMMA SessionOwn ==
  ASSUME DeliveryInv, NEW g \in Hosts, Files!Session(g)
  PROVE  OwnInv(g)
<1> USE DEF Files!Session, Files!config
<1>1. FilesTyped /\ HostInv(g)
  BY DEF DeliveryInv
<1>2. FilesTyped'
  BY <1>1 DEF FilesTyped
<1>3. Moves(g)
  BY <1>1 DEF Moves, FilesTyped, Away
<1>4. at'[g] \in {"rule", "done"} /\ (state'[g] = state[g] \/ state'[g] = "error")
  BY <1>1 DEF FilesTyped
<1>5. Located(g)'
  BY <1>1, <1>4 DEF HostInv, Located, AtFile
<1>6. WritesWhatIsAsked(g)'
  BY <1>4 DEF WritesWhatIsAsked
<1>7. Finished(g)'
  BY <1>1, <1>4 DEF HostInv, Finished
<1>8. Progress(g)'
  <2>1. Files!HasError(g)' <=> Files!HasError(g)
    BY DEF Files!HasError
  <2>2. \A r, i : Past(g, r, i)' => Past(g, r, i)
    BY <1>4 DEF Past, AtFile
  <2> QED BY <1>1, <1>3, <1>4, <2>1, <2>2, NothingWritten DEF HostInv
<1> QED BY <1>2, <1>3, <1>5, <1>6, <1>7, <1>8 DEF OwnInv, HostInv

LEMMA ExpandOwn ==
  ASSUME DeliveryInv, NEW g \in Hosts, Files!Expand(g)
  PROVE  OwnInv(g)
<1> USE DEF Files!Expand, Files!config
<1>1. FilesTyped /\ HostInv(g)
  BY DEF DeliveryInv
<1>2. rule[g] \in Nat \ {0} /\ rule[g] \in 1..Len(step.rules) /\ Len(step.rules) \in Nat
  BY <1>1, RuleFacts DEF FilesTyped
<1>3. FilesTyped'
  <2>1. CASE step.rules[rule[g]] = << >>
    <3>1. rule' = [rule EXCEPT ![g] = @ + 1] /\ UNCHANGED <<at, file>>
      BY <2>1
    <3> QED BY <1>1, <1>2, <3>1 DEF FilesTyped
  <2>2. CASE step.rules[rule[g]] # << >>
    <3>1. /\ at' = [at EXCEPT ![g] = "stat"] /\ file' = [file EXCEPT ![g] = 1]
          /\ UNCHANGED rule
      BY <2>2
    <3> QED BY <1>1, <3>1 DEF FilesTyped
  <2> QED BY <2>1, <2>2
<1>4. Moves(g)
  BY <1>1 DEF Moves, FilesTyped, Away
<1>5. /\ at'[g] \in {"rule", "stat"} /\ state'[g] = state[g]
      /\ step' = step /\ fs' = fs /\ results' = results
  BY <1>1 DEF FilesTyped
<1>6. /\ step.rules[rule[g]] = << >> => at'[g] = "rule" /\ rule'[g] = rule[g] + 1
      /\ step.rules[rule[g]] # << >> => at'[g] = "stat" /\ rule'[g] = rule[g] /\ file'[g] = 1
  BY <1>1 DEF FilesTyped
<1>7. /\ Len(step.rules[rule[g]]) \in Nat
      /\ step.rules[rule[g]] # << >> => Len(step.rules[rule[g]]) >= 1
      /\ step.rules[rule[g]] = << >> => Len(step.rules[rule[g]]) = 0
  <2>1. step.rules[rule[g]] \in Seq(RuleSet)
    BY <1>1, <1>2, RuleFacts
  <2> QED BY <2>1, LenProperties, EmptySeq
<1>8. Located(g)'
  BY <1>2, <1>5, <1>6, <1>7 DEF Located, AtFile
<1>9. WritesWhatIsAsked(g)'
  BY <1>5 DEF WritesWhatIsAsked
<1>10. Finished(g)'
  BY <1>1, <1>5 DEF HostInv, Finished
<1>11. Progress(g)'
  <2>1. Files!HasError(g)' <=> Files!HasError(g)
    BY DEF Files!HasError
  <2>2. ASSUME NEW r \in 1..Len(step.rules), NEW i \in 1..Len(step.rules[r]), Past(g, r, i)'
        PROVE  Past(g, r, i)
    <3>1. r \in Nat /\ i \in Nat /\ i \in 1..Len(step.rules[r])
      BY <1>1, <1>2, RuleFacts
    <3> QED BY <1>2, <1>5, <1>6, <1>7, <2>2, <3>1 DEF Past, AtFile
  <2> QED BY <1>1, <1>4, <1>5, <2>1, <2>2, NothingWritten DEF HostInv
<1> QED BY <1>3, <1>4, <1>8, <1>9, <1>10, <1>11 DEF OwnInv, HostInv

LEMMA ExpandFailsOwn ==
  ASSUME DeliveryInv, NEW g \in Hosts, Files!ExpandFails(g)
  PROVE  OwnInv(g)
<1> USE DEF Files!ExpandFails, Files!config
<1>1. FilesTyped /\ HostInv(g)
  BY DEF DeliveryInv
<1>2. rule[g] \in Nat \ {0} /\ rule[g] \in 1..Len(step.rules) /\ Len(step.rules) \in Nat
  BY <1>1, RuleFacts DEF FilesTyped
<1>3. results[g] \in Seq(Outcomes) /\ "error" \in Outcomes
  BY <1>1 DEF FilesTyped, Outcomes
<1>4. /\ Append(results[g], "error") \in Seq(Outcomes) /\ Append(results[g], "error") # << >>
      /\ \E i \in DOMAIN Append(results[g], "error") : Append(results[g], "error")[i] = "error"
  BY <1>3, OutcomeAdded
<1>5. results'[g] = Append(results[g], "error")
  BY <1>1 DEF FilesTyped
<1>6. results' \in [Hosts -> Seq(Outcomes)]
  BY <1>1, <1>4 DEF FilesTyped, Outcomes
<1>7. FilesTyped'
  BY <1>1, <1>2, <1>6 DEF FilesTyped, Outcomes
<1>8. Moves(g)
  BY <1>1, <1>4, <1>5 DEF Moves, FilesTyped, Away
<1>9. at'[g] = "rule" /\ rule'[g] = rule[g] + 1 /\ state'[g] = state[g]
  BY <1>1 DEF FilesTyped
<1>10. Located(g)'
  BY <1>2, <1>9 DEF Located, AtFile
<1>11. WritesWhatIsAsked(g)'
  BY <1>9 DEF WritesWhatIsAsked
<1>12. Finished(g)'
  BY <1>1, <1>9 DEF HostInv, Finished
<1>13. Progress(g)'
  <2>1. Files!HasError(g)'
    BY <1>4, <1>5 DEF Files!HasError
  <2> QED BY <2>1 DEF Progress
<1> QED BY <1>7, <1>8, <1>10, <1>11, <1>12, <1>13 DEF OwnInv, HostInv

\* The files that are there and not to be overwritten are delivered as they are.
LEMMA StatOwn ==
  ASSUME DeliveryInv, NEW g \in Hosts, Files!Stat(g)
  PROVE  OwnInv(g)
<1> USE DEF Files!Stat, Files!config
<1>1. FilesTyped /\ HostInv(g) /\ NothingVanishes
  BY DEF DeliveryInv
<1>2. at[g] = "stat" /\ AtFile(g) /\ step' = step /\ before' = before /\ fs' = fs
  BY DEF AtFile
<1>3. /\ rule[g] \in 1..Len(step.rules) /\ file[g] \in 1..Len(step.rules[rule[g]])
      /\ Files!File(g) = step.rules[rule[g]][file[g]] /\ Files!File(g).path \in Paths
      /\ Files!Machine(g) \in Files!Machines
  BY <1>1, <1>2, FileFacts DEF HostInv
<1>4. existed' \in [Hosts -> BOOLEAN]
      /\ (existed'[g] <=> fs[Files!Machine(g)][Files!File(g).path] # NoEntry)
  BY <1>1 DEF FilesTyped, Files!Target
<1>5. Files!ShouldOverwrite(Files!File(g)) <=> Files!Asked(Files!File(g))
  BY DEF Files!ShouldOverwrite, Files!Asked
<1>6. CASE existed'[g] /\ ~Files!ShouldOverwrite(Files!File(g))
  <2>1. Files!Report(g, "skipped") /\ "skipped" \in Outcomes
    BY <1>6 DEF Outcomes
  <2>2. /\ rule'    \in [Hosts -> Nat \ {0}]
        /\ file'    \in [Hosts -> Nat \ {0}]
        /\ at'      \in [Hosts -> {"session", "rule", "stat", "open", "copy", "done"}]
        /\ results' \in [Hosts -> Seq(Outcomes)]
        /\ \A h \in Hosts \ {g} : /\ at'[h] = at[h] /\ rule'[h] = rule[h]
                                  /\ file'[h] = file[h] /\ results'[h] = results[h]
        /\ results'[g] # << >>
        /\ Files!HasError(g)' <=> (Files!HasError(g) \/ "skipped" = "error")
        /\ at'[g] \in {"rule", "stat"}
        /\ Located(g)'
        /\ \A r \in 1..Len(step.rules) : \A i \in 1..Len(step.rules[r]) :
             Past(g, r, i)' => Past(g, r, i) \/ (r = rule[g] /\ i = file[g])
    BY <1>1, <1>2, <2>1, ReportFacts DEF HostInv
  <2>3. FilesTyped'
    BY <1>1, <1>4, <2>2 DEF FilesTyped, Outcomes
  <2>4. Moves(g)
    BY <2>2 DEF Moves
  <2>5. WritesWhatIsAsked(g)' /\ Finished(g)'
    BY <1>1, <1>2, <2>2 DEF HostInv, WritesWhatIsAsked, Finished
  <2>6. ASSUME ~Files!HasError(g), Files!Undisturbed(g)
        PROVE  Delivered(g, Files!File(g))
    <3>1. fs[Files!Machine(g)][Files!File(g).path]
            \in {before[Files!Machine(g)][Files!File(g).path], Files!Whole(g)}
      BY <1>1, <1>2, <1>3, <2>6 DEF HostInv, Progress, InHand
    <3> QED BY <1>4, <1>5, <1>6, <3>1 DEF Delivered
  <2>7. Progress(g)'
    BY <1>1, <1>2, <1>3, <2>2, <2>4, <2>6, NothingWritten DEF HostInv
  <2> QED BY <2>2, <2>3, <2>4, <2>5, <2>7 DEF OwnInv, HostInv
<1>7. CASE ~(existed'[g] /\ ~Files!ShouldOverwrite(Files!File(g)))
  <2>1. at' = [at EXCEPT ![g] = "open"] /\ UNCHANGED <<rule, file, results>>
    BY <1>7
  <2>2. at'[g] = "open"
    BY <1>1, <2>1 DEF FilesTyped
  <2>3. FilesTyped'
    BY <1>1, <1>4, <2>1 DEF FilesTyped
  <2>4. Moves(g)
    BY <1>1, <2>1 DEF Moves, FilesTyped
  <2>5. Located(g)'
    BY <1>1, <1>2, <2>1, <2>2 DEF HostInv, Located, AtFile
  <2>6. Files!File(g)' = Files!File(g) /\ Files!Machine(g)' = Files!Machine(g)
    BY <1>2, <2>1 DEF Files!File, Files!Machine
  <2>7. before[Files!Machine(g)][Files!File(g).path] = NoEntry \/ Files!Asked(Files!File(g))
    BY <1>1, <1>3, <1>4, <1>5, <1>7 DEF NothingVanishes
  <2>8. WritesWhatIsAsked(g)'
    BY <1>2, <2>2, <2>6, <2>7 DEF WritesWhatIsAsked, Files!Asked
  <2>9. Finished(g)'
    BY <1>1, <1>2, <2>2 DEF HostInv, Finished
  <2>10. Files!HasError(g)' <=> Files!HasError(g)
    BY <2>1 DEF Files!HasError
  <2>11. \A r, i : Past(g, r, i)' => Past(g, r, i)
    BY <1>2, <2>1, <2>2 DEF Past, AtFile
  <2>12. Progress(g)'
    BY <1>1, <1>2, <2>2, <2>4, <2>10, <2>11, NothingWritten DEF HostInv
  <2> QED BY <2>3, <2>4, <2>5, <2>8, <2>9, <2>12 DEF OwnInv, HostInv
<1> QED BY <1>6, <1>7

\* A report of an error promises nothing any more.
LEMMA ErrorOwn ==
  ASSUME DeliveryInv, NEW g \in Hosts, AtFile(g), at[g] # "stat", Files!Report(g, "error"),
         UNCHANGED <<Files!config, fs, existed, pos, state>>
  PROVE  OwnInv(g)
<1> USE DEF Files!config
<1>1. FilesTyped /\ HostInv(g)
  BY DEF DeliveryInv
<1>2. /\ rule'    \in [Hosts -> Nat \ {0}]
      /\ file'    \in [Hosts -> Nat \ {0}]
      /\ at'      \in [Hosts -> {"session", "rule", "stat", "open", "copy", "done"}]
      /\ results' \in [Hosts -> Seq(Outcomes)]
      /\ \A h \in Hosts \ {g} : /\ at'[h] = at[h] /\ rule'[h] = rule[h]
                                /\ file'[h] = file[h] /\ results'[h] = results[h]
      /\ results'[g] # << >>
      /\ Files!HasError(g)'
      /\ at'[g] \in {"rule", "stat"}
      /\ Located(g)'
  <2>1. "error" \in Outcomes
    BY DEF Outcomes
  <2> QED BY <1>1, <2>1, ReportFacts DEF HostInv
<1>3. FilesTyped'
  BY <1>1, <1>2 DEF FilesTyped, Outcomes
<1>4. Moves(g)
  BY <1>2 DEF Moves
<1>5. WritesWhatIsAsked(g)' /\ Finished(g)'
  BY <1>1, <1>2 DEF HostInv, WritesWhatIsAsked, Finished, AtFile
<1>6. Progress(g)'
  BY <1>2 DEF Progress
<1> QED BY <1>2, <1>3, <1>4, <1>5, <1>6 DEF OwnInv, HostInv

\* From here on the file is in hand: empty, and only as long as what is copied.
LEMMA OpenOwn ==
  ASSUME DeliveryInv, NEW g \in Hosts, Files!Open(g)
  PROVE  OwnInv(g)
<1> USE DEF Files!Open, Files!config
<1> DEFINE m == Files!Machine(g)
           f == Files!File(g)
<1>1. FilesTyped /\ HostInv(g)
  BY DEF DeliveryInv
<1>2. at[g] = "open" /\ AtFile(g) /\ Writing(g) /\ step' = step /\ before' = before
      /\ rule' = rule /\ file' = file /\ results' = results /\ state' = state
  BY DEF AtFile, Writing
<1>3. f.path \in Paths /\ m \in Files!Machines
  BY <1>1, <1>2, FileFacts DEF HostInv
<1>4. << >> \in Files!Contents /\ << >> # NoEntry /\ 0 \in 0..Chunks
  BY EmptyFile, FilesAssumption
<1>5. fs' = [fs EXCEPT ![m][f.path] = << >>]
  OBVIOUS
<1>6. /\ at'[g] = "copy" /\ pos'[g] = 0 /\ fs'[m][f.path] = << >>
      /\ \A n \in Files!Machines, p \in Paths : (n = m /\ p = f.path) \/ fs'[n][p] = fs[n][p]
  BY <1>1, <1>3, <1>5 DEF FilesTyped
<1>7. fs' \in [Files!Machines -> [Paths -> Files!Contents \cup {NoEntry}]]
  BY <1>1, <1>3, <1>4, <1>5 DEF FilesTyped
<1>8. FilesTyped'
  BY <1>1, <1>2, <1>4, <1>7 DEF FilesTyped
<1>9. Moves(g)
  BY <1>1, <1>2, <1>4, <1>6 DEF Moves, FilesTyped
<1>10. Files!File(g)' = f /\ Files!Machine(g)' = m
  BY <1>2 DEF Files!File, Files!Machine
<1>11. Located(g)'
  BY <1>1, <1>2, <1>6 DEF HostInv, Located, AtFile
<1>12. before[m][f.path] = NoEntry \/ Files!Asked(f)
  BY <1>1, <1>2 DEF HostInv, WritesWhatIsAsked
<1>13. WritesWhatIsAsked(g)'
  BY <1>2, <1>4, <1>6, <1>10, <1>12 DEF WritesWhatIsAsked, Files!Asked
<1>14. Finished(g)'
  BY <1>1, <1>2 DEF HostInv, Finished
<1>15. Progress(g)'
  <2>1. SUFFICES ASSUME Files!Undisturbed(g)', ~Files!HasError(g)' PROVE Progress(g)'
    BY DEF Progress
  <2>2. Files!Undisturbed(g) /\ ~Files!HasError(g)
    BY <1>2, <1>9, <2>1, SelfIsNoDisturbance DEF Files!HasError
  <2>3. /\ \A p \in Paths : fs[m][p] \in {before[m][p], Files!Whole(g)}
        /\ \A r \in 1..Len(step.rules) : \A i \in 1..Len(step.rules[r]) :
             Past(g, r, i) => Delivered(g, step.rules[r][i])
    BY <1>1, <1>2, <2>2 DEF HostInv, Progress, InHand
  <2>4. \A p \in Paths : InHand(g, p)' \/ fs'[m][p] \in {before[m][p], Files!Whole(g)}
    BY <1>3, <1>6, <1>10, <2>3 DEF InHand
  <2>5. fs'[m][f.path] = [i \in 1..pos'[g] |-> g]
    BY <1>6, EmptyFile
  <2>6. ASSUME NEW r \in 1..Len(step.rules), NEW i \in 1..Len(step.rules[r]), Past(g, r, i)'
        PROVE  InHand(g, step.rules[r][i].path)' \/ Delivered(g, step.rules[r][i])'
    <3>1. (step.rules[r][i])' = step.rules[r][i] /\ step.rules[r][i].path \in Paths
      BY <1>1, <1>2, RuleFacts DEF RuleSet
    <3>2. Past(g, r, i)
      BY <1>2, <1>6, <2>6 DEF Past, AtFile
    <3>3. Delivered(g, step.rules[r][i])
      BY <2>3, <3>2
    <3>4. CASE step.rules[r][i].path = f.path
      BY <1>6, <1>10, <3>1, <3>4 DEF InHand
    <3>5. CASE step.rules[r][i].path # f.path
      BY <1>2, <1>3, <1>6, <1>10, <3>1, <3>3, <3>5 DEF Delivered, Files!Asked, Files!Whole
    <3> QED BY <3>4, <3>5
  <2> QED BY <1>2, <1>10, <2>4, <2>5, <2>6 DEF Progress, Files!Whole
<1> QED BY <1>8, <1>9, <1>11, <1>13, <1>14, <1>15 DEF OwnInv, HostInv

LEMMA CopyOwn ==
  ASSUME DeliveryInv, NEW g \in Hosts, Files!Copy(g)
  PROVE  OwnInv(g)
<1> USE DEF Files!Copy, Files!config
<1> DEFINE m == Files!Machine(g)
           f == Files!File(g)
           c == Files!WrittenAt(fs[m][f.path], pos[g] + 1, g)
<1>1. FilesTyped /\ HostInv(g)
  BY DEF DeliveryInv
<1>2. at[g] = "copy" /\ AtFile(g) /\ Writing(g) /\ step' = step /\ before' = before
      /\ rule' = rule /\ file' = file /\ results' = results /\ state' = state /\ at' = at
  BY DEF AtFile, Writing
<1>3. f.path \in Paths /\ m \in Files!Machines
  BY <1>1, <1>2, FileFacts DEF HostInv
<1>4. pos[g] \in 0..Chunks /\ pos[g] < Chunks /\ pos[g] + 1 \in 0..Chunks
  BY <1>1, FilesAssumption DEF FilesTyped
<1>5. fs[m][f.path] \in Files!Contents
  BY <1>1, <1>2, <1>3 DEF HostInv, WritesWhatIsAsked, FilesTyped
<1>6. c \in Files!Contents /\ c # NoEntry
  BY <1>4, <1>5, WrittenIsContent, FilesAssumption
<1>7. fs' = [fs EXCEPT ![m][f.path] = c]
  OBVIOUS
<1> HIDE DEF c
<1>8. /\ pos'[g] = pos[g] + 1 /\ fs'[m][f.path] = c
      /\ \A n \in Files!Machines, p \in Paths : (n = m /\ p = f.path) \/ fs'[n][p] = fs[n][p]
  BY <1>1, <1>3, <1>7 DEF FilesTyped
<1>9. fs' \in [Files!Machines -> [Paths -> Files!Contents \cup {NoEntry}]]
  BY <1>1, <1>3, <1>6, <1>7 DEF FilesTyped
<1>10. FilesTyped'
  BY <1>1, <1>2, <1>4, <1>9 DEF FilesTyped
<1>11. Moves(g)
  BY <1>1, <1>2, <1>6, <1>8 DEF Moves, FilesTyped
<1>12. Files!File(g)' = f /\ Files!Machine(g)' = m
  BY <1>2 DEF Files!File, Files!Machine
<1>13. Located(g)'
  BY <1>1, <1>2 DEF HostInv, Located, AtFile
<1>14. before[m][f.path] = NoEntry \/ Files!Asked(f)
  BY <1>1, <1>2 DEF HostInv, WritesWhatIsAsked
<1>15. WritesWhatIsAsked(g)'
  BY <1>2, <1>6, <1>8, <1>12, <1>14 DEF WritesWhatIsAsked, Files!Asked
<1>16. Finished(g)'
  BY <1>1, <1>2 DEF HostInv, Finished, Files!HasError
<1>17. Progress(g)'
  <2>1. SUFFICES ASSUME Files!Undisturbed(g)', ~Files!HasError(g)' PROVE Progress(g)'
    BY DEF Progress
  <2>2. Files!Undisturbed(g) /\ ~Files!HasError(g)
    BY <1>2, <1>11, <2>1, SelfIsNoDisturbance DEF Files!HasError
  <2>3. /\ \A p \in Paths : InHand(g, p) \/ fs[m][p] \in {before[m][p], Files!Whole(g)}
        /\ fs[m][f.path] = [i \in 1..pos[g] |-> g]
        /\ \A r \in 1..Len(step.rules) : \A i \in 1..Len(step.rules[r]) :
             Past(g, r, i) => InHand(g, step.rules[r][i].path) \/ Delivered(g, step.rules[r][i])
    BY <1>1, <1>2, <2>2 DEF HostInv, Progress
  <2>4. \A p \in Paths : InHand(g, p)' \/ fs'[m][p] \in {before[m][p], Files!Whole(g)}
    BY <1>2, <1>3, <1>8, <1>12, <2>3 DEF InHand
  <2>5. fs'[m][f.path] = [i \in 1..pos'[g] |-> g]
    BY <1>4, <1>8, <2>3, WrittenInOrder DEF c
  <2>6. ASSUME NEW r \in 1..Len(step.rules), NEW i \in 1..Len(step.rules[r]), Past(g, r, i)'
        PROVE  InHand(g, step.rules[r][i].path)' \/ Delivered(g, step.rules[r][i])'
    <3>1. (step.rules[r][i])' = step.rules[r][i] /\ step.rules[r][i].path \in Paths
      BY <1>1, <1>2, RuleFacts DEF RuleSet
    <3>2. Past(g, r, i)
      BY <1>2, <2>6 DEF Past, AtFile
    <3>3. CASE step.rules[r][i].path = f.path
      BY <1>2, <1>12, <3>1, <3>3 DEF InHand
    <3>4. CASE step.rules[r][i].path # f.path
      <4>1. Delivered(g, step.rules[r][i])
        BY <2>3, <3>2, <3>4 DEF InHand
      <4> QED BY <1>2, <1>3, <1>8, <1>12, <3>1, <3>4, <4>1 DEF Delivered, Files!Asked, Files!Whole
    <3> QED BY <3>3, <3>4
  <2> QED BY <1>2, <1>12, <2>4, <2>5, <2>6 DEF Progress, Files!Whole
<1> QED BY <1>10, <1>11, <1>13, <1>15, <1>16, <1>17 DEF OwnInv, HostInv

\* A file that is closed is whole, whichever of the rules' files have its path.
LEMMA CloseOwn ==
  ASSUME DeliveryInv, NEW g \in Hosts, Files!Close(g)
  PROVE  OwnInv(g)
<1> USE DEF Files!Close, Files!config
<1> DEFINE m == Files!Machine(g)
           f == Files!File(g)
<1>1. FilesTyped /\ HostInv(g)
  BY DEF DeliveryInv
<1>2. at[g] = "copy" /\ AtFile(g) /\ step' = step /\ before' = before /\ fs' = fs /\ state' = state
      /\ pos[g] = Chunks
  BY DEF AtFile
<1>3. PICK e \in {"success", "overwritten"} : Files!Report(g, e)
  OBVIOUS
<1>4. /\ rule'    \in [Hosts -> Nat \ {0}]
      /\ file'    \in [Hosts -> Nat \ {0}]
      /\ at'      \in [Hosts -> {"session", "rule", "stat", "open", "copy", "done"}]
      /\ results' \in [Hosts -> Seq(Outcomes)]
      /\ \A h \in Hosts \ {g} : /\ at'[h] = at[h] /\ rule'[h] = rule[h]
                                /\ file'[h] = file[h] /\ results'[h] = results[h]
      /\ results'[g] # << >>
      /\ Files!HasError(g)' <=> Files!HasError(g)
      /\ at'[g] \in {"rule", "stat"}
      /\ Located(g)'
      /\ \A r \in 1..Len(step.rules) : \A i \in 1..Len(step.rules[r]) :
           Past(g, r, i)' => Past(g, r, i) \/ (r = rule[g] /\ i = file[g])
  <2>1. e \in Outcomes /\ e # "error"
    BY DEF Outcomes
  <2> QED BY <1>1, <1>2, <1>3, <2>1, ReportFacts DEF HostInv
<1>5. FilesTyped'
  BY <1>1, <1>4 DEF FilesTyped, Outcomes
<1>6. Moves(g)
  BY <1>4 DEF Moves
<1>7. WritesWhatIsAsked(g)' /\ Finished(g)'
  BY <1>1, <1>2, <1>4 DEF HostInv, WritesWhatIsAsked, Finished
<1>8. Progress(g)'
  <2>1. SUFFICES ASSUME Files!Undisturbed(g)', ~Files!HasError(g)' PROVE Progress(g)'
    BY DEF Progress
  <2>2. Files!Undisturbed(g) /\ ~Files!HasError(g)
    BY <1>4, <1>6, <2>1, SelfIsNoDisturbance
  <2>3. /\ \A p \in Paths : InHand(g, p) \/ fs[m][p] \in {before[m][p], Files!Whole(g)}
        /\ fs[m][f.path] = [i \in 1..pos[g] |-> g]
        /\ \A r \in 1..Len(step.rules) : \A i \in 1..Len(step.rules[r]) :
             Past(g, r, i) => InHand(g, step.rules[r][i].path) \/ Delivered(g, step.rules[r][i])
    BY <1>1, <1>2, <2>2 DEF HostInv, Progress
  <2>4. fs[m][f.path] = Files!Whole(g)
    BY <1>2, <2>3 DEF Files!Whole
  <2>5. Files!Machine(g)' = m /\ Files!Whole(g)' = Files!Whole(g)
    BY <1>2 DEF Files!Machine, Files!Whole
  <2>6. \A p \in Paths : fs'[m][p] \in {before[m][p], Files!Whole(g)}
    BY <1>2, <2>3, <2>4 DEF InHand
  <2>7. ASSUME NEW r \in 1..Len(step.rules), NEW i \in 1..Len(step.rules[r]), Past(g, r, i)'
        PROVE  Delivered(g, step.rules[r][i])'
    <3>1. (step.rules[r][i])' = step.rules[r][i]
      BY <1>2
    <3>2. Delivered(g, step.rules[r][i])
      <4>1. CASE Past(g, r, i)
        BY <2>3, <2>4, <4>1 DEF InHand, Delivered
      <4>2. CASE r = rule[g] /\ i = file[g]
        <5>1. step.rules[r][i] = f
          BY <1>1, <1>2, <4>2, FileFacts DEF HostInv
        <5> QED BY <2>4, <5>1 DEF Delivered
      <4> QED BY <1>4, <2>7, <4>1, <4>2
    <3> QED BY <1>2, <2>5, <3>1, <3>2 DEF Delivered, Files!Asked
  <2> QED BY <1>2, <1>4, <2>5, <2>6, <2>7 DEF Progress
<1> QED BY <1>4, <1>5, <1>6, <1>7, <1>8 DEF OwnInv, HostInv

LEMMA FinishOwn ==
  ASSUME DeliveryInv, NEW g \in Hosts, Files!Finish(g)
  PROVE  OwnInv(g)
<1> USE DEF Files!Finish, Files!config
<1>1. FilesTyped /\ HostInv(g)
  BY DEF DeliveryInv
<1>2. FilesTyped'
  BY <1>1 DEF FilesTyped
<1>3. Moves(g)
  BY <1>1 DEF Moves, FilesTyped, Away
<1>4. at'[g] = "done" /\ state'[g] = IF Files!HasError(g) THEN "error" ELSE "success"
  BY <1>1 DEF FilesTyped
<1>5. Located(g)'
  BY <1>1, <1>4 DEF HostInv, Located, AtFile
<1>6. WritesWhatIsAsked(g)'
  BY <1>4 DEF WritesWhatIsAsked
<1>7. Files!HasError(g)' <=> Files!HasError(g)
  BY DEF Files!HasError
<1>8. Finished(g)'
  BY <1>4, <1>7 DEF Finished
<1>9. Progress(g)'
  <2>1. \A r, i : Past(g, r, i)' => Past(g, r, i)
    BY <1>4 DEF Past, AtFile
  <2> QED BY <1>1, <1>3, <1>4, <1>7, <2>1, NothingWritten DEF HostInv
<1> QED BY <1>2, <1>3, <1>5, <1>6, <1>8, <1>9 DEF OwnInv, HostInv

LEMMA DeliveryIsKept == DeliveryInv /\ [Files!Next]_(Files!vars) => DeliveryInv'
<1> SUFFICES ASSUME DeliveryInv, [Files!Next]_(Files!vars) PROVE DeliveryInv'
  OBVIOUS
<1>1. ASSUME NEW g \in Hosts, Files!HostNext(g) PROVE DeliveryInv'
  <2>1. OwnInv(g)
    <3>1. CASE Files!Session(g)     BY <3>1, SessionOwn
    <3>2. CASE Files!Expand(g)      BY <3>2, ExpandOwn
    <3>3. CASE Files!ExpandFails(g) BY <3>3, ExpandFailsOwn
    <3>4. CASE Files!Stat(g)        BY <3>4, StatOwn
    <3>5. CASE Files!OpenFails(g)   BY <3>5, ErrorOwn DEF Files!OpenFails, AtFile
    <3>6. CASE Files!Open(g)        BY <3>6, OpenOwn
    <3>7. CASE Files!Copy(g)        BY <3>7, CopyOwn
    <3>8. CASE Files!CopyFails(g)   BY <3>8, ErrorOwn DEF Files!CopyFails, AtFile
    <3>9. CASE Files!Close(g)       BY <3>9, CloseOwn
    <3>10. CASE Files!Finish(g)     BY <3>10, FinishOwn
    <3> QED BY <1>1, <3>1, <3>2, <3>3, <3>4, <3>5, <3>6, <3>7, <3>8, <3>9, <3>10
            DEF Files!HostNext
  <2>2. FilesTyped' /\ Moves(g) /\ HostInv(g)'
    BY <2>1 DEF OwnInv
  <2>3. NothingVanishes' /\ Files!UnaskedIsUntouched'
    BY <2>2, WritersAreAsked
  <2>4. \A h \in Hosts \ {g} : HostInv(h)'
    BY <2>2, OthersAreLeftAlone
  <2>5. \A h \in Hosts : HostInv(h)'
    BY <2>2, <2>4
  <2> QED BY <2>2, <2>3, <2>5 DEF DeliveryInv
<1>2. CASE UNCHANGED Files!vars
  <2>1. UNCHANGED <<step, before, fs, at, rule, file, existed, pos, results, state>>
    BY <1>2 DEF Files!vars, Files!config
  <2>2. FilesTyped' /\ NothingVanishes'
    BY <2>1 DEF DeliveryInv, FilesTyped, NothingVanishes
  <2>3. Files!UnaskedIsUntouched'
    BY <2>1 DEF DeliveryInv, Files!UnaskedIsUntouched, Files!AskedAt, Files!Rules, Files!Asked
  <2>4. ASSUME NEW h \in Hosts PROVE HostInv(h)'
    <3>1. HostInv(h)
      BY DEF DeliveryInv
    <3>2. Located(h)' /\ Finished(h)' /\ WritesWhatIsAsked(h)'
      BY <2>1, <3>1 DEF HostInv, Located, AtFile, Finished, Files!HasError, WritesWhatIsAsked,
                        Files!Asked, Files!Machine, Files!File
    <3>3. Progress(h)'
      <4>1. Files!Undisturbed(h)' = Files!Undisturbed(h) /\ Files!HasError(h)' = Files!HasError(h)
        BY <2>1 DEF Files!Undisturbed, Files!HasError
      <4>2. \A p : InHand(h, p)' = InHand(h, p)
        BY <2>1 DEF InHand, Files!File
      <4>3. ASSUME NEW r, NEW i, Past(h, r, i) => InHand(h, step.rules[r][i].path) \/ Delivered(h, step.rules[r][i])
            PROVE  Past(h, r, i)' => InHand(h, step.rules[r][i].path)' \/ Delivered(h, step.rules[r][i])'
        BY <2>1, <4>3 DEF Past, AtFile, InHand, Delivered, Files!File, Files!Machine, Files!Asked, Files!Whole
      <4> QED BY <2>1, <3>1, <4>1, <4>2, <4>3 DEF HostInv, Progress, Files!Machine, Files!Whole, Files!File
    <3> QED BY <3>2, <3>3 DEF HostInv
  <2> QED BY <2>2, <2>3, <2>4 DEF DeliveryInv
<1> QED BY <1>1, <1>2 DEF Files!Next

LEMMA DeliveryBegins == Files!Init => DeliveryInv
<1> SUFFICES ASSUME Files!Init PROVE DeliveryInv
  OBVIOUS
<1> USE DEF Files!Init
<1>1. before \in [Files!Machines -> [Paths -> Files!Contents \cup {NoEntry}]]
  <2> DEFINE S == Hosts \cup {Files!Old, Files!Hole}
             full == [i \in 1..Chunks |-> Files!Old]
  <2>1. [i \in 1..Chunks |-> Files!Old] \in Files!Contents
    <3>1. [i \in 1..Chunks |-> Files!Old] \in [1..Chunks -> S] /\ Chunks \in 0..Chunks
      BY FilesAssumption
    <3> QED BY <3>1 DEF Files!Contents
  <2>2. << Files!Old >> \in Files!Contents
    <3>1. << Files!Old >> \in [1..1 -> S] /\ 1 \in 0..Chunks
      BY FilesAssumption
    <3> QED BY <3>1 DEF Files!Contents
  <2>3. before \in [Files!Machines -> [Paths -> {NoEntry, full, << Files!Old >>}]]
    OBVIOUS
  <2> HIDE DEF full
  <2>4. {NoEntry, full, << Files!Old >>} \subseteq Files!Contents \cup {NoEntry}
    BY <2>1, <2>2 DEF full
  <2> QED BY <2>3, <2>4
<1>2. /\ step \in [target : Targets, overwrite : Files!Setting, rules : RuleLists]
      /\ fs = before
      /\ \A h \in Hosts : /\ at[h] = "session" /\ rule[h] = 1 /\ results[h] = << >> /\ state[h] = "none"
  OBVIOUS
<1>3. FilesTyped
  <2>1. 0 \in 0..Chunks /\ 1 \in Nat \ {0} /\ << >> \in Seq(Outcomes)
    BY FilesAssumption, EmptySeq
  <2> QED BY <1>1, <1>2, <2>1 DEF FilesTyped, Outcomes
<1>4. NothingVanishes /\ Files!UnaskedIsUntouched
  BY <1>2 DEF NothingVanishes, Files!UnaskedIsUntouched
<1>5. ASSUME NEW h \in Hosts PROVE HostInv(h)
  <2>1. Len(step.rules) \in Nat
    BY <1>3, RuleFacts
  <2>2. Located(h) /\ Finished(h) /\ WritesWhatIsAsked(h)
    BY <1>2, <2>1 DEF Located, AtFile, Finished, WritesWhatIsAsked
  <2>3. Progress(h)
    <3>1. \A r \in 1..Len(step.rules) : \A i : ~Past(h, r, i)
      BY <1>2, <2>1 DEF Past, AtFile
    <3> QED BY <1>2, <3>1 DEF Progress
  <2> QED BY <2>2, <2>3 DEF HostInv
<1> QED BY <1>3, <1>4, <1>5 DEF DeliveryInv

\* A host that is through with its rules has passed every file.
LEMMA SuccessIsProgress == DeliveryInv => Files!SuccessIsDelivered
<1> SUFFICES ASSUME DeliveryInv, NEW h \in Hosts, state[h] = "success", Files!Undisturbed(h),
                    NEW r \in DOMAIN step.rules, NEW i \in DOMAIN step.rules[r]
             PROVE  Delivered(h, step.rules[r][i])
  BY DEF Files!SuccessIsDelivered, Files!Rules, Delivered
<1>1. FilesTyped /\ HostInv(h)
  BY DEF DeliveryInv
<1>2. r \in 1..Len(step.rules) /\ i \in 1..Len(step.rules[r])
  BY <1>1, RuleFacts
<1>3. at[h] = "done" /\ ~Files!HasError(h) /\ rule[h] > Len(step.rules)
  BY <1>1 DEF HostInv, Finished
<1>4. Past(h, r, i)
  BY <1>1, <1>2, <1>3, RuleFacts DEF Past, FilesTyped
<1> QED BY <1>1, <1>2, <1>3, <1>4 DEF HostInv, Progress, InHand

LEMMA FilesAreTyped == DeliveryInv => Files!FileTransferTypeOK
<1> SUFFICES ASSUME DeliveryInv PROVE Files!FileTransferTypeOK
  OBVIOUS
<1>1. FilesTyped
  BY DEF DeliveryInv
<1>2. ASSUME NEW h \in Hosts
      PROVE  /\ rule[h] \in 1..(Len(step.rules) + 1)
             /\ at[h] \in {"stat", "open", "copy"} => file[h] \in DOMAIN step.rules[rule[h]]
  <2>1. Located(h) /\ rule[h] \in Nat \ {0} /\ Len(step.rules) \in Nat
    BY <1>1, RuleFacts DEF DeliveryInv, HostInv, FilesTyped
  <2>2. rule[h] \in 1..(Len(step.rules) + 1)
    BY <2>1 DEF Located
  <2>3. ASSUME AtFile(h) PROVE file[h] \in DOMAIN step.rules[rule[h]]
    BY <1>1, <2>1, <2>3, FileFacts, RuleFacts
  <2> QED BY <2>2, <2>3 DEF AtFile
<1>3. \A h \in Hosts : results[h] \in Seq({"success", "overwritten", "skipped", "error"})
  BY <1>1 DEF FilesTyped
<1> QED BY <1>1, <1>2, <1>3 DEF Files!FileTransferTypeOK, FilesTyped

\* A files step that nobody disturbs and that reports success has delivered every
\* file of every rule; what was there and nobody asked to overwrite stays as it was,
\* also when copies fail and hosts share a machine (README.md:306).
THEOREM FilesAreDelivered == StepSpec => []FilesInv
<1>1. DeliveryInv => FilesInv
  BY SuccessIsProgress, FilesAreTyped DEF FilesInv, DeliveryInv
<1> QED BY <1>1, DeliveryBegins, DeliveryIsKept, StepIsItsType, PTL DEF Files!Spec
=============================================================================
