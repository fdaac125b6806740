---------------------------- MODULE Configuration ----------------------------
(***************************************************************************)
(* config.go: loadConfig checks and completes a configuration once, before *)
(* anything runs; the Step... helpers and the switches of runPipeline,     *)
(* execFilesStep and the commands interpret a step's fields much later,    *)
(* and fall through to a default for a value they do not know.  Whether    *)
(* the two agree is what this module is about.                             *)
(*                                                                         *)
(* A field that is left out has the value NoText, a number that is left    *)
(* out is 0.  A file mode is the sequence of its digits.                   *)
(*                                                                         *)
(* Abstracted: endpoint, keys, region and project are one field; a step    *)
(* has at most one transfer rule; names, descriptions, the directories of  *)
(* the output.                                                             *)
(***************************************************************************)
EXTENDS Integers, Sequences

CONSTANTS Configs     \* the configurations somebody may write

NoText == ""
Bad    == "bad"       \* a text that is none of those the field may have
NoRule == [local |-> NoText, remote |-> NoText, mode |-> << >>]
Absent == [given |-> FALSE, steps |-> << >>]          \* no execList
Listed(steps) == [given |-> TRUE, steps |-> steps]    \* [] is given, too

\* What a file can hold, whatever the texts in it are.
StepUploadFile == [local : STRING, remote : STRING, mode : Seq(0..9)]
ExecStep == [type : STRING, target : STRING, run : STRING, onError : STRING, rule : StepUploadFile,
             given : SUBSET {"command", "script", "scriptPath"}, timeout : STRING, workdir : STRING,
             names : SUBSET STRING]
Config   == [access : STRING, resource : STRING, useIP : STRING, pageSize : Int, port : Int, workers : Int,
             execList : [given : BOOLEAN, steps : Seq(ExecStep)], services : SUBSET STRING, filter : STRING]

VARIABLES raw,        \* what the file says
          cfg,        \* what loadConfig returns
          stage,
          plan        \* what is done for each step of the list

vars == <<raw, cfg, stage, plan>>

Begin(written) ==
  /\ raw = written
  /\ cfg = raw
  /\ stage = "read"
  /\ plan = << >>

Init == \E written \in Configs : Begin(written)

-----------------------------------------------------------------------------
(* validateExecList *)

\* parseFileMode: one leading zero is dropped and the rest is read as octal.
ModeParses(m) ==
  LET rest == IF m # << >> /\ Head(m) = 0 THEN Tail(m) ELSE m
  IN  rest # << >> /\ \A i \in DOMAIN rest : rest[i] \in 0..7

Mode(m) ==
  LET value[i \in 0..Len(m)] == IF i = 0 THEN 0 ELSE value[i - 1] * 8 + m[i]
  IN  value[Len(m)]

RuleValid(s) ==
  /\ s.rule.local # NoText
  /\ s.rule.remote \in {"/file", "/dir/"}
  /\ s.target = "push" => s.rule.remote # "/dir/"
  /\ s.rule.mode = << >> \/ ModeParses(s.rule.mode)

\* Mutant: the direction may be left out.
FilesValidLoose(s) ==
  /\ s.target \in {NoText, "push", "pull"}
  /\ s.rule # NoRule
  /\ RuleValid(s)

FilesValid(s) ==
  /\ s.target \in {"push", "pull"}
  /\ s.rule # NoRule
  /\ RuleValid(s)

\* Mutant: a second content is not looked for.
CommandValidAny(s) ==
  /\ s.target \in {NoText, "local", "remote"}
  /\ s.given # {}
  /\ s.timeout \in {NoText, "5s"}
  /\ s.workdir # NoText /\ s.target # "local" => s.workdir = "/dir/"

CommandValid(s) ==
  /\ s.target \in {NoText, "local", "remote"}
  /\ s.given # {} /\ \A a, b \in s.given : a = b
  /\ s.timeout \in {NoText, "5s"}
  /\ s.workdir # NoText /\ s.target # "local" => s.workdir = "/dir/"

StepValid(s) ==
  /\ \/ s.type = "files" /\ FilesValid(s)
     \/ s.type = "command" /\ CommandValid(s)
     \/ s.type \in {"services", "status"} /\ s.target \in {NoText, "remote"}
  /\ s.run \in {NoText, "once", "always"}
  /\ s.onError \in {NoText, "stop", "continue"}

-----------------------------------------------------------------------------
(* loadConfig *)

Steps(c) == c.execList.steps

Valid(c) ==
  /\ c.access # NoText
  /\ c.resource \in {NoText, "ecs", "bms", "all"}
  /\ c.useIP \in {NoText, "internal", "eip", "internal-then-eip"}
  /\ \A i \in DOMAIN Steps(c) : StepValid(Steps(c)[i])
  /\ c.filter # Bad

Or(text, default) == IF text = NoText THEN default ELSE text

\* Mutant: a large page is asked for as it is written.
CompletedWide(c) ==
  [c EXCEPT !.resource = Or(@, "ecs"), !.useIP = Or(@, "internal"),
            !.pageSize = IF @ <= 0 THEN 100 ELSE @, !.port = IF @ <= 0 THEN 22 ELSE @]

Completed(c) ==
  [c EXCEPT !.resource = Or(@, "ecs"), !.useIP = Or(@, "internal"),
            !.pageSize = IF @ <= 0 \/ @ > 100 THEN 100 ELSE @, !.port = IF @ <= 0 THEN 22 ELSE @]

Load ==
  /\ stage = "read"
  /\ IF Valid(raw) THEN stage' = "loaded" /\ cfg' = Completed(raw)
                   ELSE stage' = "refused" /\ UNCHANGED cfg
  /\ UNCHANGED <<raw, plan>>

-----------------------------------------------------------------------------
(* What a run makes of it *)

NewStep == [type |-> NoText, target |-> NoText, run |-> NoText, onError |-> NoText, rule |-> NoRule,
            given |-> {}, timeout |-> NoText, workdir |-> NoText, names |-> {}]

\* Mutant: an empty list stands for none.
EffectiveOrDefault ==
  IF Steps(cfg) # << >> THEN Steps(cfg)
  ELSE <<[NewStep EXCEPT !.type = "status", !.target = "remote", !.onError = "continue"],
         [NewStep EXCEPT !.type = "services", !.target = "remote", !.onError = "continue",
                         !.names = cfg.services]>>

\* EffectiveSteps: a list that is left out stands for the two checks.
EffectiveSteps ==
  IF cfg.execList.given THEN Steps(cfg)
  ELSE <<[NewStep EXCEPT !.type = "status", !.target = "remote", !.onError = "continue"],
         [NewStep EXCEPT !.type = "services", !.target = "remote", !.onError = "continue",
                         !.names = cfg.services]>>

StepTarget(s)  == Or(s.target, "remote")
StepIsLocal(s) == s.type = "command" /\ StepTarget(s) = "local"
StepRunMode(s) == Or(s.run, IF StepIsLocal(s) THEN "once" ELSE "always")
StepOnError(s) == Or(s.onError, "stop")

\* StepTimeout: parseDuration falls back on the default for what it cannot read.
StepTimeout(s) == IF s.timeout \in {NoText, Bad} THEN "60s" ELSE s.timeout

\* StepCommandContent
Content(s) ==
  CASE "command" \in s.given                                  -> "command"
    [] "command" \notin s.given /\ "scriptPath" \in s.given -> "scriptPath"
    [] OTHER                                                  -> "script"

\* serviceCheckCommand leaves out the names that could not be written into it.
Checked(s) == (IF s.names = {} THEN {"sshd"} ELSE s.names) \ {Bad}

Doing(what, s) == [does |-> what, where |-> "host", times |-> "always", policy |-> s.onError,
                   mode |-> 0, content |-> NoText, timeout |-> NoText, names |-> {}]

\* The switch of runPipeline, and the phase of the local once steps.
Dispatched(s) ==
  CASE s.type = "files" ->
          IF s.rule.mode # << >> /\ ~ModeParses(s.rule.mode) THEN Doing("error", s)
          ELSE [Doing(IF StepTarget(s) = "pull" THEN "pull" ELSE "push", s)
                  EXCEPT !.mode = IF s.rule.mode = << >> THEN 420 ELSE Mode(s.rule.mode)]
    [] s.type = "command" ->
          [Doing("command", s) EXCEPT
             !.where   = IF StepIsLocal(s) THEN "here" ELSE "host",
             !.times   = IF StepIsLocal(s) /\ StepRunMode(s) = "once" THEN "once" ELSE "always",
             !.content = Content(s),
             !.timeout = StepTimeout(s)]
    [] s.type = "services" ->
          IF Checked(s) = {} THEN Doing("error", s) ELSE [Doing("services", s) EXCEPT !.names = Checked(s)]
    [] s.type = "status" -> Doing("status", s)
    [] OTHER -> Doing("error", s)

Execution(s) == [Dispatched(s) EXCEPT !.policy = IF StepOnError(s) = "stop" THEN "stop" ELSE "continue"]

Run ==
  /\ stage = "loaded"
  /\ stage' = "planned"
  /\ plan' = [i \in DOMAIN EffectiveSteps |-> Execution(EffectiveSteps[i])]
  /\ UNCHANGED <<raw, cfg>>

Next == Load \/ Run
Spec == Init /\ [][Next]_vars

-----------------------------------------------------------------------------
(* Properties *)

ConfigurationTypeOK ==
  /\ stage \in {"read", "loaded", "refused", "planned"}
  /\ stage \notin {"loaded", "planned"} => cfg = raw
  /\ plan # << >> => stage = "planned"

\* The reference: what the comments on the fields say of a step (config.go:33).
MeantContent(s) ==
  CASE s.type # "command" -> NoText
    [] s.type = "command" /\ (\A a, b \in s.given : a = b) -> CHOOSE c \in s.given : TRUE
    [] OTHER -> Bad

Meant(s) ==
  [does    |-> IF s.type = "files" THEN s.target ELSE s.type,
   where   |-> IF s.type = "command" /\ s.target = "local" THEN "here" ELSE "host",
   times   |-> CASE s.run # NoText -> s.run
                 [] s.run = NoText -> IF s.type = "command" /\ s.target = "local" THEN "once" ELSE "always",
   policy  |-> IF s.onError = NoText THEN "stop" ELSE s.onError,
   mode    |-> CASE s.type # "files"                            -> 0
                 [] s.type = "files" /\ s.rule.mode = << >>   -> 420
                 [] s.type = "files" /\ s.rule.mode # << >>   -> Mode(s.rule.mode),
   content |-> MeantContent(s),
   timeout |-> CASE s.type # "command"                          -> NoText
                 [] s.type = "command" /\ s.timeout = NoText  -> "60s"
                 [] s.type = "command" /\ s.timeout # NoText  -> s.timeout,
   names   |-> CASE s.type # "services"                         -> {}
                 [] s.type = "services" /\ s.names = {}        -> {"sshd"}
                 [] s.type = "services" /\ s.names # {}        -> s.names]

RemoteOnce(s) == s.run = "once" /\ ~StepIsLocal(s)

MeantSteps ==
  IF ~raw.execList.given
  THEN <<[Meant([NewStep EXCEPT !.type = "status"]) EXCEPT !.policy = "continue"],
         [Meant([NewStep EXCEPT !.type = "services", !.names = raw.services]) EXCEPT !.policy = "continue"]>>
  ELSE [i \in DOMAIN Steps(raw) |-> Meant(Steps(raw)[i])]

\* What loadConfig accepts is executed as it is meant, none of it by a default that
\* is there for values nobody expects: direction, place, policy, content and the
\* time a command has (config.go:198, sshcheck.go:498).  Left out are once for a
\* step on the hosts and names of services that cannot be asked for.
AcceptedIsExecuted ==
  stage = "planned" =>
    /\ Len(plan) = Len(MeantSteps)
    /\ \A i \in DOMAIN plan :
         \/ plan[i] = MeantSteps[i]
         \/ /\ raw.execList.given /\ RemoteOnce(Steps(raw)[i])
            /\ plan[i] = [MeantSteps[i] EXCEPT !.times = "always"]
         \/ Bad \in MeantSteps[i].names

\* What the collection and the login are given lies in the range they count on
\* (main.go:271, api.go:590, sshcheck.go:366).
NumbersAreUsable ==
  stage = "loaded" => /\ cfg.pageSize \in 1..100
                      /\ cfg.port > 0
                      /\ cfg.useIP \in {"internal", "eip", "internal-then-eip"}
                      /\ cfg.resource \in {"ecs", "bms", "all"}

\* A configuration is completed and executed as its fields are documented, but for what
\* AcceptedIsExecuted leaves out.
ConfigurationInv == ConfigurationTypeOK /\ AcceptedIsExecuted /\ NumbersAreUsable

\* There is somebody to test the hosts (config.go:103 "并发数，默认 5").
\* Not satisfied by the code: a number of workers that is left out stays 0.
SomebodyTests == stage = "loaded" => cfg.workers > 0

\* A step that is to run once runs once.
\* Not satisfied by the code: run is accepted for every step and used for local ones.
OnceIsOnce ==
  stage = "planned" => \A i \in DOMAIN plan : MeantSteps[i].times = "once" => plan[i].times = "once"

\* No accepted step can only fail.
\* Not satisfied by the code: names of services are looked at when the step runs.
NoStepIsHopeless == \A i \in DOMAIN plan : plan[i].does # "error"
=============================================================================
