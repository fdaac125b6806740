---------------------------- MODULE FileTransfer ----------------------------
(***************************************************************************)
(* execFilesStep (sshcheck.go): the files steps of several hosts, each     *)
(* host in a goroutine of its own, over its own SFTP session.  A push      *)
(* writes to the host's files, a pull writes to the files of this machine, *)
(* which all hosts share.                                                  *)
(*                                                                         *)
(* A rule stands for the files it expands to: a file for itself, a         *)
(* directory for everything below it.  A file's content is a sequence of   *)
(* chunks, each known by who wrote it; writing past the end leaves holes,  *)
(* as two writers with offsets of their own do.                            *)
(*                                                                         *)
(* Abstracted: names and their joining, modes, and the directories made on *)
(* the way: a failure of any of those is a failure before or after the     *)
(* copy.                                                                   *)
(***************************************************************************)
EXTENDS Integers, Sequences

CONSTANTS Hosts,
          Paths,      \* target paths
          RuleLists,  \* lists of rules a step may have; a rule is a sequence of files,
                      \* a file a target path and its own overwrite setting
          Targets,    \* directions, out of "push" and "pull"
          Chunks,     \* chunks of a source file
          NoEntry     \* there is no such file

Setting  == {"unset", "yes", "no"}
Old      == "old"
Hole     == "hole"
Here     == "here"  \* this machine
Machines == Hosts \cup {Here}

VARIABLES step,     \* the step: [target, overwrite, rules]
          before,   \* history: the target files before the step
          fs,       \* the target files now, by machine and path
          at,       \* where the host's goroutine stands
          rule,     \* the rule it is at
          file,     \* the file of that rule
          existed,  \* what Stat found
          pos,      \* chunks copied
          results,  \* one result line after the other
          state     \* res.State

config == <<step, before>>
vars   == <<config, fs, at, rule, file, existed, pos, results, state>>

Contents == UNION {[1..n -> Hosts \cup {Old, Hole}] : n \in 0..Chunks}

FileTransferTypeOK ==
  /\ fs      \in [Machines -> [Paths -> Contents \cup {NoEntry}]]
  /\ at      \in [Hosts -> {"session", "rule", "stat", "open", "copy", "done"}]
  /\ \A h \in Hosts : /\ rule[h] \in 1..(Len(step.rules) + 1)
                      /\ at[h] \in {"stat", "open", "copy"} =>
                           file[h] \in DOMAIN step.rules[rule[h]]
  /\ existed \in [Hosts -> BOOLEAN]
  /\ pos     \in [Hosts -> 0..Chunks]
  /\ \A h \in Hosts : results[h] \in Seq({"success", "overwritten", "skipped", "error"})
  /\ state   \in [Hosts -> {"none", "success", "error"}]

\* A file is there before the step or not, and may be what a failed copy left.
Init ==
  /\ step \in [target : Targets, overwrite : Setting, rules : RuleLists]
  /\ before \in [Machines -> [Paths -> {NoEntry, [i \in 1..Chunks |-> Old], <<Old>>}]]
  /\ \A m \in Machines : (m = Here) # (step.target = "pull") => before[m] = [p \in Paths |-> NoEntry]
  /\ fs = before
  /\ at = [h \in Hosts |-> "session"]
  /\ rule = [h \in Hosts |-> 1]
  /\ file = [h \in Hosts |-> 1]
  /\ existed = [h \in Hosts |-> FALSE]
  /\ pos = [h \in Hosts |-> 0]
  /\ results = [h \in Hosts |-> << >>]
  /\ state = [h \in Hosts |-> "none"]

-------------------------------------------------------------------------------

Machine(h) == IF step.target = "pull" THEN Here ELSE h
File(h)    == step.rules[rule[h]][file[h]]
Target(h)  == fs[Machine(h)][File(h).path]

\* Mutant: the setting of the step takes precedence.
StepDecides(f) ==
  IF step.overwrite # "unset" THEN step.overwrite = "yes" ELSE f.overwrite = "yes"

ShouldOverwrite(f) ==
  IF f.overwrite # "unset" THEN f.overwrite = "yes" ELSE step.overwrite = "yes"

\* The goroutine adds a result line and goes on to the next file, or the next rule.
Report(h, result) ==
  /\ results' = [results EXCEPT ![h] = Append(@, result)]
  /\ IF file[h] < Len(step.rules[rule[h]])
     THEN /\ file' = [file EXCEPT ![h] = @ + 1]
          /\ at' = [at EXCEPT ![h] = "stat"]
          /\ UNCHANGED rule
     ELSE /\ rule' = [rule EXCEPT ![h] = @ + 1]
          /\ at' = [at EXCEPT ![h] = "rule"]
          /\ UNCHANGED file

Session(h) ==
  /\ at[h] = "session"
  /\ \/ /\ at' = [at EXCEPT ![h] = "rule"]
        /\ UNCHANGED state
     \/ /\ at' = [at EXCEPT ![h] = "done"]
        /\ state' = [state EXCEPT ![h] = "error"]
  /\ UNCHANGED <<config, fs, rule, file, existed, pos, results>>

\* Mutant: the walk of a directory goes on where the last one ended.
ExpandKeepsFile(h) ==
  /\ at[h] = "rule" /\ rule[h] <= Len(step.rules)
  /\ IF step.rules[rule[h]] = << >>
     THEN /\ rule' = [rule EXCEPT ![h] = @ + 1]
          /\ UNCHANGED <<at, file>>
     ELSE /\ at' = [at EXCEPT ![h] = "stat"]
          /\ UNCHANGED <<rule, file>>
  /\ UNCHANGED <<config, fs, existed, pos, results, state>>

\* An empty directory has no file and no result.
Expand(h) ==
  /\ at[h] = "rule" /\ rule[h] <= Len(step.rules)
  /\ IF step.rules[rule[h]] = << >>
     THEN /\ rule' = [rule EXCEPT ![h] = @ + 1]
          /\ UNCHANGED <<at, file>>
     ELSE /\ at' = [at EXCEPT ![h] = "stat"]
          /\ file' = [file EXCEPT ![h] = 1]
          /\ UNCHANGED rule
  /\ UNCHANGED <<config, fs, existed, pos, results, state>>

\* The source of a rule is not there or cannot be listed: one line for the rule.
ExpandFails(h) ==
  /\ at[h] = "rule" /\ rule[h] <= Len(step.rules)
  /\ results' = [results EXCEPT ![h] = Append(@, "error")]
  /\ rule' = [rule EXCEPT ![h] = @ + 1]
  /\ UNCHANGED <<config, fs, at, file, existed, pos, state>>

Stat(h) ==
  /\ at[h] = "stat"
  /\ existed' = [existed EXCEPT ![h] = Target(h) # NoEntry]
  /\ IF existed'[h] /\ ~ShouldOverwrite(File(h))
     THEN Report(h, "skipped")
     ELSE /\ at' = [at EXCEPT ![h] = "open"]
          /\ UNCHANGED <<rule, file, results>>
  /\ UNCHANGED <<config, fs, pos, state>>

\* The source cannot be opened, a directory not made, the target not opened.
OpenFails(h) ==
  /\ at[h] = "open"
  /\ Report(h, "error")
  /\ UNCHANGED <<config, fs, existed, pos, state>>

\* O_CREATE | O_TRUNC
Open(h) ==
  /\ at[h] = "open"
  /\ fs' = [fs EXCEPT ![Machine(h)][File(h).path] = << >>]
  /\ pos' = [pos EXCEPT ![h] = 0]
  /\ at' = [at EXCEPT ![h] = "copy"]
  /\ UNCHANGED <<config, rule, file, existed, results, state>>

WrittenAt(content, i, h) ==
  [j \in 1..(IF i > Len(content) THEN i ELSE Len(content)) |->
     IF j = i THEN h ELSE IF j <= Len(content) THEN content[j] ELSE Hole]

Copy(h) ==
  /\ at[h] = "copy" /\ pos[h] < Chunks
  /\ pos' = [pos EXCEPT ![h] = @ + 1]
  /\ fs' = [fs EXCEPT ![Machine(h)][File(h).path] = WrittenAt(@, pos[h] + 1, h)]
  /\ UNCHANGED <<config, at, rule, file, existed, results, state>>

\* The copy, the close or the change of mode fails; what was written stays.
CopyFails(h) ==
  /\ at[h] = "copy"
  /\ Report(h, "error")
  /\ UNCHANGED <<config, fs, existed, pos, state>>

\* Mutant: the result of the copy is not looked at.
CloseAnyway(h) ==
  /\ at[h] = "copy"
  /\ Report(h, IF existed[h] THEN "overwritten" ELSE "success")
  /\ UNCHANGED <<config, fs, existed, pos, state>>

Close(h) ==
  /\ at[h] = "copy" /\ pos[h] = Chunks
  /\ Report(h, IF existed[h] THEN "overwritten" ELSE "success")
  /\ UNCHANGED <<config, fs, existed, pos, state>>

HasError(h) == \E i \in DOMAIN results[h] : results[h][i] = "error"

Finish(h) ==
  /\ at[h] = "rule" /\ rule[h] > Len(step.rules)
  /\ at' = [at EXCEPT ![h] = "done"]
  /\ state' = [state EXCEPT ![h] = IF HasError(h) THEN "error" ELSE "success"]
  /\ UNCHANGED <<config, fs, rule, file, existed, pos, results>>

HostNext(h) == \/ Session(h) \/ Expand(h) \/ ExpandFails(h) \/ Stat(h) \/ OpenFails(h)
               \/ Open(h) \/ Copy(h) \/ CopyFails(h) \/ Close(h) \/ Finish(h)

Next == \E h \in Hosts : HostNext(h)
Spec == Init /\ [][Next]_vars

-------------------------------------------------------------------------------
(* Properties *)

Rules == {step.rules[r] : r \in DOMAIN step.rules}
Whole(h) == [i \in 1..Chunks |-> h]

\* A file's own setting wins over the step's (README.md:207, :306).
Asked(f) == f.overwrite = "yes" \/ (f.overwrite = "unset" /\ step.overwrite = "yes")
AskedAt(p) == \E R \in Rules : \E i \in DOMAIN R : R[i].path = p /\ Asked(R[i])

\* Nobody else has written where the host writes.
Undisturbed(h) ==
  step.target = "push" \/ \A g \in Hosts \ {h} : results[g] = << >> /\ at[g] \in {"session", "rule", "done"}

\* When a step that no other host disturbs reports success, every file of every
\* rule is there whole and from this step, whatever an earlier failed copy had
\* left, or was there before and overwriting it was not asked for (README.md:306).
SuccessIsDelivered ==
  \A h \in Hosts : state[h] = "success" /\ Undisturbed(h) =>
    \A R \in Rules : \A i \in DOMAIN R :
      LET old == before[Machine(h)][R[i].path]
          now == fs[Machine(h)][R[i].path]
      IN  now = Whole(h) \/ (~Asked(R[i]) /\ old # NoEntry /\ now = old)

\* A file that was there before the step stays as it was unless a rule asks for it
\* to be overwritten, also when a copy fails half-way and when several hosts
\* transfer to the same machine (README.md:306).
UnaskedIsUntouched ==
  \A m \in Machines, p \in Paths :
    \/ before[m][p] = NoEntry \/ fs[m][p] = before[m][p]
    \/ AskedAt(p)

\* The same for a file another host has delivered in the meantime: a whole file is
\* not overwritten unless a rule asks for it (README.md:306).
\* Not satisfied by the code.
WholeIsUntouched ==
  [][\A m \in Machines, p \in Paths, h \in Hosts :
       fs[m][p] = Whole(h) => \/ fs'[m][p] = fs[m][p]
                              \/ AskedAt(p)]_vars
=============================================================================
