# A verification of yj-cloudos-ops

`yj-cloudos-ops` collects the servers of a private cloud over its API, logs in to every one of
them by SSH, runs a list of steps on them, and offers all of it on a web page. The TLA+
modules here model its concurrent and stateful parts. TLC checks them on small instances, and
the TLA+ proof system proves every safety property that those runs show for every instance.

Contents: [inventory](#inventory) · [modules](#the-modules-and-the-code) ·
[runs](#the-runs) · [fairness](#fairness) · [proofs](#the-proofs) ·
[where the code disagrees](#where-the-code-disagrees-with-its-documents) ·
[not modelled](#what-is-not-modelled) · [plan](#plan)

## Inventory

| part | code | state | operations | what makes it correct |
| --- | --- | --- | --- | --- |
| Run gate and job life cycle | `web.go` `handleRun`, `runJob`, `archiveJob`, shutdown goroutine of `runWeb`; `project.go` `resolveProjects`; `web.go` `projectChooser` of `runWeb` | current job, history, history length; package globals `runLog`, `webProjectID` | accept a run, its stages, the deferred finisher, change of the history length, shutdown | one run at a time; the globals belong to the run under way; the archived verdict is the run's; the history is whole and no longer than its length; every run ends |
| SSH worker pool and progress | `sshcheck.go` `runSSHTests`, `progressMgr`; sink of `runJob` | hosts not handed out, what each worker holds, active map, counters | hand out, begin, test, report, end, return | no host twice or lost; the count is exact; a batch returns complete |
| Exec list and SSH login | `sshcheck.go` `runPipelineOnce`, `testOne`, `trySSH`, `runPipeline`; policies of `config.go` | results of phase one, the host's place, results per host | once steps, dial, handshake, verification, run / reuse / skip a step | stop ends what it should and nothing else; once means once; a check runs nothing |
| Step commands | `sshcheck.go` `runLocalCommand`, `runRemoteCommand`; `proc_*.go` | process group, context, watchdog; session, runner goroutine, timers | start, wait, kill, classify; run, time out, close | verdicts say what happened; a timeout ends the step; no goroutine leaks |
| File transfer | `sshcheck.go` `execFilesStep`, `pushOne`, `pullOne` | target files, the rule and file at hand | look, open, copy, close per file | success means delivered; what nobody asked to overwrite stays |
| Event hub, SSE handler, page | `web.go` `eventHub`, `handleEvents`; `web/index.html` | subscribers, channels, the page's view | publish, subscribe, snapshot, deliver, lose, reconnect, leave | a page learns of the end, of its own job, and not too early |
| Daemon mode | `daemon.go`, `main.go` `stopWebDaemon`, `web.go` `runWeb`, `proc_*.go`, `signal_*.go` | `web.pid`, processes and pids, the port, a `-stop` command | launch, write the file, listen, crash, signal, stop | `-stop` finds the instance and tells the truth (it does on Unix), and an asked instance ends |
| Project resolution | `project.go` `resolveProjects`, `resolveProject`, `chooseProject`; `web.go` `projectChooser` of `runWeb`, `handleProjects` | pages so far, names settled, the preselection | list projects, look among the disks, ask, preselect | every name becomes a project it names, and an ambiguous one is never settled in silence |
| Collection | `main.go` `collectVMs` and what it calls, `api.go` | page, servers so far, worker pool; the three lists that complete a server | list a page, filter, ask for passwords and details; add cards, disks, names | the result is the inventory; nothing is asked about filtered servers; no server shows what is another's |
| IP filter | `filter.go` | compiled rules | compile, filter | hosts kept are those the rules mean |
| Configuration loading | `config.go` `loadConfig`, `validateExecList`, and the helpers and switches in `sshcheck.go` that read a step later | the configuration before and after the defaults | read, default, validate, plan | what is accepted is executed as it is documented, never by a default for the unexpected |
| Settings | `settings.go`, `web.go` `handleSettings` | settings in memory, `settings.yaml` | load, change, save, crash | somebody can log in; what was accepted is in the file until a later save truncates it; no clear password |
| Sessions | `web.go` `handleLogin`, `handleLogout`, `validSession`, `auth`, `handleShutdown` | a map under one mutex; the settings it is checked against are not under it | log in, log out, expire, visit, ask for a shutdown, start anew | who is served was let in, with a name and password in force while the login ran |
| Configuration profiles | `web.go` `handleConfigs`, `handleConfigItem` | a directory of YAML files with a description line | save, edit, copy, delete | what was saved is what is shown, and what is stored was looked at |
| File manager | `web.go` `handleFiles`, `handleFileItem`, `zipDir` | a tree of directories, open files | upload, list, download a file or an archive, delete | accepted uploads are there; archives and removals are whole unless somebody interferes or the operating system refuses a step |
| Output | `output.go` `autoExcelPath`, `exportExcel`; `sshcheck.go` `writeScriptLog`; `web.go` `handleExport` | directories of logs, workbooks | write a log, pick a name, write the workbook, export it | a run's logs and workbook are its own and complete |
| Windows service | `service_windows.go` | the state reported to the service control manager, the server, a job, an uninstallation | start, listen, serve, stop, crash, install, uninstall | what is reported is true, who is told to stop stops, a stopped job is told so |
| HTTP transport and signature | `api.go` `doGET`, `sign` | none | one request | not modelled |

How the parts interact:

- `handleRun` starts one goroutine (`runJob`) per accepted run. It calls the collection, the
  project resolution, phase one of the exec list, and the worker pool, in that order. It shares
  `currentJob`, the history and two package-level globals with every other handler; only the
  admission test and the archiving hold the server's mutex.
- The pool starts one goroutine per worker, each of which takes a host through login and exec
  list, and calls back into the progress manager, whose sink writes the job.
- Everything a run says goes through the hub into bounded channels, one per open page. The hub
  drops what does not fit. Pages reconnect on their own.
- Settings, profiles and files are written by request handlers without locks, with truncating
  writes; sessions are checked under a mutex of their own, so a change of the account and a login
  meet in the middle. The daemon's processes share nothing but `web.pid`, signals and the port; the
  Windows service shares its state with the service control manager and writes no `web.pid`.
- A run hands one stage's result to the next: configuration, projects, servers, filter, details, hosts,
  workbook. Two runs at once exist only as a run of the command line beside one of the server, and
  share the output directory.

What is hard here: statements of one run's finisher that overlap the next run; a shutdown beside
a run; events dropped, or sent in the order of reads that were made earlier; timeouts that
race answers; children of a script that outlive it; reuse of results across hosts and addresses;
files that are truncated and then written, or removed while they are; pids that are given out again; a
list that is read page by page while it changes; names that are free when looked at and taken when
used; values that pass the validation and meet a switch without a case for them. `PROJECT.json` lists each such hazard at its line.

## The modules and the code

One TLA+ action stands for one stretch of code that nothing else can interrupt: a critical section,
or the statements between two points where another goroutine, process or request may see or
change what they use. Names follow the code where they can. `PROJECT.json` maps every
definition to its lines.

| module | models | composed with |
| --- | --- | --- |
| `WebJob` | a run from `POST /api/run` to the history. `pc[j]` is the statement the job's goroutine is at; `Accept` is the critical section of `handleRun`; `Preselect` … `Export` are the stages; `ClearRunLog`, `ReadStatus`, `MarkDone`, `MarkFailed`, `ClearPreselection`, `Archive`, `Cut`, `PublishFinish` are the statements of the deferred finisher in program order; `Archive` ends with the first reading of the history length and `Cut` begins with the second, and `SetHistorySize` takes no mutex and may come between; `ReadHistory` is a handler that meets a nil entry; `ShutdownMark`, `ShutdownError`, `Exit` the shutdown goroutine. `overlapped` (runs accepted while a finisher was at work) and `raised` (the length grew past the list between the two readings) are history variables; `jammed` says that a handler panicked with the mutex locked, `stop = "panicked"` that a finisher did, which nothing recovers. | |
| `RunGate` | abstract: a run starts when no run is in progress, ends once, with a verdict that never changes. | implemented by `WebJob` |
| `EventStream` | the hub, the SSE handler statement by statement, and the page's reactions. | extends `WebJob`; its `Run` is `WebJob`'s, with the finish event added |
| `WorkerPool` | feeder and workers of `runSSHTests`, each critical section of `progressMgr`, and the sink's read and store of the count as two steps. | |
| `HostBatch` | abstract: each host is claimed once and reported once, and the batch returns after the last. | implemented by `WorkerPool` |
| `Pipeline` | phase one, login over the candidate addresses, and the exec list on every host. A step is its type, run mode and failure policy, its outcome a choice. | |
| `ExecList` | abstract: once steps run once and are everybody's, every host has one result per step, nothing runs after a failed step that says stop. No flags, no phases, no logins. | implemented by `Pipeline` |
| `PipelineStep` | one step as `runPipeline` dispatches it by type. | extends `LocalCommand`, instantiates `RemoteCommand`, `FileTransfer` |
| `LocalCommand` | step, watchdog, context, shell and its children. Process groups and who holds the output pipe are constants. | |
| `RemoteCommand` | step, runner goroutine, channel, timers, and (external) the host and the connection. | |
| `FileTransfer` | the files steps of several hosts, file by file and chunk by chunk, with the target files of every machine. | |
| `Daemon` | launches, `web.pid` with its truncated moment, port, signals, shutdown goroutine, `-stop`, and pids that other programs get. `windows` and `careful` are chosen once: the platform, and an operator who gives one command at a time. `PidAlive` is the truth and `SeenAlive` what `pidAlive` answers, which on Windows is never *alive*. | |
| `Service` | install, uninstall, `Execute` with its server goroutine, the requests it serves, and (external) the service control manager. | |
| `Hosting` | a behaviour is one of `Daemon` or one of `Service`, chosen once by `host`. | extends `Daemon`, instantiates `Service` |
| `Collect` | the page loop, the filter, the pools, the requests per server, and (external) a gateway whose inventory changes. | |
| `Details` | the second half of `collectVMs`: network cards, data disks and project names, page by page, from lists that change. | |
| `Projects` | `resolveProjects` over the project list and the disks, the terminal's question, and the page's preselection. | |
| `IPFilter` | rules of every kind, compiled and matched, and the loop of `filterVMs`. | |
| `Configuration` | `loadConfig` with its defaults and validation, and what the rest of the program makes of each step afterwards. | |
| `Preparation` | what runs before the first host is tested; `area` is chosen once and says which stage a behaviour is about. | extends `Collect`, instantiates `Configuration`, `Projects`, `IPFilter`, `Details` |
| `Lists` | the loops that copy what passes a test (`Only`) and that add what is not there yet (`Merged`), and a gateway's pages, as recursive functions of an index: `SelectSeq` and `FoldLeft` take an operator, of which nothing could be proved. | used by `Collect`, `Projects`, `IPFilter`, `Details` |
| `Settings` | start, requests field by field, hash and salt, truncating save, crashes. `serial` is chosen once: requests one at a time or not. `last`, `torn` and `ahead` are history variables: what was accepted last, whether a save has truncated the file since, whether a request was turned down since the last start or save. | |
| `Sessions` | logins read by read, logout, expiry, requests with and without the daemon's token. `guarded` is chosen once: changes that have to pass `auth` among logins and visits, or changes as in `Settings`. The constants `Changes`, `ChangeBodies`, `ChangeFiles`, `ChangeHabits` and `ChangeCrashes` say how many and which; the theorems are for any. | extends `Settings` |
| `Profiles` | save, edit, copy, delete over the directory; texts are sequences of kinds of line. A description is a word, which may have blanks around it, and further lines; it is stored as it came and read back trimmed and up to its first line break. `mixed` and `odd` are history variables: profiles two requests were writing at once, and those whose text is not what a save has looked at. | |
| `FileManager` | uploads file by file, archives entry by entry, removals entry by entry, over one tree; an open file is known by the upload that created it. `Denied`, `FolderDenied`, `CopyFails` and the refused choices of `OpenFolder` and `RemoveNode` are what the operating system may refuse at any call; `denied` remembers it for each request. | |
| `Artifacts` | the logs of the command steps, whose file names are joined from sequences of pieces (characters that are replaced, the underscore, text between them), the name and the cells of the workbook, its export; `beside` lets a second process run in the same directory. | |
| `Directories` | a behaviour is one of `Profiles`, `FileManager` or `Artifacts`, chosen once by `area`. | extends `Profiles`, instantiates the other two |
| `MC…` | constants for TLC. | extend the module named |
| `…Proofs` | theorems and proofs, see [below](#the-proofs). | extend a composition and cover its parts: `EventStreamProofs` also `WebJob`, `HostingProofs` also `Daemon` and `Service`, and so on |

`Preparation`, `Hosting` and `Directories` put together parts that follow one another, or are
alternatives, or share nothing but the process: a product of their states would say no more than their
sum. A property of one part is then `area = "…" => Part!Inv`.

Definitions whose comment begins with *Mutant* are plausible mistakes in the definition that
follows them: put in its place, each makes TLC report the property that `PROJECT.json` pairs it
with. They show that a property depends on the code; no specification uses them.

## The runs

All runs use `CHECK_DEADLOCK FALSE`: the modelled programs may stop, as a run, a batch, a request
or a process that is over has nothing left to do. Symmetry is used only in `web_job_stopping` (jobs),
`settings` (logins) and `profiles` (clients of profiles and of files), which check no liveness.

| run | instance and bounds | what it shows |
| --- | --- | --- |
| `web_job` | 2 jobs, 4 kinds of request over 2 projects of one name, history lengths 1 and 3, changed at any moment | runs exclude each other, the log sink and the preselection are the run's own (`RunsAreApart`), verdicts fit errors; every accepted run is archived and the gate reopens, unless a length raised between test and cut has broken the server; `RunGate` is implemented |
| `web_job_stopping` | the same with a shutdown at any moment | a history whose only flaw is that of a raised length, a preselection has an owner (`LifeCycleInv`), an archived job is final |
| `web_job_preselection` | the same without shutdown | **expected violation**, see the findings below |
| `event_stream` | 2 jobs, 1 page that follows either, channel of 1, one line or one lost connection | subscribers and channels are in order, no page ends before its run (`StreamInv`); what can keep a page from learning of the end |
| `worker_pool` | 3 hosts, 2 workers, own addresses | exact count, no stale entry, complete return (`PoolInv`); the batch returns; `HostBatch` is implemented |
| `pipeline` | every list of at most 3 of 6 kinds of step (259 lists), 2 hosts, one of them without internal address, 3 settings of `useIp`, run and check | `SkipInv`, `OnceInv`, `ResultsInv`; every host ends; `ExecList` is implemented |
| `pipeline_step` | a script with a writing and a background child; a remote command; pushes and pulls by 2 hosts of one path over 3 rule lists, 2 chunks | output whole and kills reported as timeouts (`CommandInv`), honest remote verdicts, delivered files; expired steps end, runner goroutines end |
| `daemon` | 2 launches, 2 pids, one `-stop`, both platforms, careful or not; or a service with one crash, 2 requests and one uninstallation | on Unix `-stop` tells the truth and `web.pid` names the careful operator's instance; on both a shutdown leaves no file of its own (`PidFileInv`), what the service reports is so (`ServiceInv`); what is asked to end ends, by either way of hosting |
| `service_shutdown` | the service with one request and no crash | **expected violation**, see the findings below |
| `preparation` | 3 VMs on 2 pages, 1 bare-metal server, 1 that may appear, 2 pool workers, one change, every choice of projects and every filter; or about 600 configurations; or 12 settings of projects over 5 pairs of lists, terminal and web; or addresses of 2 segments of 1 bit, at most 1 rule in each of 4 lists, out of 10, 6 hosts; or 3 servers over 4 lists of cards and 3 of disks | accepted steps are executed as documented; names become the projects they name; the result is the inventory, with requests for kept servers only and one each; what is kept is what `README.md` says of the rules; a server shows its own cards and disks, and all of them; every stage ends |
| `settings` | 2 changes, 18 bodies, 3 first files, 2 crashes, serial or overlapping; or one change of name or password, which may be rejected, and one crash among 2 logins with 2 names and 2 passwords and one visit | the account stays usable, what was accepted is in the file until a later save truncates it, no clear password; nobody is served without a session he was let in to |
| `profiles` | 2 requests and an editor, 2 profiles, 5 things to save (blank lines, descriptions in the text, no YAML, wrong YAML, a description with blanks around it and a further line that is no YAML); or 2 clients with 6 lists of files, 5 paths, 3 first trees, any refusal; or 2 runs of one profile in 2 seconds, 3 and 2 hosts | what a save or copy promised is shown, whoever was at the profile before, and what nobody writes has text, unless its writes met or it brought lines nobody looked at; uploads, archives and removals are whole or say they are not; a run's workbook is its own, and its logs but those that may be mistaken for others |

Why these bounds are enough to be interesting:

- *Two jobs* suffice for every overlap of `web_job`: the gate lets one run in at a time, so the
  finisher of one run overlaps the next run and no third. The theorems hold for any number.
- *History lengths 1 and 3*: with two jobs the list is longer than the one and shorter than the other, so that
  a raise between test and cut reaches past it, a drop cuts it, and both come before, between and after.
- A *channel of one event* is full after one line; the code's capacity of 32 (`web.go:45`) only needs more lines.
- *Three hosts, two workers*: a worker takes a second host while the other still has its first,
  and both finish with nothing left to hand out.
- *Three steps* are one before, at and after a step that fails; two hosts share phase one.
- *One change* of the inventory shifts one page border, and *two pages* have one border.
- One bit per segment keeps every mask length from 0 to the full one, both address texts of the
  wrong length, and both sides of every comparison.
- *Two clients* of the file manager, one of which stores two files: one meets the other between any two
  calls on the file system. Two uploads of one path, and an upload into a folder that is removed, are
  among them.
- *Two logins and one change* of the account: a login may read before, between and after its two writes.
- *Two requests* at the profiles: a save, a copy and a removal meet between truncation and writing, at one
  profile or at two, and a profile they have mixed is written again afterwards.
- *Two seconds* for two runs: they begin and end in one second or not. Hosts of one name, of names that
  differ and make one file name with the address or the step, and without an address are among the five.
- The configurations vary one step's fields together and the others' alone: no code looks at two of the
  latter at once.
- `MaxNoise`, `MaxCrashes`, `MaxChanges`, `MaxSteps`, `MaxRules`, `MaxRequests`, `MaxClock` are bounds of
  the models and not of the program; each is named in its module. They bound only what disturbs
  the program, never the program's own loops.

Conjunctions: every property whose name ends in `Inv` and the temporal `RemoteEnds`, `EndsWhenAsked` and
`ServiceEnds`, and `RunsAreApart`, join the named parts that stand before them in their modules, among
them the module's type invariant; each part is stated and explained there by itself, and most have a
mutant of their own. Where theorems are about the parts, the joined property is a theorem too:

| joined | parts |
| --- | --- |
| `RunsAreApart` (`WebJob`) | `OneJobAtATime`, `RunLogIsOwn`, `PreselectionIsOwn` |
| `LifeCycleInv` (`WebJob`) | `TypeOK`, `HistoryConsistent`, `HistoryIsWhole`, `PreselectionHasOwner` |
| `PoolInv` (`WorkerPool`) | `DoneCountsHosts`, `ShownIsHeld`, `ReturnIsComplete` |
| `CommandInv` (`LocalCommand`) | `OutputIsWhole`, `KilledIsTimeout` |
| `PidFileInv` (`Daemon`) | `RunningIsFindable`, `ShutdownLeavesNoFile` |
| `SkipInv`, `OnceInv`, `ResultsInv` (`Pipeline`) | stops; how often a step runs; what a host shows |

## Fairness

Liveness is checked under weak fairness of what the code's scheduling gives:

- `WebJob`: the goroutine of every accepted job runs on (`WF` of `RunJob(j)`). That its SSH
  stage ends is an assumption there; `WorkerPool` and `Pipeline` say what it takes. `EveryRunFinishes`
  excuses a server that a raised history length has broken (`jammed`, or a finisher that panicked).
- `WorkerPool`: feeder and workers run on; that a test of a host returns is assumed, and is
  `EveryHostEnds` of `Pipeline`.
- `Pipeline`: `OwnFairness` is what the program bounds itself, namely local commands (timeout) and the
  dial (connect timeout). `EveryHostEnds` needs `ServersAnswer` too: the handshake, the
  verification command and remote sessions are awaited without a deadline.
- `EventStream`: runs and handlers run on, a browser reconnects a broken stream. No
  connection has to break and no line has to be said.
- `PipelineStep`: the program's goroutines and timers. Nothing is assumed of the script, the host or
  the network, and nothing bounds a file transfer, so no liveness is claimed for it.
- `Daemon`: the signal handler and the shutdown goroutine of an instance that was asked to end, and a
  `-stop` command that has begun. Nobody has to launch, ask, crash or stop. That the shutdown goroutine goes on
  assumes that no handler has left the server's mutex locked, which `WebJob` shows to be possible.
- `Preparation`: the tool's own steps go on in every stage, since every request ends, with an answer or an
  error, as the HTTP client has a timeout. The gateway need not change, and nobody has to answer
  the question at the terminal: such a resolution waits, and `PreparationEnds` says only that.
- `Service`: the goroutines of `Execute` run on; the server, when it is closed, ends (strongly fair: requests may keep
  it busy and let go of it again); the service control manager restarts what crashed; `-service
  uninstall` goes on. Nobody has to stop it, send a request or crash it.

## The proofs

All theorems hold for every value of the constants that satisfies the named assumptions
(`JobsAssumption` and so on), which TLC evaluates in the runs.

**`EventStreamProofs`**, of the jobs. `TypeCorrect`, `HistoryCorrect`, `HistoryStaysWhole`, `PreselectionOwned`,
`HistoryStaysBounded` and `ArchivedStaysFinal` are proved of `StoppingSpec`, where a shutdown may come at any
moment; the others of `Spec`, since a shutdown breaks mutual exclusion. The argument:

- `Typed` is `TypeOK` and the fact that a job that exists has a request of `Requests`: without it the
  fields of `req[j]` have no type.
- `OneJobAtATime` is not inductive. `Exclusive` adds which jobs may be unfinished while the gate is open or
  shut: a job in `Running` is the current job with status *running*, so `GateOpen`
  excludes it. It carries `RunLogIsOwn` along, since `SetRunLog` and `ClearRunLog` happen only
  inside the exclusive stretch.
- `VerdictMatchesError` needs to know what the finisher has read and not yet written: `Verdict` states it label by label.
- `PreselectionIsOwn` needs `PreselectionHasOwner` and `Undisturbed`: for a run no finisher overlapped,
  `webProjectID` is its own from `Preselect` to `Resolve`.
- `HistoryInv` is what the history needs: one finisher at most holds the mutex for its cut and nobody else has it then
  (`MutexInv`), and a list that waits for its cut is longer than the configured length unless that was
  raised meanwhile (`CutInv`). So nil entries, the panic of a finisher and a mutex that stays locked all take a raise between test and cut
  (`HistoryStaysWhole`), and the length at the second reading bounds what the next holder of the mutex finds
  (`HistoryStaysBounded`).
- `WebJobImplementsGate`: `Gate` maps a job's place to the phases of `RunGate`, with the end of
  a run at the write of its status. Initial states map to initial states; every action maps to
  `Start`, `End` or a stutter, where `Start` needs `Exclusive`.
- `ArchivedStaysFinal` is the action property `ArchivedIsFinal`: no step changes what the history says of a
  job. Steps that write a status need `HistoryConsistent`, that the job they are at is not archived yet.

**`EventStreamProofs`**, of the streams. `StreamCorrect` (`StreamInv`) and `PagesEndOnTruth` (`EndIsReal`), for any
pages and any capacity of a channel. A step of the stream is a step of `WebJob` or leaves it alone, so `Typed`,
`Exclusive` and `Verdict` hold here. To them the invariant adds what can be in flight: `ChannelInv`,
that a channel nobody is subscribed with is empty and that a finish event in one comes from a job whose goroutine
is through, and `SnapshotIsTrue`, that what a page has read between its subscription and its first event
still says no more than the truth when the page acts upon it.

**`WorkerPoolProofs`.** Types; `NoSharedHost`; `DoneCountsHosts`, by cardinality of the set of
finished hosts, which one `end` extends by one host (so hosts are assumed finite); `ShownIsHeld`, for any addresses,
also shared ones; `ReturnIsComplete` (all three joined in `PoolIsConsistent`), from the count and from `Progress` (what has been recorded of a
host at each place of its worker); and `WorkerPoolImplementsBatch`.

**`PipelineProofs`.** For any exec lists, hosts, addresses and passwords: `StopsAreKept` (`SkipInv`),
`OnceIsKept` (`OnceInv`), `ResultsAreComplete` (`ResultsInv`) and `PipelineImplementsExecList`. None of
these is inductive, as the code decides by flags and the properties speak of results. The invariant says
what the flags mean:

- `PhaseOneInv`: phase one has results for exactly the once steps it has passed, and `globalStopped`
  is set if and only if one of them failed and says stop. So a host that is not stopped finds a result
  for each of its once steps, which makes the fallback of `runPipeline` dead code.
- `PlaceInv`: hosts wait for phase one, and have results only after a login in a full run.
- `ListInv`: `stopped[h]` says that a result before the next step stops the list (`StoppedBefore`), and what
  ran on a host ran before its list was stopped. `ReportKeepsInv` shows once, for all three ways a
  result is added, that this survives one more result.
- The refinement maps the flags away (`StopsAreShown` relates them to what the promise reads off the results): a
  step of phase one is `Share`, a skipped, reused or executed step is `Report`, the end of a turn is
  `Refuse` or `Close`, and dialling, handshakes and the passing over of other steps are stutters.

It needs one assumption beside those on the kinds of step: the name under which phase one is counted is no
host's (`NowhereAssumption`).

**`PipelineStepProofs`.** A step behaves as the command of its type and as no other (`StepIsItsType`), so each kind is
proved by itself and carried over.

- `StepTellsCommand` (`CommandInv`): one invariant about what the watchdog, the context and the
  shell know of each other (`KillHasCause`), for any children in or out of the group.
- `RemoteVerdictIsHonest` (`RemoteInv`): `RemoteKnown` says that what the runner brings back is what the host told,
  and that nothing runs there which was not asked for.
- `FilesAreDelivered` (`FilesInv`), for any rules, files, chunks and hosts, also those that share a machine.
  `DeliveryInv` follows a host through its rules: a file it has passed is whole, or was there and not to be
  overwritten; the one in its hands is as long as what was copied; what it writes to was missing before or was
  asked for (`Past`, `InHand`, `WritesWhatIsAsked`). The last is why `UnaskedIsUntouched` holds for every
  host, disturbed or not. It assumes that rules are rules and that there is a chunk (`FilesAssumption`).

**`HostingProofs`.** `StopTellsTruth`: `StopInv` adds that whatever `web.pid` or a command names was
launched once, so a pid that nobody holds belongs to an instance that is over. It and `CarefulIsFindable` speak of Unix,
where `pidAlive` answers the truth; what Windows makes of them is [below](#what-windows-makes-of--stop). `ShutdownCleansUp`, on both platforms:
`UnlinkedInv`, since an instance writes its file once and before its shutdown can begin. `CarefulIsFindable`: under `careful`, `CarefulInv` says that one instance at most is alive, that the file is
its own until its shutdown removes it, and that a command under way read of it. `SettingIsRigid`
lets the hypotheses `careful` and `~windows` be used at every step.

`ServiceCorrect` (`ServiceInv`): the service control manager acts on reports, so the invariant relates each
report to where `Execute` and the server stand (`Reported`), the port to the process (`PortInv`), and a
restart that is due to the status and the entry it will find (`RestartInv`). Every step of the composition is one
of `Daemon` or of `Service` (`EitherMoves`), which carries what is proved of `Daemon` over
(`DaemonCorrect`). It assumes that the bounds are numbers (`BoundsAssumption`).

**`PreparationProofs`.** For lists of any length and pages of any size. Lists need induction; the induction theorems of the
library take the predicate as an operator, which no prover here can be given. `NatInd` and `SeqInd` take the
*set* of those it holds of instead, and are proved from the least counterexample. With them the recursive functions of `Lists`,
`IPFilter` and `Details` are followed through their loops: `Only` and `Merged` keep order, and lists without repetition; the last page is
reached when the pages so far are the list.

- `NobodyIsAskedInVain` (`RequestsInv`), `CollectionIsComplete` (`InventoryInv`). `CollectIInv` has two halves: what holds in
  any case (`RequestsTyped`: nothing is sent about a server that is not chosen and kept) and what
  holds while nothing has disturbed the collection (`Calm => CalmInv`): the pages so far are the beginning of the inventory, what is dropped is
  counted, and who has been asked how often is known from the place of the pools. It assumes two kinds of server, a finite
  inventory without repetitions and pages of 1 to 100 (`CollectAssumption`).
- `AcceptedIsMeant` (`ConfigurationInv`), for any texts, numbers and lists of steps (`ConfigsAssumption`): `LoadedInv` says what each
  stage leaves behind; the rest is that each field of a valid step is read as it is documented.
- `NamesBecomeProjects` (`ProjectsInv`). `ResolutionIInv`: in any case a name that is settled has its project, from a
  list that once held it (`ResolvedSoFar`); without a disturbance the list in hand is the pages so far, and
  whatever was asked was ambiguous (`CalmResolution`). `ProjectsAssumption` says that some name is wanted.
- `FilterKeepsWhatIsMeant` (`FilterInv`), for segments of any width and addresses of any number of segments:
  `FilteredSoFar` says that what was kept is what is meant of the hosts seen. The work is in the lemmas: numbers of
  addresses are compared digit by digit, and a network is a division by a power of two.
- `DetailsAreOwn` (`DetailsInv`). `DetailsIInv`: what a server shows is in the lists of the start
  (`MacsAreOwn`, `DisksAreOwn`), all of it once its list was fetched in calm (`CardsSoFar`, `DisksSoFar`), and a name it was
  resolved by is never replaced (`NamesSoFar`). `DetailsAssumption` says that the gateway lists a disk once at a time.

**`DirectoriesProofs`.**

- `ManagedFilesKeepPromises` (`ManagedFilesInv`), for any paths, requests and first trees of whole files (`TreesAssumption`).
  The operating system may refuse any call. `FilesIInv` is made of the tree (a folder above everything, `TreeOk`), of
  every request by itself as long as nobody else touches what it is about (`Requests`; a removal that was refused a step knows what is
  left), and of the files: an open file is known by one upload, and one that
  is not whole is being written (`FilesOk`). Each request's own step is proved once, and everybody else's by `Beside`.
- `ProfilesKeepPromises` (`ProfilesInv`), for any texts of lines and any descriptions (`TextsAssumption`, which also says that what
  `TrimSpace` leaves it leaves again). `ProfilesIInv`: what a request is about to write shows what it promises and, unless it brings lines
  nobody looked at, is some YAML (`Requested`); a profile shows what was promised unless a request has it truncated,
  and then no other request has, or it is `mixed`; and it has text unless it is `odd` (`Profiled`). A profile leaves both sets when
  somebody writes it alone again. That a text passes the editor unchanged is proved of `SplitDesc` and `Joined` for every
  text that is not mistaken for one with a description, and every description of one trimmed line.
- `ArtifactsAreComplete` (`ArtifactsInv`), for any runs, hosts and steps (`RunsAssumption`). `OutputsIInv`: one run at
  a time is active, and the name it has chosen is free until it is used (`BooksOwn`; some number is free, as finitely many are taken);
  a workbook has each row once and in order, by induction over hosts and steps (`IsSheet`); a log is there, or is to be written,
  or was lost, or shares its file (`LogsKept`). Which steps may share one is a fact of joined names (`ApartAtFirst`): the first underscore tells
  where the host's name ends if there is none in it, and the second where the address does.

**`SessionsProofs`.** `SessionsCorrect` (`SessionsInv`), for any number of changes that pass `auth` among the logins (`Changes`, any
subset of the requests, `ChangeAssumption`), any bodies, first files and crashes, serial or not. `LoginInv` says that a login
under way runs on a serving program and has seen the pair in force, so that what a comparison without a
lock reads is among the pairs seen, which only grow. `VisitInv` says that a cookie belongs to a login that got in,
and that one whose session had ended on arrival is not alive at the lookup either: a session is
inserted once.

`SettingsCorrect` (`SettingsInv`, `SomebodyCanLogIn`) is proved of `Settings`, and `AccountCorrect` carries it over to the
logins, as every step of theirs that touches the settings is one of `Settings`. In `AccountInv`, `Apart`
says that with `serial` one request at most is at work; `MemoryInv` that somebody can log in except between
the new salt and the new hash; `PostInv` what a request has in its hands, among it that the file it has
truncated is still empty; `FileInv` what any start can make of the file; `LastInv` that what was accepted last is in the
file until a save truncates it, also when a start or a rejected request comes after; `SavedInv` that memory and file agree unless a request was
turned down. `AcceptedIsSaved` does not exclude that a later save, cut off after its truncation, loses what was accepted: that is
`AcceptedSurvives`, which the code does not satisfy. It assumes that the first file has a password in
clear, none, or what the program left (`FilesAssumption`), a name for nobody (`PostsAssumption`) and `CrashesAssumption`.

Every invariant and action property of the passing runs is proved, and so are the three refinements. Only model-checked are
the liveness properties, `EveryRunFinishes`, `PageEnds`, `BatchReturns`, `EveryHostEnds`, `ExpiredEnds`, `RemoteEnds`,
`EndsWhenAsked`, `ServiceEnds` and `PreparationEnds`: the prover handles neither fairness nor
`ENABLED`. `HistoryBounded`, `NoSharedHost`, `DaemonTypeOK`, `LocalCommandTypeOK` and the `TypeOK` of
`WorkerPool` are proved and not in a run. What folds and `SelectSeq` compute cannot be proved, as they take
operators; the modules use recursive functions in their place.

## Where the code disagrees with its documents

The run `web_job_preselection` checks the comment at `web.go:730`, that one task at a time makes the
preselection globally safe (`PreselectionSafe`). It is violated: the finisher of a run clears
`webProjectID` after it has published its status. A run accepted in between whose request has no
`projectId` finds there what the run before had preselected, and resolves an ambiguous name with it in silence.
Without `Accept` in that window the choice is right, which is `PreselectionIsOwn` and proved. In the same window a
run may also lose its own preselection and be refused (`PreselectionIsKept`, below).

The run `service_shutdown` checks the comment at `web.go:298`, that a shutdown that was granted ends the
process, which `README.md:68` offers as a button of the page (`GrantedEnds`). In a Windows service it is
violated: `handleShutdown` starts a goroutine that sends on `shutdownCh` (`web.go:328`), only `runWeb`
receives from it (`web.go:226`), and `Execute` has its own server. The job is told that it was stopped,
the answer is *ok*, and the service goes on: the first request fills the channel, the goroutine of
every later one is left behind.

Eight more disagreements matter as much. Their properties stand beside the others and can be checked like those in the
table that follows:

- *The length of the history.* `settings.go:19` calls it the number of runs the history keeps (`HistoryHoldsRuns`). The finisher
  reads it at `web.go:756` to test and again at `web.go:757` to cut, and `handleSettings` writes it at `web.go:462` without
  the mutex. A raise in between slices past the list: within its capacity the history has nil entries, which the
  next reader of it dereferences with the mutex locked; beyond it the finisher panics, and the process ends.
- <a name="what-windows-makes-of--stop"></a>*`-stop` on Windows*, which `README.md:68` says ends an instance, and which says itself that one does not exist
  any more (`main.go:218`, `GoneIsGone`). `processSignal0` opens the process without the right to wait for it
  (`proc_windows.go:26`), so the wait fails, a live instance counts as gone, its `web.pid` is removed, and the
  shutdown request is never sent. `SeenAlive` therefore answers *no* on Windows, and the properties about the truth of `-stop`
  are about Unix.
- *Copies of profiles* look for the new name (*already there*, `web.go:586`) before they read the source, and write without
  looking again, over what another request has saved and was told is saved (`CopyNeverOverwrites`).
- *Descriptions of profiles* go into the file as they came, after the look at the syntax (`web.go:530`): what follows the first line break
  becomes lines of YAML nobody has looked at (`StoredIsProbed`).
- *Logs* are kept by machine, address and step, says `README.md:137` (`NamesTellLogsApart`). The names are joined with
  the underscore that also stands for what a file name may not hold (`sshcheck.go:1141`, `1163`), so machines and steps of
  different names may have one file, which keeps the last.
- *No workers.* `config.go:103` says that a left-out `ssh.workers` is 5. It is 0 (`SomebodyTests`), and the feeder waits
  for ever (`BatchReturns`).
- *Silent servers.* `config.go:425` calls the value the timeout of one login test (`LoginTestEnds`): it bounds the dial, and a
  server that accepts and then says nothing holds its worker.
- *Failed collections* do not block the list, says `sshcheck.go:1185` (`CollectingNeverBlocks`): without `onError` they do.

All properties of comments and documents that turned out not to hold, these eight first. They are
stated beside the others, so that a change of the code can be checked against them. Each is
violated within seconds, by its run's configuration with its properties replaced by the one
named and, where it says so, changed:

| property | change | what happens |
| --- | --- | --- |
| `HistoryHoldsRuns` (`WebJob`) | | a length raised between test and cut puts nil entries into the history (`web.go:756`) |
| `GoneIsGone` (`Daemon`) | in `daemon` | an instance that serves on Windows is said to be gone (`proc_windows.go:26`) |
| `CopyNeverOverwrites` (`Profiles`) | | a copy looks before it writes (`web.go:594`) |
| `StoredIsProbed` (`Profiles`) | | the description is put before what was looked at (`web.go:538`) |
| `NamesTellLogsApart` (`Artifacts`) | | names are joined with an underscore and may hold one (`sshcheck.go:1141`) |
| `BatchReturns` | `SSHWorkers = 0` | the feeder blocks (`sshcheck.go:305`) |
| `LoginTestEnds` (`Pipeline`) | `FairSpec` | only the dial has a deadline (`sshcheck.go:408`) |
| `CollectingNeverBlocks` (`Pipeline`) | `Pipelines <- SomePipelines` | a failed status or services step without `onError` stops the list (`sshcheck.go:528`) |
| `FailureNeverShowsDone` (`WebJob`) | | the finisher writes *done* before it looks at the error (`web.go:748`); `web_http_test.go:215` expects *failed* to be the first status |
| `OneJobAtATime` | in `web_job_stopping` | the shutdown goroutine opens the gate while the run goes on (`web.go:231`); `sshcheck.go:34` relies on one task |
| `PreselectionIsKept` (`WebJob`) | | the finisher of the run before clears the preselection of the next, whose ambiguous name is then refused (`web.go:753`) |
| `FinalProgressComplete` (`WorkerPool`) | | two sinks store their counts in the opposite order (`web.go:801`); `web_sse_test.go:83` expects the last to be complete |
| `HeldIsShown` (`WorkerPool`) | `Addr <- SharedAddr` | the active map is keyed by address (`sshcheck.go:150`) |
| `StepsBeforeStillRun` (`Pipeline`) | | a once step that fails with stop also skips the steps listed before it (`sshcheck.go:470`); `README.md:255` says the following ones |
| `DropIsMadeUp` (`EventStream`) | | a dropped finish event leaves the stream open and the page waiting (`web.go:76`, `web.go:34`) |
| `FinishIsFinal` (`EventStream`) | | the repeated finish event may say *running* (`web.go:885`) |
| `RunningIsFindable` | drop `careful /\` | a second `-daemon` overwrites `web.pid` before it fails to bind the port (`web.go:204`) |
| `StopIsTrue`, `RunningIsFindable` | drop `~windows` | see *`-stop` on Windows* above |
| `ResultIsInventory` | drop a conjunct of `Calm` | an error body with status 200 counts as the last page (`api.go:139`); a removal between two requests hides a server (`main.go:459`) |
| `OnlyTimeoutKills` (`LocalCommand`) | | a late watchdog finds the canceled context and the closed channel and may kill what a successful script left running (`sshcheck.go:997`) |
| `ExpiredEnds` | `Grouped = {background}` | a child outside the process group holds the pipe and the step (`sshcheck.go:1003`) |
| `FailHasStatus`, `StepEnds` (`RemoteCommand`, by itself) | `FairSpec` | errors that are no exit status count as *fail* (`sshcheck.go:928`); the timeout starts after the session is open (`sshcheck.go:893`) |
| `WholeIsUntouched` (`FileTransfer`) | | a file another host has just delivered is truncated (`sshcheck.go:681`) |
| `SomebodyCanLogIn` | drop `serial /\` | two changes of the password mix salt and hash (`settings.go:112`) |
| `AcceptedSurvives` (`Settings`) | | a save that is cut off after the truncation loses what was accepted before, and the next start sets admin/admin (`settings.go:104`) |
| `LoginKnewBoth` (`Sessions`) | | a login compares the name before a change of the account and the password after it (`web.go:382`) |
| `ChangeEndsSessions` (`Sessions`) | | a new password leaves the sessions opened with the old one (`web.go:438`) |
| `RootIsListed` (`FileManager`) | | `DELETE /api/files/` removes the directory itself, and listing fails until the next upload (`web.go:1147`) |
| `ArchiveHasTheRest` (`FileManager`) | | the first file that is gone ends the archive, with status 200, although the operating system refused nothing (`web.go:1136`) |
| `BookIsOwnBeside` (`Artifacts`) | | a name is free when looked at and taken when used by a run of another process (`output.go:289`) |
| `LogsAreKept` (`Artifacts`) | | hosts of one name without an internal address, steps of one name, names that are joined to one, and runs that begin in one second share log files (`sshcheck.go:1137`) |
| `SomebodyTests` (`Configuration`) | | `ssh.workers` left out stays 0 (`config.go:103`) |
| `OnceIsOnce` (`Configuration`) | | `run: once` is accepted for steps on the hosts and ignored (`config.go:198`) |
| `NoStepIsHopeless` (`Configuration`) | | names of services that cannot be asked for are found out when the step runs |
| `AmbiguityIsSeen` (`Projects`) | | a name the project list has once is not looked for among the disks (`project.go:45`) |
| `PageCanAnswer` (`Projects`) | | one preselection cannot settle two ambiguous names, nor one that only the disks have (`web.go:153`) |
| `DisksOnce` (`Details`) | | an attachment that is listed twice is shown twice (`main.go:372`) |
| `NamesAreShown` (`Details`) | | the list of names may fail without a word, and the ids are shown (`main.go:407`) |
| `RunningIsOpen` (`Service`) | | *running* is reported beside the opening of the port (`service_windows.go:204`) |
| `NoJobIsLost` (`Service`) | | a run is let in after the stop has told the job, and vanishes with the process (`service_windows.go:215`) |
| `RemovedEnds` (`Service`) | | an uninstallation that meets a starting service cannot stop it (`service_windows.go:106`) |
| `EveryProfileHasText` (`Profiles`) | drop `\cup odd` | a copy reads a profile that is truncated, a write fails on its way, a description brings lines (`web.go:540`, `594`) |
| `SavedIsShownAlways` (`Profiles`) | | blank lines are taken off after the description was looked for, so that a description below them is one for the next reader (`web.go:522`) |
| `AnsweredIsShown` (`Profiles`) | | the answer has the description as it came, the list its first line without the blanks around it (`web.go:544`, `488`) |

Properties of an instanced module are reached through its instance (`Adding!DisksOnce` in `Preparation`,
and so on).

## What is not modelled

- The HTTP transport and request signatures (`api.go`): a library and a hash; a request is
  answered, fails, or is answered with an error under status 200, as `doGET` has it.
- YAML decoding (a library: `Configuration` begins with the decoded fields), flags of the command line, the prompt for
  missing credentials.
- `safeFilesPath` and the cleaning of names: texts; `FileManager` has paths as sequences of names. The
  viewer of `web.log`, the download of one profile, static files.
- How the output of status and services commands is taken apart, the layout of tables on the screen, widths and styles of
  Excel cells, the width of the progress line.
- The shutdown request `-stop` would send on Windows: it is never sent, as the instance counts as gone first.
- Elevation (`proc_windows.go`), working directories and log files of the service: single calls to the
  operating system.
- The texts of logs and answers, everywhere; names and their escaping but for the characters that are replaced in the names of logs and workbooks; permissions and directories
  in `FileTransfer`; IPv6 and wildcards for a part of a segment in `IPFilter`; which servers a
  project or filter looks at in `Collect` (any choice).
- The moments after `Exit`: requests still open when the program ends.

## Plan

Order: what runs share first (gate, globals, events), then what one run does (pool, exec list, steps),
then what surrounds it (hosting, account, collection, files on disk). Done: all modules above; every safety property of the runs and
three refinements proved.

Next, in this order:

1. What the proofs rest on, restated where a reader needs it: refinements of `Collect`, `Profiles` and `FileManager` to what they promise.
2. `WebRun`, a composition of `WebJob` with `WorkerPool` through the sink, so that the progress of a job and
   its end are checked together.
3. `Daemon` with requests still open at the exit.
