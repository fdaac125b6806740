------------------------------ MODULE Artifacts ------------------------------
(***************************************************************************)
(* The files a run leaves behind.  Every command step of a host writes its *)
(* log into a directory named for the second in which the tests began;     *)
(* when all hosts are done the workbook is named for the profile, the      *)
(* second and, if that name is taken, a number, and is then written.  The  *)
(* page hands out the workbook later, by the name the run kept             *)
(* (handleExport).                                                         *)
(*                                                                         *)
(* One server has one run at a time (WebJob), but the same directories may *)
(* be those of a run from the command line at the same time (beside).      *)
(*                                                                         *)
(* A name is a sequence of pieces: single characters that cannot be in the *)
(* name of a file, the underscore, and text without these between them.    *)
(*                                                                         *)
(* Abstracted: cells and their layout; a log and a row are known by what   *)
(* they are about.  Of the sheets, the one with a row for every step       *)
(* stands for the one with a row for every service, which is filled the    *)
(* same way.                                                               *)
(***************************************************************************)
EXTENDS Integers, FiniteSets, Sequences

CONSTANTS
  Runs,        \* the runs
  ProfileOf,   \* the profile of a run
  HostsOf,     \* its hosts: a sequence of [name, ip, steps], steps of [name, command, ran]
  MaxClock     \* bound: seconds

Seconds == 0..MaxClock

VARIABLES
  beside,   \* runs of other processes may overlap
  clock,    \* seconds
  at,       \* where a run stands
  folder,   \* the second its log directory is named for
  todo,     \* steps whose log is still to be written, as <<host, step>>
  lost,     \* history: logs that could not be written
  logs,     \* the log files: by directory and name, the step each is about
  book,     \* the path of the workbook: job.ExcelFile, when it is written
  books     \* the workbooks: by path, the run and the rows

vars == <<beside, clock, at, folder, todo, lost, logs, book, books>>

Dangerous == {"/", "\\", ":", "*", "?", "\"", "<", ">", "|", " ", "\t", "\n", "\r"}

\* sanitizeFileName
Sanitize(name) ==
  IF name = << >> THEN <<"unknown">>
  ELSE [i \in DOMAIN name |-> IF name[i] \in Dangerous THEN "_" ELSE name[i]]

NoBook == [profile |-> << >>, second |-> 0, number |-> -1]

Steps(r, h)  == HostsOf[r][h].steps
Commands(r)  == UNION {{<<h, s>> : s \in {x \in DOMAIN Steps(r, h) : Steps(r, h)[x].command}} :
                        h \in DOMAIN HostsOf[r]}

Init ==
  /\ beside \in BOOLEAN
  /\ clock  = 0
  /\ at     = [r \in Runs |-> "idle"]
  /\ folder = [r \in Runs |-> 0]
  /\ todo   = [r \in Runs |-> {}]
  /\ lost   = {}
  /\ logs   = << >>
  /\ book   = [r \in Runs |-> NoBook]
  /\ books  = << >>

Put(f, k, v) == [x \in DOMAIN f \cup {k} |-> IF x = k THEN v ELSE f[x]]

Tick ==
  /\ clock < MaxClock
  /\ clock' = clock + 1
  /\ UNCHANGED <<beside, at, folder, todo, lost, logs, book, books>>

-----------------------------------------------------------------------------
(* scriptLogDir and writeScriptLog *)

Active(r) == at[r] \notin {"idle", "done", "failed"}

\* The directory may be there already.
Begin(r) ==
  /\ at[r] = "idle"
  /\ ~beside => \A q \in Runs : ~Active(q)
  /\ at'     = [at EXCEPT ![r] = "testing"]
  /\ folder' = [folder EXCEPT ![r] = clock]
  /\ todo'   = [todo EXCEPT ![r] = Commands(r)]
  /\ UNCHANGED <<beside, clock, lost, logs, book, books>>

\* Mutant: the address of the host is not in the name.
LogNameShort(r, h, s) == Sanitize(HostsOf[r][h].name) \o <<"_">> \o Sanitize(Steps(r, h)[s].name)

\* What stands between the names may be in them.
Joined(a, b) == a \o <<"_">> \o b
LogName(r, h, s) ==
  Joined(Sanitize(HostsOf[r][h].name), Joined(Sanitize(HostsOf[r][h].ip), Sanitize(Steps(r, h)[s].name)))

\* The logs of a host come in the order of its steps; a failure is a warning.
WriteLog(r) ==
  /\ at[r] = "testing"
  /\ \E x \in todo[r] :
       /\ \A y \in todo[r] : y[1] = x[1] => x[2] <= y[2]
       /\ todo' = [todo EXCEPT ![r] = @ \ {x}]
       /\ \/ logs' = Put(logs, <<folder[r], LogName(r, x[1], x[2])>>, <<r, x[1], x[2]>>) /\ UNCHANGED lost
          \/ lost' = lost \cup {<<r, x[1], x[2]>>} /\ UNCHANGED logs
  /\ UNCHANGED <<beside, clock, at, folder, book, books>>

-----------------------------------------------------------------------------
(* autoExcelPath and exportExcel *)

Path(r, n) == [profile |-> Sanitize(ProfileOf[r]), second |-> clock, number |-> n]

\* Mutant: the name is taken as it is.
FreeAny(r) == 0

\* The first number whose file is not there.
Free(r) == CHOOSE n \in 0..Cardinality(DOMAIN books) :
             Path(r, n) \notin DOMAIN books /\ \A m \in 0..(n - 1) : Path(r, m) \in DOMAIN books

NameBook(r) ==
  /\ at[r] = "testing" /\ todo[r] = {}
  /\ at'   = [at EXCEPT ![r] = "saving"]
  /\ book' = [book EXCEPT ![r] = Path(r, Free(r))]
  /\ UNCHANGED <<beside, clock, folder, todo, lost, logs, books>>

\* A row is added to the sheet.
Add(w, row) == [next |-> w.next + 1, cells |-> Put(w.cells, w.next, row)]

\* The steps of a host that have a result.
Results(r, h) == {s \in DOMAIN Steps(r, h) : Steps(r, h)[s].ran}

\* Their rows, under those of w.
WithSteps(r, h, w) ==
  LET upto[s \in 0..Len(Steps(r, h))] ==
        IF s = 0 THEN w
        ELSE IF s \in Results(r, h) THEN Add(upto[s - 1], <<h, s>>) ELSE upto[s - 1]
  IN  upto[Len(Steps(r, h))]

\* Mutant: a host without a step does not move the row on.
WithHostStuck(r, h, w) ==
  IF Steps(r, h) = << >> THEN [w EXCEPT !.cells = Put(@, w.next, <<h, 0>>)] ELSE WithSteps(r, h, w)

WithHost(r, h, w) == IF Steps(r, h) = << >> THEN Add(w, <<h, 0>>) ELSE WithSteps(r, h, w)

\* The loop over the hosts that fills the sheet: what row holds what, and the next row.
Rows(r) ==
  LET upto[h \in 0..Len(HostsOf[r])] ==
        IF h = 0 THEN [next |-> 2, cells |-> << >>] ELSE WithHost(r, h, upto[h - 1])
  IN  upto[Len(HostsOf[r])]

\* A failure fails the run; it keeps no path then.
SaveBook(r) ==
  /\ at[r] = "saving"
  /\ \/ /\ at'    = [at EXCEPT ![r] = "done"]
        /\ books' = Put(books, book[r], [run |-> r, cells |-> Rows(r).cells, last |-> Rows(r).next - 1])
        /\ UNCHANGED book
     \/ /\ at'    = [at EXCEPT ![r] = "failed"]
        /\ book'  = [book EXCEPT ![r] = NoBook]
        /\ UNCHANGED books
  /\ UNCHANGED <<beside, clock, folder, todo, lost, logs>>

Next == Tick \/ \E r \in Runs : Begin(r) \/ WriteLog(r) \/ NameBook(r) \/ SaveBook(r)
Spec == Init /\ [][Next]_vars

-----------------------------------------------------------------------------
(* Properties *)

ArtifactsTypeOK ==
  /\ beside \in BOOLEAN /\ clock \in Seconds
  /\ at \in [Runs -> {"idle", "testing", "saving", "done", "failed"}]
  /\ folder \in [Runs -> Seconds]
  /\ \A r \in Runs : todo[r] \subseteq Commands(r)
  /\ \A k \in DOMAIN logs : k[1] \in Seconds

\* The workbook a finished run of one server offers is its own, however many runs of
\* its profile end in the same second (output.go:289 "同秒撞名时自动追加序号避免覆盖").
BookIsOwn ==
  ~beside => \A r \in Runs : at[r] = "done" => book[r] \in DOMAIN books /\ books[book[r]].run = r

\* The rows of a workbook are those of its run's hosts, each once, in their order, from
\* the second on: one for every step that has a result, or one for a host without
\* steps; the filter ends at the last (output.go:424, 451).
Meant(r) ==
  UNION {IF Steps(r, h) = << >> THEN {<<h, 0>>} ELSE {<<h, s>> : s \in Results(r, h)} : h \in DOMAIN HostsOf[r]}

Before(x, y) == x[1] < y[1] \/ (x[1] = y[1] /\ x[2] < y[2])

BookIsWhole ==
  \A p \in DOMAIN books :
    LET cells == books[p].cells
    IN  /\ DOMAIN cells = 2..books[p].last
        /\ {cells[n] : n \in DOMAIN cells} = Meant(books[p].run)
        /\ \A m, n \in DOMAIN cells : m < n => Before(cells[m], cells[n])

\* The log of one step may be taken for that of another: their hosts and they have the
\* same names as files, or an underscore in a host's name or address hides where it ends.
Parts(r, x) ==
  LET host == HostsOf[r][x[1]]
  IN  <<Sanitize(host.name), Sanitize(host.ip), Sanitize(host.steps[x[2]].name)>>

Blurred(r, x) == \E k \in {1, 2} : \E i \in DOMAIN Parts(r, x)[k] : Parts(r, x)[k][i] = "_"

Confused(r, x, y) == Parts(r, x) = Parts(r, y) \/ Blurred(r, x) \/ Blurred(r, y)

\* After the tests every command step has its log, unless writing it failed, another
\* run began in that second, or a step of the run took its file whose log may be taken
\* for its own (sshcheck.go:1137).
LogsAreThere ==
  ~beside => \A r \in Runs : at[r] \in {"saving", "done", "failed"} =>
    \A x \in Commands(r) :
      LET key == <<folder[r], LogName(r, x[1], x[2])>> IN
      \/ <<r, x[1], x[2]>> \in lost
      \/ \E q \in Runs \ {r} : at[q] # "idle" /\ folder[q] = folder[r]
      \/ key \in DOMAIN logs /\ \E y \in Commands(r) :
           logs[key] = <<r, y[1], y[2]>> /\ Confused(r, x, y)

\* The names a log is put together from.
Given(r, x) ==
  LET host == HostsOf[r][x[1]] IN <<host.name, host.ip, host.steps[x[2]].name>>

\* What a run leaves behind is its own and complete.
ArtifactsInv == ArtifactsTypeOK /\ BookIsOwn /\ BookIsWhole /\ LogsAreThere

\* The workbook is the run's own also with a run of another process beside it.
\* Not satisfied by the code: the name is free when it is looked at, not when it is used.
BookIsOwnBeside ==
  \A r \in Runs : at[r] = "done" => books[book[r]].run = r

\* With one run in a second, every command step whose host and name are no other's has
\* its log, unless writing it failed.
\* Not satisfied by the code: the names are put together with the character that stands
\* for what cannot be in the name of a file, so that different names give one file.
NamesTellLogsApart ==
  ~beside => \A r \in Runs : at[r] = "done" => \A x \in Commands(r) :
    \/ <<r, x[1], x[2]>> \in lost
    \/ \E q \in Runs \ {r} : at[q] # "idle" /\ folder[q] = folder[r]
    \/ \E y \in Commands(r) \ {x} : Given(r, y) = Given(r, x)
    \/ \E k \in DOMAIN logs : logs[k] = <<r, x[1], x[2]>>

\* Every log of a run is kept.
\* Not satisfied by the code: hosts of one name without an internal address, steps of
\* one name, names that differ only in what cannot be in the name of a file, and runs
\* that begin in one second share files.
LogsAreKept ==
  \A r \in Runs : at[r] = "done" => \A x \in Commands(r) :
    <<r, x[1], x[2]>> \in lost \/ \E k \in DOMAIN logs : logs[k] = <<r, x[1], x[2]>>
=============================================================================
