------------------------------ MODULE Projects ------------------------------
(***************************************************************************)
(* resolveProjects: the names of cfg.Project become projects.  For every   *)
(* name the project list is fetched page by page and searched; a name it   *)
(* does not have is looked for among the projects of the disks.  A name    *)
(* with several projects is a question: to the terminal, or, in the web    *)
(* mode, to the preselection of the request, which the page took from the  *)
(* candidates handleProjects showed it.                                    *)
(*                                                                         *)
(* The gateway is external: two lists cut in pages at the moment of the    *)
(* request, so that a project which comes or goes meanwhile shifts them.   *)
(* A request may fail; an error that arrives with HTTP status 200 is an    *)
(* answer with every field left out (doGET).                               *)
(*                                                                         *)
(* Abstracted: every field of a project but its id and its name.           *)
(***************************************************************************)
EXTENDS Integers, FiniteSets, SequencesExt, Lists

CONSTANTS
  Configured,   \* what cfg.Project may hold: [name, names]
  Catalogs,     \* what the gateway lists: [list, disks], sequences of projects
  Everything,   \* the names that stand for every project
  NoID,         \* no preselection
  ListSize, DiskSize,  \* projects on a page (100 and cfg.Pagination.PageSize)
  MaxChanges    \* bound: changes of the lists during the run

NoText == ""
Project(i, n) == [id |-> i, name |-> n]
ProjectSet    == [id : STRING, name : STRING]
Settings      == [name : STRING, names : Seq(STRING)]

VARIABLES
  setting,      \* cfg.Project
  web,          \* the web mode
  preselected,  \* webProjectID
  lists,        \* the gateway's lists, now
  known,        \* history: every project they have had
  disturbed,    \* a change of the lists, a failed request, an error as an answer
  changes,
  at,           \* where the resolution stands
  turn,         \* index of the name
  page,
  got,          \* what the list has so far; the matches, at "choose"
  asked,        \* history: the names somebody was asked about
  result, allMode

gateway == <<lists, known, disturbed, changes>>
asking  == <<setting, web, preselected>>
search  == <<turn, page, got, asked, result, allMode>>
vars    == <<gateway, asking, at, search>>

WantedBy(s) == IF s.names = << >> /\ s.name # NoText THEN <<s.name>> ELSE s.names
Wanted      == WantedBy(setting)
name        == Wanted[turn]

Begin(written, inWeb, now) ==
  /\ setting = written /\ web = inWeb /\ lists = now
  /\ known = ToSet(lists.list) \cup ToSet(lists.disks)
  /\ disturbed = FALSE /\ changes = 0
  /\ preselected = NoID
  /\ at = IF web THEN "page" ELSE "start"
  /\ turn = 1 /\ page = 1
  /\ got = << >> /\ asked = {}
  /\ result = << >> /\ allMode = FALSE

Init == \E written \in Configured, inWeb \in BOOLEAN, now \in Catalogs : Begin(written, inWeb, now)

-----------------------------------------------------------------------------
(* The gateway *)

Change ==
  /\ changes < MaxChanges /\ at \in {"list", "disks"}
  /\ \E k \in {"list", "disks"} : \E n \in DOMAIN lists[k] :
       lists' = [lists EXCEPT ![k] = RemoveAt(@, n)]
  /\ changes' = changes + 1 /\ disturbed' = TRUE
  /\ UNCHANGED <<known, asking, at, search>>

-----------------------------------------------------------------------------
(* The page: handleProjects, and the run it asks for *)

\* The candidates of a name are those of the project list.
Candidates(n) == {p.id : p \in {q \in ToSet(lists.list) : q.name = n}}

Preselect ==
  /\ at = "page"
  /\ at' = "start"
  /\ preselected' \in {NoID} \cup UNION {Candidates(n) : n \in ToSet(Wanted) \ Everything}
  /\ UNCHANGED <<gateway, setting, web, search>>

-----------------------------------------------------------------------------
(* resolveProjects *)

Start ==
  /\ at = "start"
  /\ IF ToSet(Wanted) \cap Everything # {}
     THEN at' = "done" /\ allMode' = TRUE
     ELSE at' = "list" /\ UNCHANGED allMode
  /\ UNCHANGED <<gateway, asking, turn, page, got, asked, result>>

Fail == at' = "failed" /\ UNCHANGED <<lists, known, changes, asking, search>>

Search(stage) == at' = stage /\ page' = 1 /\ got' = << >>

\* Mutant: a project is told by its name.
AddByName(p) == IF \E q \in ToSet(result) : q.name = p.name THEN result ELSE Append(result, p)

\* A project that is there already is not added again.
Add(p) == IF \E q \in ToSet(result) : q.id = p.id THEN result ELSE Append(result, p)

Resolved(p) ==
  /\ result' = Add(p)
  /\ IF turn < Len(Wanted) THEN turn' = turn + 1 /\ Search("list")
                           ELSE at' = "done" /\ UNCHANGED <<turn, page, got>>
  /\ UNCHANGED <<asked, allMode>>

\* Mutant: the first of several is taken.
MatchFirst(all, otherwise) ==
  LET matches == Only(all, {p \in ToSet(all) : p.name = name}) IN
  IF matches = << >> THEN otherwise ELSE Resolved(matches[1])

\* exactMatchOne, over a list that is complete.
Match(all, otherwise) ==
  LET matches == Only(all, {p \in ToSet(all) : p.name = name}) IN
  CASE Len(matches) = 0 -> otherwise
    [] Len(matches) = 1 -> Resolved(matches[1])
    [] OTHER            -> /\ at' = "choose" /\ got' = matches /\ asked' = asked \cup {name}
                           /\ UNCHANGED <<turn, page, result, allMode>>

More(all) == got' = all /\ page' = page + 1 /\ UNCHANGED <<at, turn, asked, result, allMode>>

LookAmongDisks == Search("disks") /\ UNCHANGED <<turn, asked, result, allMode>>
NotFound       == at' = "failed" /\ UNCHANGED search

\* Mutant: a page that is not full is the last one.
ListEndsEarly(items, all, total) == Len(items) < total \/ Len(all) >= total

ListEnds(items, all, total) == items = << >> \/ Len(all) >= total

\* getProjectList: one answer, with the number of projects there are.
ListAnswer(items, total) ==
  LET all == got \o items IN
  /\ at = "list"
  /\ IF ListEnds(items, all, total) THEN Match(all, LookAmongDisks) ELSE More(all)
  /\ UNCHANGED <<lists, known, changes, asking>>

\* A disk may not tell whose it is.
Complete(q) == {p \in ToSet(q) : NoText \notin {p.id, p.name}}

\* diskProjectCatalog: one answer, with the number of pages there are.
DiskAnswer(items, total) ==
  LET all == Merged(got, Only(items, Complete(items))) IN
  /\ at = "disks"
  /\ IF total <= 0 \/ page >= total THEN Match(all, NotFound) ELSE More(all)
  /\ UNCHANGED <<lists, known, changes, asking>>

ListPage == /\ ListAnswer(PageOf(lists.list, page, ListSize), Len(lists.list))
            /\ UNCHANGED disturbed
DiskPage == /\ DiskAnswer(PageOf(lists.disks, page, DiskSize), Pages(lists.disks, DiskSize))
            /\ UNCHANGED disturbed

SoftError    == (ListAnswer(<< >>, 0) \/ DiskAnswer(<< >>, 0)) /\ disturbed' = TRUE
RequestFails == at \in {"list", "disks"} /\ Fail /\ disturbed' = TRUE

\* Mutant: whatever was preselected is among the matches.
ChosenUnchecked == {p \in known : p.id = preselected}

\* The web mode's chooser, for a preselection.
Chosen == {p \in ToSet(got) : p.id = preselected}

Choose ==
  /\ at = "choose"
  /\ \/ \E p \in IF web THEN Chosen ELSE ToSet(got) : Resolved(p)
     \/ (web => Chosen = {}) /\ NotFound     \* the terminal's input may end
  /\ UNCHANGED <<gateway, asking>>

Resolving == Start \/ ListPage \/ DiskPage \/ SoftError \/ RequestFails \/ Choose
Next == Change \/ Preselect \/ Resolving
Spec == Init /\ [][Next]_vars

-----------------------------------------------------------------------------
(* Properties *)

ProjectsTypeOK ==
  /\ at \in {"page", "start", "list", "disks", "choose", "done", "failed"}
  /\ turn \in 1..Len(Wanted) /\ page \in Nat \ {0}
  /\ ToSet(result) \subseteq known
  /\ asked \subseteq ToSet(Wanted)
  /\ changes \in 0..MaxChanges

\* Whatever happens to the lists meanwhile, a resolution that succeeds has a
\* project of every name and no project twice, none that was not named, and all
\* projects are meant only if that was said (project.go:12).
EveryNameIsResolved ==
  /\ \A i, j \in DOMAIN result : result[i].id = result[j].id => i = j
  /\ \A p \in ToSet(result) : p.name \in ToSet(Wanted)
  /\ at = "done" =>
       IF ToSet(Wanted) \cap Everything # {} THEN allMode /\ result = << >>
       ELSE ~allMode /\ \A n \in ToSet(Wanted) : \E p \in ToSet(result) : Project(p.id, n) \in known

\* The projects of a name that are found where the search ends.
Named(n, S) == {p.id : p \in {r \in S : r.name = n}}
Listed(n)   == Named(n, ToSet(lists.list))
OfDisks(n)  == Named(n, Complete(lists.disks))
FoundAs(n)  == IF Listed(n) # {} THEN Listed(n) ELSE OfDisks(n)

\* The gateway has a name in two places.
IsTwice(n) == LET all == lists.list \o lists.disks
              IN  \E i, j \in DOMAIN all : i # j /\ n = all[i].name /\ n = all[j].name

\* Undisturbed, nobody is asked about a name that is clear, and no ambiguous one
\* is settled without being asked about (project.go:37); a resolution fails for a
\* name nobody knows or for an ambiguous one only.
AmbiguousIsAsked ==
  ~disturbed =>
    /\ \A n \in asked : IsTwice(n)
    /\ at = "done" /\ ~allMode => \A n \in ToSet(Wanted) : Cardinality(FoundAs(n)) > 1 => n \in asked
    /\ at = "failed" => FoundAs(name) = {} \/ name \in asked

\* Undisturbed, the web mode settles an ambiguous name by the preselection and in no
\* other way (web.go:153).
PreselectionDecides ==
  web /\ ~disturbed => \A p \in ToSet(result) : Cardinality(FoundAs(p.name)) > 1 => p.id = preselected

\* Names become the projects they name.
ProjectsInv == ProjectsTypeOK /\ EveryNameIsResolved /\ AmbiguousIsAsked /\ PreselectionDecides

\* A name that several projects have is a question.
\* Not satisfied by the code: the disks are not looked at if the list has one.
AmbiguityIsSeen ==
  at = "done" /\ ~allMode /\ ~disturbed => \A n \in ToSet(Wanted) :
    Cardinality(Listed(n) \cup OfDisks(n)) > 1 => n \in asked

\* What the page can preselect is enough to run.
\* Not satisfied by the code: one preselection serves one name, and only names of
\* the project list have candidates.
PageCanAnswer == at = "failed" /\ web /\ ~disturbed => FoundAs(name) = {} \/ preselected = NoID
=============================================================================
