------------------------------- MODULE Details -------------------------------
(***************************************************************************)
(* The second half of collectVMs: three lists of the gateway are fetched,  *)
(* and what they say of a server that was collected is added to it: the    *)
(* MAC addresses of its network cards, its data disks, the name of its     *)
(* project.                                                                *)
(*                                                                         *)
(* The gateway is external: lists cut in pages at the moment of the        *)
(* request, a request may fail, and an error that arrives with HTTP status *)
(* 200 is an answer with every field left out (doGET).                     *)
(*                                                                         *)
(* Abstracted: every field of a card, a disk and a project but those that  *)
(* connect them; what is stored is the card or the disk itself.            *)
(***************************************************************************)
EXTENDS Integers, SequencesExt, Lists

CONSTANTS
  Found,       \* the servers collected, a sequence of [id, metal, cards, project]
  ProjectNames, \* the names of the resolved projects: a function on their ids
  Gateways,    \* what the gateway may list: [enis, disks, projects]
  PageSize,
  ListSize,    \* projects on a page (100)
  MaxChanges   \* bound: changes of the lists during the run

NoText == ""
NoName == NoText

Servers == DOMAIN Found

VARIABLES
  lists,      \* the gateway's lists, now
  start,      \* history: the lists at the start
  disturbed,  \* the lists have changed, or an error has come as an answer
  changes,
  at,         \* the list that is fetched
  page,
  got,        \* what it has so far
  cut,        \* history: the page of the cards that failed, 0 for none
  mac,        \* the cards whose addresses a server shows
  dataDisks,  \* the data disks it shows, for a virtual machine
  naming,     \* projectNameByID
  named       \* the project's name it shows

added == <<mac, dataDisks, naming, named>>
vars  == <<lists, start, disturbed, changes, at, page, got, cut, added>>

Begin(now) ==
  /\ lists = now /\ start = now
  /\ disturbed = FALSE /\ changes = 0
  /\ at = "enis" /\ page = 1 /\ got = << >> /\ cut = 0
  /\ mac       = [s \in Servers |-> << >>]
  /\ dataDisks = [s \in Servers |-> << >>]
  /\ naming    = ProjectNames
  /\ named     = [s \in Servers |-> NoName]

Init == \E now \in Gateways : Begin(now)

-----------------------------------------------------------------------------
(* The gateway *)

Change ==
  /\ changes < MaxChanges /\ at \notin {"ok", "failed"}
  /\ \E k \in {"enis", "disks", "projects"} : \E n \in DOMAIN lists[k] :
       lists' = [lists EXCEPT ![k] = RemoveAt(@, n)]
  /\ changes' = changes + 1 /\ disturbed' = TRUE
  /\ UNCHANGED <<start, at, page, got, cut, added>>

-----------------------------------------------------------------------------
(* What a complete list adds *)

\* dedupe
Deduped(q) == Merged(<< >>, q)

\* Mutant: the cards of a list are shared by all servers of bare metal.
CardsOfAll(s, all) ==
  LET Marked == {e \in InList(all) : e.mac # NoText}
      Own    == Only(all, {e \in Marked : e.server = Found[s].id})
      Metal  == Only(all, {e \in Marked : \E v \in Servers : e.id \in InList(Found[v].cards)})
  IN  Deduped([i \in DOMAIN Own |-> Own[i].mac] \o [i \in DOMAIN Metal |-> Metal[i].mac])

\* The addresses of the cards that name the server, in their order, and of those
\* the server names itself (bare metal), of which the last with that id counts.
CardsOf(s, all) ==
  LET Marked    == {e \in InList(all) : e.mac # NoText}
      Own       == Only(all, {e \in Marked : e.server = Found[s].id})
      At(c)     == {i \in DOMAIN all : all[i] \in Marked /\ all[i].id = c}
      LastOf(c) == all[CHOOSE i \in At(c) : \A j \in At(c) : j <= i]
      Listed    == Only(Found[s].cards, {c \in InList(Found[s].cards) : At(c) # {}})
  IN  Deduped([i \in DOMAIN Own |-> Own[i].mac] \o [i \in DOMAIN Listed |-> LastOf(Listed[i]).mac])

\* The attachments of a disk to a server, and the entries for them.
Here(s, r)    == Only(r.attached, {Found[s].id})
Entries(s, r) == [a \in DOMAIN Here(s, r) |-> r.disk]

\* Mutant: the system disk is one of them.
DataAny(all) == DOMAIN all

\* The disks of a list that are data disks.
Data(all) == {n \in DOMAIN all : ~all[n].system}

\* One entry for every attachment.
DisksOf(s, all) ==
  LET upto[n \in 0..Len(all)] ==
        IF n = 0 THEN << >>
        ELSE IF n \in Data(all) THEN upto[n - 1] \o Entries(s, all[n]) ELSE upto[n - 1]
  IN  upto[Len(all)]

\* The places of a project in a list.
Places(all, i) == {n \in DOMAIN all : all[n].id = i}

\* Mutant: a later name replaces an earlier one.
NamedByLast(names, all) ==
  [i \in DOMAIN names \cup {all[n].id : n \in DOMAIN all} |->
     IF Places(all, i) # {} THEN all[CHOOSE n \in Places(all, i) : \A m \in Places(all, i) : m <= n].name
     ELSE names[i]]

\* The first name of a project is the one it keeps.
NamedBy(names, all) ==
  [i \in DOMAIN names \cup {all[n].id : n \in DOMAIN all} |->
     IF i \in DOMAIN names THEN names[i]
     ELSE all[CHOOSE n \in Places(all, i) : \A m \in Places(all, i) : n <= m].name]

ProjectsOf(records) == [i \in DOMAIN records |-> records[i].project]

-----------------------------------------------------------------------------
(* collectVMs *)

NextList(k) == at' = k /\ page' = 1 /\ got' = << >>

Cards(all) ==
  /\ mac' = [s \in Servers |-> CardsOf(s, all)]
  /\ NextList("disks")
  /\ UNCHANGED <<dataDisks, naming, named>>

\* The disks of bare metal have come from DetailBms.
Disks(all) ==
  /\ dataDisks' = [s \in Servers |-> IF Found[s].metal THEN << >> ELSE DisksOf(s, all)]
  /\ naming' = NamedBy(naming, LET q == ProjectsOf(all) IN Only(q, {p \in InList(q) : NoText \notin {p.id, p.name}}))
  /\ NextList("projects")
  /\ UNCHANGED <<mac, named>>

\* A project nobody has named is shown by its id.
Shown(names) ==
  [s \in Servers |-> LET p == Found[s].project
                     IN  IF p \in DOMAIN names /\ names[p] # NoText THEN names[p] ELSE p]

Names(all) ==
  /\ naming' = NamedBy(naming, all)
  /\ named'  = Shown(naming')
  /\ at' = "ok"
  /\ UNCHANGED <<page, got, mac, dataDisks>>

More(all) == got' = all /\ page' = page + 1 /\ UNCHANGED <<at, added>>

EniAnswer(items, total) ==
  /\ at = "enis"
  /\ IF total <= 0 \/ page >= total THEN Cards(got \o items) ELSE More(got \o items)

DiskAnswer(items, total) ==
  /\ at = "disks"
  /\ IF total <= 0 \/ page >= total THEN Disks(got \o items) ELSE More(got \o items)

ProjectAnswer(items, total) ==
  /\ at = "projects"
  /\ IF items = << >> \/ Len(got \o items) >= total THEN Names(got \o items) ELSE More(got \o items)

Answer ==
  /\ \/ EniAnswer(PageOf(lists.enis, page, PageSize), Pages(lists.enis, PageSize))
     \/ DiskAnswer(PageOf(lists.disks, page, PageSize), Pages(lists.disks, PageSize))
     \/ ProjectAnswer(PageOf(lists.projects, page, ListSize), Len(lists.projects))
  /\ UNCHANGED <<lists, start, disturbed, changes, cut>>

SoftError ==
  /\ EniAnswer(<< >>, 0) \/ DiskAnswer(<< >>, 0) \/ ProjectAnswer(<< >>, 0)
  /\ disturbed' = TRUE
  /\ UNCHANGED <<lists, start, changes, cut>>

\* Mutant: what the pages before have said is thrown away.
CardsKeptOf == << >>

\* What the pages before the failed one have said is used.
CardsKept == got

\* The addresses may be missing, the names may; the disks may not.
RequestFails ==
  /\ \/ at = "enis" /\ cut' = page /\ Cards(CardsKept)
     \/ at = "disks" /\ at' = "failed" /\ UNCHANGED <<page, got, cut, added>>
     \/ at = "projects" /\ UNCHANGED cut /\ Names(<< >>)
  /\ UNCHANGED <<lists, start, disturbed, changes>>

Completing == Answer \/ SoftError \/ RequestFails
Next == Change \/ Completing
Spec == Init /\ [][Next]_vars

-----------------------------------------------------------------------------
(* Properties *)

DetailsTypeOK ==
  /\ at \in {"enis", "disks", "projects", "ok", "failed"}
  /\ page \in Nat \ {0} /\ cut \in Nat /\ changes \in 0..MaxChanges
  /\ DOMAIN mac = Servers /\ DOMAIN dataDisks = Servers /\ DOMAIN named = Servers

IsCardOf(e, s) == e.mac # NoText /\ (e.server = Found[s].id \/ e.id \in InList(Found[s].cards))

\* No server shows the address of another one's card or another one's disk, whatever
\* breaks off or shifts (main.go:309, 372).
ShownIsOwn ==
  \A s \in Servers :
    /\ \A m \in InList(mac[s]) : \E e \in InList(start.enis) : e.mac = m /\ IsCardOf(e, s)
    /\ \A d \in InList(dataDisks[s]) : \E r \in InList(start.disks) :
         r.disk = d /\ ~r.system /\ Found[s].id \in InList(r.attached) /\ ~Found[s].metal

\* A list that is fetched in calm is used whole: no card is missing but behind a page
\* that failed, and no disk.
CardsAreThere(s) ==
  \A i \in DOMAIN start.enis :
    IsCardOf(start.enis[i], s) =>
      \/ start.enis[i].mac \in InList(mac[s])
      \/ start.enis[i].server # Found[s].id  \* another card has the id, and comes later
         /\ \E j \in (i + 1)..Len(start.enis) : start.enis[j].id = start.enis[i].id
      \/ cut # 0 /\ i > (cut - 1) * PageSize

DisksAreThere(s) ==
  ~Found[s].metal => \A r \in InList(start.disks) :
    ~r.system => Len(Only(dataDisks[s], {r.disk})) = Len(Here(s, r))

NothingIsMissing ==
  ~disturbed => \A s \in Servers :
    /\ at # "enis" => CardsAreThere(s)
    /\ at \in {"projects", "ok"} => DisksAreThere(s)

\* Every server of a finished collection shows the name its project was resolved
\* by; another project has a name the gateway gave it, or its id (main.go:407).
Given(p) == {r.name : r \in {q \in InList(ProjectsOf(start.disks)) \cup InList(start.projects) : q.id = p}}

NamesArePreferred ==
  at = "ok" => \A s \in Servers :
    LET p == Found[s].project
    IN  IF p \in DOMAIN ProjectNames /\ ProjectNames[p] # NoText THEN named[s] = ProjectNames[p]
        ELSE named[s] \in Given(p) \cup {p}

\* What is added to a server is its own, and all of it.
DetailsInv == DetailsTypeOK /\ ShownIsOwn /\ NothingIsMissing /\ NamesArePreferred

\* A disk is shown once.
\* Not satisfied by the code: an attachment is an entry, and a shifted page repeats.
DisksOnce == \A s \in Servers : Len(Deduped(dataDisks[s])) = Len(dataDisks[s])

\* A project that has a name is shown by it.
\* Not satisfied by the code: the last list may fail or come as an error.
NamesAreShown == at = "ok" => \A s \in Servers :
  (\E r \in InList(start.projects) : r.id = Found[s].project) => named[s] # Found[s].project
=============================================================================
