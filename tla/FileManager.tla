----------------------------- MODULE FileManager -----------------------------
(***************************************************************************)
(* The file manager of the web mode (web.go, handleFiles, handleFileItem,  *)
(* zipDir): uploads of several files, downloads of a file or of a folder   *)
(* as an archive, removals of a file or a folder, each request in its own  *)
(* goroutine over one tree of directories and with no lock between them.   *)
(*                                                                         *)
(* A path is the sequence of names under the directory of files, which is  *)
(* the empty path.  An open file is known by the upload that created it,   *)
(* so that a write to a file that is no longer there is lost with it.  A   *)
(* text is the upload and the place in its list it came from.  At any step *)
(* the operating system may refuse what is asked of it: permissions, a     *)
(* full or broken disk, a file another process or request holds open on    *)
(* Windows, a client that has left.                                        *)
(*                                                                         *)
(* Abstracted: how a path is written, cleaned and kept inside, sizes,      *)
(* the listing of one directory except whether it succeeds, a change of    *)
(* the directory itself by the settings during a request.                  *)
(***************************************************************************)
EXTENDS Naturals, FiniteSets, SequencesExt

CONSTANTS Handlers,
          Paths,      \* the paths requests are about, the empty one included
          Lists,      \* the lists of files uploads bring, relative to their target
          Trees       \* what the directory may hold before

Illegal == <<"..">>   \* a name that is refused

Missing      == [kind |-> "missing"]
Dir          == [kind |-> "dir"]
File(id, t)  == [kind |-> "file", id |-> id, text |-> t]
Part         == <<"part", 0>>      \* truncated, not yet or not wholly written
Garbled      == <<"garbled", 0>>   \* two writes over each other

VARIABLES tree,       \* [Paths -> node]
          req,        \* the requests
          intact,     \* no copy has failed and the program has not ended in one
          contested   \* an upload has opened a file that another had open

vars == <<tree, req, intact, contested>>

Children(p, t) == {q \in Paths : q # <<>> /\ Front(q) = p /\ t[q] # Missing}
Within(p)      == {q \in Paths : IsPrefix(p, q)}
Above(p)       == {q \in Paths : IsStrictPrefix(q, p)}

Asked(kind, p, list) == [kind |-> kind, path |-> p, list |-> list, at |-> "asked", i |-> 1,
                         id |-> Part, todo |-> {}, read |-> {}, clean |-> TRUE, denied |-> FALSE]
NewReq == [Asked("none", <<>>, <<>>) EXCEPT !.at = "idle"]

Over  == {"idle", "ok", "refused", "failed", "cut", "lost"}
Quiet == \A h \in Handlers : req[h].at \in Over

Target(r, i) == r.path \o r.list[i]
Wanted(r)    == {Target(r, i) : i \in {j \in DOMAIN r.list : r.list[j] # Illegal}}

\* The paths the outcome of a request depends on.
Scope(r) ==
  CASE r.kind = "none"   -> {}
    [] r.kind = "upload" -> {r.path} \cup Wanted(r) \cup UNION {Above(p) : p \in Wanted(r)}
    [] OTHER             -> Within(r.path) \cup Above(r.path)

\* A step of h: its request becomes r and the tree t; a request is clean while
\* nobody else has changed what it depends on, and denied once the operating system
\* has refused it a step.
Do(h, r, t) ==
  /\ tree' = t
  /\ req' = [g \in Handlers |->
               IF g = h THEN r
               ELSE [req[g] EXCEPT !.clean = @ /\ \A p \in Scope(req[g]) : t[p] = tree[p]]]

To(h, there) == [req[h] EXCEPT !.at = there]
DeniedTo(h, there) == [To(h, there) EXCEPT !.denied = TRUE]
Put(p, node) == [tree EXCEPT ![p] = node]

FileManagerTypeOK ==
  /\ \A p \in Paths : tree[p].kind \in {"missing", "dir", "file"}
  /\ \A p \in Paths \ {<<>>} : tree[p] # Missing => tree[Front(p)] = Dir
  /\ \A h \in Handlers :
       /\ req[h].at \in Over \cup {"asked", "entry", "create", "copy", "walk", "read", "remove", "unlink"}
       /\ req[h].at \in {"create", "copy"} => Target(req[h], req[h].i) \in Paths
       /\ req[h].todo \subseteq Within(req[h].path)

Init ==
  /\ tree \in Trees
  /\ req = [h \in Handlers |-> NewReq]
  /\ intact = TRUE
  /\ contested = FALSE

Ask(h, kind, p, list) ==
  /\ req[h].at = "idle"
  /\ Wanted(Asked(kind, p, list)) \subseteq Paths
  /\ Do(h, Asked(kind, p, list), tree)
  /\ UNCHANGED <<intact, contested>>

\* The answers to a request whose next step the operating system refuses: a path that
\* cannot be looked up, a folder that cannot be made or read, a file that cannot be
\* created, opened, read or removed.  An answer that has begun is cut short.
Denials(r) ==
  CASE r.at = "asked" /\ r.kind \in {"list", "upload"}     -> {"refused", "failed"}
    [] r.at = "asked" /\ r.kind \in {"download", "delete"} -> {"refused"}
    [] r.at \in {"create", "unlink"}                       -> {"failed"}
    [] r.at = "read"                                       -> {"refused", "cut"}
    [] r.at = "walk"                                       -> {"cut"}
    [] OTHER                                               -> {}

Denied(h) ==
  /\ \E there \in Denials(req[h]) : Do(h, DeniedTo(h, there), tree)
  /\ UNCHANGED <<intact, contested>>

-----------------------------------------------------------------------------
(* POST /api/files: the target is looked up, the directory of files made *)

StartUpload(h) ==
  LET r == req[h] IN
  /\ r.at = "asked" /\ r.kind = "upload"
  /\ IF r.path # <<>> /\ tree[r.path] # Dir
     THEN Do(h, To(h, "refused"), tree)
     ELSE Do(h, To(h, "entry"), Put(<<>>, Dir))
  /\ UNCHANGED <<intact, contested>>

\* MkdirAll of the folder of the next file.
Folders(p) == [q \in Paths |-> IF q \in Above(p) THEN Dir ELSE tree[q]]

Entry(h) ==
  LET r == req[h] IN
  /\ r.at = "entry"
  /\ CASE r.i > Len(r.list) -> Do(h, To(h, IF r.list = <<>> THEN "refused" ELSE "ok"), tree)
       [] r.i <= Len(r.list) /\ r.list[r.i] = Illegal -> Do(h, To(h, "refused"), tree)
       [] r.i <= Len(r.list) /\ r.list[r.i] # Illegal ->
            IF \E q \in Above(Target(r, r.i)) : tree[q].kind = "file"
            THEN Do(h, To(h, "failed"), tree)
            ELSE Do(h, To(h, "create"), Folders(Target(r, r.i)))
  /\ UNCHANGED <<intact, contested>>

\* MkdirAll stops at a folder it may not make, and has made those above it.
FolderDenied(h) ==
  LET r == req[h] IN
  /\ r.at = "entry" /\ r.i <= Len(r.list) /\ r.list[r.i] # Illegal
  /\ \E q \in Above(Target(r, r.i)) :
       /\ tree[q] = Missing /\ \A x \in Above(q) : tree[x].kind # "file"
       /\ Do(h, DeniedTo(h, "failed"), Folders(q))
  /\ UNCHANGED <<intact, contested>>

\* os.Create: a file that is there is truncated.
Create(h) ==
  LET r == req[h]
      p == Target(r, r.i)
  IN
  /\ r.at = "create"
  /\ IF tree[Front(p)] # Dir \/ tree[p] = Dir
     THEN Do(h, To(h, "failed"), tree) /\ UNCHANGED contested
     ELSE LET id == IF tree[p] = Missing THEN <<h, r.i>> ELSE tree[p].id IN
          /\ Do(h, [r EXCEPT !.at = "copy", !.id = id], Put(p, File(id, Part)))
          /\ contested' = (contested \/ \E g \in Handlers \ {h} : req[g].at = "copy" /\ req[g].id = id)
  /\ UNCHANGED intact

StillThere(r, p) == tree[p].kind = "file" /\ tree[p].id = r.id

\* io.Copy to its end; the answer is made of the whole list.
Copy(h) ==
  LET r == req[h]
      p == Target(r, r.i)
      mine == <<h, r.i>>
  IN
  /\ r.at = "copy"
  /\ IF StillThere(r, p)
     THEN \E t \in {mine} \cup IF tree[p].text \in {Part, mine} THEN {} ELSE {Garbled} :
            Do(h, [r EXCEPT !.at = "entry", !.i = @ + 1], Put(p, File(r.id, t)))
     ELSE Do(h, [r EXCEPT !.at = "entry", !.i = @ + 1], tree)
  /\ UNCHANGED <<intact, contested>>

\* Mutant: a file that could not be copied is left out, and the upload goes on.
CopySkips(h) ==
  /\ req[h].at = "copy"
  /\ Do(h, [req[h] EXCEPT !.at = "entry", !.i = @ + 1], tree)
  /\ intact' = FALSE
  /\ UNCHANGED contested

CopyFails(h) ==
  /\ req[h].at = "copy"
  /\ Do(h, To(h, "failed"), tree)
  /\ intact' = FALSE
  /\ UNCHANGED contested

-----------------------------------------------------------------------------
(* GET of a listing, a file or a folder *)

\* The directory of files itself is not looked up before it is read.
List(h) ==
  LET r == req[h] IN
  /\ r.at = "asked" /\ r.kind = "list"
  /\ Do(h, To(h, IF tree[r.path] = Dir THEN "ok" ELSE IF r.path = <<>> THEN "failed" ELSE "refused"), tree)
  /\ UNCHANGED <<intact, contested>>

StartDownload(h) ==
  LET r == req[h] IN
  /\ r.at = "asked" /\ r.kind = "download"
  /\ Do(h, CASE tree[r.path] = Missing      -> To(h, "refused")
             [] tree[r.path] = Dir          -> [r EXCEPT !.at = "walk", !.todo = {r.path}]
             [] tree[r.path].kind = "file"  -> To(h, "read"), tree)
  /\ UNCHANGED <<intact, contested>>

\* http.ServeFile opens the path again.
ReadFile(h) ==
  LET r == req[h] IN
  /\ r.at = "read"
  /\ Do(h, IF tree[r.path].kind = "file" THEN [r EXCEPT !.at = "ok", !.read = {<<r.path, tree[r.path].text>>}]
           ELSE To(h, "refused"), tree)
  /\ UNCHANGED <<intact, contested>>

\* filepath.Walk: the names of a folder are read when it is reached, in any order
\* here.  What is gone by then ends the walk; the answer has begun with status 200.
Walk(h, p) ==
  LET r    == req[h]
      rest == r.todo \ {p}
      next == CASE tree[p] = Missing     -> [r EXCEPT !.at = "cut", !.todo = {}]
                [] tree[p] = Dir         -> [r EXCEPT !.todo = rest \cup Children(p, tree)]
                [] tree[p].kind = "file" -> [r EXCEPT !.todo = rest, !.read = @ \cup {<<p, tree[p].text>>}]
  IN
  /\ r.at = "walk" /\ p \in r.todo
  /\ Do(h, IF next.at = "walk" /\ next.todo = {} THEN [next EXCEPT !.at = "ok"] ELSE next, tree)
  /\ UNCHANGED <<intact, contested>>

-----------------------------------------------------------------------------
(* DELETE: os.RemoveAll reads the names of a folder once, removes what they *)
(* name and then the folder, which fails if something was added meanwhile   *)

StartDelete(h) ==
  LET r == req[h] IN
  /\ r.at = "asked" /\ r.kind = "delete"
  /\ Do(h, CASE tree[r.path] = Missing     -> To(h, "refused")
             [] tree[r.path] = Dir         -> [r EXCEPT !.at = "remove", !.todo = {r.path}]
             [] tree[r.path].kind = "file" -> To(h, "unlink"), tree)
  /\ UNCHANGED <<intact, contested>>

\* os.Remove, which also removes an empty folder.
Unlink(h) ==
  LET p    == req[h].path
      bad  == tree[p] = Missing \/ Children(p, tree) # {}
  IN
  /\ req[h].at = "unlink"
  /\ IF bad THEN Do(h, To(h, "failed"), tree) ELSE Do(h, To(h, "ok"), Put(p, Missing))
  /\ UNCHANGED <<intact, contested>>

\* read: the folders whose names have been read.  One that may not be read is taken
\* for one without names.
OpenFolder(h, p, allowed) ==
  LET r    == req[h]
      kids == IF allowed THEN Children(p, tree) ELSE {}
  IN
  /\ r.at = "remove" /\ p \in r.todo \ r.read /\ tree[p] = Dir
  /\ Do(h, [r EXCEPT !.read = @ \cup {p}, !.todo = @ \cup kids, !.denied = @ \/ ~allowed], tree)
  /\ UNCHANGED <<intact, contested>>

\* Mutant: RemoveAll's error is not looked at.
RemoveNodeUnheard(h, p, allowed) ==
  LET r       == req[h]
      removed == allowed /\ Children(p, tree) = {}
      next    == IF p = r.path THEN "ok" ELSE "remove"
  IN
  /\ r.at = "remove" /\ p \in r.todo
  /\ tree[p] = Dir => p \in r.read
  /\ \A q \in r.todo : ~IsStrictPrefix(p, q)
  /\ Do(h, [r EXCEPT !.at = next, !.todo = @ \ {p}, !.denied = @ \/ ~allowed],
        IF removed THEN Put(p, Missing) ELSE tree)
  /\ UNCHANGED <<intact, contested>>

\* What may not be removed stays, and so do the folders it is in; the rest is removed,
\* and the answer is what comes of the folder itself.
RemoveNode(h, p, allowed) ==
  LET r       == req[h]
      removed == allowed /\ Children(p, tree) = {}
      next    == CASE p # r.path          -> "remove"
                   [] p = r.path /\ removed  -> "ok"
                   [] p = r.path /\ ~removed -> "failed"
  IN
  /\ r.at = "remove" /\ p \in r.todo
  /\ tree[p] = Dir => p \in r.read
  /\ \A q \in r.todo : ~IsStrictPrefix(p, q)
  /\ Do(h, [r EXCEPT !.at = next, !.todo = @ \ {p}, !.denied = @ \/ ~allowed],
        IF removed THEN Put(p, Missing) ELSE tree)
  /\ UNCHANGED <<intact, contested>>

-----------------------------------------------------------------------------

\* The program ends and is started again; what was written stays.
Crash ==
  /\ ~Quiet
  /\ req' = [h \in Handlers |-> IF req[h].at \in Over THEN req[h] ELSE To(h, "lost")]
  /\ intact' = FALSE
  /\ UNCHANGED <<tree, contested>>

HandlerNext(h) ==
  \/ \E p \in Paths : \/ \E list \in Lists : Ask(h, "upload", p, list)
                      \/ \E kind \in {"list", "download", "delete"} : Ask(h, kind, p, <<>>)
  \/ StartUpload(h) \/ Entry(h) \/ Create(h) \/ Copy(h)
  \/ Denied(h) \/ FolderDenied(h) \/ CopyFails(h)
  \/ List(h) \/ StartDownload(h) \/ ReadFile(h) \/ StartDelete(h) \/ Unlink(h)
  \/ \E p \in Paths : \/ Walk(h, p)
                      \/ \E allowed \in BOOLEAN : OpenFolder(h, p, allowed) \/ RemoveNode(h, p, allowed)

Next == Crash \/ \E h \in Handlers : HandlerNext(h)
Spec == Init /\ [][Next]_vars

-----------------------------------------------------------------------------
(* Properties *)

\* The last of the files with one path wins.
Stored(r, h, n) ==
  \A i \in 1..n : LET p == Target(r, i) IN
    (\A j \in DOMAIN r.list : i < j /\ j <= r.i => Target(r, j) # p) =>
      tree[p].kind = "file" /\ tree[p].text = <<h, i>>

\* Everything an accepted upload brought is there, whole, until somebody changes it,
\* and a failed one has stored what came before the file it failed at, so that it may
\* be sent again (web.go:1063, 1096).
UploadIsStored ==
  \A h \in Handlers : LET r == req[h] IN
    r.kind = "upload" /\ r.clean =>
      /\ r.at = "ok" => Stored(r, h, Len(r.list))
      /\ r.at = "failed" => Stored(r, h, r.i - 1)

FilesUnder(p) == {<<q, tree[q].text>> : q \in {x \in Within(p) : tree[x].kind = "file"}}

\* An archive whose answer came to its end is the folder unless somebody else changed
\* that meanwhile, and it is cut short only by such a change or by an error of the
\* operating system (web.go:1136, 1168).
DownloadIsWhole ==
  \A h \in Handlers : LET r == req[h] IN
    r.kind = "download" => /\ r.at = "ok" /\ r.clean => r.read = FilesUnder(r.path)
                           /\ r.at = "cut" => ~r.clean \/ r.denied

\* A removal that answers ok has left nothing of the folder, whatever was refused on
\* the way, and one fails only if somebody else changed the folder meanwhile or the
\* operating system has refused it a step (web.go:1147).
RemovalIsWhole ==
  \A h \in Handlers : LET r == req[h] IN
    r.kind = "delete" => /\ r.at = "ok" /\ r.clean => \A p \in Within(r.path) : tree[p] = Missing
                         /\ r.at = "failed" => ~r.clean \/ r.denied

\* As long as no copy fails and no two uploads hold one file open, every file is that
\* of one upload, also when it was removed while it was written (web.go:1090).
FilesAreWhole ==
  Quiet /\ intact /\ ~contested =>
    \A p \in Paths : tree[p].kind = "file" => tree[p].text \notin {Part, Garbled}

\* The promises of the three kinds of requests, whatever the others do meanwhile.
ManagedFilesInv ==
  FileManagerTypeOK /\ UploadIsStored /\ DownloadIsWhole /\ RemovalIsWhole /\ FilesAreWhole

\* The listing of the directory of files succeeds unless the operating system refuses it.
\* Not satisfied by the code: DELETE /api/files/ removes the directory itself, which
\* the next upload makes again.
RootIsListed ==
  \A h \in Handlers : LET r == req[h] IN r.kind = "list" /\ r.path = <<>> /\ ~r.denied => r.at # "failed"

\* An archive that nobody was refused holds every file that was there, unchanged, all along.
\* Not satisfied by the code: the first file that is gone ends the walk, and the answer
\* still has status 200.
ArchiveHasTheRest ==
  \A h \in Handlers : req[h].kind = "download" /\ ~req[h].denied => req[h].at # "cut"
=============================================================================
